SPECIFICATION SignInSpec
CONSTANTS
  ann = ann
  bob = bob
  mia = mia
  lao = lao
  uni = uni
  d1 = d1
  d2 = d2
  s1 = s1
  s2 = s2
  Users = {ann, bob}
  Listed = {ann}
  Handsets = {d1}
  Networks = {}
  Slots = {s1, s2}
  Kinds = {"role", "signin", "devices"}
  Beginning <- SuperAndCollectors
INVARIANTS OneOwner
PROPERTIES Recoverable
