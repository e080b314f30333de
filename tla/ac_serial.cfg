SPECIFICATION Spec
CONSTANTS
  ann = ann
  bob = bob
  mia = mia
  lao = lao
  uni = uni
  d1 = d1
  d2 = d2
  s1 = s1
  s2 = s2
  Users = {ann, bob}
  Listed = {ann}
  Handsets = {d1, d2}
  Networks = {lao}
  Slots = {s1}
  Kinds = {"decision", "role", "signin", "credit", "devices"}
  Beginning <- OneSuper
INVARIANTS AccountsInv
