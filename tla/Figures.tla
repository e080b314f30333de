------------------------------ MODULE Figures ------------------------------
(***************************************************************************)
(* How the dashboards print a measured amount: coverage.ts of both web     *)
(* clients (the two files are the same).  Printing is a conversion that    *)
(* loses digits, and these formats lose different digits in different      *)
(* ranges, so what matters is that no reader is told less is more and      *)
(* that "nothing" is only printed for nothing.                             *)
(*                                                                         *)
(* An amount is a natural number of the finest unit its source keeps: a    *)
(* share in 0.0001 % (the server rounds to four decimals), an area in      *)
(* 0.0001 km2, a speed in 0.1 kbit/s, an age in seconds.  A printed figure *)
(* is the amount a reader takes it for, in that same unit, so printing is  *)
(* rounding.  Ties go either way: toFixed rounds the binary fraction, not  *)
(* the decimal one.  `FaultyFormatShare` is a mistake the property         *)
(* catches.                                                                *)
(***************************************************************************)
EXTENDS Naturals

\* The multiples of `unit` nearest to `n`: one, or two when n is halfway.
ToNearest(n, unit) ==
    {m \in {(n \div unit) * unit, (n \div unit) * unit + unit} :
        2 * (IF m >= n THEN m - n ELSE n - m) <= unit}

\* Math.round: halves go up.
HalfUp(n, unit) == ((2 * n + unit) \div (2 * unit)) * unit

\* kbit/s below a thousand, megabits with one decimal above; 1 = 0.1 kbit/s.
FormatSpeed(s) ==
    IF s >= 10000 THEN ToNearest(s, 1000) ELSE {HalfUp(s, 10)}

\* Whole km2, then tenths, then hectares; 1 = 0.0001 km2, a hectare is 100.
FormatArea(a) ==
    CASE a >= 10000000 -> {HalfUp(a, 10000)}
      [] a >= 10000 /\ a < 10000000 -> ToNearest(a, 1000)
      [] OTHER -> {HalfUp(a, 100)}

\* "<0.01%": more than nothing and less than a hundredth of a percent.
Trace == 1

\* The whole percent the function was written to avoid.
FaultyFormatShare(p) ==
    CASE p = 0 -> {0}
      [] p >= 10000 -> ToNearest(p, 10000)
      [] p >= 100 /\ p < 10000 -> ToNearest(p, 10000)
      [] OTHER -> {Trace}

\* Fewer decimals the larger the share; 1 = 0.0001 %.
FormatShare(p) ==
    CASE p = 0 -> {0}
      [] p >= 100000 -> ToNearest(p, 10000)
      [] p >= 10000 /\ p < 100000 -> ToNearest(p, 1000)
      [] p >= 100 /\ p < 10000 -> ToNearest(p, 100)
      [] OTHER -> {Trace}

Minute == 60
Hour == 60 * Minute
Day == 24 * Hour

\* Minutes, then hours made of the rounded minutes, then days made of the
\* rounded hours: each step rounds what the one before it rounded.
FormatAge(s) ==
    LET minutes == HalfUp(s, Minute)
        hours == HalfUp(minutes, Hour)
    IN  IF minutes < Hour THEN {minutes}
        ELSE IF hours < 2 * Day THEN {hours}
        ELSE {HalfUp(hours, Day)}

Formats == {"speed", "area", "share", "age"}

Printed(format, n) ==
    CASE format = "speed" -> FormatSpeed(n)
      [] format = "area" -> FormatArea(n)
      [] format = "share" -> FormatShare(n)
      [] format = "age" -> FormatAge(n)

----------------------------------------------------------------------------
\* A larger amount is never printed as a smaller one, across every change of
\* unit and of decimals (coverage.ts, formatSpeed to formatAge).
OrderKept(low, high) ==
    low < high =>
        \A f \in Formats : \A x \in Printed(f, low), y \in Printed(f, high) : x <= y

\* A share is printed as nothing exactly when it is nothing (coverage.ts
\* 122-125), and no share of at least a tenth of a percent is off by more
\* than a twentieth of itself.
ShareIsHonest(n) ==
    /\ 0 \in FormatShare(n) <=> n = 0
    /\ n >= 1000 => \A x \in FormatShare(n) :
                        20 * (IF x >= n THEN x - n ELSE n - x) <= n
============================================================================
