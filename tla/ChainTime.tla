------------------------------ MODULE ChainTime ------------------------------
(***************************************************************************)
(* Instants and the millisecond arithmetic of pfc/crypto.py.  An ISO-8601  *)
(* timestamp is an integer count of clock units since an arbitrary epoch;  *)
(* the datetimes of the code resolve microseconds, so UnitsPerMs is 1000   *)
(* there and any positive number here.                                     *)
(***************************************************************************)
EXTENDS Integers

CONSTANT UnitsPerMs     \* clock units in one millisecond

ASSUME UnitsPerMsAssumption == UnitsPerMs \in Nat \ {0}

\* ms_between ends in int(...), which truncates toward zero: an instant less
\* than one millisecond before another is zero milliseconds before it.  The code
\* multiplies float seconds, so a whole number of milliseconds can come out one
\* short of this exact quotient; a sign never changes by that.
MsBetween(later, earlier) ==
    LET d == later - earlier
    IN  IF d >= 0 THEN d \div UnitsPerMs ELSE -((-d) \div UnitsPerMs)

AddMs(base, ms) == base + ms * UnitsPerMs

==============================================================================
