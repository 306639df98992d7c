-------------------------- MODULE MCTypesafeClient --------------------------
(***************************************************************************)
(* Small instances of TypesafeClient for TLC.                              *)
(***************************************************************************)
EXTENDS TypesafeClient, TLC

Header(millis, form, value) ==
    [millis |-> millis, form |-> form, value |-> value]

\* No pause, a short one, a pause beyond BackoffMax, a date in the past, and
\* with HalfRange = 8 and two ticks to the second products that wrap to a
\* negative pause and to a short one.
MCHeaders ==
    {Header(0, "seconds", 0), Header(1, "seconds", 9),
     Header(0, "seconds", 2), Header(0, "date", 3), Header(0, "date", -1),
     Header(0, "seconds", 5), Header(0, "seconds", 9)}

MCOverflowed == -HalfRange

=============================================================================
