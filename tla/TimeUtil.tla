------------------------------ MODULE TimeUtil ------------------------------
(***************************************************************************)
(* Clock times as the server handles them: a time of day is an HHMM        *)
(* integer (1330 is half past one), and Util.cpp converts it to and from   *)
(* minutes since midnight.  Neither conversion checks its argument.        *)
(***************************************************************************)
EXTENDS Integers

(* C++ integer division truncates toward zero, and % takes the sign of the *)
(* dividend.  The difference from \div and % shows on the negative minutes *)
(* that a negative offset can produce.                                     *)
Quot(a, b) == IF a >= 0 THEN a \div b ELSE -((-a) \div b)
Rem(a, b) == a - b * Quot(a, b)

ToMinutes(hhmm) == Quot(hhmm, 100) * 60 + Rem(hhmm, 100)

ToHHMM(minutes) == Quot(minutes, 60) * 100 + Rem(minutes, 60)

(* The end of the half hour that starts at t.                              *)
HalfHourAfter(t) == ToHHMM(ToMinutes(t) + 30)

=============================================================================
