------------------------------- MODULE CppInt -------------------------------
(* Integer arithmetic as C++ does it. *)
EXTENDS Integers

Abs(n) == IF n < 0 THEN -n ELSE n

(* Division in C++ drops the fraction, also that of a negative number. *)
CDiv(a, b) == IF a < 0 THEN -((-a) \div b) ELSE a \div b
=============================================================================
