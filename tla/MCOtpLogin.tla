----------------------------- MODULE MCOtpLogin -----------------------------
(* Small instances of OtpLogin. *)
EXTENDS OtpLogin, TLC

CONSTANTS c1, c2, c3, x, y

\* The calls are interchangeable: their requests are chosen freely by Init.
CallSymmetry == Permutations(Call)

=============================================================================
