----------------------------- MODULE MCEnrollment -----------------------------
(* Lists of integrations for the model checker: one application, two, all, one  *)
(* twice, one with a broken manifest, and no list at all.                       *)
EXTENDS Enrollment

CONSTANTS a, b, c

MCLists == {<<a>>, <<a, b>>, <<c, b, a>>, <<a, b, a>>, <<a, Broken>>, <<>>}
===============================================================================
