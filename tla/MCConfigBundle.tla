---------------------------- MODULE MCConfigBundle ----------------------------
(* Small instances of ConfigBundle.                                            *)
EXTENDS ConfigBundle, TLC

CONSTANTS F1, F2, F3

ThreeFiles == {F1, F2, F3}
TwoFiles   == {F1, F2}

\* The second revision drops one file of the first and brings a new one.
Overlapping == 1 :> {F1, F2} @@ 2 :> {F2, F3}
SameFiles   == 1 :> {F1, F2} @@ 2 :> {F1, F2}
===============================================================================
