-------------------------------- MODULE Register --------------------------------
(* What state.go, identity.go and atomicWrite promise of a file: it holds the   *)
(* last value whose save succeeded, or the one whose save was cut short, and    *)
(* whoever reads it gets such a value as a whole, or an error.                  *)

CONSTANTS Values, Readers, Empty, NoValue, Unread

VARIABLES value,   \* what the file holds, Empty if there is none
          wanted,  \* the value being saved, or NoValue
          got      \* what each reader read last

vars == <<value, wanted, got>>

Init == value = Empty /\ wanted = NoValue /\ got = [r \in Readers |-> Empty]

Begin(v) == wanted = NoValue /\ wanted' = v /\ UNCHANGED <<value, got>>

Commit == wanted # NoValue /\ value' = wanted /\ wanted' = NoValue /\ UNCHANGED got

\* The save fails, or its process ends.
GiveUp == wanted # NoValue /\ wanted' = NoValue /\ UNCHANGED <<value, got>>

Read(r) ==
  /\ got' \in {[got EXCEPT ![r] = found] : found \in {value, Unread}}
  /\ UNCHANGED <<value, wanted>>

Next ==
  \/ \E v \in Values : Begin(v)
  \/ Commit \/ GiveUp
  \/ \E r \in Readers : Read(r)

Spec == Init /\ [][Next]_vars
===============================================================================
