---------------------------- MODULE ArtifactStore ----------------------------
(***************************************************************************)
(* What fetching a package promises the reconciliation worker: a call      *)
(* either hands out a stored, verified artifact or fails having stored     *)
(* nothing, and what is stored stays stored.  This is what Reconcile       *)
(* relies on in FetchOk and FetchFails.                                    *)
(***************************************************************************)
CONSTANTS Artifacts, None

VARIABLES
  stored,    \* artifacts available under their own name
  call,      \* the artifact the running call wants, or None
  handed     \* the artifact handed out by the last call, or None

vars == <<stored, call, handed>>

Init == stored = {} /\ call = None /\ handed = None

Ask(a) ==
  /\ call = None
  /\ call' = a /\ handed' = None
  /\ UNCHANGED stored

\* Storing is the last thing a call does, so it also hands out.
Obtain ==
  /\ call # None
  /\ stored' = stored \cup {call}
  /\ handed' = call /\ call' = None

\* A call for a stored artifact never fails.
Fail ==
  /\ call # None /\ call \notin stored
  /\ call' = None
  /\ UNCHANGED <<stored, handed>>

\* The process ends; it forgets the call and what it was handed.
Die ==
  /\ call' = None /\ handed' = None
  /\ UNCHANGED stored

Next == Obtain \/ Fail \/ Die \/ \E a \in Artifacts : Ask(a)

Spec == Init /\ [][Next]_vars
=============================================================================
