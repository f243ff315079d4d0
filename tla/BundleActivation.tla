--------------------------- MODULE BundleActivation ---------------------------
(***************************************************************************)
(* What one application of a configuration bundle promises, independently  *)
(* of files: the live configuration goes from what it was to the complete  *)
(* revision, or back to exactly what it was, and only a supervisor death   *)
(* in between may leave anything else.  supervisor/reconcile/bundle.go     *)
(* calls it "the revision is active completely or not at all".             *)
(*                                                                         *)
(* ConfigBundle implements it, file by file, as long as previous files can *)
(* be read and put back.                                                   *)
(***************************************************************************)
CONSTANTS
  Configs,        \* every configuration the managed destinations can hold
  Torn,           \* the ones a death in the middle of a placement may leave
  Revisions,      \* the bundle revisions the cloud can ask for
  Overlay(_, _)   \* Overlay(c, r): configuration c with revision r's files over it

VARIABLES
  stage,          \* how far the current application has gone, or "dead"
  live,           \* the configuration last known to be whole
  before          \* what the running application found; live between two

vars == <<stage, live, before>>

Init ==
  /\ stage = "rest"
  /\ live \in Configs
  /\ before = live

Begin ==
  /\ stage = "rest"
  /\ stage' = "placing"
  /\ UNCHANGED <<live, before>>

Complete ==
  /\ stage = "placing"
  /\ stage' = "placed"
  /\ \E r \in Revisions : live' = Overlay(before, r)
  /\ UNCHANGED before

Commit ==
  /\ stage = "placed"
  /\ stage' = "rest"
  /\ before' = live
  /\ UNCHANGED live

\* From here on the configuration that counts is the one to be restored.
GiveUp ==
  /\ stage \in {"placing", "placed"}
  /\ stage' = "restoring"
  /\ live' = before
  /\ UNCHANGED before

Restore ==
  /\ stage = "restoring"
  /\ stage' = "rest"
  /\ UNCHANGED <<live, before>>

Die ==
  /\ stage # "dead"
  /\ stage' = "dead"
  /\ \/ stage \in {"rest", "placed"} /\ UNCHANGED live
     \/ /\ stage \in {"placing", "restoring"}
        /\ live' \in Torn \cup {before} \cup {Overlay(before, r) : r \in Revisions}
  /\ before' = live'

Restart ==
  /\ stage = "dead"
  /\ stage' = "rest"
  /\ UNCHANGED <<live, before>>

Next == Begin \/ Complete \/ Commit \/ GiveUp \/ Restore \/ Die \/ Restart

Spec == Init /\ [][Next]_vars
===============================================================================
