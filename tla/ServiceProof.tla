----------------------------- MODULE ServiceProof -----------------------------
(***************************************************************************)
(* What Run makes of a hook, and what the end of the service tells, are    *)
(* true for any number of starts, polls and descendants of a hook.         *)
(***************************************************************************)
EXTENDS Service, TLAPS

\* What is known of a call at each place: Run gives up output only together
\* with an error, and a hook without error has exited with status 0.
CallIsSound(k) ==
  /\ k.at \in {"idle", "wait", "drain", "judge"}
  /\ k.at \in {"wait", "drain"} => ~k.lost
  /\ k.at # "wait" => k.proc # "running"
  /\ k.at = "drain" /\ ~k.err => k.proc = "zero"
  /\ k.at = "judge" /\ ~k.err => k.proc = "zero" /\ k.children = 0 /\ ~k.lost
  /\ k.at = "idle" /\ k.result = "ok" => k.proc = "zero" /\ k.children = 0 /\ ~k.lost

CallsAreSound ==
  /\ call = [c \in Callers |-> call[c]]
  /\ \A c \in Callers : call[c] \in Calls /\ CallIsSound(call[c])

\* Every step of a hook or of Run keeps this for its caller, and leaves the
\* other calls alone.
LEMMA CallStep ==
  ASSUME NEW c \in Callers, CallsAreSound, Call(c) \/ Run(c) \/ Environment(c)
  PROVE  CallsAreSound'
<1> DEFINE k == call[c]
<1> USE HooksAssumption
<1>1. k \in Calls /\ CallIsSound(k)
  BY DEF CallsAreSound
<1>2. ASSUME NEW new, new \in Calls, CallIsSound(new), Set(c, new) PROVE CallsAreSound'
  BY <1>2 DEF CallsAreSound, Set
<1> USE DEF Calls, CallIsSound
<1>3. CASE Call(c)
  <2>1. NoCall \in Calls /\ NoCall.at = "idle" /\ ~NoCall.lost /\ NoCall.proc = "none"
    BY DEF NoCall
  <2>2. CASE Set(c, [NoCall EXCEPT !.at = "wait", !.proc = "running"])
    BY <1>2, <2>1, <2>2
  <2>3. CASE Set(c, [NoCall EXCEPT !.result = "failed"])
    BY <1>2, <2>1, <2>3
  <2> QED
    BY <1>3, <2>2, <2>3 DEF Call
<1>4. CASE Writes(c)
  <2>1. Set(c, [k EXCEPT !.unread = TRUE])
    BY <1>4 DEF Writes
  <2> QED
    BY <1>1, <1>2, <2>1
<1>5. CASE Forks(c)
  <2>1. Set(c, [k EXCEPT !.children = @ + 1]) /\ k.children < MaxChildren
    BY <1>5 DEF Forks
  <2>2. k.proc = "running" \/ k.children > 0
    BY <1>5 DEF Forks, Alive
  <2> QED
    BY <1>1, <1>2, <2>1, <2>2
<1>6. CASE ChildEnds(c)
  <2>1. Set(c, [k EXCEPT !.children = @ - 1]) /\ k.children > 0
    BY <1>6 DEF ChildEnds
  <2> QED
    BY <1>1, <1>2, <2>1
<1>7. CASE Exits(c)
  <2>1. PICK code \in {"zero", "nonzero"} : Set(c, [k EXCEPT !.proc = code])
    BY <1>7 DEF Exits
  <2>2. k.proc = "running" /\ k.at = "wait"
    BY <1>1, <1>7 DEF Exits
  <2> QED
    BY <1>1, <1>2, <2>1, <2>2
<1>8. CASE ContextEnds(c)
  <2>1. PICK end \in {"deadline", "canceled"} : Set(c, [k EXCEPT !.ctx = end])
    BY <1>8 DEF ContextEnds
  <2> QED
    BY <1>1, <1>2, <2>1
<1>9. CASE KillHook(c)
  <2>1. CASE k.proc = "running"
    <3>1. Set(c, [k EXCEPT !.proc = "killed", !.err = TRUE, !.delay = "running"])
      BY <1>9, <2>1 DEF KillHook
    <3> QED
      BY <1>1, <1>2, <1>9, <3>1 DEF KillHook
  <2>2. CASE k.proc # "running"
    <3>1. PICK blamed \in BOOLEAN : Set(c, [k EXCEPT !.err = blamed, !.delay = "running"])
      BY <1>9, <2>2 DEF KillHook
    <3> QED
      BY <1>1, <1>2, <1>9, <2>2, <3>1 DEF KillHook
  <2> QED
    BY <2>1, <2>2
<1>10. CASE Reap(c)
  <2>1. Set(c, [k EXCEPT !.at = "drain", !.err = @ \/ k.proc # "zero",
                         !.delay = IF @ = "off" THEN "running" ELSE @])
    BY <1>10 DEF Reap
  <2>2. k.at = "wait" /\ k.proc # "running"
    BY <1>10 DEF Reap
  <2> QED
    BY <1>1, <1>2, <2>1, <2>2
<1>11. CASE DelayPasses(c)
  <2>1. Set(c, [k EXCEPT !.delay = "over"])
    BY <1>11 DEF DelayPasses
  <2> QED
    BY <1>1, <1>2, <2>1
<1>12. CASE Copy(c)
  <2>1. Set(c, [k EXCEPT !.unread = FALSE])
    BY <1>12 DEF Copy
  <2> QED
    BY <1>1, <1>2, <2>1
<1>13. CASE Drained(c)
  <2>1. CASE ~k.unread /\ k.children = 0 /\ Set(c, [k EXCEPT !.at = "judge"])
    BY <1>1, <1>2, <1>13, <2>1 DEF Drained
  <2>2. CASE Set(c, [k EXCEPT !.at = "judge", !.err = TRUE, !.lost = TRUE, !.unread = FALSE])
    BY <1>1, <1>2, <1>13, <2>2 DEF Drained
  <2> QED
    BY <1>13, <2>1, <2>2 DEF Drained
<1>14. CASE Judge(c)
  <2> DEFINE result == IF k.ctx = "deadline" THEN "timeout" ELSE IF k.err THEN "failed" ELSE "ok"
  <2>1. Set(c, [k EXCEPT !.at = "idle", !.result = result]) /\ k.at = "judge"
    BY <1>14 DEF Judge
  <2>2. result \in {"timeout", "failed", "ok"} /\ (result = "ok" => ~k.err)
    OBVIOUS
  <2> HIDE DEF result
  <2> QED
    BY <1>1, <1>2, <2>1, <2>2
<1> QED
  BY <1>3, <1>4, <1>5, <1>6, <1>7, <1>8, <1>9, <1>10, <1>11, <1>12, <1>13, <1>14
     DEF Run, Environment

\* Everything else in a step of Service leaves the calls alone, or ends them
\* with their process.
LEMMA CallsStep == CallsAreSound /\ [Next]_vars => CallsAreSound'
<1> SUFFICES ASSUME CallsAreSound, [Next]_vars PROVE CallsAreSound'
  OBVIOUS
<1>1. ASSUME NEW c \in Callers, SessionHook(c) PROVE CallsAreSound'
  BY <1>1, CallStep DEF SessionHook
<1>2. CASE ProcessEnds \/ Die
  <2>1. call' = [c \in Callers |-> NoCall]
    BY <1>2 DEF ProcessEnds, Die, Gone
  <2>2. NoCall \in Calls /\ CallIsSound(NoCall)
    BY HooksAssumption DEF NoCall, Calls, CallIsSound
  <2> QED
    BY <2>1, <2>2 DEF CallsAreSound
<1>3. CASE ~(ProcessEnds \/ Die) /\ ~\E c \in Callers : SessionHook(c)
  <2>1. call' = call
    BY <1>3 DEF Next, Supervisor, Install, Uninstall, Start, AskToStop, Poll, SayStopped, Enter,
                Stop, Awaited, Ended, StartFails, StartLoops, Return, LoopsReturn, WorkerHook,
                OrphanEnds, vars, hookVars
  <2> QED
    BY <2>1 DEF CallsAreSound
<1> QED
  BY <1>1, <1>2, <1>3

\* A hook that succeeded exited by itself with status 0, had all its output
\* read and left nobody behind, for any number of descendants.
THEOREM OnlyRealSuccess == Spec => []SuccessIsReal
<1>1. Init => CallsAreSound
  <2>1. NoCall \in Calls /\ CallIsSound(NoCall)
    BY HooksAssumption DEF NoCall, Calls, CallIsSound
  <2> QED
    BY <2>1 DEF Init, HooksInit, CallsAreSound
<1>2. CallsAreSound => SuccessIsReal
  BY DEF CallsAreSound, CallIsSound, SuccessIsReal
<1> QED
  BY <1>1, <1>2, CallsStep, PTL DEF Spec

\* Why the end is what it says: run returns nil only once its context is
\* canceled, the context is canceled only for a Stop, and a Stop was asked for.
EndInv ==
  /\ exec \in {"none", "enter", "select", "await", "returned"}
  /\ exec \in {"none", "enter", "select"} => ~canceled
  /\ exec = "none" => run = "none"
  /\ scm = "stopped" => exec = "none" /\ ~request
  /\ run = "nil" => canceled
  /\ request => asked
  /\ exec = "await" => asked
  /\ exit = "clean" => asked
  /\ exit = "fatal" => logged

\* Every step keeps it.
LEMMA EndStep == EndInv /\ [Next]_vars => EndInv'
<1> SUFFICES ASSUME EndInv, [Next]_vars PROVE EndInv'
  OBVIOUS
<1> USE DEF EndInv
<1>1. CASE Install \/ Uninstall \/ Poll \/ SayStopped \/ OrphanEnds \/ WorkerHook
  BY <1>1 DEF Install, Uninstall, Poll, SayStopped, OrphanEnds, WorkerHook, hookVars, process,
              manager
<1>2. CASE Start
  BY <1>2 DEF Start, hookVars
<1>3. CASE AskToStop
  BY <1>3 DEF AskToStop, hookVars, process
<1>4. CASE Enter \/ StartFails \/ StartLoops \/ LoopsReturn
  BY <1>4 DEF Enter, StartFails, StartLoops, LoopsReturn, Return, hookVars, manager
<1>5. CASE Stop
  BY <1>5 DEF Stop
<1>6. CASE Awaited
  BY <1>6 DEF Awaited, hookVars, manager
<1>7. CASE Ended
  <2>1. run # "nil"
    BY <1>7 DEF Ended
  <2>2. run = "error" /\ exit' = "fatal" /\ logged'
    BY <1>7, <2>1 DEF Ended
  <2> QED
    BY <1>7, <2>2 DEF Ended, hookVars, manager
<1>8. CASE ProcessEnds \/ Die
  BY <1>8 DEF ProcessEnds, Die, Gone
<1>9. ASSUME NEW c \in Callers, SessionHook(c) PROVE EndInv'
  <2>1. UNCHANGED <<canceled, manager, scm, process>>
    BY <1>9 DEF SessionHook, Call, Run, Environment, Writes, Forks, ChildEnds, Exits, ContextEnds,
                KillHook, Reap, DelayPasses, Copy, Drained, Judge, Set
  <2>2. UNCHANGED <<scm, exec, canceled, run, request, asked, exit, logged>>
    BY <2>1 DEF manager, process
  <2> QED
    BY <2>2
<1>10. CASE UNCHANGED vars
  BY <1>10 DEF vars, hookVars, manager, process
<1> QED
  BY <1>1, <1>2, <1>3, <1>4, <1>5, <1>6, <1>7, <1>8, <1>9, <1>10 DEF Next, Supervisor

\* The service ends cleanly only when it was asked to, and fatally only with
\* the reason in the event log.
THEOREM EndAlwaysTruthful == Spec => []EndIsTruthful
<1>1. Init => EndInv
  BY DEF Init, HooksInit, EndInv
<1>2. EndInv => EndIsTruthful
  BY DEF EndInv, EndIsTruthful
<1> QED
  BY <1>1, <1>2, EndStep, PTL DEF Spec
===============================================================================
