-------------------------------- MODULE Service --------------------------------
(***************************************************************************)
(* The supervisor under the Windows service manager: Execute in            *)
(* cmd/supervisor/service_windows.go, run in main.go beneath it, and the   *)
(* verbs of -service.  Hooks gives the call that stands between a Stop and *)
(* the end: run waits for the session of link.Run, which may be in a hook  *)
(* of Observe, but not for the worker, whose hook may outlive the process. *)
(* The service manager and svc.Run are external.                           *)
(***************************************************************************)
EXTENDS Hooks

CONSTANTS MaxPolls,   \* the queries of -service stop (20 in the code)
          MaxStarts   \* bound on the starts of the service

ASSUME ServiceAssumption ==
  /\ MaxPolls \in Nat /\ MaxStarts \in Nat
  /\ Callers = {"session"}

VARIABLES
  registered, \* "no", "yes", or "deleting" until the process has ended
  scm,        \* the state the service manager shows
  request,    \* a Stop or Shutdown is on its way to Execute
  asked,      \* somebody has sent one since the start
  exec,       \* where Execute is
  run,        \* where run is; it returns "nil" or "error"
  logged,     \* logServiceError was called (it does what it can)
  exit,       \* the exit code the service ended with
  verb,       \* -service stop: "no", "polling", "done" or "error"
  polls, starts,
  working,    \* a hook of the worker runs
  orphan      \* one has outlived its supervisor

manager == <<registered, request, asked, verb, polls, starts>>
process == <<exec, run, logged, exit, working, orphan>>
vars == <<hookVars, manager, scm, process>>

TypeOK ==
  /\ HooksTypeOK
  /\ registered \in {"no", "yes", "deleting"}
  /\ scm \in {"stopped", "starting", "running", "stopping"}
  /\ request \in BOOLEAN /\ asked \in BOOLEAN /\ logged \in BOOLEAN
  /\ working \in BOOLEAN /\ orphan \in BOOLEAN
  /\ exec \in {"none", "enter", "select", "await", "returned"}
  /\ run \in {"none", "starting", "looping", "nil", "error"}
  /\ exit \in {"none", "clean", "fatal", "died"}
  /\ verb \in {"no", "polling", "done", "error"}
  /\ polls \in 0..MaxPolls /\ starts \in 0..MaxStarts

Init ==
  /\ HooksInit
  /\ registered = "no" /\ scm = "stopped" /\ request = FALSE /\ asked = FALSE
  /\ exec = "none" /\ run = "none" /\ logged = FALSE /\ exit = "none"
  /\ verb = "no" /\ polls = 0 /\ starts = 0 /\ working = FALSE /\ orphan = FALSE
-------------------------------------------------------------------------------
(* The verbs and the service manager.                                      *)

Install ==
  /\ registered = "no"
  /\ registered' = "yes"
  /\ UNCHANGED <<hookVars, request, asked, verb, polls, starts, scm, process>>

\* A running service stays until it has stopped.
Uninstall ==
  /\ registered = "yes"
  /\ registered' = IF scm = "stopped" THEN "no" ELSE "deleting"
  /\ UNCHANGED <<hookVars, request, asked, verb, polls, starts, scm, process>>

\* The verb start, or the boot of the machine: a new process reaches Execute.
Start ==
  /\ registered = "yes" /\ scm = "stopped" /\ verb # "polling" /\ starts < MaxStarts
  /\ scm' = "starting" /\ starts' = starts + 1
  /\ exec' = "enter" /\ exit' = "none" /\ logged' = FALSE
  /\ asked' = FALSE /\ verb' = "no" /\ polls' = 0
  /\ UNCHANGED <<hookVars, registered, request, run, working, orphan>>

\* A Stop or Shutdown is accepted while the service says it is running.
AskToStop ==
  /\ scm = "running" /\ ~request
  /\ request' = TRUE /\ asked' = TRUE
  /\ \/ verb = "no" /\ verb' = "polling"     \* the verb stop
     \/ verb' = verb                         \* a Shutdown, or another tool
  /\ UNCHANGED <<hookVars, registered, polls, starts, scm, process>>

Poll ==
  /\ verb = "polling" /\ polls < MaxPolls /\ scm # "stopped"
  /\ \/ polls' = polls + 1 /\ verb' = verb
     \/ verb' = "error" /\ polls' = polls
  /\ UNCHANGED <<hookVars, registered, request, asked, starts, scm, process>>

\* "stopped service"
SayStopped ==
  /\ verb = "polling" /\ (scm = "stopped" \/ polls = MaxPolls)
  /\ verb' = "done"
  /\ UNCHANGED <<hookVars, registered, request, asked, polls, starts, scm, process>>
-------------------------------------------------------------------------------
(* Execute.                                                                *)

Enter ==
  /\ exec = "enter"
  /\ exec' = "select" /\ run' = "starting" /\ scm' = "running"
  /\ UNCHANGED <<hookVars, manager, logged, exit, working, orphan>>

\* Mutant: run is awaited before its context is canceled.
StopWithoutCancel ==
  /\ exec = "select" /\ request
  /\ request' = FALSE /\ scm' = "stopping" /\ exec' = "await"
  /\ UNCHANGED <<hookVars, registered, asked, verb, polls, starts, run, logged, exit, working, orphan>>

\* case svc.Stop, svc.Shutdown
Stop ==
  /\ exec = "select" /\ request
  /\ request' = FALSE /\ scm' = "stopping" /\ exec' = "await"
  /\ canceled' = TRUE
  /\ UNCHANGED <<call, registered, asked, verb, polls, starts, run, logged, exit, working, orphan>>

\* <-done after a Stop: whatever run returned.
Awaited ==
  /\ exec = "await" /\ run \in {"nil", "error"}
  /\ exec' = "returned" /\ exit' = "clean"
  /\ UNCHANGED <<hookVars, manager, scm, run, logged, working, orphan>>

\* Mutant: the error of run is logged but not returned.
EndedCleanly ==
  /\ exec = "select" /\ run \in {"nil", "error"}
  /\ exec' = "returned" /\ exit' = "clean" /\ logged' = (run = "error")
  /\ UNCHANGED <<hookVars, manager, scm, run, working, orphan>>

\* case err := <-done: run ended on its own.
Ended ==
  /\ exec = "select" /\ run \in {"nil", "error"}
  /\ exec' = "returned" /\ logged' = (run = "error")
  /\ exit' = IF run = "error" THEN "fatal" ELSE "clean"
  /\ UNCHANGED <<hookVars, manager, scm, run, working, orphan>>

Gone ==
  /\ scm' = "stopped" /\ request' = FALSE
  /\ registered' = IF registered = "deleting" THEN "no" ELSE registered
  /\ exec' = "none" /\ run' = "none"
  /\ working' = FALSE /\ orphan' = (orphan \/ working)
  /\ call' = [c \in Callers |-> NoCall] /\ canceled' = FALSE
  /\ UNCHANGED <<asked, verb, polls, starts, logged>>

\* Execute has returned: svc.Run reports the end and main returns.
ProcessEnds == exec = "returned" /\ Gone /\ UNCHANGED exit

\* The process is killed.
Die == exec # "none" /\ Gone /\ exit' = "died"

OrphanEnds ==
  /\ orphan
  /\ orphan' = FALSE
  /\ UNCHANGED <<hookVars, manager, scm, exec, run, logged, exit, working>>
-------------------------------------------------------------------------------
(* run.                                                                    *)

Return(value) ==
  /\ run' = value
  /\ UNCHANGED <<hookVars, manager, scm, exec, logged, exit, working, orphan>>

\* Configuration, manifests, identities and the exchange.
StartFails == run = "starting" /\ Return("error")
StartLoops == run = "starting" /\ Return("looping")

\* link.Run returns nil once its context is canceled and its session is out of
\* Observe; it does not wait for the worker.
LoopsReturn ==
  /\ run = "looping" /\ canceled /\ call["session"].at = "idle"
  /\ Return("nil")

SessionHook(c) ==
  /\ exec # "none"
  /\ \/ run = "looping" /\ Call(c)
     \/ Run(c) \/ Environment(c)
  /\ UNCHANGED <<manager, scm, process>>

\* The worker starts hooks until the context is canceled, and a hook ends by
\* itself or is killed.
WorkerHook ==
  /\ \/ ~working /\ run = "looping" /\ ~canceled
     \/ working
  /\ working' = ~working
  /\ UNCHANGED <<hookVars, manager, scm, exec, run, logged, exit, orphan>>

Supervisor ==
  \/ Enter \/ Stop \/ Awaited \/ Ended \/ ProcessEnds
  \/ StartFails \/ StartLoops \/ LoopsReturn \/ WorkerHook
  \/ (\E c \in Callers : SessionHook(c))

Next ==
  \/ Install \/ Uninstall \/ Start \/ AskToStop \/ Poll \/ SayStopped
  \/ Die \/ OrphanEnds \/ Supervisor

Spec == Init /\ [][Next]_vars

Fairness ==
  /\ WF_vars(Enter) /\ WF_vars(Stop) /\ WF_vars(Awaited) /\ WF_vars(Ended)
  /\ WF_vars(ProcessEnds) /\ WF_vars(StartFails \/ StartLoops)
  /\ WF_vars(LoopsReturn)
  /\ \A c \in Callers :
       /\ WF_vars(ContextEnds(c) /\ UNCHANGED <<manager, scm, process>>)
       /\ WF_vars(KillHook(c) /\ UNCHANGED <<manager, scm, process>>)
       /\ WF_vars(Reap(c) /\ UNCHANGED <<manager, scm, process>>)
       /\ WF_vars(DelayPasses(c) /\ UNCHANGED <<manager, scm, process>>)
       /\ WF_vars(Drained(c) /\ UNCHANGED <<manager, scm, process>>)
       /\ WF_vars(Judge(c) /\ UNCHANGED <<manager, scm, process>>)

FairSpec == Spec /\ Fairness
-------------------------------------------------------------------------------
\* What the end of the service tells its operator is true: it ended cleanly
\* only if it was asked to (service_windows.go:69-70), and as a failure only after
\* the reason went to the event log (service_windows.go:8-9).  An error that comes
\* while a Stop is taken is shown as neither: ErrorIsShown.
EndIsTruthful ==
  scm = "stopped" => /\ exit = "clean" => asked
                     /\ exit = "fatal" => logged

\* A Stop comes to its end, whatever run and its hooks are at, although
\* Execute waits for run without a bound (service_windows.go:64-65).
StopEnds == scm = "stopping" ~> scm = "stopped"

\* Not kept: the verb stop says so only when the service has stopped
\* (service_windows.go:153).
VerbIsTruthful == [][verb = "polling" /\ verb' = "done" => scm = "stopped"]_vars

\* Not kept: the worker's hook of an earlier process is over when a hook runs.
OneHookAtATime == ~(orphan /\ working)

\* Not kept: an error of run is shown by the service manager
\* (service_windows.go:8-9).
ErrorIsShown == [][run = "error" /\ exec' = "returned" => exit' = "fatal"]_vars
===============================================================================
