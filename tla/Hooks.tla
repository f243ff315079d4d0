--------------------------------- MODULE Hooks ---------------------------------
(***************************************************************************)
(* One lifecycle hook at a time per caller, as hooks.Run executes it: a    *)
(* process with a timeout, its descendants, the pipes that carry its       *)
(* output, and what Run makes of all that.  exec.Cmd is external and is    *)
(* modelled by what Run sets on it: Start refuses a canceled context, Wait *)
(* reaps the process, and from its end or its kill on WaitDelay bounds the *)
(* wait for the pipes, which every descendant may hold open.               *)
(***************************************************************************)
EXTENDS Naturals

CONSTANTS Callers,     \* the goroutines that run hooks
          MaxChildren  \* bound on the descendants that share a hook's output

ASSUME HooksAssumption == MaxChildren \in Nat

VARIABLES
  call,      \* for each caller its current or last call of Run
  canceled   \* the context the callers were given

hookVars == <<call, canceled>>

NoCall == [at |-> "idle", proc |-> "none", children |-> 0, unread |-> FALSE,
           ctx |-> "live", delay |-> "off", err |-> FALSE, lost |-> FALSE,
           result |-> "none"]

Calls == [at : {"idle", "wait", "drain", "judge"},
          proc : {"none", "running", "zero", "nonzero", "killed"},
          children : 0..MaxChildren,            \* holding the pipes open
          unread : BOOLEAN,                     \* output still in the pipes
          ctx : {"live", "deadline", "canceled"},
          delay : {"off", "running", "over"},   \* WaitDelay
          err : BOOLEAN, lost : BOOLEAN,        \* cmd.Run's error, output given up
          result : {"none", "ok", "failed", "timeout"}]

HooksTypeOK == call \in [Callers -> Calls] /\ canceled \in BOOLEAN

HooksInit == call = [c \in Callers |-> NoCall] /\ canceled = FALSE

Set(c, new) == call' = [call EXCEPT ![c] = new] /\ UNCHANGED canceled

\* cmd.Start: nothing runs with a canceled context or without an executable.
Call(c) ==
  /\ call[c].at = "idle"
  /\ \/ ~canceled /\ Set(c, [NoCall EXCEPT !.at = "wait", !.proc = "running"])
     \/ Set(c, [NoCall EXCEPT !.result = "failed"])
-------------------------------------------------------------------------------
(* The hook and its descendants.                                           *)

Alive(c) == call[c].proc = "running" \/ call[c].children > 0

\* Writing succeeds for as long as somebody reads: boundedWriter takes every
\* byte, also the ones it drops.
Writes(c) ==
  /\ Alive(c) /\ call[c].at \in {"wait", "drain"} /\ ~call[c].lost
  /\ Set(c, [call[c] EXCEPT !.unread = TRUE])

Forks(c) ==
  /\ Alive(c) /\ call[c].children < MaxChildren
  /\ Set(c, [call[c] EXCEPT !.children = @ + 1])

ChildEnds(c) ==
  /\ call[c].children > 0
  /\ Set(c, [call[c] EXCEPT !.children = @ - 1])

Exits(c) ==
  /\ call[c].proc = "running"
  /\ \E code \in {"zero", "nonzero"} : Set(c, [call[c] EXCEPT !.proc = code])

Environment(c) == Writes(c) \/ Forks(c) \/ ChildEnds(c) \/ Exits(c)
-------------------------------------------------------------------------------
(* Run.                                                                    *)

\* The context ends for the first of two reasons: the hook's timeout, or the
\* cancelation of the caller's context.
ContextEnds(c) ==
  /\ call[c].at # "idle" /\ call[c].ctx = "live"
  /\ \/ Set(c, [call[c] EXCEPT !.ctx = "deadline"])
     \/ canceled /\ Set(c, [call[c] EXCEPT !.ctx = "canceled"])

\* cmd.Cancel kills the process, not its descendants.  A process that has
\* exited and was not reaped yet keeps its status, but Run may take the kill
\* for the reason.
KillHook(c) ==
  /\ call[c].at = "wait" /\ call[c].ctx # "live" /\ call[c].delay = "off"
  /\ \/ /\ call[c].proc = "running"
        /\ Set(c, [call[c] EXCEPT !.proc = "killed", !.err = TRUE, !.delay = "running"])
     \/ /\ call[c].proc # "running"
        /\ \E blamed \in BOOLEAN :
             Set(c, [call[c] EXCEPT !.err = blamed, !.delay = "running"])

\* Process.Wait returns; if nobody killed the process, WaitDelay starts now.
Reap(c) ==
  /\ call[c].at = "wait" /\ call[c].proc # "running"
  /\ Set(c, [call[c] EXCEPT !.at = "drain", !.err = @ \/ call[c].proc # "zero",
                            !.delay = IF @ = "off" THEN "running" ELSE @])

DelayPasses(c) ==
  /\ call[c].at \in {"wait", "drain"} /\ call[c].delay = "running"
  /\ Set(c, [call[c] EXCEPT !.delay = "over"])

\* boundedWriter keeps the first 64 KiB and drops the rest.
Copy(c) ==
  /\ call[c].at \in {"wait", "drain"} /\ call[c].unread
  /\ Set(c, [call[c] EXCEPT !.unread = FALSE])

\* Mutant: without WaitDelay, Wait lasts as long as a descendant holds a pipe.
WaitsForPipes(c) ==
  /\ call[c].at = "drain" /\ ~call[c].unread /\ call[c].children = 0
  /\ Set(c, [call[c] EXCEPT !.at = "judge"])

\* The pipes are at their end, or they are closed because WaitDelay is over
\* (ErrWaitDelay).
Drained(c) ==
  /\ call[c].at = "drain"
  /\ \/ /\ ~call[c].unread /\ call[c].children = 0
        /\ Set(c, [call[c] EXCEPT !.at = "judge"])
     \/ /\ call[c].delay = "over"
        /\ Set(c, [call[c] EXCEPT !.at = "judge", !.err = TRUE, !.lost = TRUE,
                                  !.unread = FALSE])

\* Mutant: only the exit status is looked at.
JudgeByStatus(c) ==
  /\ call[c].at = "judge"
  /\ Set(c, [call[c] EXCEPT
       !.at = "idle",
       !.result = IF call[c].ctx = "deadline" THEN "timeout"
                  ELSE IF call[c].proc = "zero" THEN "ok" ELSE "failed"])

\* A passed deadline is a timeout, even if the hook made it in time.
Judge(c) ==
  /\ call[c].at = "judge"
  /\ Set(c, [call[c] EXCEPT
       !.at = "idle",
       !.result = IF call[c].ctx = "deadline" THEN "timeout"
                  ELSE IF call[c].err THEN "failed" ELSE "ok"])

Run(c) ==
  ContextEnds(c) \/ KillHook(c) \/ Reap(c) \/ DelayPasses(c)
    \/ Copy(c) \/ Drained(c) \/ Judge(c)
-------------------------------------------------------------------------------
\* A hook is over when Run returns, and one that succeeded exited by itself
\* with status 0, had all its output read, and left nobody behind who could
\* still write to it.
SuccessIsReal ==
  \A c \in Callers :
    call[c].at = "idle" =>
      /\ call[c].proc # "running"
      /\ call[c].result = "ok" =>
           call[c].proc = "zero" /\ call[c].children = 0 /\ ~call[c].lost

\* Run returns, whatever the hook and its descendants do.
RunReturns == \A c \in Callers : call[c].at # "idle" ~> call[c].at = "idle"
===============================================================================
