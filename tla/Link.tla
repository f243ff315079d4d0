--------------------------------- MODULE Link ---------------------------------
(***************************************************************************)
(* The supervisor's connection to the gateway (supervisor/link/client.go): *)
(* the session loop, the reconciliation worker and the report ticker, three *)
(* goroutines that share c.conn, the document queue and the state file.    *)
(*                                                                         *)
(* A write reads c.conn under the mutex and uses it after: the connection  *)
(* may have died or been replaced in between.  A report is built from the  *)
(* state file long before it is written, the hooks run in between.         *)
(*                                                                         *)
(* External: the gateway, which answers a hello of another generation with *)
(* the desired state, pushes changes, and shows the last report it got.    *)
(* The queue is the mailbox LatestWins implements; Apply is reduced to its *)
(* load of the state file, one phase report, its outcome in the file, and  *)
(* its terminal report.  The file may fail to be read or written.          *)
(***************************************************************************)
EXTENDS Naturals, Sequences

CONSTANTS
  MaxGeneration,   \* bound on desired-state changes
  MaxConns,        \* bound on connections
  Outcomes,        \* how an Apply may end
  EmptyDocs,       \* the desired states with neither package nor bundle
  MaxMishaps       \* bound on the loads and saves of the state file that fail

ASSUME LinkConstants ==
  /\ MaxGeneration \in Nat /\ MaxConns \in Nat \ {0}
  /\ Outcomes \subseteq {"installed", "failed"} /\ Outcomes # {}
  /\ MaxMishaps \in Nat

VARIABLES
  \* The gateway and the wire.
  desired,    \* the current generation
  view,       \* the last report received
  wire,       \* the newest connection: "open", "dead" (unnoticed) or "closed"
  greeted,    \* the gateway has its hello
  down,       \* state messages on the way to the supervisor
  dialed,     \* connections so far; the newest one's number
  \* The supervisor.
  conn,       \* c.conn: a connection's number, or 0 for nil
  session,    \* where session is
  hello,      \* the generation its hello carries
  disk,       \* the state file: generation and status
  docCh,      \* the latest-wins queue: a generation, or 0
  worker,     \* where the worker is
  doc,        \* the generation it applies
  local,      \* its copy of the state file
  handled,    \* history: the last generation it was done with, recorded or not
  mishaps,    \* loads and saves that have failed
  writers     \* per goroutine that reports: its report and its copy of c.conn

gateway == <<desired, view, wire, greeted, down, dialed>>
store == <<disk, mishaps>>
workerVars == <<worker, doc, local, handled>>
vars == <<desired, view, wire, greeted, down, dialed, conn, session, hello, disk, mishaps,
          docCh, worker, doc, local, handled, writers>>
-------------------------------------------------------------------------------
Goroutines == {"session", "worker", "ticker"}

Generations == 0..MaxGeneration
Reports == [generation : Generations, status : {"idle", "upgrading"} \cup Outcomes]

Records == [generation : Generations, status : {"idle"} \cup Outcomes]

NoReport == [generation |-> 0, status |-> "idle"]

\* at: "rest", "observed" (the report is built), "captured" (c.conn is read), and
\* for the ticker "sent" (its report is written, the ping is next)
Writers == [at : {"rest", "observed", "captured", "sent"}, report : Reports, conn : 0..MaxConns]
AtRest  == [at |-> "rest", report |-> NoReport, conn |-> 0]

TypeOK ==
  /\ desired \in Generations /\ view \in Reports
  /\ wire \in {"open", "dead", "closed"} /\ greeted \in BOOLEAN
  /\ down \in Seq(Generations) /\ dialed \in 0..MaxConns
  /\ conn \in 0..MaxConns /\ hello \in Generations
  /\ session \in {"dial", "observe", "hello", "report", "read", "close"}
  /\ disk \in Records /\ local \in Records /\ mishaps \in 0..MaxMishaps
  /\ worker \in {"idle", "phase", "apply", "outcome", "done"}
  /\ docCh \in Generations /\ doc \in Generations /\ handled \in Generations
  /\ writers \in [Goroutines -> Writers]

Init ==
  /\ desired = 0 /\ view = NoReport
  /\ wire = "closed" /\ greeted = FALSE /\ down = <<>> /\ dialed = 0
  /\ conn = 0 /\ session = "dial" /\ hello = 0
  /\ disk = NoReport /\ mishaps = 0 /\ docCh = 0
  /\ worker = "idle" /\ doc = 0 /\ local = NoReport /\ handled = 0
  /\ writers = [g \in Goroutines |-> AtRest]
-------------------------------------------------------------------------------
(* The gateway and the network.                                              *)

\* The desired state changes, and is pushed to a connection that said hello.
SetDesired ==
  /\ desired < MaxGeneration
  /\ desired' = desired + 1
  /\ down' = IF wire = "open" /\ greeted THEN Append(down, desired') ELSE down
  /\ UNCHANGED <<view, wire, greeted, dialed, conn, session, hello, store, docCh, workerVars, writers>>

\* The connection breaks, silently or not.  The last one this instance is
\* bounded to stays.
Break ==
  /\ wire = "open" /\ dialed < MaxConns
  /\ wire' \in {"dead", "closed"}
  /\ down' = <<>> /\ greeted' = FALSE
  /\ UNCHANGED <<desired, view, dialed, conn, session, hello, store, docCh, workerVars,
                 writers>>
-------------------------------------------------------------------------------
(* The state file.                                                           *)

Mishap == mishaps < MaxMishaps /\ mishaps' = mishaps + 1

\* A file that cannot be read counts as an empty one: the error is only logged.
Load(l) == IF l = disk THEN UNCHANGED mishaps ELSE l = NoReport /\ Mishap

\* A save that fails leaves the file, and its error is only logged.
Save(l) ==
  \/ disk' = l /\ UNCHANGED mishaps
  \/ UNCHANGED disk /\ Mishap
-------------------------------------------------------------------------------
(* write and send, for any of the goroutines.                                *)

\* A write to the connection of that number gets through.
Reaches(number) == number = dialed /\ wire = "open"

\* The report exists; the hooks that fill in its other fields run now.
Build(g, report) ==
  writers' = [writers EXCEPT ![g] = [at |-> "observed", report |-> report, conn |-> 0]]

\* c.mu.Lock(); conn := c.conn; c.mu.Unlock()
Capture(g) ==
  /\ writers[g].at = "observed"
  /\ writers' = [writers EXCEPT ![g].at = "captured", ![g].conn = conn]
  /\ UNCHANGED <<gateway, conn, session, hello, store, docCh, workerVars>>

\* conn.Write: the gateway shows the report, or it is dropped.
Write(g) ==
  /\ writers[g].at = "captured"
  /\ view' = IF Reaches(writers[g].conn) THEN writers[g].report ELSE view
  /\ writers' = [writers EXCEPT ![g] = IF g = "ticker" THEN [AtRest EXCEPT !.at = "sent"]
                                                        ELSE AtRest]
  /\ UNCHANGED <<desired, wire, greeted, down, dialed, conn, session, hello, store, docCh,
                 workerVars>>

\* Mutant: the ping's result is ignored.
PingIgnored ==
  /\ writers["ticker"].at = "sent"
  /\ writers' = [writers EXCEPT !["ticker"] = AtRest]
  /\ UNCHANGED <<gateway, conn, session, hello, store, docCh, workerVars>>

\* After its report the ticker pings; a ping that fails closes the connection.
Ping ==
  /\ writers["ticker"].at = "sent"
  /\ writers' = [writers EXCEPT !["ticker"] = AtRest]
  /\ wire' = IF conn = dialed /\ wire = "dead" THEN "closed" ELSE wire
  /\ UNCHANGED <<desired, view, greeted, down, dialed, conn, session, hello, store, docCh,
                 workerVars>>

\* Mutant: the ticker only proves that the connection is alive.
TickPingsOnly ==
  /\ writers["ticker"].at = "rest"
  /\ writers' = [writers EXCEPT !["ticker"].at = "sent"]
  /\ UNCHANGED <<gateway, conn, session, hello, store, docCh, workerVars>>

\* The ticker: Observe reads the state file first.
Tick ==
  /\ writers["ticker"].at = "rest"
  /\ \E l \in Records : Load(l) /\ Build("ticker", l)
  /\ UNCHANGED <<gateway, conn, session, hello, disk, docCh, workerVars>>
-------------------------------------------------------------------------------
(* session and the loop around it.                                           *)

\* c.conn is set before the hello is written.
Dial ==
  /\ session = "dial" /\ dialed < MaxConns
  /\ dialed' = dialed + 1 /\ wire' = "open"
  /\ conn' = dialed'
  /\ session' = "observe"
  /\ UNCHANGED <<desired, view, greeted, down, hello, store, docCh, workerVars, writers>>

ObserveForHello ==
  /\ session = "observe"
  /\ \E l \in Records : Load(l) /\ hello' = l.generation
  /\ session' = "hello"
  /\ UNCHANGED <<gateway, conn, disk, docCh, workerVars, writers>>

\* The hello is lost on a dead connection and an error on a closed one.
Hello ==
  /\ session = "hello"
  /\ session' = IF wire = "closed" THEN "close" ELSE "report"
  /\ greeted' = Reaches(conn)
  /\ down' = IF Reaches(conn) /\ hello # desired THEN Append(down, desired) ELSE down
  /\ UNCHANGED <<desired, view, wire, dialed, conn, hello, store, docCh, workerVars, writers>>

ReportAfterHello ==
  /\ session = "report"
  /\ \E l \in Records : Load(l) /\ Build("session", l)
  /\ session' = "read"
  /\ UNCHANGED <<gateway, conn, hello, disk, docCh, workerVars>>

\* Mutant: submit does not replace a document that waits.
SubmitIfEmpty(d) == docCh' = IF docCh = 0 THEN d ELSE docCh

Submit(d) == docCh' = d

\* A state message is read and submitted.
Read ==
  /\ session = "read" /\ writers["session"].at = "rest"
  /\ wire = "open" /\ down # <<>>
  /\ Submit(Head(down))
  /\ down' = Tail(down)
  /\ UNCHANGED <<desired, view, wire, greeted, dialed, conn, session, hello, store, workerVars,
                 writers>>

\* Read returns an error only once the connection is closed.
ReadFails ==
  /\ session = "read" /\ writers["session"].at = "rest"
  /\ wire = "closed"
  /\ session' = "close"
  /\ UNCHANGED <<gateway, conn, hello, store, docCh, workerVars, writers>>

\* The deferred cleanup; the loop backs off and dials again.
Close ==
  /\ session = "close"
  /\ conn' = 0 /\ session' = "dial"
  /\ UNCHANGED <<gateway, hello, store, docCh, workerVars, writers>>
-------------------------------------------------------------------------------
(* The worker.                                                               *)

WorkerAtRest == writers["worker"].at = "rest"

\* A document with neither part is dropped: nothing is recorded or reported.
IgnoreEmpty ==
  /\ worker = "idle" /\ docCh \in EmptyDocs \ {0}
  /\ handled' = docCh /\ docCh' = 0
  /\ UNCHANGED <<gateway, conn, session, hello, store, worker, doc, local, writers>>

Take ==
  /\ worker = "idle" /\ docCh \notin EmptyDocs \cup {0}
  /\ doc' = docCh /\ docCh' = 0
  /\ \E l \in Records : Load(l) /\ local' = l
  /\ worker' = "phase"
  /\ UNCHANGED <<gateway, conn, session, hello, disk, handled, writers>>

\* The marker, for a document with a package, is saved with Apply's copy of the
\* rest: if that could not be loaded, the file loses its generation here.
ReportPhase ==
  /\ worker = "phase"
  /\ disk' \in {disk, local}
  /\ Build("worker", [generation |-> doc, status |-> "upgrading"])
  /\ worker' = "apply"
  /\ UNCHANGED <<gateway, conn, session, hello, mishaps, docCh, doc, local, handled>>

\* The outcome is saved before it is reported.
Conclude ==
  /\ worker = "apply" /\ WorkerAtRest
  /\ \E status \in Outcomes : local' = [generation |-> doc, status |-> status]
  /\ Save(local')
  /\ handled' = doc
  /\ worker' = "outcome"
  /\ UNCHANGED <<gateway, conn, session, hello, docCh, doc, writers>>

\* What is reported is Apply's own copy, saved or not.
ReportOutcome ==
  /\ worker = "outcome"
  /\ Build("worker", local)
  /\ worker' = "done"
  /\ UNCHANGED <<gateway, conn, session, hello, store, docCh, doc, local, handled>>

\* Apply returns when its last report is written.
Return ==
  /\ worker = "done" /\ WorkerAtRest
  /\ worker' = "idle" /\ doc' = 0 /\ local' = NoReport
  /\ UNCHANGED <<gateway, conn, session, hello, store, docCh, handled, writers>>
-------------------------------------------------------------------------------
Session == Dial \/ ObserveForHello \/ Hello \/ ReportAfterHello \/ Read \/ ReadFails \/ Close

Worker == IgnoreEmpty \/ Take \/ ReportPhase \/ Conclude \/ ReportOutcome \/ Return

Next ==
  \/ SetDesired \/ Break
  \/ \E g \in Goroutines : Capture(g) \/ Write(g)
  \/ Ping \/ Tick
  \/ Session \/ Worker

Spec == Init /\ [][Next]_vars

\* Every write, dial and hook has a timeout, the ticker ticks and the session
\* loop redials for ever.
Fairness ==
  /\ WF_vars(Session) /\ WF_vars(Worker)
  /\ WF_vars(Tick) /\ WF_vars(Ping)
  /\ \A g \in Goroutines : WF_vars(Capture(g) \/ Write(g))

FairSpec == Spec /\ Fairness
-------------------------------------------------------------------------------
\* "A reconnecting supervisor always converges": while the gateway believes it
\* told the supervisor everything, the newest desired state is on the wire, in the
\* queue, being applied or done with, whichever loads and saves of the state file
\* fail.
NewestOnItsWay ==
  wire = "open" /\ greeted =>
    desired \in {handled, doc, docCh} \cup {down[i] : i \in DOMAIN down}

\* Whatever was lost on the way, the worker is done with the last desired state
\* in the end.  (That it is recorded then, the code does not promise: the record
\* stays behind after a save that fails, and for an empty document.)
Delivered == <>[](handled = desired)

\* ... and the gateway ends up showing what the state file holds, however late
\* the reports of the three goroutines overtook each other.
CloudLearns == <>[](view = disk)

\* Every desired state the gateway has is recorded in the end, as its
\* documentation has it (link-protocol.md:72).
RecordedInTheEnd == <>[](disk.generation = desired)

\* A failure is never masked by a later idle heartbeat.
FailureNotMasked == [][view.status = "failed" => view'.status # "idle"]_vars
-------------------------------------------------------------------------------
(* Strengthenings that make NewestOnItsWay inductive.                        *)

\* Only a connection that is open has a hello, and only one with a hello has
\* messages on the way.
WireInv ==
  /\ greeted => wire = "open"
  /\ down # <<>> => greeted
  /\ session \in {"dial", "close"} => wire = "closed"
  /\ session \in {"observe", "hello"} => ~greeted

\* What is done with, applied, waiting, on the way and desired is in this order;
\* what is recorded was done with.
InTurn ==
  /\ disk.generation <= handled /\ handled <= desired
  /\ worker \in {"phase", "apply"} => local.generation <= handled
  /\ doc <= desired /\ docCh <= desired
  /\ worker # "idle" => handled <= doc
  /\ docCh # 0 => handled <= docCh /\ doc <= docCh
  /\ \A i \in 1..Len(down) :
       /\ handled <= down[i] /\ doc <= down[i] /\ docCh <= down[i]
       /\ down[i] <= desired
  /\ \A i, j \in 1..Len(down) : i <= j => down[i] <= down[j]

\* Nothing is dropped between the places the newest desired state passes through.
NewestInv ==
  /\ session = "hello" => hello <= handled
  /\ down # <<>> => down[Len(down)] = desired
  /\ greeted /\ down = <<>> => desired \in {handled, doc, docCh}
  /\ worker = "idle" => doc = 0
  /\ worker \in {"outcome", "done"} => handled = doc
===============================================================================
