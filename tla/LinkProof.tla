------------------------------ MODULE LinkProof ------------------------------
(***************************************************************************)
(* The newest desired state is never lost while the gateway believes it    *)
(* was told, for any number of desired states and connections, and for     *)
(* every order in which three goroutines read and write.                   *)
(***************************************************************************)
EXTENDS Link, TLAPS

\* What is left of a queue after its head is taken.
LEMMA TailFacts ==
  ASSUME NEW S, NEW s \in Seq(S), s # <<>>
  PROVE  /\ Tail(s) \in Seq(S) /\ Len(Tail(s)) = Len(s) - 1
         /\ Len(s) \in Nat \ {0}
         /\ Head(s) = s[1] /\ Head(s) \in S
         /\ \A i \in 1..Len(Tail(s)) : Tail(s)[i] = s[i + 1]
         /\ Tail(s) # <<>> => Tail(s)[Len(Tail(s))] = s[Len(s)]
         /\ Tail(s) = <<>> => Head(s) = s[Len(s)]
OBVIOUS

\* What is in a queue after something was added.
LEMMA AppendFacts ==
  ASSUME NEW S, NEW s \in Seq(S), NEW e \in S
  PROVE  /\ Append(s, e) \in Seq(S) /\ Append(s, e) # <<>>
         /\ Len(Append(s, e)) = Len(s) + 1 /\ Len(s) \in Nat
         /\ \A i \in 1..Len(s) : Append(s, e)[i] = s[i]
         /\ Append(s, e)[Len(Append(s, e))] = e
OBVIOUS

\* An empty queue is a queue.
LEMMA NoMessages == \A S : <<>> \in Seq(S)
OBVIOUS
-------------------------------------------------------------------------------
(* Types.                                                                     *)

\* A goroutine that builds a report is a writer with a report.
LEMMA BuildType ==
  ASSUME TypeOK, NEW g \in Goroutines, NEW report \in Reports, Build(g, report)
  PROVE  writers' \in [Goroutines -> Writers]
<1>1. [at |-> "observed", report |-> report, conn |-> 0] \in Writers
  BY LinkConstants DEF Writers
<1> QED
  BY <1>1 DEF TypeOK, Build

\* A goroutine at rest, or the ticker before its ping, is a writer.
LEMMA AtRestType == AtRest \in Writers /\ [AtRest EXCEPT !.at = "sent"] \in Writers
<1>1. NoReport \in Reports
  BY LinkConstants DEF NoReport, Reports, Generations
<1>2. 0 \in 0..MaxConns
  BY LinkConstants
<1> QED
  BY <1>1, <1>2 DEF AtRest, Writers

\* The first start.
LEMMA LinkStart == Init => TypeOK /\ WireInv /\ InTurn /\ NewestInv
<1> SUFFICES ASSUME Init PROVE TypeOK /\ WireInv /\ InTurn /\ NewestInv
  OBVIOUS
<1>1. NoReport \in Reports /\ NoReport \in Records
  BY LinkConstants DEF NoReport, Reports, Records, Generations
<1>2. AtRest \in Writers
  BY AtRestType
<1>3. TypeOK
  <2>1. writers \in [Goroutines -> Writers]
    BY <1>2 DEF Init
  <2>2. disk \in Records /\ local \in Records /\ view \in Reports
    BY <1>1 DEF Init
  <2>3. down \in Seq(Generations)
    BY NoMessages DEF Init
  <2>4. /\ desired \in Generations /\ dialed \in 0..MaxConns /\ conn \in 0..MaxConns
        /\ hello \in Generations /\ docCh \in Generations /\ doc \in Generations
        /\ handled \in Generations /\ mishaps \in 0..MaxMishaps
    BY LinkConstants DEF Init, Generations
  <2>5. /\ wire \in {"open", "dead", "closed"} /\ greeted \in BOOLEAN
        /\ session \in {"dial", "observe", "hello", "report", "read", "close"}
        /\ worker \in {"idle", "phase", "apply", "outcome", "done"}
    BY DEF Init
  <2> QED
    BY <2>1, <2>2, <2>3, <2>4, <2>5 DEF TypeOK
<1>4. WireInv /\ InTurn /\ NewestInv
  BY DEF Init, WireInv, InTurn, NewestInv, NoReport
<1> QED
  BY <1>3, <1>4

\* A load or a save, failing or not, keeps the count of what failed.
LEMMA MishapType ==
  ASSUME TypeOK, UNCHANGED mishaps \/ Mishap
  PROVE  mishaps' \in 0..MaxMishaps
BY LinkConstants DEF TypeOK, Mishap

\* What a load finds is a record, and no newer than the file.
LEMMA LoadFacts ==
  ASSUME TypeOK, NEW l \in Records, Load(l)
  PROVE  /\ l \in Reports
         /\ l.generation \in Nat /\ l.generation <= disk.generation
         /\ mishaps' \in 0..MaxMishaps
<1>1. mishaps' \in 0..MaxMishaps
  BY MishapType DEF Load
<1>2. l = disk \/ l.generation = 0
  BY DEF Load, NoReport
<1>3. l \in Reports /\ l.generation \in Nat
  BY LinkConstants DEF Records, Reports, Generations
<1>4. l.generation <= disk.generation
  BY <1>2, LinkConstants DEF TypeOK, Records, Generations
<1> QED
  BY <1>1, <1>3, <1>4

\* Every step keeps the types.
LEMMA LinkTypeStep ==
  ASSUME TypeOK, [Next]_vars
  PROVE  TypeOK'
<1> USE LinkConstants DEF TypeOK, Generations, gateway, store, workerVars
<1>1. AtRest \in Writers /\ [AtRest EXCEPT !.at = "sent"] \in Writers
  BY AtRestType
<1>2. disk \in Reports /\ local \in Reports /\ NoReport \in Records
  BY DEF Reports, Records, NoReport
<1>3. CASE SetDesired
  <2>1. desired' \in Generations
    BY <1>3 DEF SetDesired
  <2>2. down' \in Seq(Generations)
    BY <1>3, <2>1, AppendFacts DEF SetDesired
  <2> QED
    BY <1>3, <2>1, <2>2 DEF SetDesired
<1>4. CASE Break
  <2>1. down' \in Seq(Generations)
    BY <1>4, NoMessages DEF Break
  <2>2. wire' \in {"open", "dead", "closed"} /\ greeted' \in BOOLEAN
    BY <1>4 DEF Break
  <2> QED
    BY <1>4, <2>1, <2>2 DEF Break
<1>5. ASSUME NEW g \in Goroutines, Capture(g) PROVE TypeOK'
  <2>1. [writers[g] EXCEPT !.at = "captured", !.conn = conn] \in Writers
    BY DEF Writers
  <2>2. writers' = [writers EXCEPT ![g] = [writers[g] EXCEPT !.at = "captured", !.conn = conn]]
    BY <1>5 DEF Capture
  <2>3. writers' \in [Goroutines -> Writers]
    BY <2>1, <2>2
  <2> QED
    BY <1>5, <2>3 DEF Capture
<1>6. ASSUME NEW g \in Goroutines, Write(g) PROVE TypeOK'
  <2>1. writers' \in [Goroutines -> Writers] /\ view' \in Reports
    BY <1>1, <1>6 DEF Write, Writers
  <2> QED
    BY <1>6, <2>1 DEF Write
<1>7. CASE Ping
  BY <1>1, <1>7 DEF Ping, Goroutines
<1>8. CASE Tick
  <2>1. PICK l \in Records : Load(l) /\ Build("ticker", l)
    BY <1>8 DEF Tick
  <2>2. writers' \in [Goroutines -> Writers] /\ mishaps' \in 0..MaxMishaps
    BY <2>1, LoadFacts, BuildType DEF Goroutines
  <2> QED
    BY <1>8, <2>2 DEF Tick
<1>9. CASE Dial
  BY <1>9 DEF Dial
<1>10. CASE ReadFails \/ Close
  BY <1>10 DEF ReadFails, Close
<1>17. CASE ObserveForHello
  <2>1. PICK l \in Records : Load(l) /\ hello' = l.generation
    BY <1>17 DEF ObserveForHello
  <2>2. hello' \in Generations /\ mishaps' \in 0..MaxMishaps
    BY <2>1, LoadFacts DEF Records
  <2> QED
    BY <1>17, <2>2 DEF ObserveForHello
<1>11. CASE Hello
  <2>1. down' \in Seq(Generations)
    BY <1>11, AppendFacts DEF Hello
  <2> QED
    BY <1>11, <2>1 DEF Hello, Reaches
<1>12. CASE ReportAfterHello
  <2>1. PICK l \in Records : Load(l) /\ Build("session", l)
    BY <1>12 DEF ReportAfterHello
  <2>2. writers' \in [Goroutines -> Writers] /\ mishaps' \in 0..MaxMishaps
    BY <2>1, LoadFacts, BuildType DEF Goroutines
  <2> QED
    BY <1>12, <2>2 DEF ReportAfterHello
<1>13. CASE Read
  <2>1. Head(down) \in Generations /\ Tail(down) \in Seq(Generations)
    BY <1>13, TailFacts DEF Read
  <2> QED
    BY <1>13, <2>1 DEF Read, Submit
<1>14. CASE IgnoreEmpty \/ Return
  BY <1>2, <1>14 DEF IgnoreEmpty, Return
<1>18. CASE Take
  <2>1. PICK l \in Records : Load(l) /\ local' = l
    BY <1>18 DEF Take
  <2>2. local' \in Records /\ mishaps' \in 0..MaxMishaps
    BY <2>1, LoadFacts
  <2> QED
    BY <1>18, <2>2 DEF Take
<1>19. CASE Conclude
  <2>1. local' \in Records /\ (UNCHANGED mishaps \/ Mishap) /\ disk' \in {disk, local'}
    BY <1>19 DEF Conclude, Save, Records
  <2>2. disk' \in Records /\ mishaps' \in 0..MaxMishaps
    BY <2>1, MishapType
  <2> QED
    BY <1>19, <2>1, <2>2 DEF Conclude
<1>15. CASE ReportPhase \/ ReportOutcome
  <2>1. PICK report \in Reports : Build("worker", report)
    BY <1>2, <1>15 DEF ReportPhase, ReportOutcome, Reports
  <2>2. writers' \in [Goroutines -> Writers]
    BY <2>1, BuildType DEF Goroutines
  <2> QED
    BY <1>15, <2>2 DEF ReportPhase, ReportOutcome
<1>16. CASE UNCHANGED vars
  BY <1>16 DEF vars
<1> QED
  BY <1>3, <1>4, <1>5, <1>6, <1>7, <1>8, <1>9, <1>10, <1>11, <1>12, <1>13, <1>14, <1>15, <1>16,
     <1>17, <1>18, <1>19
  DEF Next, Session, Worker
-------------------------------------------------------------------------------
(* The steps that touch none of what the three invariants speak of.           *)

\* What the invariants below depend on.
tracked == <<desired, wire, greeted, down, session, hello, disk, docCh, worker, doc, local,
             handled>>

\* Reports are built, captured and written without touching it.
LEMMA Untracked ==
  \/ UNCHANGED vars
  \/ \E g \in Goroutines : Capture(g) \/ Write(g)
  \/ Tick
  => UNCHANGED tracked
BY DEF tracked, vars, gateway, store, workerVars, Capture, Write, Tick

\* Every step keeps messages to connections with a hello, and those open.
LEMMA WireStep ==
  ASSUME TypeOK, WireInv, [Next]_vars
  PROVE  WireInv'
<1> USE DEF WireInv, TypeOK, gateway, store, workerVars
<1>1. CASE UNCHANGED tracked
  BY <1>1 DEF tracked
<1>2. CASE SetDesired \/ Break \/ Ping
  BY <1>2 DEF SetDesired, Break, Ping
<1>3. CASE Dial \/ ObserveForHello \/ ReportAfterHello \/ ReadFails \/ Close
  BY <1>3 DEF Dial, ObserveForHello, ReportAfterHello, ReadFails, Close
<1>4. CASE Hello
  BY <1>4 DEF Hello, Reaches
<1>5. CASE Read
  BY <1>5 DEF Read
<1>6. CASE Worker
  BY <1>6 DEF Worker, IgnoreEmpty, Take, ReportPhase, Conclude, ReportOutcome, Return
<1> QED
  BY <1>1, <1>2, <1>3, <1>4, <1>5, <1>6, Untracked DEF Next, Session

\* Every step keeps the generations in turn.
LEMMA InTurnStep ==
  ASSUME TypeOK, WireInv, InTurn, NewestInv, [Next]_vars
  PROVE  InTurn'
<1> USE DEF InTurn, gateway, store, workerVars
<1>0. /\ desired \in Nat /\ doc \in Nat /\ docCh \in Nat /\ disk.generation \in Nat
      /\ handled \in Nat /\ local.generation \in Nat
      /\ down \in Seq(Generations) /\ Len(down) \in Nat /\ Generations \subseteq Nat
      /\ \A i \in 1..Len(down) : down[i] \in Nat
      /\ desired \in Generations
  BY LinkConstants DEF TypeOK, Generations, Records
<1>1. CASE UNCHANGED tracked
  BY <1>1 DEF tracked
<1>2. CASE SetDesired
  <2>1. desired' = desired + 1 /\ desired' \in Generations
    BY <1>0, <1>2, LinkConstants DEF SetDesired, Generations
  <2>2. CASE down' = down
    BY <1>0, <1>2, <2>1, <2>2 DEF SetDesired
  <2>3. CASE down' = Append(down, desired')
    <3>1. /\ Len(down') = Len(down) + 1 /\ down'[Len(down) + 1] = desired'
          /\ \A i \in 1..Len(down) : down'[i] = down[i]
      BY <1>0, <2>1, <2>3, AppendFacts
    <3> QED
      BY <1>0, <1>2, <2>1, <3>1 DEF SetDesired
  <2> QED
    BY <1>2, <2>2, <2>3 DEF SetDesired
<1>3. CASE Break
  BY <1>0, <1>3 DEF Break
<1>4. CASE Ping \/ Dial \/ ObserveForHello \/ ReportAfterHello \/ ReadFails \/ Close
  BY <1>0, <1>4 DEF Ping, Dial, ObserveForHello, ReportAfterHello, ReadFails, Close
<1>5. CASE Hello
  <2>1. down = <<>> /\ UNCHANGED <<desired, disk, docCh, worker, doc, local, handled>>
    BY <1>5 DEF Hello, WireInv
  <2>2. CASE down' = down
    BY <1>0, <2>1, <2>2
  <2>3. CASE down' = Append(down, desired)
    <3>1. Len(down') = 1 /\ down'[1] = desired
      BY <1>0, <2>1, <2>3, AppendFacts
    <3> QED
      BY <1>0, <2>1, <3>1
  <2> QED
    BY <1>5, <2>2, <2>3 DEF Hello
<1>6. CASE Read
  <2>1. /\ down # <<>> /\ docCh' = Head(down) /\ down' = Tail(down)
        /\ UNCHANGED <<desired, disk, worker, doc, local, handled>>
    BY <1>6 DEF Read, Submit
  <2>2. /\ docCh' = down[1] /\ Len(down') = Len(down) - 1 /\ Len(down) \in Nat \ {0}
        /\ \A i \in 1..Len(down') : down'[i] = down[i + 1]
    BY <1>0, <2>1, TailFacts
  <2> QED
    BY <1>0, <2>1, <2>2
<1>7. CASE IgnoreEmpty \/ Take
  <2>1. CASE IgnoreEmpty
    BY <1>0, <2>1 DEF IgnoreEmpty, NewestInv
  <2>2. CASE Take
    <3>1. local'.generation \in Nat /\ local'.generation <= disk.generation
      BY <2>2, LoadFacts DEF Take
    <3> QED
      BY <1>0, <2>2, <3>1 DEF Take, NewestInv
  <2> QED
    BY <1>7, <2>1, <2>2
<1>8. CASE ReportPhase \/ ReportOutcome
  BY <1>0, <1>8 DEF ReportPhase, ReportOutcome
<1>9. CASE Conclude
  <2>1. /\ disk'.generation \in {disk.generation, doc} /\ handled' = doc
        /\ worker = "apply" /\ worker' = "outcome"
        /\ UNCHANGED <<desired, down, docCh, doc>>
    BY <1>9 DEF Conclude, Save
  <2> QED
    BY <1>0, <2>1
<1>10. CASE Return
  BY <1>0, <1>10 DEF Return
<1> QED
  BY <1>1, <1>2, <1>3, <1>4, <1>5, <1>6, <1>7, <1>8, <1>9, <1>10, Untracked
  DEF Next, Session, Worker

\* Every step hands the newest desired state on.
LEMMA NewestStep ==
  ASSUME TypeOK, WireInv, InTurn, NewestInv, [Next]_vars
  PROVE  NewestInv'
<1> USE DEF NewestInv, gateway, store, workerVars
<1>0. /\ desired \in Nat /\ doc \in Nat /\ docCh \in Nat /\ handled \in Nat
      /\ hello \in Nat /\ disk.generation \in Nat
      /\ down \in Seq(Generations) /\ Len(down) \in Nat
      /\ desired \in Generations
      /\ disk.generation <= handled /\ handled <= desired /\ doc <= desired /\ docCh <= desired
  BY LinkConstants DEF TypeOK, Generations, Records, InTurn
<1>1. CASE UNCHANGED tracked
  BY <1>1 DEF tracked
<1>2. CASE SetDesired
  <2>1. desired' \in Generations
    BY <1>0, <1>2, LinkConstants DEF SetDesired, Generations
  <2>2. CASE wire = "open" /\ greeted
    <3>1. down' # <<>> /\ down'[Len(down')] = desired'
      BY <1>0, <1>2, <2>1, <2>2, AppendFacts DEF SetDesired
    <3> QED
      BY <1>2, <3>1 DEF SetDesired
  <2>3. CASE ~(wire = "open" /\ greeted)
    BY <1>2, <2>3 DEF SetDesired, WireInv
  <2> QED
    BY <2>2, <2>3
<1>3. CASE Break
  BY <1>3 DEF Break
<1>4. CASE Ping \/ Dial \/ ReportAfterHello \/ ReadFails \/ Close
  BY <1>4 DEF Ping, Dial, ReportAfterHello, ReadFails, Close
<1>5. CASE ObserveForHello
  <2>1. hello' \in Nat /\ hello' <= disk.generation
    BY <1>5, LoadFacts DEF ObserveForHello
  <2> QED
    BY <1>0, <1>5, <2>1 DEF ObserveForHello
<1>6. CASE Hello
  <2>1. /\ down = <<>> /\ UNCHANGED <<desired, hello, docCh, worker, doc, handled>>
        /\ hello <= handled /\ session' # "hello"
    BY <1>6 DEF Hello, WireInv
  <2>2. CASE greeted' /\ hello # desired
    <3>1. down' # <<>> /\ down'[Len(down')] = desired
      BY <1>0, <1>6, <2>2, AppendFacts DEF Hello
    <3> QED
      BY <2>1, <3>1
  <2>3. CASE greeted' /\ hello = desired
    <3>1. down' = <<>> /\ handled = desired
      BY <1>0, <1>6, <2>1, <2>3 DEF Hello
    <3> QED
      BY <2>1, <3>1
  <2>4. CASE ~greeted'
    BY <1>6, <2>1, <2>4 DEF Hello
  <2> QED
    BY <2>2, <2>3, <2>4
<1>7. CASE Read
  <2>1. /\ down # <<>> /\ docCh' = Head(down) /\ down' = Tail(down)
        /\ UNCHANGED <<desired, greeted, session, hello, worker, doc, handled>>
    BY <1>7 DEF Read, Submit
  <2>2. /\ down' # <<>> => down'[Len(down')] = desired
        /\ down' = <<>> => docCh' = desired
    BY <1>0, <2>1, TailFacts
  <2> QED
    BY <2>1, <2>2
<1>8. CASE IgnoreEmpty \/ Take
  <2>1. CASE IgnoreEmpty
    <3>1. handled <= docCh
      BY <2>1 DEF IgnoreEmpty, InTurn
    <3> QED
      BY <1>0, <2>1, <3>1 DEF IgnoreEmpty
  <2>2. CASE Take
    BY <1>0, <2>2 DEF Take
  <2> QED
    BY <1>8, <2>1, <2>2
<1>9. CASE ReportPhase \/ ReportOutcome
  BY <1>9 DEF ReportPhase, ReportOutcome
<1>10. CASE Conclude
  <2>1. /\ handled' = doc /\ worker = "apply" /\ worker' = "outcome"
        /\ UNCHANGED <<desired, greeted, down, session, hello, docCh, doc>>
    BY <1>10 DEF Conclude
  <2>2. handled <= doc
    BY <2>1 DEF InTurn
  <2> QED
    BY <1>0, <2>1, <2>2
<1>11. CASE Return
  BY <1>11 DEF Return
<1> QED
  BY <1>1, <1>2, <1>3, <1>4, <1>5, <1>6, <1>7, <1>8, <1>9, <1>10, <1>11, Untracked
  DEF Next, Session, Worker

\* Every value the link, the gateway and the goroutines take has its type.
THEOREM LinkTypeCorrect == Spec => []TypeOK
  BY LinkStart, LinkTypeStep, PTL DEF Spec

\* While the gateway believes it told the supervisor everything, the newest
\* desired state is on the wire, in the queue, being applied or done with, however
\* connections die, goroutines overtake each other, loads and saves of the state
\* file fail, and documents turn out empty.
THEOREM NewestNeverLost == Spec => []NewestOnItsWay
<1>1. /\ TypeOK /\ WireInv /\ InTurn /\ NewestInv /\ [Next]_vars
      => TypeOK' /\ WireInv' /\ InTurn' /\ NewestInv'
  BY LinkTypeStep, WireStep, InTurnStep, NewestStep
<1>2. TypeOK /\ NewestInv => NewestOnItsWay
  <2> SUFFICES ASSUME TypeOK, NewestInv, greeted
               PROVE  desired \in {handled, doc, docCh} \cup {down[i] : i \in DOMAIN down}
    BY DEF NewestOnItsWay
  <2>1. CASE down = <<>>
    BY <2>1 DEF NewestInv
  <2>2. CASE down # <<>>
    <3>1. Len(down) \in DOMAIN down
      BY <2>2 DEF TypeOK
    <3> QED
      BY <2>2, <3>1 DEF NewestInv
  <2> QED
    BY <2>1, <2>2
<1> QED
  BY <1>1, <1>2, LinkStart, PTL DEF Spec
===============================================================================
