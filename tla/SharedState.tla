------------------------------ MODULE SharedState ------------------------------
(***************************************************************************)
(* What the goroutines of one application share: the document queue of     *)
(* link.Run and the state file.  The worker takes a document, loads the    *)
(* file and saves it, while the session and the ticker read it for their   *)
(* reports (Observe); only its generation matters here.  The process may   *)
(* die at any time; its successor is sent the newest document again.       *)
(***************************************************************************)
EXTENDS LatestWins, AtomicFile

\* A missing file is one with generation 0; what is torn or unread is none.
ASSUME GenerationsAssumption ==
  /\ Values = 0..MaxDocs /\ Empty = 0
  /\ Torn \notin Values /\ Unread \notin Values

VARIABLES
  mem,       \* the generation in the worker's copy of the state
  lost,      \* history: the file could not be loaded, and no outcome was saved since
  last       \* history: the newest generation each reader found

allVars == <<vars, mem, lost, last, fileVars>>

SharedInit ==
  /\ Init /\ FileInit
  /\ mem = 0 /\ lost = FALSE /\ last = [r \in Readers |-> 0]

\* A step of the queue alone.
Queueing ==
  /\ Submit \/ Send \/ Full \/ Evict \/ Quiet
  /\ UNCHANGED <<mem, lost, last, fileVars>>

\* Mutant: the worker keeps its copy from one Apply to the next.
TakeOnly == Take /\ UNCHANGED <<mem, lost, last, fileVars>>

\* Apply begins with state.Load.  A file that cannot be read or parsed counts as an
\* empty one: its error is only logged, and what is saved next has generation 0.
TakeAndLoad ==
  /\ Take
  /\ \/ file \in Values /\ mem' = file /\ UNCHANGED lost
     \/ mem' = 0 /\ lost' = TRUE
  /\ UNCHANGED <<last, fileVars>>

\* The marker keeps the generation, the outcome takes the document's.
SaveState ==
  /\ worker = "applying"
  /\ \E generation \in {mem, taken} : Save(generation) /\ mem' = generation
  /\ UNCHANGED <<vars, lost, last>>

\* A failed save is only logged.
Saving ==
  /\ \/ (WriteTemp \/ SaveFails) /\ UNCHANGED lost
     \/ Rename /\ lost' = IF new = taken THEN FALSE ELSE lost
  /\ UNCHANGED <<vars, mem, last>>

Return == Applied /\ at = "idle" /\ UNCHANGED <<mem, lost, last, fileVars>>

\* Observe: after an error its report carries generation 0.
Observe ==
  /\ \E r \in Readers :
       /\ ReadFile(r)
       /\ last' = IF got'[r] \in Values /\ got'[r] > last[r]
                  THEN [last EXCEPT ![r] = got'[r]] ELSE last
  /\ UNCHANGED <<vars, mem, lost>>

WriteBack == Flush /\ UNCHANGED <<vars, mem, lost, last>>

\* The next process is sent the newest document: the one this process has, if
\* it has been sent any, or one that came since.
Die ==
  /\ FileDies
  /\ docCh' = None /\ submitPc' = "idle" /\ worker' = "waiting" /\ taken' = None
  /\ hand' \in IF submitPc = "idle" /\ docCh = None /\ taken = None
              THEN {hand} ELSE {hand - 1, hand}
  /\ mem' = 0
  /\ UNCHANGED <<lost, last>>

SharedNext ==
  Queueing \/ TakeAndLoad \/ SaveState \/ Saving \/ Return \/ Observe \/ WriteBack \/ Die

SharedSpec ==
  /\ SharedInit /\ [][SharedNext]_allVars
  /\ WF_allVars((Send \/ Full \/ Evict) /\ UNCHANGED <<mem, lost, last, fileVars>>)
-------------------------------------------------------------------------------
\* The generation a goroutine finds in the file is never older than one it found
\* before: documents reach the worker in order, and no reader sees a save half
\* done.  Only an Apply that could not load the file takes it back, until an
\* outcome is saved.
ReportedInOrder ==
  [][\A r \in Readers :
       got'[r] # got[r] /\ got'[r] \in Values /\ ~lost => got'[r] >= last[r]]_allVars
-------------------------------------------------------------------------------
\* No newer than what is applied, waiting or submitted; after a death at most
\* one document ahead of what the next process was sent.
NotAhead(generation) ==
  /\ taken # None => generation <= taken
  /\ docCh # None => generation <= docCh
  /\ generation <= hand + 1
  /\ submitPc # "idle" \/ docCh # None \/ taken # None => generation <= hand

\* What was found, is recorded, in the worker's memory, being applied, waiting and
\* submitted is in this order.
InOrder ==
  /\ file \in Values /\ mem \in Values /\ last \in [Readers -> Values]
  /\ got \in [Readers -> Values \cup {Unread}] /\ lost \in BOOLEAN
  /\ NotAhead(file)
  /\ \A r \in Readers : NotAhead(last[r]) /\ (~lost => last[r] <= file)
  /\ worker = "waiting" => at = "idle"
  /\ worker = "applying" => /\ taken # None /\ mem <= taken
                            /\ ~lost => file <= mem
                            /\ new # NoValue => new = mem
===============================================================================
