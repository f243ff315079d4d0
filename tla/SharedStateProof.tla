--------------------------- MODULE SharedStateProof ---------------------------
(***************************************************************************)
(* The queue implements the mailbox and the replaced file the register,    *)
(* each by itself and then together, in the steps of the goroutines that   *)
(* share them, for any number of documents and readers.  What relates the  *)
(* two, the order of generations, is proved last.                          *)
(***************************************************************************)
EXTENDS SharedState, TLAPS

(* The queue.                                                                 *)

\* Every step keeps what waits and what was taken older than what is submitted.
LEMMA QueueStep ==
  ASSUME QueueInv, [Next]_vars
  PROVE  QueueInv'
<1> USE MaxDocsAssumption DEF QueueInv, TypeOK, Docs, None
<1>1. CASE Submit
  BY <1>1 DEF Submit
<1>2. CASE Send
  BY <1>2 DEF Send
<1>3. CASE Full
  BY <1>3 DEF Full
<1>4. CASE Evict
  BY <1>4 DEF Evict
<1>5. CASE Take
  BY <1>5 DEF Take
<1>6. CASE Applied
  BY <1>6 DEF Applied
<1>7. CASE UNCHANGED vars
  BY <1>7 DEF vars
<1> QED
  BY <1>1, <1>2, <1>3, <1>4, <1>5, <1>6, <1>7 DEF Next, Quiet

\* The queue begins empty.
LEMMA QueueStart == Init => QueueInv
  BY MaxDocsAssumption DEF Init, QueueInv, TypeOK, Docs, None

\* A submit that has returned left its document where the worker will find it.
THEOREM NewestNeverEvicted == Spec => []NewestSurvives
<1>1. Init => NewestSurvives
  BY DEF Init, NewestSurvives
<1>2. QueueInv /\ NewestSurvives /\ [Next]_vars => NewestSurvives'
  <2> SUFFICES ASSUME QueueInv, NewestSurvives, [Next]_vars PROVE NewestSurvives'
    OBVIOUS
  <2> USE MaxDocsAssumption DEF QueueInv, TypeOK, Docs, None, NewestSurvives
  <2>1. CASE Submit \/ Full \/ Evict
    BY <2>1 DEF Submit, Full, Evict
  <2>2. CASE Send
    BY <2>2 DEF Send
  <2>3. CASE Take
    BY <2>3 DEF Take
  <2>4. CASE Applied \/ UNCHANGED vars
    BY <2>4 DEF Applied, vars
  <2> QED
    BY <2>1, <2>2, <2>3, <2>4 DEF Next, Quiet
<1> QED
  BY <1>1, <1>2, QueueStart, QueueStep, PTL DEF Spec

\* Every step of the channel and of submit is a step of the mailbox, or none.
LEMMA QueueMaps ==
  ASSUME QueueInv, [Next]_vars
  PROVE  [Queue!Next]_(Queue!vars)
<1> USE MaxDocsAssumption DEF QueueInv, TypeOK, Docs, None, Queue!vars
<1>1. CASE Submit \/ Full \/ Applied \/ UNCHANGED vars
  BY <1>1 DEF Submit, Full, Applied, vars
<1>2. CASE Send
  <2>1. CASE submitPc = "send"
    <3>1. Queue!Put
      BY <1>2, <2>1 DEF Send, Queue!Put
    <3> QED
      BY <3>1 DEF Queue!Next
  <2>2. CASE submitPc = "again"
    BY <1>2, <2>2 DEF Send
  <2> QED
    BY <1>2, <2>1, <2>2 DEF Send
<1>3. CASE Evict
  <2>1. Queue!Put
    BY <1>3 DEF Evict, Queue!Put
  <2> QED
    BY <2>1 DEF Queue!Next
<1>4. CASE Take
  <2>1. Queue!Take
    BY <1>4 DEF Take, Queue!Take
  <2> QED
    BY <2>1 DEF Queue!Next
<1> QED
  BY <1>1, <1>2, <1>3, <1>4 DEF Next, Quiet

\* The empty channel is the empty mailbox.
LEMMA QueueMapsStart == Init => Queue!Init
  BY DEF Init, Queue!Init

\* The channel with its select loop is a latest-wins mailbox.
THEOREM QueueRefinesMailbox == Spec => ImplementsMailbox
  BY QueueStart, QueueStep, QueueMapsStart, QueueMaps, PTL
     DEF Spec, ImplementsMailbox, Queue!Spec
-------------------------------------------------------------------------------
(* The file.                                                                  *)

\* While Save is under way there is something to save, and what is about to be
\* renamed is all of it.
LEMMA FileStep ==
  ASSUME FileInv, [FileNext]_fileVars
  PROVE  FileInv'
<1> USE NoValueAssumption DEF FileInv
<1>1. ASSUME NEW v \in Values, Save(v) PROVE FileInv'
  BY <1>1 DEF Save
<1>2. CASE WriteTemp
  BY <1>2 DEF WriteTemp
<1>3. CASE Rename
  BY <1>3 DEF Rename
<1>4. CASE SaveFails
  BY <1>4 DEF SaveFails
<1>5. CASE \E r \in Readers : ReadFile(r)
  BY <1>5 DEF ReadFile
<1>6. CASE Flush \/ UNCHANGED fileVars
  BY <1>6 DEF Flush, fileVars
<1>7. CASE FileDies
  BY <1>7 DEF FileDies
<1> QED
  BY <1>1, <1>2, <1>3, <1>4, <1>5, <1>6, <1>7 DEF FileNext, SaveSteps

\* Without power cuts every step of a save, a read or a death beside it is a step
\* of the register, or none.
LEMMA FileMaps ==
  ASSUME PowerCuts = FALSE, FileInv, [FileNext]_fileVars
  PROVE  [Contents!Next]_(Contents!vars)
<1> USE DEF FileInv, Contents!vars
<1>1. ASSUME NEW v \in Values, Save(v) PROVE Contents!Begin(v)
  BY <1>1 DEF Save, Contents!Begin
<1>2. CASE WriteTemp
  BY <1>2 DEF WriteTemp
<1>3. CASE Rename
  <2>1. Contents!Commit
    BY <1>3 DEF Rename, Contents!Commit
  <2> QED
    BY <2>1 DEF Contents!Next
<1>4. CASE SaveFails
  <2>1. Contents!GiveUp
    BY <1>4 DEF SaveFails, Contents!GiveUp
  <2> QED
    BY <2>1 DEF Contents!Next
<1>5. ASSUME NEW r \in Readers, ReadFile(r) PROVE Contents!Read(r)
  BY <1>5 DEF ReadFile, Contents!Read
<1>6. CASE Flush \/ UNCHANGED fileVars
  BY <1>6 DEF Flush, fileVars
<1>7. CASE FileDies
  <2>1. CASE new = NoValue
    BY <1>7, <2>1 DEF FileDies
  <2>2. CASE new # NoValue
    <3>1. Contents!GiveUp
      BY <1>7, <2>2 DEF FileDies, Contents!GiveUp
    <3> QED
      BY <3>1 DEF Contents!Next
  <2> QED
    BY <2>1, <2>2
<1> QED
  BY <1>1, <1>2, <1>3, <1>4, <1>5, <1>6, <1>7 DEF FileNext, SaveSteps, Contents!Next

\* No file is the register's empty value, and nothing is being saved.
LEMMA FileStart == FileInit => FileInv /\ Contents!Init
  BY DEF FileInit, FileInv, Contents!Init

\* Save, with its temporary file, its failures and its end in the middle, and
\* every read beside it, do what a register does.
THEOREM FileRefinesRegister ==
  ASSUME PowerCuts = FALSE
  PROVE  FileSpec => ImplementsRegister
<1>1. FileInv /\ [FileNext]_fileVars => FileInv' /\ [Contents!Next]_(Contents!vars)
  BY FileStep, FileMaps
<1> QED
  BY <1>1, FileStart, PTL DEF FileSpec, ImplementsRegister, Contents!Spec
-------------------------------------------------------------------------------
(* Together.                                                                  *)

\* What the goroutines do to the queue are the queue's own steps, or a death.
LEMMA SharedQueueing ==
  ASSUME [SharedNext]_allVars
  PROVE  [Next]_vars \/ Die
BY DEF SharedNext, allVars, Queueing, TakeAndLoad, SaveState, Saving, Return, Observe,
       WriteBack, Next

\* A death empties the queue; what its successor is sent is as new as what was
\* taken.
LEMMA SharedQueueStep ==
  ASSUME QueueInv, [SharedNext]_allVars
  PROVE  QueueInv'
<1>1. CASE Die
  BY <1>1, MaxDocsAssumption DEF Die, QueueInv, TypeOK, Docs, None
<1> QED
  BY <1>1, SharedQueueing, QueueStep

\* With the state file beside it, and deaths, the queue is a latest-wins mailbox.
THEOREM SharedQueueIsMailbox == SharedSpec => ImplementsMailbox
<1>1. QueueInv /\ [SharedNext]_allVars => [Queue!Next]_(Queue!vars)
  <2>1. Die => Queue!Next
    BY DEF Die, Queue!Next, Queue!Lose
  <2> QED
    BY <2>1, SharedQueueing, QueueMaps
<1>2. SharedInit => Init
  BY DEF SharedInit
<1> QED
  BY <1>1, <1>2, QueueStart, QueueMapsStart, SharedQueueStep, PTL
     DEF SharedSpec, ImplementsMailbox, Queue!Spec

\* What the goroutines do to the file are the file's own steps.
LEMMA SharedFiling ==
  ASSUME QueueInv, mem \in Values, [SharedNext]_allVars
  PROVE  [FileNext]_fileVars
<1>1. CASE SaveState
  <2>1. taken \in Values
    BY MaxDocsAssumption, GenerationsAssumption DEF QueueInv, TypeOK, Docs, None
  <2> QED
    BY <1>1, <2>1 DEF SaveState, FileNext
<1> QED
  BY <1>1 DEF SharedNext, allVars, Queueing, TakeAndLoad, Saving, Return, Observe,
              WriteBack, Die, FileNext, SaveSteps

\* The worker's copy holds the generation of a document, or none.
LEMMA MemStep ==
  ASSUME QueueInv, mem \in Values, [SharedNext]_allVars
  PROVE  mem' \in Values
<1>1. 0 \in Values /\ taken \in Values
  BY MaxDocsAssumption, GenerationsAssumption DEF QueueInv, TypeOK, Docs, None
<1> QED
  BY <1>1 DEF SharedNext, allVars, Queueing, TakeAndLoad, SaveState, Saving, Return, Observe,
              WriteBack, Die

\* The state file is a register, however its readers, its writer, failing saves
\* and deaths interleave.
THEOREM StateFileIsRegister ==
  ASSUME PowerCuts = FALSE
  PROVE  SharedSpec => ImplementsRegister
<1>1. SharedInit => QueueInv /\ mem \in Values /\ FileInv /\ Contents!Init
  BY QueueStart, FileStart, MaxDocsAssumption, GenerationsAssumption DEF SharedInit
<1>2. QueueInv /\ mem \in Values /\ FileInv /\ [SharedNext]_allVars
        => (QueueInv /\ mem \in Values /\ FileInv)'
  BY SharedQueueStep, MemStep, SharedFiling, FileStep
<1>3. QueueInv /\ mem \in Values /\ FileInv /\ [SharedNext]_allVars
        => [Contents!Next]_(Contents!vars)
  BY SharedFiling, FileMaps
<1> QED
  BY <1>1, <1>2, <1>3, PTL DEF SharedSpec, ImplementsRegister, Contents!Spec
-------------------------------------------------------------------------------
(* The order of what is reported.                                             *)

\* Documents and generations are numbers, and what a reader finds after one step
\* it found in the file.
LEMMA Numbers ==
  ASSUME QueueInv, InOrder
  PROVE  /\ hand \in Nat /\ docCh \in Nat /\ taken \in Nat
         /\ taken \in Values /\ Values \subseteq Nat /\ 0 \in Values
         /\ file \in Nat /\ mem \in Nat /\ \A r \in Readers : last[r] \in Nat
BY MaxDocsAssumption, GenerationsAssumption DEF QueueInv, TypeOK, Docs, None, InOrder

\* One below what is not below, and one more, is not below.
LEMMA OneBelow ==
  ASSUME NEW g \in Nat, NEW h \in Nat, NEW k \in {h - 1, h}, g <= h
  PROVE  g <= k + 1
OBVIOUS

\* A step of the queue leaves what was recorded no newer than what is on its way.
LEMMA NotAheadStep ==
  ASSUME QueueInv, [Next]_vars \/ Die, NEW generation \in Nat, NotAhead(generation)
  PROVE  NotAhead(generation)'
<1> USE MaxDocsAssumption DEF QueueInv, TypeOK, Docs, None, NotAhead
<1>1. CASE Submit
  BY <1>1 DEF Submit
<1>2. CASE Send
  BY <1>2 DEF Send
<1>3. CASE Full \/ Evict
  BY <1>3 DEF Full, Evict
<1>4. CASE Take
  BY <1>4 DEF Take
<1>5. CASE Applied \/ UNCHANGED vars
  BY <1>5 DEF Applied, vars
<1>6. CASE Die
  <2>1. docCh' = None /\ taken' = None /\ submitPc' = "idle"
    BY <1>6 DEF Die
  <2>2. CASE submitPc = "idle" /\ docCh = None /\ taken = None
    <3>1. hand' = hand
      BY <1>6, <2>2 DEF Die
    <3> QED
      BY <2>1, <3>1
  <2>3. CASE ~(submitPc = "idle" /\ docCh = None /\ taken = None)
    <3>1. hand' \in {hand - 1, hand}
      BY <1>6, <2>3, Zenon DEF Die
    <3>2. generation <= hand /\ hand \in Nat
      BY <2>3
    <3>3. generation <= hand' + 1
      BY <3>1, <3>2, OneBelow
    <3> QED
      BY <2>1, <3>3
  <2> QED
    BY <2>2, <2>3
<1> QED
  BY <1>1, <1>2, <1>3, <1>4, <1>5, <1>6 DEF Next, Quiet

\* Every step keeps the generations in order, from what a reader found to what
\* the cloud has sent.
LEMMA InOrderStep ==
  ASSUME PowerCuts = FALSE, QueueInv, FileInv, InOrder, [SharedNext]_allVars
  PROVE  InOrder'
<1> USE NoValueAssumption, GenerationsAssumption DEF FileInv, InOrder, None, fileVars
<1>0. /\ hand \in Nat /\ docCh \in Nat /\ taken \in Nat
      /\ taken \in Values /\ Values \subseteq Nat /\ 0 \in Values
      /\ file \in Nat /\ mem \in Nat /\ \A r \in Readers : last[r] \in Nat
      /\ \A generation \in Nat : NotAhead(generation) => NotAhead(generation)'
  BY Numbers, NotAheadStep, SharedQueueing
<1>1. CASE Queueing
  <2>1. UNCHANGED <<mem, lost, last, fileVars, worker, taken>>
    BY <1>1 DEF Queueing, Submit, Send, Full, Evict, Quiet, vars
  <2> QED
    BY <1>0, <2>1
<1>2. CASE TakeAndLoad
  <2>1. /\ UNCHANGED <<last, fileVars>> /\ worker = "waiting" /\ worker' = "applying"
        /\ taken' = docCh /\ docCh # 0
    BY <1>2 DEF TakeAndLoad, Take
  <2>2. \/ mem' = file /\ lost' = lost
        \/ mem' = 0 /\ lost' = TRUE
    BY <1>2 DEF TakeAndLoad
  <2>3. file <= docCh
    BY <2>1 DEF NotAhead
  <2>4. CASE mem' = file /\ lost' = lost
    BY <1>0, <2>1, <2>3, <2>4
  <2>5. CASE mem' = 0 /\ lost' = TRUE
    BY <1>0, <2>1, <2>5
  <2> QED
    BY <2>2, <2>4, <2>5
<1>3. CASE SaveState
  <2>1. PICK generation \in {mem, taken} : Save(generation) /\ mem' = generation
    BY <1>3 DEF SaveState
  <2>2. worker = "applying" /\ UNCHANGED <<docCh, submitPc, hand, worker, taken, lost, last>>
    BY <1>3 DEF SaveState, vars
  <2>3. /\ new' = mem' /\ UNCHANGED <<file, got>>
        /\ mem <= mem' /\ mem' <= taken' /\ mem' \in Values
    BY <1>0, <2>1, <2>2 DEF Save
  <2> QED
    BY <1>0, <2>2, <2>3
<1>4. CASE Saving
  <2>1. UNCHANGED <<docCh, submitPc, hand, worker, taken, mem, last>>
    BY <1>4 DEF Saving, vars
  <2>2. CASE (WriteTemp \/ SaveFails) /\ UNCHANGED lost
    <3>1. UNCHANGED <<file, got>> /\ new' \in {new, NoValue} /\ at # "idle"
      BY <2>2 DEF WriteTemp, SaveFails
    <3> QED
      BY <1>0, <2>1, <2>2, <3>1
  <2>3. CASE Rename /\ lost' = IF new = taken THEN FALSE ELSE lost
    <3>1. /\ file' = mem /\ at' = "idle" /\ new' = NoValue /\ got' = got
          /\ worker = "applying" /\ new = mem
      BY <2>3 DEF Rename, QueueInv, TypeOK
    <3>2. NotAhead(mem)
      BY <1>0, <3>1 DEF NotAhead, QueueInv
    <3>3. NotAhead(file)' /\ \A r \in Readers : NotAhead(last[r])'
      BY <2>1, <3>1, <3>2 DEF NotAhead
    <3>4. \A r \in Readers : ~lost' => last'[r] <= file'
      <4>1. CASE mem = taken
        BY <2>1, <3>1, <4>1 DEF NotAhead
      <4>2. CASE mem # taken
        <5>1. lost' = lost
          BY <2>3, <3>1, <4>2
        <5> QED
          BY <1>0, <2>1, <3>1, <5>1
      <4> QED
        BY <4>1, <4>2
    <3>5. lost' \in BOOLEAN
      BY <2>3
    <3> QED
      BY <1>0, <2>1, <3>1, <3>3, <3>4, <3>5
  <2> QED
    BY <1>4, <2>2, <2>3 DEF Saving
<1>5. CASE Return
  BY <1>0, <1>5 DEF Return, Applied
<1>6. CASE Observe
  <2>1. PICK r \in Readers :
          /\ ReadFile(r)
          /\ last' = IF got'[r] \in Values /\ got'[r] > last[r]
                     THEN [last EXCEPT ![r] = got'[r]] ELSE last
    BY <1>6 DEF Observe
  <2>2. UNCHANGED <<docCh, submitPc, hand, worker, taken, mem, lost, file, tmp, new, at>>
    BY <1>6, <2>1 DEF Observe, ReadFile, vars
  <2>3. got' \in [Readers -> Values \cup {Unread}] /\ got'[r] \in {file, Unread}
    BY <2>1 DEF ReadFile
  <2>4. \/ last' = last
        \/ got'[r] \in Values /\ last' = [last EXCEPT ![r] = got'[r]]
    BY <2>1
  <2>5. last' = last \/ last' = [last EXCEPT ![r] = file]
    BY <2>3, <2>4
  <2>6. /\ last' \in [Readers -> Values]
        /\ \A q \in Readers : last'[q] \in {last[q], file}
    BY <2>5
  <2>7. \A q \in Readers : NotAhead(last[q])'
    BY <2>2, <2>6 DEF NotAhead
  <2>8. NotAhead(file)'
    BY <2>2 DEF NotAhead
  <2>9. \A q \in Readers : ~lost => last'[q] <= file
    BY <1>0, <2>6
  <2> QED
    BY <2>2, <2>3, <2>6, <2>7, <2>8, <2>9
<1>7. CASE WriteBack \/ UNCHANGED allVars
  BY <1>0, <1>7 DEF WriteBack, Flush, allVars, vars
<1>8. CASE Die
  <2>1. /\ UNCHANGED <<file, lost, last, got>> /\ new' = NoValue /\ at' = "idle"
        /\ worker' = "waiting" /\ mem' = 0
    BY <1>8 DEF Die, FileDies
  <2> QED
    BY <1>0, <2>1
<1> QED
  BY <1>1, <1>2, <1>3, <1>4, <1>5, <1>6, <1>7, <1>8 DEF SharedNext

\* Only a reader finds anything.
LEMMA FoundByReaders ==
  ASSUME InOrder, [SharedNext]_allVars, NEW r \in Readers, got'[r] # got[r]
  PROVE  got'[r] \in {file, Unread}
<1>1. Observe
  BY DEF SharedNext, allVars, Queueing, TakeAndLoad, SaveState, Save, Saving,
         WriteTemp, Rename, SaveFails, Return, WriteBack, Flush, Die, FileDies, fileVars
<1>2. PICK q \in Readers : ReadFile(q)
  BY <1>1 DEF Observe
<1> QED
  BY <1>2 DEF ReadFile, InOrder

\* The generation a goroutine finds in the state file is never older than one it
\* found before, through late documents, failing saves and reads, and deaths, but
\* for an Apply that could not load the file.
THEOREM ReportsStayInOrder ==
  ASSUME PowerCuts = FALSE
  PROVE  SharedSpec => ReportedInOrder
<1>1. SharedInit => QueueInv /\ mem \in Values /\ FileInv /\ InOrder
  <2> SUFFICES ASSUME SharedInit PROVE QueueInv /\ mem \in Values /\ FileInv /\ InOrder
    OBVIOUS
  <2>1. QueueInv /\ FileInv
    BY QueueStart, FileStart DEF SharedInit
  <2>2. mem \in Values /\ file \in Values /\ lost \in BOOLEAN
    <3>1. 0 \in Values
      BY MaxDocsAssumption, GenerationsAssumption
    <3> QED
      BY <3>1, GenerationsAssumption DEF SharedInit, FileInit
  <2>3. last = [r \in Readers |-> 0] /\ got = [r \in Readers |-> 0] /\ file = 0
    BY GenerationsAssumption DEF SharedInit, FileInit
  <2>4. NotAhead(0)
    BY DEF SharedInit, Init, NotAhead, None
  <2>5. last \in [Readers -> Values] /\ got \in [Readers -> Values \cup {Unread}]
    BY <2>3, MaxDocsAssumption, GenerationsAssumption
  <2>6. \A r \in Readers : NotAhead(last[r]) /\ last[r] <= file
    BY <2>3, <2>4
  <2>7. worker = "waiting" /\ at = "idle" /\ NotAhead(file)
    BY <2>3, <2>4 DEF SharedInit, Init, FileInit
  <2> QED
    BY <2>1, <2>2, <2>5, <2>6, <2>7 DEF InOrder
<1>2. QueueInv /\ mem \in Values /\ FileInv /\ InOrder /\ [SharedNext]_allVars
        => (QueueInv /\ mem \in Values /\ FileInv /\ InOrder)'
  BY SharedQueueStep, MemStep, SharedFiling, FileStep, InOrderStep
<1>3. InOrder /\ [SharedNext]_allVars
        => [\A r \in Readers : got'[r] # got[r] /\ got'[r] \in Values /\ ~lost
              => got'[r] >= last[r]]_allVars
  <2> SUFFICES ASSUME InOrder, [SharedNext]_allVars, NEW r \in Readers,
                      got'[r] # got[r], got'[r] \in Values, ~lost
               PROVE  got'[r] >= last[r]
    OBVIOUS
  <2>1. got'[r] = file
    BY FoundByReaders, GenerationsAssumption
  <2> QED
    BY <2>1, MaxDocsAssumption, GenerationsAssumption DEF InOrder
<1> QED
  BY <1>1, <1>2, <1>3, PTL DEF SharedSpec, ReportedInOrder
===============================================================================
