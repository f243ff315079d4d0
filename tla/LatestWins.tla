------------------------------ MODULE LatestWins ------------------------------
(***************************************************************************)
(* The queue between a Link session and the reconciliation worker (Run in  *)
(* supervisor/link/client.go): a channel of capacity one and the select    *)
(* loop of submit, interleaved with the worker's receive.  Sessions follow *)
(* one another, so there is one submitter at a time.                       *)
(***************************************************************************)
EXTENDS Naturals

CONSTANT MaxDocs       \* bound on the number of documents

ASSUME MaxDocsAssumption == MaxDocs \in Nat

VARIABLES
  docCh,     \* the channel's content: a document or None
  submitPc,  \* where submit is: "idle", "send", "evict" or, after it, "again"
  hand,      \* the document being submitted, the newest one so far
  worker,    \* "waiting" in its select or "applying"
  taken      \* the last document the worker took

vars == <<docCh, submitPc, hand, worker, taken>>

Docs == 1..MaxDocs
None == 0

TypeOK ==
  /\ docCh \in Docs \cup {None} /\ hand \in Docs \cup {None}
  /\ submitPc \in {"idle", "send", "evict", "again"}
  /\ worker \in {"waiting", "applying"}
  /\ taken \in Docs \cup {None}

Init ==
  /\ docCh = None /\ submitPc = "idle" /\ hand = None
  /\ worker = "waiting" /\ taken = None

\* The session has read the next state message.
Submit ==
  /\ submitPc = "idle" /\ hand < MaxDocs
  /\ submitPc' = "send" /\ hand' = hand + 1
  /\ UNCHANGED <<docCh, worker, taken>>

\* case docCh <- doc: return
Send ==
  /\ submitPc \in {"send", "again"} /\ docCh = None
  /\ docCh' = hand
  /\ submitPc' = "idle"
  /\ UNCHANGED <<hand, worker, taken>>

\* default: the channel is full.
Full ==
  /\ submitPc \in {"send", "again"} /\ docCh # None
  /\ submitPc' = "evict"
  /\ UNCHANGED <<docCh, hand, worker, taken>>

\* Mutant: nothing is evicted, submit waits for room.
WaitForRoom ==
  /\ submitPc = "evict"
  /\ submitPc' = "again"
  /\ UNCHANGED <<docCh, hand, worker, taken>>

\* case <-docCh, or default when the worker has just taken it.
Evict ==
  /\ submitPc = "evict"
  /\ docCh' = None
  /\ submitPc' = "again"
  /\ UNCHANGED <<hand, worker, taken>>

\* Mutant: the document is read but stays in the queue.
TakeACopy ==
  /\ worker = "waiting" /\ docCh # None
  /\ taken' = docCh
  /\ worker' = "applying"
  /\ UNCHANGED <<docCh, submitPc, hand>>

\* case doc := <-docCh
Take ==
  /\ worker = "waiting" /\ docCh # None
  /\ taken' = docCh /\ docCh' = None
  /\ worker' = "applying"
  /\ UNCHANGED <<submitPc, hand>>

\* Apply returns.
Applied ==
  /\ worker = "applying"
  /\ worker' = "waiting"
  /\ UNCHANGED <<docCh, submitPc, hand, taken>>

\* Both sides block: everything submitted has been taken.
Quiet ==
  /\ hand = MaxDocs /\ submitPc = "idle" /\ docCh = None /\ worker = "waiting"
  /\ UNCHANGED vars

Next == Submit \/ Send \/ Full \/ Evict \/ Take \/ Applied \/ Quiet

Spec == Init /\ [][Next]_vars

\* Only submit is sure to go on: an Apply may take as long as it likes.
Fairness == WF_vars(Send \/ Full \/ Evict)

FairSpec == Spec /\ Fairness
-------------------------------------------------------------------------------
\* The last document submitted is never the one that is evicted: once submit
\* has returned, it is waiting or it was taken.
NewestSurvives == submitPc = "idle" => hand \in {docCh, taken}

\* submit never holds up the session that reads from the connection, however
\* long the worker applies.
SubmitReturns == submitPc # "idle" ~> submitPc = "idle"

\* Once it has tried to evict, submit's document is the one in the box.
Queue == INSTANCE Mailbox WITH
  box <- IF submitPc = "again" THEN hand ELSE docCh

\* The channel and its select loop implement the latest-wins mailbox; in
\* particular documents are taken in the order they were submitted.
ImplementsMailbox == Queue!Spec
-------------------------------------------------------------------------------
\* What waits or was taken is older than what submit holds, and after an
\* eviction there is room.
QueueInv ==
  /\ TypeOK
  /\ docCh <= hand /\ taken <= hand
  /\ docCh # None => taken < docCh
  /\ submitPc # "idle" => docCh < hand /\ taken < hand
  /\ submitPc = "again" => docCh = None
===============================================================================
