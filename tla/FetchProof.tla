------------------------------ MODULE FetchProof ------------------------------
(***************************************************************************)
(* The artifact store is fail-closed for every set of artifacts, whatever  *)
(* sources serve and however often the process ends, and the attempts and  *)
(* temporary files of its calls are bounded.                               *)
(***************************************************************************)
EXTENDS Fetch, TLAPS

USE ConstantsAssumption

\* Every step keeps the types.
LEMMA FetchTypeStep == TypeOK /\ Counted /\ [Next]_vars => TypeOK'
<1> SUFFICES ASSUME TypeOK, Counted, [Next]_vars PROVE TypeOK'
  OBVIOUS
<1> USE DEF TypeOK, FetchAttempts
<1>1. CASE \E a \in Artifacts : Call(a)
  BY <1>1 DEF Call
<1>2. CASE Hit
  BY <1>2 DEF Hit, EndAttempt, RemoveTemp, Return, Counted
<1>3. CASE Answered
  BY <1>3 DEF Answered, callVars
<1>4. CASE RequestFails
  BY <1>4 DEF RequestFails, Transient, EndAttempt, RemoveTemp, Return
<1>5. CASE \E a \in Artifacts : Streamed(a)
  BY <1>5 DEF Streamed, callVars
<1>6. CASE StreamFails
  BY <1>6 DEF StreamFails, Transient, EndAttempt, RemoveTemp, Return
<1>7. CASE Mismatch
  BY <1>7 DEF Mismatch, EndAttempt, RemoveTemp, Return
<1>8. CASE Store
  BY <1>8 DEF Store, EndAttempt, RemoveTemp, Return, Counted
<1>9. CASE StoreFails
  BY <1>9 DEF StoreFails, Transient, EndAttempt, RemoveTemp, Return
<1>10. CASE Backoff
  BY <1>10 DEF Backoff, LastAttempt, Return
<1>11. CASE Cancel
  BY <1>11 DEF Cancel, callVars
<1>12. CASE Die
  <2>1. outcomes' \in Seq({"transient", "mismatch", "stored", "hit"}) /\ deaths' \in 0..MaxDeaths
    BY <1>12 DEF Die, ConstantsAssumption
  <2>2. left' \in Nat
    BY <1>12 DEF Die
  <2>3. /\ pc' = "idle" /\ want' = None /\ attempt' = 1 /\ temp' = None /\ handed' = None
        /\ files' = files
    BY <1>12 DEF Die
  <2>4. canceled' \in BOOLEAN
    BY <1>12, Zenon DEF Die
  <2> QED
    BY <2>1, <2>2, <2>3, <2>4
<1>13. CASE UNCHANGED vars
  BY <1>13 DEF vars, callVars
<1> QED
  BY <1>1, <1>2, <1>3, <1>4, <1>5, <1>6, <1>7, <1>8, <1>9, <1>10, <1>11, <1>12, <1>13
  DEF Next, Work

\* An attempt that fails for a passing reason is one more of them.
LEMMA CountedTransient ==
  ASSUME TypeOK, Counted, pc \in {"attempt", "stream", "verify"}, Transient
  PROVE  Counted'
BY DEF TypeOK, Counted, Transient, EndAttempt, Return

\* Every step keeps count of the attempts.
LEMMA CountedStep == TypeOK /\ Counted /\ [Next]_vars => Counted'
<1> SUFFICES ASSUME TypeOK, Counted, [Next]_vars PROVE Counted'
  OBVIOUS
<1>1. CASE \E a \in Artifacts : Call(a)
  BY <1>1 DEF Call, Counted
<1>2. CASE Hit \/ Mismatch \/ Store \/ Die
  BY <1>2 DEF Hit, Mismatch, Store, Die, Return, Counted
<1>3. CASE Answered \/ \E a \in Artifacts : Streamed(a)
  BY <1>3 DEF Answered, Streamed, callVars, Counted
<1>4. CASE RequestFails \/ StreamFails \/ StoreFails
  BY <1>4, CountedTransient DEF RequestFails, StreamFails, StoreFails
<1>5. CASE Backoff
  BY <1>5 DEF Backoff, LastAttempt, Return, Counted, TypeOK, FetchAttempts
<1>6. CASE Cancel \/ UNCHANGED vars
  BY <1>6 DEF Cancel, callVars, vars, Counted
<1> QED
  BY <1>1, <1>2, <1>3, <1>4, <1>5, <1>6 DEF Next, Work

\* However an attempt ends, there were at most two before it, both transient.
LEMMA SoundEnd ==
  ASSUME TypeOK, Counted, pc \in {"attempt", "stream", "verify"},
         NEW outcome \in {"transient", "mismatch", "stored", "hit"}, EndAttempt(outcome)
  PROVE  RetriesAreSound'
<1>1. Len(outcomes) < FetchAttempts
  BY DEF TypeOK, Counted, FetchAttempts
<1> QED
  BY <1>1 DEF TypeOK, Counted, EndAttempt, RetriesAreSound, FetchAttempts

\* Every step keeps the attempts of the running call, or of the last, sound.
LEMMA SoundStep == TypeOK /\ Counted /\ RetriesAreSound /\ [Next]_vars => RetriesAreSound'
<1> SUFFICES ASSUME TypeOK, Counted, RetriesAreSound, [Next]_vars PROVE RetriesAreSound'
  OBVIOUS
<1>1. CASE (\E a \in Artifacts : Call(a)) \/ Die
  BY <1>1 DEF Call, Die, RetriesAreSound, FetchAttempts
<1>2. CASE Hit \/ Mismatch \/ Store
  BY <1>2, SoundEnd DEF Hit, Mismatch, Store
<1>3. CASE RequestFails \/ StreamFails \/ StoreFails
  BY <1>3, SoundEnd DEF RequestFails, StreamFails, StoreFails, Transient
<1>4. CASE Answered \/ (\E a \in Artifacts : Streamed(a)) \/ Backoff \/ Cancel \/ UNCHANGED vars
  BY <1>4 DEF Answered, Streamed, Backoff, Cancel, vars, callVars, RetriesAreSound
<1> QED
  BY <1>1, <1>2, <1>3, <1>4 DEF Next, Work

\* Every step keeps the artifacts directory verified.
LEMMA StoredStep ==
  TypeOK /\ Counted /\ Whole /\ OnlyVerifiedStored /\ HandedIsVerified /\ [Next]_vars
    => Whole' /\ OnlyVerifiedStored' /\ HandedIsVerified'
<1> SUFFICES ASSUME TypeOK, Counted, Whole, OnlyVerifiedStored, HandedIsVerified, [Next]_vars
             PROVE  Whole' /\ OnlyVerifiedStored' /\ HandedIsVerified'
  OBVIOUS
<1> USE DEF Whole, OnlyVerifiedStored, HandedIsVerified
<1>1. CASE \E a \in Artifacts : Call(a)
  BY <1>1 DEF Call
<1>2. CASE Hit
  BY <1>2 DEF Hit, Return, Stored, TypeOK
<1>3. CASE Answered \/ (\E a \in Artifacts : Streamed(a))
  BY <1>3 DEF Answered, Streamed
<1>4. CASE RequestFails \/ StreamFails \/ StoreFails
  BY <1>4 DEF RequestFails, StreamFails, StoreFails, Transient, Return
<1>5. CASE Mismatch
  BY <1>5 DEF Mismatch, Return
<1>6. CASE Store
  BY <1>6 DEF Store, Return
<1>7. CASE Backoff
  BY <1>7 DEF Backoff, Return
<1>8. CASE Cancel \/ Die \/ UNCHANGED vars
  BY <1>8 DEF Cancel, Die, vars
<1> QED
  BY <1>1, <1>2, <1>3, <1>4, <1>5, <1>6, <1>7, <1>8 DEF Next, Work

\* Every step keeps account of the files in staging.
LEMMA AccountedStep == TypeOK /\ Accounted /\ [Next]_vars => Accounted'
<1> SUFFICES ASSUME TypeOK, Accounted, [Next]_vars PROVE Accounted'
  OBVIOUS
<1> USE DEF TypeOK, Accounted
<1>1. CASE Work
  <2>1. CASE Hit \/ Mismatch \/ Store
    BY <2>1 DEF Hit, Mismatch, Store, EndAttempt, RemoveTemp, Return
  <2>2. CASE Answered \/ \E a \in Artifacts : Streamed(a)
    BY <2>2 DEF Answered, Streamed
  <2>3. CASE RequestFails \/ StreamFails \/ StoreFails
    BY <2>3 DEF RequestFails, StreamFails, StoreFails, Transient, EndAttempt, RemoveTemp, Return
  <2>4. CASE Backoff
    BY <2>4 DEF Backoff, Return
  <2> QED
    BY <1>1, <2>1, <2>2, <2>3, <2>4 DEF Work
<1>2. CASE \E a \in Artifacts : Call(a)
  BY <1>2 DEF Call
<1>3. CASE Die
  BY <1>3 DEF Die
<1>4. CASE Cancel \/ UNCHANGED vars
  BY <1>4 DEF Cancel, vars
<1> QED
  BY <1>1, <1>2, <1>3, <1>4 DEF Next

\* Types and the attempt count hold in every reachable state.
LEMMA FetchCounted == Spec => [](TypeOK /\ Counted)
<1>1. Init => TypeOK /\ Counted
  <2> SUFFICES ASSUME Init PROVE TypeOK /\ Counted
    OBVIOUS
  <2>1. outcomes \in Seq({"transient", "mismatch", "stored", "hit"})
    BY DEF Init
  <2>2. files \subseteq Artifacts \X (Artifacts \cup {Partial})
    BY DEF Init
  <2>3. deaths \in 0..MaxDeaths
    BY DEF Init, ConstantsAssumption
  <2>4. canceled \in BOOLEAN
    BY Zenon DEF Init
  <2>5. pc = "idle" /\ want = None /\ attempt = 1 /\ temp = None /\ left = 0 /\ handed = None
    BY DEF Init
  <2> QED
    BY <2>1, <2>2, <2>3, <2>4, <2>5 DEF TypeOK, Counted, FetchAttempts
<1>2. TypeOK /\ Counted /\ [Next]_vars => (TypeOK /\ Counted)'
  BY FetchTypeStep, CountedStep
<1> QED
  BY <1>1, <1>2, PTL DEF Spec

\* Fail-closed: nothing unverified is stored or handed to a hook, whatever
\* sources serve and wherever the process ends.
THEOREM FailClosed == Spec => [](OnlyVerifiedStored /\ HandedIsVerified)
<1>1. Init => Whole /\ OnlyVerifiedStored /\ HandedIsVerified
  BY DEF Init, Whole, OnlyVerifiedStored, HandedIsVerified
<1> QED
  BY <1>1, FetchCounted, StoredStep, PTL DEF Spec

\* No call makes more than three attempts, or another one after a failed
\* verification.
THEOREM RetriesStaySound == Spec => []RetriesAreSound
<1>1. Init => RetriesAreSound
  BY DEF Init, RetriesAreSound, FetchAttempts
<1> QED
  BY <1>1, FetchCounted, SoundStep, PTL DEF Spec

\* A call leaves its staging file behind only if its process ended under it.
THEOREM StagingStaysBounded == Spec => []StagingIsBounded
<1>1. Init => Accounted
  BY DEF Init, Accounted
<1>2. Accounted => StagingIsBounded
  BY DEF Accounted, StagingIsBounded
<1> QED
  BY <1>1, <1>2, FetchCounted, AccountedStep, PTL DEF Spec

\* Every step keeps the running call apart from what is stored and handed out.
LEMMA AskingStep == TypeOK /\ Asking /\ [Next]_vars => Asking'
<1> SUFFICES ASSUME TypeOK, Asking, [Next]_vars PROVE Asking'
  OBVIOUS
<1> USE DEF Asking, Stored
<1>1. CASE \E a \in Artifacts : Call(a)
  BY <1>1 DEF Call
<1>2. CASE Hit \/ Mismatch \/ Store
  BY <1>2 DEF Hit, Mismatch, Store, Return
<1>3. CASE Answered \/ \E a \in Artifacts : Streamed(a)
  BY <1>3 DEF Answered, Streamed, callVars
<1>4. CASE RequestFails \/ StreamFails \/ StoreFails
  <2>1. pc # "idle" /\ want \notin Stored /\ files' = files /\ Transient
    BY <1>4 DEF RequestFails, StreamFails, StoreFails
  <2> QED
    BY <2>1 DEF Transient, Return
<1>5. CASE Backoff
  BY <1>5 DEF Backoff, Return
<1>6. CASE Die
  BY <1>6 DEF Die
<1>7. CASE Cancel \/ UNCHANGED vars
  BY <1>7 DEF Cancel, callVars, vars
<1> QED
  BY <1>1, <1>2, <1>3, <1>4, <1>5, <1>6, <1>7 DEF Next, Work

\* The call ends without an artifact, or tries again.
LEMMA FailsOrGoesOn ==
  ASSUME TypeOK, Counted, Asking, pc # "idle", want \notin Stored, files' = files,
         Return(None) \/ UNCHANGED <<want, handed>>
  PROVE  Promise!Fail \/ UNCHANGED Promise!vars
BY DEF Counted, Asking, Stored, Return, Promise!Fail, Promise!vars

\* Every step of Fetch is a step of the store it promises, or none: what is
\* stored and handed out changes together, and nothing is lost.
THEOREM FetchKeepsPromise == Spec => ImplementsStore
<1>1. Init => Asking /\ Promise!Init
  BY DEF Init, Asking, Stored, Promise!Init
<1>2. TypeOK /\ Counted /\ Asking /\ [Next]_vars => [Promise!Next]_(Promise!vars)
  <2> SUFFICES ASSUME TypeOK, Counted, Asking, [Next]_vars
               PROVE  Promise!Next \/ UNCHANGED Promise!vars
    OBVIOUS
  <2> USE DEF Promise!Next
  <2>1. CASE \E a \in Artifacts : Call(a)
    <3>1. PICK a \in Artifacts : Call(a)
      BY <2>1
    <3>2. Promise!Ask(a)
      BY <3>1 DEF Call, Asking, Stored, Promise!Ask
    <3> QED
      BY <3>2
  <2>2. CASE Hit \/ Store
    <3>1. pc # "idle" /\ want' = None /\ handed' = want
      BY <2>2 DEF Hit, Store, Return
    <3>2. ASSUME Hit PROVE Stored' = Stored \cup {want}
      BY <3>2 DEF Hit, Stored
    <3>3. ASSUME Store PROVE Stored' = Stored \cup {want}
      <4>1. files' = files \cup {<<want, want>>}
        BY <3>3 DEF Store
      <4>2. Stored' = {f[1] : f \in files'}
        BY DEF Stored
      <4>3. {f[1] : f \in files \cup {<<want, want>>}} = {f[1] : f \in files} \cup {want}
        <5>1. \A f : f \in files \cup {<<want, want>>} <=> f \in files \/ f = <<want, want>>
          OBVIOUS
        <5>2. <<want, want>>[1] = want
          OBVIOUS
        <5> QED
          BY <5>1, <5>2, Zenon
      <4> QED
        BY <4>1, <4>2, <4>3 DEF Stored
    <3>4. Promise!Obtain
      BY <2>2, <3>1, <3>2, <3>3 DEF Counted, Promise!Obtain
    <3> QED
      BY <3>4
  <2>3. CASE Mismatch \/ RequestFails \/ StreamFails \/ StoreFails \/ Backoff
    <3>1. /\ pc # "idle" /\ want \notin Stored /\ files' = files
          /\ Return(None) \/ UNCHANGED <<want, handed>>
      BY <2>3 DEF Mismatch, RequestFails, StreamFails, StoreFails, Backoff, Transient, Asking
    <3> QED
      BY <3>1, FailsOrGoesOn
  <2>4. CASE Die
    <3>1. Promise!Die
      BY <2>4 DEF Die, Stored, Promise!Die
    <3> QED
      BY <3>1
  <2>5. CASE Answered \/ (\E a \in Artifacts : Streamed(a)) \/ Cancel \/ UNCHANGED vars
    BY <2>5 DEF Answered, Streamed, Cancel, vars, callVars, Stored, Promise!vars
  <2> QED
    BY <2>1, <2>2, <2>3, <2>4, <2>5 DEF Next, Work
<1> QED
  BY <1>1, <1>2, FetchCounted, AskingStep, PTL DEF Spec, ImplementsStore, Promise!Spec
===============================================================================
