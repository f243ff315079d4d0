---------------------------- MODULE EnrollmentProof ----------------------------
(***************************************************************************)
(* Identities are permanent and loops start together, for any number of    *)
(* applications, tokens and mishaps.                                       *)
(***************************************************************************)
EXTENDS Enrollment, FiniteSetTheorems, TLAPS

\* What a step does to the identities, in memory and in their files.
LEMMA MemoryStep == MemoryIsDisk /\ [Next]_vars => MemoryIsDisk'
<1> SUFFICES ASSUME MemoryIsDisk, [Next]_vars PROVE MemoryIsDisk'
  OBVIOUS
<1> USE DEF MemoryIsDisk, Missing
<1>1. ASSUME End, disk' = disk PROVE MemoryIsDisk'
  BY <1>1 DEF End, NoIds
<1>2. CASE Start
  BY <1>2 DEF Start
<1>3. CASE Load
  <2>1. PICK b \in Apps \ apps : apps' = apps \cup {b} /\ mem' = [mem EXCEPT ![b] = disk[b]]
    BY <1>3 DEF Load
  <2>2. UNCHANGED <<disk, loops, pc>> /\ pc = "load"
    BY <1>3 DEF Load
  <2> QED
    BY <2>1, <2>2
<1>4. CASE AllEnrolled \/ Saved
  BY <1>4 DEF AllEnrolled, Saved, SavedAll, StartLoops
<1>5. CASE Exchange
  BY <1>5, <1>1 DEF Exchange
<1>6. ASSUME NEW a \in Apps, Save(a) PROVE MemoryIsDisk'
  BY <1>6 DEF Save, Keep
<1>7. ASSUME NEW a \in Apps, LoopReturns(a) PROVE MemoryIsDisk'
  BY <1>7 DEF LoopReturns
<1>8. CASE LoadFails \/ Refused \/ (\E a \in Apps : SaveFails(a)) \/ RunReturns \/ Die
  BY <1>8, <1>1 DEF LoadFails, Refused, SaveFails, RunReturns, Die
<1>9. CASE Loaded \/ Cancel \/ NewToken \/ Edit \/ Repair \/ UNCHANGED vars
  BY <1>9 DEF Loaded, Cancel, NewToken, Edit, Repair, vars
<1> QED
  BY <1>2, <1>3, <1>4, <1>5, <1>6, <1>7, <1>8, <1>9 DEF Next, Proceed

\* In every reachable state.
LEMMA MemoryInvariant == Spec => []MemoryIsDisk
<1>1. Init => MemoryIsDisk
  BY DEF Init, MemoryIsDisk, NoIds, Missing
<1> QED
  BY <1>1, MemoryStep, PTL DEF Spec

\* Only Save writes an identity file, and only where there is none.
LEMMA PermanentStep ==
  MemoryIsDisk /\ [Next]_vars => \A a \in Apps : disk[a] # None => disk'[a] = disk[a]
<1> SUFFICES ASSUME MemoryIsDisk, [Next]_vars, NEW a \in Apps, disk[a] # None
             PROVE  disk'[a] = disk[a]
  OBVIOUS
<1>1. ASSUME NEW b \in Apps, Save(b) PROVE disk'[a] = disk[a]
  <2>1. disk[b] = None
    BY <1>1 DEF Save, Missing, MemoryIsDisk
  <2> QED
    BY <1>1, <2>1 DEF Save, Keep
<1>2. CASE ~\E b \in Apps : Save(b)
  BY <1>2 DEF Next, Proceed, Start, Load, Loaded, AllEnrolled, Exchange, Refused, Saved, RunReturns,
              SaveFails, LoopReturns, LoadFails, Cancel, Die, NewToken, Edit, Repair, vars
<1> QED
  BY <1>1, <1>2

\* An identity once written is never replaced, whatever happens to the starts
\* that follow.
THEOREM IdentityNeverReplaced == Spec => IdentityIsPermanent
<1>1. MemoryIsDisk /\ [Next]_vars =>
        [\A a \in Apps : disk[a] # None => disk'[a] = disk[a]]_vars
  BY PermanentStep
<1> QED
  BY <1>1, MemoryInvariant, PTL DEF Spec, IdentityIsPermanent

\* No loop runs unless every application has its identity.
THEOREM LoopsStartTogether == Spec => []NoneWithoutAll
<1>1. MemoryIsDisk => NoneWithoutAll
  BY DEF MemoryIsDisk, NoneWithoutAll, Missing
<1> QED
  BY <1>1, MemoryInvariant, PTL

\* The cloud's order is a sequence of the applications the request names.
LEMMA OrderType ==
  ASSUME MemoryIsDisk, NEW order \in SetToSeqs(Requested)
  PROVE  order \in Seq(Requested) /\ Requested \subseteq Apps
<1>1. Requested \subseteq Apps
  BY DEF Requested, Missing, MemoryIsDisk
<1>2. IsFiniteSet(Requested)
  BY <1>1, FS_Subset, ConstantsAssumption
<1>3. Cardinality(Requested) \in Nat
  BY <1>2, FS_CardinalityType
<1>4. order \in [1..Cardinality(Requested) -> Requested]
  BY DEF SetToSeqs
<1> QED
  BY <1>1, <1>3, <1>4

\* What an exchange leaves: the runtimes there were, and one more for each
\* application it named.
LEMMA ExchangeIssues ==
  ASSUME MemoryIsDisk, issued \in Seq(Apps),
         NEW order \in SetToSeqs(Requested), issued' = issued \o order
  PROVE  /\ issued' \in Seq(Apps)
         /\ Len(issued') = Len(issued) + Len(order)
         /\ \A i \in 1..Len(issued) : issued'[i] = issued[i]
         /\ \A i \in 1..Len(order) :
              order[i] \in Requested /\ issued'[Len(issued) + i] = order[i]
<1>1. order \in Seq(Requested) /\ order \in Seq(Apps)
  BY OrderType
<1>2. issued \o order \in Seq(Apps) /\ Len(issued \o order) = Len(issued) + Len(order)
  BY <1>1
<1>3. \A i \in 1..Len(issued) : (issued \o order)[i] = issued[i]
  BY <1>1
<1>4. \A i \in 1..Len(order) : order[i] \in Requested
  BY <1>1
<1>5. \A i \in 1..Len(order) : (issued \o order)[Len(issued) + i] = order[i]
  BY <1>1
<1> QED
  BY <1>2, <1>3, <1>4, <1>5

\* Every runtime is created for an application without identity file.
LEMMA CreatedForMissing ==
  ASSUME MemoryIsDisk, issued \in Seq(Apps), [Next]_vars,
         NEW i \in Len(issued) + 1..Len(issued')
  PROVE  disk[issued'[i]] = None
<1>1. CASE Exchange
  <2>1. PICK order \in SetToSeqs(Requested) : issued' = issued \o order
    BY <1>1 DEF Exchange
  <2>2. Len(issued) \in Nat /\ Len(order) \in Nat
    BY OrderType
  <2>3. i - Len(issued) \in 1..Len(order)
    BY <2>1, <2>2, ExchangeIssues
  <2>4. issued'[Len(issued) + (i - Len(issued))] \in Requested
    BY <2>1, <2>3, ExchangeIssues
  <2>5. issued'[i] \in Missing
    BY <2>2, <2>3, <2>4 DEF Requested
  <2> QED
    BY <1>1, <2>5 DEF Exchange, MemoryIsDisk, Missing
<1>2. CASE ~Exchange
  <2>1. issued' = issued
    BY <1>2 DEF Next, Proceed, Start, Load, Loaded, AllEnrolled, Refused, Saved, RunReturns, Save,
                SaveFails, LoopReturns, LoadFails, Cancel, Die, NewToken, Edit, Repair, vars, cloudVars
  <2>2. Len(issued) \in Nat
    OBVIOUS
  <2> QED
    BY <2>1, <2>2
<1> QED
  BY <1>1, <1>2

\* The answer to an exchange names runtimes that were created by it, each for
\* its application, and so does what is left of it.
LEMMA AnswerNamesCreated ==
  ASSUME MemoryIsDisk, issued \in Seq(Apps),
         NEW order \in SetToSeqs(Requested), issued' = issued \o order,
         NEW r \in ToSet(Created(order)) \cup ToSet(Tail(Created(order))), order # <<>>
  PROVE  CreatedFor(r.app, r.runtime)'
<1>1. order \in Seq(Requested) /\ Len(order) \in Nat /\ Len(issued) \in Nat
  BY OrderType
<1>2. /\ DOMAIN Created(order) = 1..Len(order)
      /\ \A j \in 1..Len(order) :
           Created(order)[j] = [app |-> order[j], runtime |-> Len(issued) + j]
  BY DEF Created
<1>3. PICK j \in 1..Len(order) : r = Created(order)[j]
  <2>1. CASE r \in ToSet(Created(order))
    BY <2>1, <1>2 DEF ToSet
  <2>2. CASE r \in ToSet(Tail(Created(order)))
    <3>1. Created(order) \in Seq([app : Requested, runtime : Nat])
      BY <1>1 DEF Created
    <3>2. Created(order) # <<>> /\ Len(Created(order)) = Len(order)
      BY <3>1, <1>1, <1>2
    <3>3. PICK k \in DOMAIN Tail(Created(order)) : r = Tail(Created(order))[k]
      BY <2>2 DEF ToSet
    <3>4. k \in 1..Len(order) - 1 /\ Tail(Created(order))[k] = Created(order)[k + 1]
      BY <3>1, <3>2, <3>3
    <3>5. k + 1 \in 1..Len(order)
      BY <3>4, <1>1
    <3> QED
      BY <3>3, <3>4, <3>5
  <2> QED
    BY <2>1, <2>2
<1>4. r.app = order[j] /\ r.runtime = Len(issued) + j
  BY <1>2, <1>3
<1>5. issued'[Len(issued) + j] = order[j] /\ Len(issued') = Len(issued) + Len(order)
  BY ExchangeIssues
<1>6. Len(issued) + j \in 1..Len(issued')
  BY <1>1, <1>5
<1> QED
  BY <1>4, <1>5, <1>6 DEF CreatedFor, Runtimes

\* Every step keeps the identities to runtimes created for their application.
LEMMA OnlyCreatedStep ==
  ASSUME MemoryIsDisk, OnlyCreated, [Next]_vars
  PROVE  OnlyCreated'
<1> USE DEF OnlyCreated
<1>1. CASE Exchange
  <2>1. PICK order \in SetToSeqs(Requested) :
          /\ issued' = issued \o order
          /\ answer' \in {ToSet(Created(order)), ToSet(Tail(Created(order))), {}}
    BY <1>1 DEF Exchange, End
  <2>2. issued' \in Seq(Apps) /\ disk' = disk
    BY <1>1, <2>1, ExchangeIssues DEF Exchange
  <2>3. ASSUME NEW a \in Apps, disk[a] # None PROVE CreatedFor(a, disk[a])'
    <3>1. disk[a] \in 1..Len(issued) /\ issued[disk[a]] = a
      BY <2>3 DEF CreatedFor, Runtimes
    <3>2. Len(issued') = Len(issued) + Len(order) /\ issued'[disk[a]] = issued[disk[a]]
      BY <2>1, <3>1, ExchangeIssues
    <3>3. Len(issued) \in Nat /\ Len(order) \in Nat
      BY OrderType
    <3> QED
      BY <2>2, <3>1, <3>2, <3>3 DEF CreatedFor, Runtimes
  <2>4. order # <<>>
    <3>1. Cardinality(Requested) # 0
      BY <1>1, OrderType, FS_EmptySet, FS_Subset, ConstantsAssumption DEF Exchange, Requested
    <3>2. order \in Seq(Requested) /\ DOMAIN order = 1..Cardinality(Requested)
      BY OrderType DEF SetToSeqs
    <3>3. Cardinality(Requested) \in Nat
      BY OrderType, FS_Subset, FS_CardinalityType, ConstantsAssumption
    <3> QED
      BY <3>1, <3>2, <3>3
  <2>5. ASSUME NEW r \in answer' PROVE CreatedFor(r.app, r.runtime)'
    BY <2>1, <2>4, <2>5, AnswerNamesCreated
  <2> QED
    BY <2>2, <2>3, <2>5
<1>2. ASSUME NEW a \in Apps, Save(a) PROVE OnlyCreated'
  <2>1. PICK r \in Answered(a) : disk' = [disk EXCEPT ![a] = r.runtime]
    BY <1>2 DEF Save, Keep
  <2>2. r \in answer /\ r.app = a /\ UNCHANGED <<issued, answer>>
    BY <1>2, <2>1 DEF Answered, Save, cloudVars
  <2>3. DOMAIN disk = Apps
    BY DEF MemoryIsDisk
  <2> QED
    BY <2>1, <2>2, <2>3 DEF CreatedFor, Runtimes
<1>3. CASE ~Exchange /\ ~\E a \in Apps : Save(a)
  <2>1. UNCHANGED <<issued, disk>> /\ answer' \in {answer, {}}
    BY <1>3 DEF Next, Proceed, Start, Load, Loaded, AllEnrolled, Refused, Saved, RunReturns, End,
                SaveFails, LoopReturns, LoadFails, Cancel, Die, NewToken, Edit, Repair, vars, cloudVars
  <2> QED
    BY <2>1 DEF CreatedFor, Runtimes
<1> QED
  BY <1>1, <1>2, <1>3

\* In every reachable state.
LEMMA OnlyCreatedInvariant == Spec => [](MemoryIsDisk /\ OnlyCreated)
<1>1. Init => OnlyCreated
  BY DEF Init, OnlyCreated, NoIds
<1>2. MemoryIsDisk /\ OnlyCreated /\ [Next]_vars => OnlyCreated'
  BY OnlyCreatedStep
<1> QED
  BY <1>1, <1>2, MemoryInvariant, PTL DEF Spec

\* An application works only under a runtime created for it, the one in its
\* identity file, whatever order the cloud answers in and whatever it omits.
THEOREM IdentitiesAreOwn == Spec => []OwnIdentity
<1>1. MemoryIsDisk /\ OnlyCreated => OwnIdentity
  BY DEF MemoryIsDisk, OnlyCreated, OwnIdentity, CreatedFor, Missing
<1> QED
  BY <1>1, OnlyCreatedInvariant, PTL

\* No exchange creates a runtime beside the one an application has.
THEOREM NoRuntimeBesideAnother == Spec => NoSecondRuntime
<1>1. MemoryIsDisk /\ OnlyCreated /\ [Next]_vars =>
        [\A i \in Len(issued) + 1..Len(issued') : disk[issued'[i]] = None]_vars
  BY CreatedForMissing DEF OnlyCreated
<1> QED
  BY <1>1, OnlyCreatedInvariant, PTL DEF Spec, NoSecondRuntime
===============================================================================
