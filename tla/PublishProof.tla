----------------------------- MODULE PublishProof -----------------------------
(* Validate accepts exactly the well-formed manifests, and publishing keeps the *)
(* cloud to accepted ones, for all manifests, flags and edits.                  *)
EXTENDS Publish, TLAPS

\* checkHook has nothing to say of a hook that fits.
LEMMA HookChecked ==
  ASSUME NEW name, NEW hook, \A h \in hook : h.timeout \in Int
  PROVE  CheckHook(name, hook) = {} <=> \A h \in hook : HookFits(h)
<1> DEFINE Relative == {h \in hook : ~IsAbsAnyOS(h.executable)}
           Late == {h \in hook : h.timeout \notin 0..MaxTimeout}
<1>1. CheckHook(name, hook) = {} <=> Relative = {} /\ Late = {}
  BY Zenon DEF CheckHook
<1>2. Relative = {} <=> \A h \in hook : IsAbsAnyOS(h.executable)
  BY Zenon
<1>3. Late = {} <=> \A h \in hook : h.timeout >= 0 /\ h.timeout <= MaxTimeout
  <2>1. ASSUME NEW h \in hook
        PROVE  h.timeout \in 0..MaxTimeout <=> h.timeout >= 0 /\ h.timeout <= MaxTimeout
    <3>1. \A t \in Int : t \in 0..MaxTimeout <=> t >= 0 /\ t <= MaxTimeout
      BY DEF MaxTimeout
    <3>2. h.timeout \in Int
      OBVIOUS
    <3> QED
      BY <3>1, <3>2, Zenon
  <2> QED
    BY <2>1, Zenon
<1> HIDE DEF Relative, Late
<1> QED
  BY <1>1, <1>2, <1>3, Zenon DEF HookFits

\* The two maps of Validate find exactly the ids and destinations given twice.
LEMMA FilesChecked ==
  ASSUME NEW files, NEW n \in Nat, DOMAIN files = 1..n
  PROVE  (\A i \in DOMAIN files : FileProblems(files, i) = {})
           <=> /\ \A i \in DOMAIN files : files[i].id # "" /\ IsAbsAnyOS(files[i].destination)
               /\ \A i, j \in DOMAIN files :
                    i # j => files[i].id # files[j].id
                               /\ files[i].destination # files[j].destination
<1> DEFINE Fine(i) ==
      /\ files[i].id # "" /\ IsAbsAnyOS(files[i].destination)
      /\ \A j \in 1..(i - 1) : files[i].id # files[j].id
                                 /\ files[i].destination # files[j].destination
<1>1. ASSUME NEW i \in DOMAIN files PROVE FileProblems(files, i) = {} <=> Fine(i)
  <2> DEFINE ids == {files[j].id : j \in 1..(i - 1)}
             dests == {files[j].destination : j \in 1..(i - 1)}
  <2>1. FileProblems(files, i) = {}
          <=> /\ ~(files[i].id = "")
              /\ ~(files[i].id # "" /\ files[i].id \in ids)
              /\ ~(~IsAbsAnyOS(files[i].destination))
              /\ ~(IsAbsAnyOS(files[i].destination) /\ files[i].destination \in dests)
    BY DEF FileProblems
  <2>2. files[i].id \in ids <=> \E j \in 1..(i - 1) : files[i].id = files[j].id
    BY Zenon
  <2>3. files[i].destination \in dests
          <=> \E j \in 1..(i - 1) : files[i].destination = files[j].destination
    BY Zenon
  <2> HIDE DEF ids, dests
  <2> QED
    BY <2>1, <2>2, <2>3, Zenon
<1>2. ASSUME \A i \in DOMAIN files : Fine(i),
             NEW i \in DOMAIN files, NEW j \in DOMAIN files, i # j
      PROVE  files[i].id # files[j].id /\ files[i].destination # files[j].destination
  <2>1. i \in 1..n /\ j \in 1..n /\ i # j
    BY <1>2
  <2> HIDE <1>2
  <2>2. i \in 1..(j - 1) \/ j \in 1..(i - 1)
    <3>1. \A a, b \in 1..n : a # b => a \in 1..(b - 1) \/ b \in 1..(a - 1)
      OBVIOUS
    <3> QED
      BY <2>1, <3>1, Zenon
  <2> QED
    BY <1>2, <2>2, Zenon
<1>3. ASSUME NEW i \in DOMAIN files, NEW j \in 1..(i - 1)
      PROVE  j \in DOMAIN files /\ i # j
  <2>1. i \in 1..n
    OBVIOUS
  <2> QED
    BY <2>1
<1> QED
  BY <1>1, <1>2, <1>3, Zenon

LEMMA ConfigurationChecked ==
  ASSUME NEW c, \E n \in Nat : DOMAIN c.files = 1..n,
         \A h \in c.validate \cup c.apply : h.timeout \in Int
  PROVE  CheckConfiguration(c) = {}
           <=> FilesFit(c.files) /\ \A h \in c.validate \cup c.apply : HookFits(h)
<1> DEFINE Empty == {x \in {c.files} : x = << >>}
           Bad(i) == {<<i, problem>> : problem \in FileProblems(c.files, i)}
<1>1. CheckConfiguration(c) = {}
        <=> /\ Empty = {} /\ \A i \in DOMAIN c.files : Bad(i) = {}
            /\ CheckHook("validate", c.validate) = {} /\ CheckHook("apply", c.apply) = {}
  <2> DEFINE NoFiles == {<<"configuration", "no files">> : x \in Empty}
             InFiles == UNION {Bad(i) : i \in DOMAIN c.files}
  <2>1. CheckConfiguration(c) =
          ((NoFiles \cup InFiles) \cup CheckHook("validate", c.validate))
            \cup CheckHook("apply", c.apply)
    BY Zenon DEF CheckConfiguration
  <2>2. NoFiles = {} <=> Empty = {}
    BY Zenon
  <2> HIDE DEF NoFiles, Empty, Bad
  <2>3. InFiles = {} <=> \A i \in DOMAIN c.files : Bad(i) = {}
    BY Zenon
  <2> HIDE DEF InFiles
  <2> QED
    BY <2>1, <2>2, <2>3, Zenon
<1>2. Empty = {} <=> c.files # << >>
  BY Zenon
<1>3. ASSUME NEW i \in DOMAIN c.files PROVE Bad(i) = {} <=> FileProblems(c.files, i) = {}
  BY Zenon
<1>4. (\A i \in DOMAIN c.files : FileProblems(c.files, i) = {})
        <=> /\ \A i \in DOMAIN c.files :
                 c.files[i].id # "" /\ IsAbsAnyOS(c.files[i].destination)
            /\ \A i, j \in DOMAIN c.files :
                 i # j => c.files[i].id # c.files[j].id
                            /\ c.files[i].destination # c.files[j].destination
  BY FilesChecked
<1>5. CheckHook("validate", c.validate) = {} <=> \A h \in c.validate : HookFits(h)
  BY HookChecked
<1>6. CheckHook("apply", c.apply) = {} <=> \A h \in c.apply : HookFits(h)
  BY HookChecked
<1> HIDE DEF Empty, Bad
<1> QED
  BY <1>1, <1>2, <1>3, <1>4, <1>5, <1>6, Zenon DEF FilesFit

\* The problems Validate collects are none for exactly the manifests that are
\* what documentation, comments and tests ask for, whatever a manifest holds.
THEOREM ValidateIsExact ==
  ASSUME NEW in, IsDecoded(in)
  PROVE  Accepted(in) <=> WellFormed(in)
<1>1. ASSUME NEW name \in DOMAIN in.hooks
      PROVE  CheckHook(name, in.hooks[name]) = {} <=> \A h \in in.hooks[name] : HookFits(h)
  BY HookChecked DEF IsDecoded
<1>2. ASSUME NEW c \in in.configuration
      PROVE  CheckConfiguration(c) = {}
               <=> FilesFit(c.files) /\ \A h \in c.validate \cup c.apply : HookFits(h)
  BY ConfigurationChecked DEF IsDecoded
<1> DEFINE Fields == {f \in {"apiVersion", "kind", "name"} : ~in.header[f]}
           Absent == {h \in {"upgrade", "check"} : in.hooks[h] = {}}
<1>3. Validate(in) = {}
        <=> /\ Fields = {} /\ Absent = {}
            /\ \A name \in DOMAIN in.hooks : CheckHook(name, in.hooks[name]) = {}
            /\ \A c \in in.configuration : CheckConfiguration(c) = {}
  <2> DEFINE Wrong == {<<field, "wrong">> : field \in Fields}
             Required == {<<hook, "required">> : hook \in Absent}
             InHooks == UNION {CheckHook(hook, in.hooks[hook]) : hook \in DOMAIN in.hooks}
             InSection == UNION {CheckConfiguration(c) : c \in in.configuration}
  <2>1. Validate(in) = ((Wrong \cup Required) \cup InHooks) \cup InSection
    BY Zenon DEF Validate
  <2>2. (Wrong = {} <=> Fields = {}) /\ (Required = {} <=> Absent = {})
    BY Zenon
  <2>3. InHooks = {} <=> \A name \in DOMAIN in.hooks : CheckHook(name, in.hooks[name]) = {}
    BY Zenon
  <2>4. InSection = {} <=> \A c \in in.configuration : CheckConfiguration(c) = {}
    BY Zenon
  <2> HIDE DEF Wrong, Required, InHooks, InSection, Fields, Absent
  <2> QED
    BY <2>1, <2>2, <2>3, <2>4, Zenon
<1>4. Fields = {} <=> \A f \in {"apiVersion", "kind", "name"} : in.header[f]
  BY Zenon
<1>5. Absent = {} <=> in.hooks["upgrade"] # {} /\ in.hooks["check"] # {}
  BY Zenon
<1> HIDE DEF Fields, Absent
<1> QED
  BY <1>1, <1>2, <1>3, <1>4, <1>5, Zenon DEF Accepted, WellFormed
-------------------------------------------------------------------------------
\* What holds in every reachable state, of the cloud and of the bytes in hand.
LEMMA PublishInvariant == Spec => []PublishInv
<1> USE PublishAssumption DEF PublishInv, PublishedIsAccepted, SaidIsPublished
<1>1. Init => PublishInv
  BY DEF Init
<1>2. PublishInv /\ [Next]_vars => PublishInv'
  <2> SUFFICES ASSUME PublishInv, [Next]_vars PROVE PublishInv'
    OBVIOUS
  <2>1. CASE Edit
    BY <2>1 DEF Edit, cloud
  <2>2. CASE Others
    <3> PICK o \in Orgs, d \in {d \in Drafts : Accepted(d)}, v \in Versions :
          \/ UNCHANGED published
          \/ published' = published \cup
               {[id |-> <<o, d.name>>, version |-> v, manifest |-> d]}
      BY <2>2, Zenon DEF Others
    <3>1. \A w \in published' : Accepted(w.manifest) /\ w.id[2] = w.manifest.name
      OBVIOUS
    <3>2. published \subseteq published'
      OBVIOUS
    <3> QED
      BY <2>2, <3>1, <3>2 DEF Others
  <2>3. CASE Invoke
    BY <2>3 DEF Invoke, cloud
  <2>4. CASE Read
    BY <2>4 DEF Read, Go, cloud
  <2>5. CASE Fails
    BY <2>5 DEF Fails, Go, cloud
  <2>6. CASE SoleOrganization
    BY <2>6 DEF SoleOrganization, Go, cloud
  <2>7. CASE Find
    BY <2>7 DEF Find, Go, Wanted, cloud
  <2>8. CASE Create
    BY <2>8 DEF Create, Go, Wanted
  <2>9. CASE Post
    BY <2>9 DEF Post, Go
  <2>10. CASE UNCHANGED vars
    BY <2>10 DEF vars
  <2> QED
    BY <2>1, <2>2, <2>3, <2>4, <2>5, <2>6, <2>7, <2>8, <2>9, <2>10 DEF Next, Proceed
<1> QED
  BY <1>1, <1>2, PTL DEF Spec

\* The cloud never holds a manifest the supervisor would reject, nor one under
\* another integration's name, however often the file is edited meanwhile.
THEOREM OnlyAcceptedPublished == Spec => []PublishedIsAccepted
<1>1. PublishInv => PublishedIsAccepted
  BY DEF PublishInv
<1> QED
  BY <1>1, PublishInvariant, PTL

\* When the command says so, the cloud holds what it has read.
THEOREM WhatIsSaidIsPublished == Spec => []SaidIsPublished
<1>1. PublishInv => SaidIsPublished
  BY DEF PublishInv
<1> QED
  BY <1>1, PublishInvariant, PTL

\* Validation is exact on every manifest an author can write.
THEOREM ValidationAlwaysExact == Spec => []ValidationIsExact
<1>1. PublishInv => ValidationIsExact
  BY ValidateIsExact, PublishAssumption DEF PublishInv, ValidationIsExact, AllAgree, Agree
<1> QED
  BY <1>1, PublishInvariant, PTL
===============================================================================
