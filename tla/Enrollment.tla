------------------------------ MODULE Enrollment ------------------------------
(***************************************************************************)
(* The start of a supervisor that manages several applications: run and    *)
(* enrollMissing in cmd/supervisor/main.go, LoadConfig, the exchange of    *)
(* supervisor/enroll and the files of supervisor/identity, with lost       *)
(* answers, failing reads and writes, and the end of the process anywhere. *)
(*                                                                         *)
(* Outside the repository: the cloud, which takes each token once and      *)
(* creates a runtime for every application named in the exchange, and the  *)
(* operator, who edits the list of integrations and may configure a new    *)
(* token, in the file or in the environment, which has precedence.         *)
(***************************************************************************)
EXTENDS Naturals, Sequences, FiniteSets, SequencesExt

CONSTANTS
  Apps,          \* the applications there are manifests of
  Broken,        \* a manifest that is missing or not accepted
  Lists,         \* the lists of integrations the operator configures; <<>> also
                 \* stands for a configuration that LoadConfig does not accept
  None,          \* no identity
  CloudOmits,    \* may an answer name something else than was asked for?
  MaxTokens,     \* bound on the tokens the operator configures
  MaxMishaps     \* bound on the things that go wrong

ASSUME ConstantsAssumption ==
  /\ IsFiniteSet(Apps) /\ Broken \notin Apps
  /\ Lists \subseteq Seq(Apps \cup {Broken})
  /\ None \notin Nat
  /\ CloudOmits \in BOOLEAN
  /\ MaxTokens \in Nat /\ MaxMishaps \in Nat

VARIABLES
  listed,    \* the configured integrations
  refs,      \* of those, the ones run has still to read
  apps,      \* and the ones it has read
  token,     \* the configured enrollment token; 0 is none
  spent,     \* tokens the cloud has taken
  issued,    \* the application of each runtime the cloud has created
  disk,      \* the identity file of each application
  mem,       \* app.id
  answer,    \* the enrollment response: a set of [app, runtime] records
  loops,     \* applications whose reconcile loop and link run
  pc,        \* "down", "load", "enroll", "save", "running" or "stopping"
  mishaps    \* what has gone wrong so far

cloudVars == <<spent, issued>>
vars == <<listed, refs, apps, token, cloudVars, disk, mem, answer, loops, pc, mishaps>>

Runtimes == 1..Len(issued)
NoIds    == [a \in Apps |-> None]
Missing  == {a \in apps : mem[a] = None}

TypeOK ==
  /\ listed \in Lists /\ refs \in Seq(Apps \cup {Broken}) /\ apps \subseteq Apps
  /\ token \in 0..MaxTokens /\ spent \subseteq 1..MaxTokens
  /\ issued \in Seq(Apps)
  /\ disk \in [Apps -> Runtimes \cup {None}] /\ mem \in [Apps -> Runtimes \cup {None}]
  /\ answer \subseteq [app : Apps, runtime : Runtimes]
  /\ loops \subseteq Apps
  /\ pc \in {"down", "load", "enroll", "save", "running", "stopping"}
  /\ mishaps \in 0..MaxMishaps

Init ==
  /\ listed \in Lists /\ refs = <<>> /\ apps = {}
  /\ token \in {0, 1} \cap 0..MaxTokens /\ spent = {} /\ issued = <<>>
  /\ disk = NoIds /\ mem = NoIds /\ answer = {} /\ loops = {}
  /\ pc = "down" /\ mishaps = 0
-------------------------------------------------------------------------------
Mishap == mishaps < MaxMishaps /\ mishaps' = mishaps + 1

\* The process ends: run returned, or it was killed.  The service manager
\* starts it again with the configuration of that moment.
End ==
  /\ pc' = "down" /\ refs' = <<>> /\ apps' = {}
  /\ mem' = NoIds /\ answer' = {} /\ loops' = {}

\* LoadConfig; if it returns an error, the process is down again at once.
Start ==
  /\ pc = "down" /\ listed # <<>>
  /\ pc' = "load" /\ refs' = listed
  /\ UNCHANGED <<listed, apps, token, cloudVars, disk, mem, answer, loops, mishaps>>

\* Mutant: an identity file that cannot be read counts as absent.
UnreadableIsMissing ==
  /\ pc = "load" /\ refs # <<>> /\ Head(refs) \in Apps \ apps
  /\ apps' = apps \cup {Head(refs)} /\ refs' = Tail(refs)
  /\ \E id \in {disk[Head(refs)], None} : mem' = [mem EXCEPT ![Head(refs)] = id]
  /\ UNCHANGED <<listed, token, cloudVars, disk, answer, loops, pc, mishaps>>

\* The next integration: its manifest is parsed, its directories are made, and
\* identity.Load finds an identity, or none if there is no file.
Load ==
  /\ pc = "load" /\ refs # <<>> /\ Head(refs) \in Apps \ apps
  /\ apps' = apps \cup {Head(refs)} /\ refs' = Tail(refs)
  /\ mem' = [mem EXCEPT ![Head(refs)] = disk[Head(refs)]]
  /\ UNCHANGED <<listed, token, cloudVars, disk, answer, loops, pc, mishaps>>

\* One broken manifest, one application listed twice, or one file that is there
\* but cannot be read ends the process.
LoadFails ==
  /\ pc = "load" /\ refs # <<>>
  /\ \/ Head(refs) \notin Apps \ apps /\ UNCHANGED mishaps
     \/ Mishap
  /\ End
  /\ UNCHANGED <<listed, token, cloudVars, disk>>

Loaded ==
  /\ pc = "load" /\ refs = <<>>
  /\ pc' = "enroll"
  /\ UNCHANGED <<listed, refs, apps, token, cloudVars, disk, mem, answer, loops, mishaps>>

\* Mutant: a loop for each application that was enrolled just now.
StartNewLoops == pc' = "running" /\ loops' = {r.app : r \in answer}

\* One loop for each application.
StartLoops == pc' = "running" /\ loops' = apps

AllEnrolled ==
  /\ pc = "enroll" /\ Missing = {}
  /\ StartLoops
  /\ UNCHANGED <<listed, refs, apps, token, cloudVars, disk, mem, answer, mishaps>>

\* Mutant: every configured application is enrolled again.
AllApps == apps

\* What the request names.
Requested == Missing

\* The cloud takes the token and creates the runtimes, in an order of its own.
Created(order) ==
  [i \in 1..Len(order) |-> [app |-> order[i], runtime |-> Len(issued) + i]]

Exchange ==
  /\ pc = "enroll" /\ Missing # {} /\ token \notin spent \cup {0}
  /\ spent' = spent \cup {token}
  /\ \E order \in SetToSeqs(Requested) :
        /\ issued' = issued \o order
        /\ \/ /\ answer' = ToSet(Created(order)) /\ pc' = "save"
              /\ UNCHANGED <<refs, apps, mem, loops, mishaps>>
           \/ /\ CloudOmits /\ Mishap        \* another name in the place of one
              /\ answer' = ToSet(Tail(Created(order))) /\ pc' = "save"
              /\ UNCHANGED <<refs, apps, mem, loops>>
           \/ Mishap /\ End                 \* the answer is lost
  /\ UNCHANGED <<listed, token, disk>>

\* No token, or one the cloud has taken before: run returns the error.
Refused ==
  /\ pc = "enroll" /\ Missing # {} /\ token \in spent \cup {0}
  /\ End
  /\ UNCHANGED <<listed, token, cloudVars, disk, mishaps>>

\* Mutant: runtimes are taken as they come.
InAnyOrder(a) == answer

\* byIntegration[name].
Answered(a) == {r \in answer : r.app = a}

\* identity.Save, and only then a.id.
Keep(a, id) ==
  disk' = [disk EXCEPT ![a] = id] /\ mem' = [mem EXCEPT ![a] = id]

\* The identities are saved one application after the other.
Save(a) ==
  /\ pc = "save" /\ a \in Missing
  /\ \E r \in Answered(a) : Keep(a, r.runtime)
  /\ UNCHANGED <<listed, refs, apps, token, cloudVars, answer, loops, pc, mishaps>>

\* The answer does not name the application, or the file cannot be written.
SaveFails(a) ==
  /\ pc = "save" /\ a \in Missing
  /\ \/ Answered(a) = {} /\ UNCHANGED mishaps
     \/ Mishap
  /\ End
  /\ UNCHANGED <<listed, token, cloudVars, disk>>

SavedAll == Missing = {}

Saved ==
  /\ pc = "save" /\ SavedAll
  /\ StartLoops
  /\ UNCHANGED <<listed, refs, apps, token, cloudVars, disk, mem, answer, mishaps>>

\* SIGTERM while the loops run: each returns, and run after the last of them.
Cancel ==
  /\ pc = "running" /\ Mishap
  /\ pc' = "stopping"
  /\ UNCHANGED <<listed, refs, apps, token, cloudVars, disk, mem, answer, loops>>

LoopReturns(a) ==
  /\ pc = "stopping" /\ a \in loops
  /\ loops' = loops \ {a}
  /\ UNCHANGED <<listed, refs, apps, token, cloudVars, disk, mem, answer, pc, mishaps>>

RunReturns ==
  /\ pc = "stopping" /\ loops = {}
  /\ End
  /\ UNCHANGED <<listed, token, cloudVars, disk, mishaps>>

\* The process dies, or the context is canceled before there are loops.
Die ==
  /\ pc # "down" /\ Mishap
  /\ End
  /\ UNCHANGED <<listed, token, cloudVars, disk>>

\* The operator replaces a token that is of no more use.
NewToken ==
  /\ token \in spent \cup {0} /\ token < MaxTokens
  /\ token' = token + 1
  /\ UNCHANGED <<listed, refs, apps, cloudVars, disk, mem, answer, loops, pc, mishaps>>

\* The operator edits the list; the next start reads it.
Edit ==
  /\ Mishap /\ listed' \in Lists
  /\ UNCHANGED <<refs, apps, token, cloudVars, disk, mem, answer, loops, pc>>

Sound(list) == list # <<>> /\ ToSet(list) \subseteq Apps /\ IsInjective(list)

\* The operator corrects a list with which no start succeeds.
Repair ==
  /\ ~Sound(listed) /\ listed' \in {list \in Lists : Sound(list)}
  /\ UNCHANGED <<refs, apps, token, cloudVars, disk, mem, answer, loops, pc, mishaps>>

Proceed == Start \/ Load \/ Loaded \/ AllEnrolled \/ Exchange \/ Refused \/ Saved \/ RunReturns
             \/ \E a \in Apps : Save(a) \/ SaveFails(a) \/ LoopReturns(a)

Next == Proceed \/ LoadFails \/ Cancel \/ Die \/ NewToken \/ Edit \/ Repair

Spec == Init /\ [][Next]_vars

\* The service manager restarts the process and the program goes on.
Fairness == WF_vars(Proceed \/ LoadFails)

\* In addition the operator replaces a spent token and corrects a list with
\* which no start succeeds, sooner or later.
AttendedSpec == Spec /\ Fairness /\ WF_vars(NewToken) /\ WF_vars(Repair)

UnattendedSpec == Spec /\ Fairness
-------------------------------------------------------------------------------
(* Properties.                                                               *)

\* "A persisted identity makes the Supervisor skip enrollment entirely"
\* (enroll.go:3-4): through restarts, unreadable files, further tokens, partly
\* saved answers, and however the list of applications is edited, an identity
\* once written is never replaced.
IdentityIsPermanent == [][\A a \in Apps : disk[a] # None => disk'[a] = disk[a]]_vars

\* An application works only under a runtime created for it, and under the one
\* its identity file names (main.go:192-210).
OwnIdentity ==
  \A a \in Apps :
    /\ disk[a] # None => issued[disk[a]] = a
    /\ a \in loops => mem[a] = disk[a] /\ disk[a] # None

\* The loops start together or not at all (main.go:121-151).
NoneWithoutAll == loops # {} => \A a \in apps : mem[a] # None

\* The cloud is asked for a runtime only for an application without identity
\* file, so no runtime is created beside one that is in use (main.go:170-180).
NoSecondRuntime ==
  [][\A i \in Len(issued) + 1..Len(issued') : disk[issued'[i]] = None]_vars

\* If a spent token is replaced and a broken list corrected, the applications
\* end up running however the earlier starts ended.
EventuallyRunning == <>[](pc = "running" /\ loops = apps)

\* "Applications on the same host can never interfere with each other"
\* (supervisor-configuration.md:54-55) and "the enrollment token is never needed
\* again" (supervisor-configuration.md:74-75): what has its identity runs.
EnrolledRuns == \A a \in Apps : disk[a] # None ~> a \in loops
-------------------------------------------------------------------------------
\* Strengthening: what has been read of the identity files is what they hold,
\* and loops run only with all of it.
MemoryIsDisk ==
  /\ disk = [a \in Apps |-> disk[a]] /\ mem = [a \in Apps |-> mem[a]]
  /\ apps \subseteq Apps /\ loops \subseteq apps
  /\ \A a \in apps : mem[a] = disk[a]
  /\ pc \notin {"running", "stopping"} => loops = {}
  /\ pc \in {"running", "stopping"} => Missing = {}

\* What is written, and what an answer offers, was created for its application.
CreatedFor(a, id) == id \in Runtimes /\ issued[id] = a

OnlyCreated ==
  /\ issued \in Seq(Apps)
  /\ \A a \in Apps : disk[a] # None => CreatedFor(a, disk[a])
  /\ \A r \in answer : CreatedFor(r.app, r.runtime)
===============================================================================
