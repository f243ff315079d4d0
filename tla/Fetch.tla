-------------------------------- MODULE Fetch --------------------------------
(***************************************************************************)
(* The package download of supervisor/artifacts: Fetch with its attempts   *)
(* and backoff, and fetchOnce with its temporary file, its verification    *)
(* and its rename, under failing requests, a source whose contents change, *)
(* a canceled context and the end of the process at any point.             *)
(*                                                                         *)
(* An artifact stands for its own SHA-256: the file of name a is right     *)
(* exactly when its contents are a.                                        *)
(***************************************************************************)
EXTENDS Naturals, Sequences

CONSTANTS
  Artifacts,    \* contents a source may serve, or a document may ask for
  Oversized,    \* those beyond MaxSize
  None,         \* no file, no call, nothing handed out
  Partial,      \* the contents of a download that has not ended
  MaxDeaths     \* bound on the ends of the process

ASSUME ConstantsAssumption ==
  /\ Oversized \subseteq Artifacts
  /\ None \notin Artifacts /\ Partial \notin Artifacts /\ None # Partial
  /\ MaxDeaths \in Nat

FetchAttempts == 3

VARIABLES
  pc,        \* "idle", "attempt", "stream", "verify" or "backoff"
  want,      \* the SHA-256 of the running call
  attempt,   \* its attempt number
  outcomes,  \* how the attempts of this call have ended so far
  temp,      \* the contents of this attempt's file in staging
  left,      \* files in staging that belong to no running attempt
  files,     \* the artifacts directory: <<name, contents>> pairs
  handed,    \* what the last call returned a path to
  canceled,  \* has the context been canceled?
  deaths     \* ends of the process so far

callVars == <<want, attempt, outcomes>>
vars == <<pc, callVars, temp, left, files, handed, canceled, deaths>>

Stored == {f[1] : f \in files}

TypeOK ==
  /\ pc \in {"idle", "attempt", "stream", "verify", "backoff"}
  /\ want \in Artifacts \cup {None}
  /\ attempt \in 1..FetchAttempts
  /\ outcomes \in Seq({"transient", "mismatch", "stored", "hit"})
  /\ temp \in Artifacts \cup {Partial, None}
  /\ left \in Nat
  /\ files \subseteq Artifacts \X (Artifacts \cup {Partial})
  /\ handed \in Artifacts \cup {None}
  /\ canceled \in BOOLEAN
  /\ deaths \in 0..MaxDeaths

Init ==
  /\ pc = "idle" /\ want = None /\ attempt = 1 /\ outcomes = <<>>
  /\ temp = None /\ left = 0 /\ files = {} /\ handed = None
  /\ canceled = FALSE /\ deaths = 0
-------------------------------------------------------------------------------
Call(a) ==
  /\ pc = "idle" /\ ~canceled
  /\ pc' = "attempt"
  /\ want' = a /\ attempt' = 1 /\ outcomes' = <<>> /\ handed' = None
  /\ UNCHANGED <<temp, left, files, canceled, deaths>>

\* Mutant: the temporary file is closed but not removed.
NothingRemoved == temp' = None /\ left' = left + (IF temp = None THEN 0 ELSE 1)

\* The deferred clean-up of an attempt.
RemoveTemp == temp' = None /\ UNCHANGED left

EndAttempt(outcome) ==
  /\ outcomes' = Append(outcomes, outcome)
  /\ RemoveTemp

\* The call returns: a path to the artifact, or an error.
Return(result) ==
  /\ pc' = "idle" /\ want' = None /\ attempt' = 1
  /\ handed' = result

\* Every error but a failed verification leads to another attempt, unless the
\* context is canceled by now.
Transient ==
  /\ EndAttempt("transient")
  /\ \/ canceled /\ Return(None)
     \/ ~canceled /\ pc' = "backoff" /\ UNCHANGED <<want, attempt, handed>>

\* The artifacts directory has the file already: no request is made, whatever
\* the context.
Hit ==
  /\ pc = "attempt" /\ want \in Stored
  /\ EndAttempt("hit") /\ Return(want)
  /\ UNCHANGED <<files, canceled, deaths>>

\* Mutant: the download goes straight to its final name.
AnsweredInPlace ==
  /\ pc = "attempt" /\ want \notin Stored /\ ~canceled
  /\ pc' = "stream" /\ temp' = Partial
  /\ files' = files \cup {<<want, Partial>>}
  /\ UNCHANGED <<callVars, left, handed, canceled, deaths>>

\* The source answers 200 and the temporary file exists.
Answered ==
  /\ pc = "attempt" /\ want \notin Stored /\ ~canceled
  /\ pc' = "stream" /\ temp' = Partial
  /\ UNCHANGED <<callVars, left, files, handed, canceled, deaths>>

\* No answer, another status, no temporary file, or a canceled context.
RequestFails ==
  /\ pc = "attempt" /\ want \notin Stored
  /\ Transient
  /\ UNCHANGED <<files, canceled, deaths>>

\* The body ends: what the source holds by now, and within the limit.
Streamed(a) ==
  /\ pc = "stream" /\ a \notin Oversized
  /\ pc' = "verify" /\ temp' = a
  /\ UNCHANGED <<callVars, left, files, handed, canceled, deaths>>

\* The body breaks off, exceeds the limit, or cannot be written.
StreamFails ==
  /\ pc = "stream"
  /\ Transient
  /\ UNCHANGED <<files, canceled, deaths>>

\* Mutant: a failed verification is one more reason to try again.
MismatchIsTransient ==
  /\ pc = "verify" /\ temp # want
  /\ outcomes' = Append(outcomes, "mismatch") /\ RemoveTemp
  /\ pc' = "backoff"
  /\ UNCHANGED <<want, attempt, files, handed, canceled, deaths>>

Mismatch ==
  /\ pc = "verify" /\ temp # want
  /\ EndAttempt("mismatch") /\ Return(None)
  /\ UNCHANGED <<files, canceled, deaths>>

\* The rename: what was in staging is now in the artifacts directory.
Store ==
  /\ pc = "verify" /\ temp = want
  /\ files' = files \cup {<<want, temp>>}
  /\ EndAttempt("stored") /\ Return(want)
  /\ UNCHANGED <<canceled, deaths>>

StoreFails ==
  /\ pc = "verify" /\ temp = want
  /\ Transient
  /\ UNCHANGED <<files, canceled, deaths>>

LastAttempt == attempt = FetchAttempts

\* Mutant: the timer's case is missing from the select.
NeverOver ==
  /\ pc = "backoff" /\ canceled /\ Return(None)
  /\ UNCHANGED <<outcomes, temp, left, files, canceled, deaths>>

\* The pause after a failed attempt, the last one too.  When the pause is over
\* and the context canceled, select takes either branch.
Backoff ==
  /\ pc = "backoff"
  /\ \/ LastAttempt /\ Return(None)
     \/ canceled /\ Return(None)
     \/ /\ ~LastAttempt
        /\ attempt' = attempt + 1 /\ pc' = "attempt"
        /\ UNCHANGED <<want, handed>>
  /\ UNCHANGED <<outcomes, temp, left, files, canceled, deaths>>

\* SIGTERM reaches the worker's context.
Cancel ==
  /\ ~canceled /\ canceled' = TRUE
  /\ UNCHANGED <<pc, callVars, temp, left, files, handed, deaths>>

\* The process is killed, or main returns while the worker is still fetching:
\* no deferred clean-up runs.  A new process starts with a new context.
Die ==
  /\ deaths < MaxDeaths /\ deaths' = deaths + 1
  /\ left' = left + (IF temp = None THEN 0 ELSE 1)
  /\ temp' = None /\ canceled' = FALSE
  /\ pc' = "idle" /\ want' = None /\ attempt' = 1 /\ outcomes' = <<>> /\ handed' = None
  /\ UNCHANGED files

Work == Hit \/ Answered \/ RequestFails \/ (\E a \in Artifacts : Streamed(a))
          \/ StreamFails \/ Mismatch \/ Store \/ StoreFails \/ Backoff

Next == Work \/ Cancel \/ Die \/ \E a \in Artifacts : Call(a)

Spec == Init /\ [][Next]_vars

\* Requests, bodies and pauses all end: the client times out after 15 minutes.
FairSpec == Spec /\ WF_vars(Work)
-------------------------------------------------------------------------------
(* Properties.                                                               *)

\* Fail-closed (artifacts.go:1-4): whatever the source served and wherever the
\* process ended, each file of the artifacts directory has the contents its
\* name promises, and none is beyond the size limit.
OnlyVerifiedStored == \A f \in files : f[1] = f[2] /\ f[2] \notin Oversized

\* What a call hands to the upgrade hook is in the artifacts directory with
\* the contents the document named (artifacts.go:3-4).
HandedIsVerified == handed # None => <<handed, handed>> \in files

\* At most three attempts, and a call ends with the first attempt that fails
\* verification: the source's contents are what they are (artifacts.go:27-40).
RetriesAreSound ==
  /\ Len(outcomes) <= FetchAttempts
  /\ \A i \in 1..Len(outcomes) - 1 : outcomes[i] = "transient"

\* "On any failure the partial download is removed" (artifacts.go:40): between
\* calls staging holds only what an ended process left, one file for each.
StagingIsBounded == pc = "idle" => left <= deaths

\* Every call of Fetch returns, or its process ends.
CallsReturn == pc # "idle" ~> pc = "idle"

Promise == INSTANCE ArtifactStore WITH
            stored <- Stored, call <- want, handed <- handed

\* Fetch keeps the promise the reconciliation worker builds on.
ImplementsStore == Promise!Spec
-------------------------------------------------------------------------------
(* Strengthenings that make the properties above inductive.                  *)

\* What is about to be renamed is a whole download.
Whole == pc = "verify" => temp \in Artifacts \ Oversized

\* A file in staging belongs to a running attempt or to an ended process.
Accounted ==
  /\ pc \notin {"stream", "verify"} => temp = None
  /\ left <= deaths

\* A call goes on only while every attempt so far failed for a passing reason.
Counted ==
  pc # "idle" =>
    /\ want \in Artifacts
    /\ Len(outcomes) = IF pc = "backoff" THEN attempt ELSE attempt - 1
    /\ \A i \in 1..Len(outcomes) : outcomes[i] = "transient"

\* A running call has handed out nothing, and downloads only what is not stored.
Asking ==
  /\ pc = "idle" => want = None
  /\ pc # "idle" => handed = None
  /\ pc \in {"stream", "verify", "backoff"} => want \notin Stored
===============================================================================
