------------------------------- MODULE AtomicFile -------------------------------
(***************************************************************************)
(* A file that is replaced by writing a temporary file beside it and       *)
(* renaming that into place: Save in state.go and in identity.go, and      *)
(* atomicWrite in bundle.go.  One goroutine saves, others read meanwhile,  *)
(* both operations fail at will, and the process dies between any two.     *)
(* Without fsync a file's content may reach the disk after its name, so a  *)
(* power cut, other than a kill, can lose what was renamed last.           *)
(***************************************************************************)

CONSTANTS Values, Readers,
          Empty,     \* there is no file
          Torn,      \* part of a content
          NoValue,   \* nothing is being saved
          Unread,    \* what a read that fails finds
          PowerCuts  \* whether the power can fail

ASSUME NoValueAssumption == NoValue \notin Values

VARIABLES
  file,      \* the content under the file's own name
  tmp,       \* the content of the temporary file
  new,       \* what is being saved, or NoValue
  at,        \* where Save is: "idle", "write" or "rename"
  got,       \* what each reader found
  flushed    \* the content under the name is on the disk

fileVars == <<file, tmp, new, at, got, flushed>>

FileTypeOK ==
  /\ file \in Values \cup {Empty, Torn} /\ tmp \in Values \cup {Empty, Torn}
  /\ new \in Values \cup {NoValue}
  /\ at \in {"idle", "write", "rename"} /\ flushed \in BOOLEAN
  /\ got \in [Readers -> Values \cup {Empty, Torn, Unread}]

FileInit ==
  /\ file = Empty /\ tmp = Empty /\ new = NoValue /\ at = "idle"
  /\ got = [r \in Readers |-> Empty] /\ flushed = TRUE

Save(v) ==
  /\ at = "idle"
  /\ new' = v /\ at' = "write"
  /\ UNCHANGED <<file, tmp, got, flushed>>

\* Mutant: os.WriteFile on the file itself.
WriteInPlace ==
  /\ at = "write"
  /\ file' = Torn /\ tmp' = new /\ at' = "rename"
  /\ UNCHANGED <<new, got, flushed>>

\* os.WriteFile: the temporary file is truncated and written.
WriteTemp ==
  /\ at = "write"
  /\ tmp' = new /\ at' = "rename"
  /\ UNCHANGED <<file, new, got, flushed>>

\* os.Rename.  A reader that has the old file open goes on reading that.
Rename ==
  /\ at = "rename"
  /\ file' = tmp /\ tmp' = Empty /\ new' = NoValue /\ at' = "idle" /\ flushed' = FALSE
  /\ UNCHANGED got

\* Whichever of the two fails, nothing is cleaned up.
SaveFails ==
  /\ at # "idle"
  /\ tmp' \in IF at = "write" THEN {tmp, Torn} ELSE {tmp}
  /\ new' = NoValue /\ at' = "idle"
  /\ UNCHANGED <<file, got, flushed>>

\* os.ReadFile, which may fail.
ReadFile(r) ==
  /\ got' \in {[got EXCEPT ![r] = found] : found \in {file, Unread}}
  /\ UNCHANGED <<file, tmp, new, at, flushed>>

\* The file system writes back what it holds in memory.
Flush == ~flushed /\ flushed' = TRUE /\ UNCHANGED <<file, tmp, new, at, got>>

\* The process is killed, maybe by a power cut.
FileDies ==
  /\ file' \in IF PowerCuts /\ ~flushed THEN {file, Torn} ELSE {file}
  /\ tmp' \in IF at = "write" THEN {tmp, Torn} ELSE {tmp}
  /\ new' = NoValue /\ at' = "idle"
  /\ UNCHANGED <<got, flushed>>

SaveSteps == WriteTemp \/ Rename \/ SaveFails

FileNext ==
  \/ \E v \in Values : Save(v)
  \/ SaveSteps
  \/ \E r \in Readers : ReadFile(r)
  \/ Flush \/ FileDies

FileSpec == FileInit /\ [][FileNext]_fileVars
-------------------------------------------------------------------------------
Contents == INSTANCE Register WITH value <- file, wanted <- new

\* Temporary file and rename make the file a register: no reader, and no
\* process that starts after a kill, ever finds a part of a content.
ImplementsRegister == Contents!Spec

\* What holds in every reachable state.
FileInv ==
  /\ at = "idle" <=> new = NoValue
  /\ at = "rename" => tmp = new
===============================================================================
