-------------------------------- MODULE Manifest --------------------------------
(***************************************************************************)
(* The integration manifest and its validation (integration-spec): Parse   *)
(* and Validate as the set of problems they report, beside a declarative   *)
(* definition of what a manifest has to be.                                *)
(* A path is a record of its form ("slash", "drive" or "relative") and its *)
(* text.  What a manifest may leave out is a set: empty, or with the one   *)
(* hook or section that is there.  known says that all fields are known.   *)
(***************************************************************************)
EXTENDS Integers, Sequences

MaxTimeout == 3600   \* an hour, in seconds

\* path.IsAbs: what is absolute for a Unix host.
IsAbs(p) == p.form = "slash"

IsAbsAnyOS(p) == IsAbs(p) \/ p.form = "drive"

CheckHook(name, hook) ==
  {<<name, "not absolute">> : h \in {h \in hook : ~IsAbsAnyOS(h.executable)}}
    \cup {<<name, "bad timeout">> : h \in {h \in hook : h.timeout \notin 0..MaxTimeout}}

\* Mutant: a file is compared with the one before it.
NeighbourProblems(files, i) ==
  {problem \in {"no id", "duplicate id", "not absolute", "duplicate destination"} :
     \/ problem = "no id" /\ files[i].id = ""
     \/ problem = "duplicate id" /\ i > 1 /\ files[i].id = files[i - 1].id
     \/ problem = "not absolute" /\ ~IsAbsAnyOS(files[i].destination)
     \/ /\ problem = "duplicate destination" /\ i > 1
        /\ files[i].destination = files[i - 1].destination}

\* What is wrong with file i; the files before it have left their ids and
\* destinations in the two maps, whatever was said of them.
FileProblems(files, i) ==
  LET ids == {files[j].id : j \in 1..(i - 1)}
      dests == {files[j].destination : j \in 1..(i - 1)}
      f == files[i]
  IN {problem \in {"no id", "duplicate id", "not absolute", "duplicate destination"} :
        \/ problem = "no id" /\ f.id = ""
        \/ problem = "duplicate id" /\ f.id # "" /\ f.id \in ids
        \/ problem = "not absolute" /\ ~IsAbsAnyOS(f.destination)
        \/ /\ problem = "duplicate destination"
           /\ IsAbsAnyOS(f.destination) /\ f.destination \in dests}

CheckConfiguration(c) ==
  {<<"configuration", "no files">> : x \in {x \in {c.files} : x = << >>}}
    \cup (UNION {{<<i, problem>> : problem \in FileProblems(c.files, i)} :
                   i \in DOMAIN c.files})
    \cup CheckHook("validate", c.validate) \cup CheckHook("apply", c.apply)

\* Every problem at once.
Validate(in) ==
  {<<field, "wrong">> : field \in {f \in {"apiVersion", "kind", "name"} : ~in.header[f]}}
    \cup {<<hook, "required">> : hook \in {h \in {"upgrade", "check"} : in.hooks[h] = {}}}
    \cup (UNION {CheckHook(hook, in.hooks[hook]) : hook \in DOMAIN in.hooks})
    \cup (UNION {CheckConfiguration(c) : c \in in.configuration})

\* Parse; a field the decoder does not know is an error of its own.
Accepted(in) == in.known /\ Validate(in) = {}
-------------------------------------------------------------------------------
HookFits(h) == IsAbsAnyOS(h.executable) /\ h.timeout >= 0 /\ h.timeout <= MaxTimeout

FilesFit(files) ==
  /\ files # << >>
  /\ \A i \in DOMAIN files : files[i].id # "" /\ IsAbsAnyOS(files[i].destination)
  /\ \A i, j \in DOMAIN files :
       i # j => files[i].id # files[j].id /\ files[i].destination # files[j].destination

\* What the decoder gives: durations are integers, a list is a list.
IsDecoded(in) ==
  /\ \A name \in DOMAIN in.hooks : \A h \in in.hooks[name] : h.timeout \in Int
  /\ {"upgrade", "check"} \subseteq DOMAIN in.hooks
  /\ \A c \in in.configuration :
       /\ Len(c.files) \in Nat /\ DOMAIN c.files = 1..Len(c.files)
       /\ \A h \in c.validate \cup c.apply : h.timeout \in Int

\* What a manifest has to be, by its documentation and by the comments and tests of
\* the package (the bound on timeouts, unique ids and destinations).
WellFormed(in) ==
  /\ in.known /\ \A f \in {"apiVersion", "kind", "name"} : in.header[f]
  /\ in.hooks["upgrade"] # {} /\ in.hooks["check"] # {}
  /\ \A name \in DOMAIN in.hooks : \A h \in in.hooks[name] : HookFits(h)
  /\ \A c \in in.configuration :
       FilesFit(c.files) /\ \A h \in c.validate \cup c.apply : HookFits(h)
===============================================================================
