-------------------------------- MODULE Publish --------------------------------
(***************************************************************************)
(* thinre publish (cmd/cli/publish.go), given again and again, while the   *)
(* author edits the manifest it reads and others use the same cloud.  A    *)
(* request may be refused or lost, and its answer may be lost after the    *)
(* cloud has acted on it; one timeout covers all requests of an invocation.*)
(* The cloud is external: names of integrations are unique in their        *)
(* organization, versions are unique in their integration.                 *)
(***************************************************************************)
EXTENDS Manifest, FiniteSets

CONSTANTS Manifests,   \* the manifests validation is compared on
          Drafts,      \* those the author writes into the file
          Versions, Orgs,
          Member       \* the organizations the user belongs to

ASSUME PublishAssumption ==
  /\ Drafts \subseteq Manifests /\ \A in \in Manifests : IsDecoded(in)
  /\ Member \subseteq Orgs

NoOrg == "none"

VARIABLES
  host,          \* the manifest file
  args,          \* the flags: [version, create, org]
  at,            \* where the command is
  data,          \* what it has read of the file
  org, id,       \* what it has resolved
  integrations,  \* the cloud's, as <<organization, name>>, which is the id too
  published      \* the versions of integrations

vars == <<host, args, at, data, org, id, integrations, published>>
cloud == <<integrations, published>>

Nowhere == <<NoOrg, "">>

TypeOK ==
  /\ host \in Drafts
  /\ args \in [version : Versions, create : BOOLEAN, org : Orgs \cup {NoOrg}]
  /\ at \in {"read", "orgs", "find", "create", "post", "done", "failed"}
  /\ data \in Drafts /\ org \in Orgs \cup {NoOrg}
  /\ integrations \subseteq Orgs \X {d.name : d \in Drafts}
  /\ id \in integrations \cup {Nowhere}
  /\ published \subseteq [id : integrations, version : Versions, manifest : Drafts]

Init ==
  /\ host \in Drafts
  /\ args \in [version : Versions, create : BOOLEAN, org : Orgs \cup {NoOrg}]
  /\ at = "failed" /\ data = host /\ org = NoOrg /\ id = Nowhere
  /\ integrations = {} /\ published = {}

Edit ==
  /\ host' \in Drafts
  /\ UNCHANGED <<args, at, data, org, id, cloud>>

\* The command is given (again).
Invoke ==
  /\ at \in {"done", "failed"}
  /\ at' = "read"
  /\ org' = args.org /\ id' = Nowhere
  /\ UNCHANGED <<host, args, data, cloud>>

Go(where) == at' = where

\* The file is read once and parsed before any request.
Read ==
  /\ at = "read"
  /\ data' = host
  /\ Go(IF ~Accepted(host) THEN "failed" ELSE IF org = NoOrg THEN "orgs" ELSE "find")
  /\ UNCHANGED <<host, args, org, id, cloud>>

\* A refusal, an error of the transport, the timeout, or a manifest that
\* cannot be read.
Fails ==
  /\ at \in {"read", "orgs", "find", "create", "post"}
  /\ Go("failed")
  /\ UNCHANGED <<host, args, data, org, id, cloud>>

\* soleOrganization
SoleOrganization ==
  /\ at = "orgs" /\ Cardinality(Member) = 1
  /\ \E only \in Member : org' = only
  /\ Go("find")
  /\ UNCHANGED <<host, args, data, id, cloud>>

Wanted == <<org, data.name>>

\* Mutant: -create is taken as an order.
CreateFirst ==
  /\ at = "find" /\ org \in Member /\ (args.create \/ Wanted \in integrations)
  /\ Go(IF args.create THEN "create" ELSE "post")
  /\ id' = Wanted
  /\ UNCHANGED <<host, args, data, org, cloud>>

\* findIntegration: an integration is created if there is none and -create
\* allows it.
Find ==
  /\ at = "find" /\ org \in Member
  /\ \/ /\ Wanted \in integrations
        /\ Go("post") /\ id' = Wanted
     \/ /\ Wanted \notin integrations /\ args.create
        /\ Go("create") /\ UNCHANGED id
  /\ UNCHANGED <<host, args, data, org, cloud>>

\* createIntegration; the answer may be lost.
Create ==
  /\ at = "create" /\ Wanted \notin integrations
  /\ integrations' = integrations \cup {Wanted}
  /\ \/ Go("post") /\ id' = Wanted
     \/ Go("failed") /\ UNCHANGED id
  /\ UNCHANGED <<host, args, data, org, published>>

\* Mutant: the file is read again for the upload.
PostFile ==
  /\ at = "post"
  /\ ~\E v \in published : v.id = id /\ v.version = args.version
  /\ published' = published \cup {[id |-> id, version |-> args.version, manifest |-> host]}
  /\ Go("done")
  /\ UNCHANGED <<host, args, data, org, id, integrations>>

\* Mutant: an answer other than 2xx is not looked at.
PostAnyAnswer ==
  /\ at = "post"
  /\ published' = IF \E v \in published : v.id = id /\ v.version = args.version
                  THEN published
                  ELSE published \cup
                         {[id |-> id, version |-> args.version, manifest |-> data]}
  /\ Go("done")
  /\ UNCHANGED <<host, args, data, org, id, integrations>>

\* The version is posted, with the bytes that were parsed.
Post ==
  /\ at = "post"
  /\ ~\E v \in published : v.id = id /\ v.version = args.version
  /\ published' = published \cup
       {[id |-> id, version |-> args.version, manifest |-> data]}
  /\ Go("done") \/ Go("failed")
  /\ UNCHANGED <<host, args, data, org, id, integrations>>

Proceed ==
  Read \/ Fails \/ SoleOrganization \/ Find \/ Create \/ Post

\* Somebody else creates an integration or publishes a version.
Others ==
  /\ \E o \in Orgs, d \in {d \in Drafts : Accepted(d)}, v \in Versions :
       \/ integrations' = integrations \cup {<<o, d.name>>} /\ UNCHANGED published
       \/ /\ <<o, d.name>> \in integrations /\ UNCHANGED integrations
          /\ ~\E w \in published : w.id = <<o, d.name>> /\ w.version = v
          /\ published' = published \cup
               {[id |-> <<o, d.name>>, version |-> v, manifest |-> d]}
  /\ UNCHANGED <<host, args, at, data, org, id>>

Next == Edit \/ Others \/ Invoke \/ Proceed

Spec == Init /\ [][Next]_vars

\* Every request ends, if only by the timeout; the operator tries again, and
\* requests do not fail for ever.
Fairness ==
  /\ WF_vars(Invoke) /\ WF_vars(Proceed)
  /\ SF_vars(Read) /\ SF_vars(SoleOrganization) /\ SF_vars(Find)
  /\ SF_vars(Create) /\ SF_vars(Post)

FairSpec == Spec /\ Fairness
-------------------------------------------------------------------------------
\* Every version the cloud holds is a manifest the supervisor accepts, and it
\* belongs to the integration its own name says, however the file is edited.
PublishedIsAccepted ==
  \A v \in published : Accepted(v.manifest) /\ v.id[2] = v.manifest.name

\* "published" is said of what the cloud holds, byte for byte.
SaidIsPublished ==
  at = "done" => [id |-> id, version |-> args.version, manifest |-> data] \in published

\* Trying again completes what was cut short between any two requests, or
\* whose answer was lost.
RetryCompletes ==
  \A d \in Drafts :
    (Accepted(d) /\ args.create /\ (args.org \in Member \/ (args.org = NoOrg /\ Cardinality(Member) = 1))
       /\ <>[](host = d))
      => <>(\E v \in published : v.id[2] = d.name /\ v.version = args.version)

Agree(in) == Accepted(in) <=> WellFormed(in)
AllAgree == \A in \in Manifests : Agree(in)

\* Validate lets through exactly the manifests that its documentation, comments and
\* tests describe.
ValidationIsExact == Agree(host) /\ AllAgree

\* What holds in every reachable state.
PublishInv ==
  /\ host \in Drafts
  /\ PublishedIsAccepted /\ SaidIsPublished
  /\ at \in {"orgs", "find", "create", "post"} => Accepted(data)
  /\ at = "post" => id[2] = data.name

\* Not kept: what the cloud holds can be applied by applyBundle.
PublishedIsApplicable ==
  \A v \in published : \A c \in v.manifest.configuration :
    \A i \in DOMAIN c.files : IsAbs(c.files[i].destination)
===============================================================================
