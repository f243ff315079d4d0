\* A manifest is published while its file is edited, others publish too, and
\* requests and answers are lost; and validation compared with the
\* documentation's rules over several thousand manifests.
CONSTANTS
  Manifests <- MCManifests
  Drafts <- MCDrafts
  Versions = {"1"}
  Orgs = {"acme", "globex"}
  Member = {"acme"}
SPECIFICATION FairSpec
INVARIANTS PublishedIsAccepted SaidIsPublished ValidationIsExact
PROPERTIES RetryCompletes
