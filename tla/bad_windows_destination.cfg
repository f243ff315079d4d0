\* A manifest with a Windows destination is validated and published, and no
\* bundle for it can ever be applied.
CONSTANTS
  Manifests <- MCManifests
  Drafts <- MCDrafts
  Versions = {"1"}
  Orgs = {"acme", "globex"}
  Member = {"acme"}
SPECIFICATION Spec
INVARIANTS PublishedIsApplicable
