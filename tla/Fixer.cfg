SPECIFICATION Spec
CONSTANTS
  Texts <- MCTexts
  Manifests <- MCManifests
  Streams <- MCStreams
  Names = {"", "web"}
  MaxItems = 3
INVARIANTS
  PatchIsTheEdit
  HardensExactlyTheTargets
  ManifestIsTheEdit
  SecondApplyChangesNothing
CHECK_DEADLOCK FALSE
