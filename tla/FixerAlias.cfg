SPECIFICATION Spec
CONSTANTS
  Texts <- MCTexts
  Manifests <- MCManifests
  Streams <- MCStreams
  Names = {"", "web"}
  MaxItems = 3
INVARIANT PatchGivesTheManifest
CHECK_DEADLOCK FALSE
