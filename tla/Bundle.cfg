SPECIFICATION BundleSpec
CONSTANTS
  Content      <- MCContent
  Size         <- MCSize
  Name         <- MCName
  Path         <- MCPath
  Rank         <- MCRank
  Manifest     <- MCManifest
  Descriptor   <- MCDescriptor
  Capabilities = {"capabilities"}
  Replacement  <- MCReplacement
  MaxChanges   = 2
  InitialDisk  <- MCInitialDisk
  Build        <- MCBuild
  Anchors      <- MCAnchors
  Output       <- MCOutput
  TempDirMayFail = TRUE
  MaxCommands  = 2
  Remembered   <- MCRemembered
  Drafts       <- MCDrafts
  Staged       <- MCStaged
  NoToolchain  = "no json"
  MaxInputSize = 2
  MaxDeadlineMs = 600000
  MinRate      = 8000
  MaxRate      = 192000
  MaxChannels  = 2
INVARIANTS
  TypeOK
  DoctorIsExact
  OkReportIsTrusted
  VerifiedBundleRunsGenuineTools
  OneKeyOneWork
PROPERTIES
  StaleKeyIsRefused
CHECK_DEADLOCK FALSE
