CONSTANTS
  Base = "alien"
  Ext = "mkv"
  langGroups <- Groups
  ForcedTokens = {"forced"}
  SDHTokens = {"sdh"}
  PlainTokens = {"full"}
  Files <- SomeFiles
  Prefs <- SomePrefs
  MaxPool = 3
SPECIFICATION Spec
INVARIANTS
  OnlyNamedFilesAreTracks
