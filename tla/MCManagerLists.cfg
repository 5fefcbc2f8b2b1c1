CONSTANTS
  Drives <- MCDrives
  DeviceOf <- MCDeviceOf
  BrowseResults <- MCBrowseResults
  AskingPrograms <- MCAskingPrograms
  MaxCopies <- MCMaxCopies
SPECIFICATION Spec
INVARIANTS
  TypeOK
  ListsAgree
  HiddenIsNotInForce
  ShownIsRemovable
