SPECIFICATION Spec
CONSTANTS
  Films = 2
  Layouts <- MCLayouts
  NoShow = NoShow
  Payload = "A"
  OutDir = "out"
  NewDir = "new"
  MaxId = 4
  Slot <- MCSlot
  MaxRequests = 2
  MaxFaults = 1
INVARIANTS
  TypeOK
  EntriesArePlayable
  FilesHaveOneOwner
  NothingIsUndone
  FilmsSurvive
CHECK_DEADLOCK FALSE
