SPECIFICATION Spec
CONSTANTS
  Folder = {"downloads"}
  Path = {"a"}
  FolderOf <- MCFolderOf
  BufferSize = 1
  MaxVersion = 2
  Image = {"image"}
INVARIANTS EngineInv CallbackSerialised
PROPERTIES EveryChangeAnswered StopReturns
CHECK_DEADLOCK FALSE
