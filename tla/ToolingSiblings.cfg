SPECIFICATION Spec
CONSTANTS
  Words <- MCWords
  Library <- MCLibrary
  Prelude <- MCPrelude
  BuiltinTypes <- MCBuiltinTypes
  Capabilities <- MCCapabilities
  Begins <- MCBegins
  Size = 3
  Projects <- MCProjects
  Drafts <- MCDrafts
  Requests <- MCRequests
  MaxEdits = 0
  MaxCommands = 1
  Documents = {d1, d2}
  Typed <- MCTyped
  Concurrency = 2
  MaxMessages = 0
INVARIANT SiblingsVisible
CHECK_DEADLOCK FALSE
