SPECIFICATION RemoteSpec
CONSTANTS
  doc = doc  list = list  item = item  folder = folder  op1 = op1  op2 = op2
  w1 = w1  w2 = w2
  Objects = {doc, list, item, folder}
  Mutable = {doc, list, item}
  Parts  <- MCParts
  Ops = {op1, op2}
  Target <- MCTarget
  Refers <- MCRefers
  MaxCalls = 5
  Observers = {w1, w2}
  MaxIds = 2
  MaxMessages = 2
  Shown = {doc}
  MaxUpdates = 1
  GroupGiven = {TRUE}
  Shared = FALSE
INVARIANTS SyncedWhileUsed NewOpsAreFollowed ObserversInformed
CHECK_DEADLOCK FALSE
SYMMETRY Symm
