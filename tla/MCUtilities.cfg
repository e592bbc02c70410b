CONSTANTS
  Threads = {t1}
  MaxLevel = 2
  Paths = {p1, p2}
  p1 = p1
  p2 = p2
  f1 = f1
  f2 = f2
  Files = {f1, f2}
  Canonical <- TwoFiles
  MaxConnects = 2
  MaxChanges = 3
  MaxBufSize = 8
  MaxPiece = 9
  Words = {"ws", "json"}
  Urls <- AllUrls
SPECIFICATION UtilSpec
PROPERTIES EveryLineOut PathIsCurrent PermittedIsLogged
INVARIANTS InBuffer LongestPrefix BuiltFromItsParts LogsPlaceOnly
CHECK_DEADLOCK FALSE
