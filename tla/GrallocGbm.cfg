SPECIFICATION Spec
CONSTANTS
  Handle = {h1, h2}
  Bo = {b1, b2}
  NoBo = NoBo
  NoData = NoData
  Fd = {f1}
  NoFd = NoFd
  Format = {rgba, yv12, odd}
  KnownFormat = {rgba, yv12}
  YuvFormat = {yv12}
  ReadBits = {r}
  WriteBits = {w}
  HwBits = {tex}
  LaxHw = {tex}
  StaleErrno = {"0", "EINVAL"}
  MaxLocks = 3
INVARIANTS TypeOK RegistryInv LockInv
PROPERTY LockedForIsStable
\* A dereference of a null bo_data or an uninitialised device ends the process.
CHECK_DEADLOCK FALSE
