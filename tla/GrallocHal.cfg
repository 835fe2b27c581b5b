SPECIFICATION HalSpec
CONSTANTS
  MaxFd = 2
  MaxDevice = 2
  Thread = {t1, t2}
  NoThread = NoThread
  Fence = {s1}
  NoFence = NoFence
  NoHandle = NoHandle
  rgba = rgba
  yv12 = yv12
  r = r
  f1 = f1
  Info <- MCInfo
  Handle = {h1}
  Bo = {b1}
  NoBo = NoBo
  NoData = NoData
  Fd = {f1}
  NoFd = NoFd
  Format = {rgba, yv12}
  KnownFormat = {rgba, yv12}
  YuvFormat = {yv12}
  ReadBits = {r}
  WriteBits = {}
  HwBits = {}
  LaxHw = {}
  StaleErrno = {"0"}
  MaxLocks = 2
INVARIANTS HalTypeOK DeviceShared DestroyedTwiceAtExit HalNoCrash RegisteredAreLive LocksAccounted FencesOwned
PROPERTIES LibraryCalled HalCallsReturn
CHECK_DEADLOCK FALSE
