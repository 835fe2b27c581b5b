SPECIFICATION MapperSpec
CONSTANTS
  buf1 = buf1
  buf2 = buf2
  rgba = rgba
  yv12 = yv12
  r = r
  w = w
  cam = cam
  Handle = {h1, h2}
  Bo = {b1}
  NoBo = NoBo
  NoData = NoData
  Fd = {f1, f2}
  NoFd = NoFd
  Format = {rgba, yv12}
  KnownFormat = {rgba, yv12}
  YuvFormat = {yv12}
  ReadBits = {r}
  WriteBits = {w}
  HwBits = {cam}
  LaxHw = {}
  StaleErrno = {"0", "EINVAL"}
  MaxLocks = 2
  Buffer = {buf1, buf2}
  Allocated <- MCAllocated
  NoFile = NoFile
  NoHandle = NoHandle
  Field = {"dataspace"}
  Value = {0, 1}
  Default = 0
  NoMetadata = NoMetadata
  HighBits = {}
  NegativeCalls = TRUE
PROPERTY FreeRefusesRaw
