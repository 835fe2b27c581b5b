SPECIFICATION ServiceSpec
CONSTANTS
  Thread = {t1, t2}
  Handle = {h1, h2}
  Bo = {b1, b2}
  NoBo = NoBo
  NoData = NoData
  Fd = {f1, f2, f3}
  NoFd = NoFd
  Format = {}
  KnownFormat = {}
  YuvFormat = {}
  ReadBits = {}
  WriteBits = {}
  HwBits = {}
  LaxHw = {}
  StaleErrno = {"0"}
  MaxLocks = 1
  Buffer = {buf1, buf2, buf3}
  MaxCount = 2
  Counts = {0, 1, 2}
  Descriptor = {good, zero, layered}
  ZeroSized = {zero}
  Layered = {layered}
  NoFile = NoFile
  NoHandle = NoHandle
INVARIANTS ServiceTypeOK NothingLeaks ResultsDistinct AllOrNothing
PROPERTY CallsAreAnswered
