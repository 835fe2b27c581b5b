SPECIFICATION VtsSpec
CONSTANTS
  Handle = {"raw", "raw2", "a", "b", "c"}
  Fd = {"raw", "raw2", "a", "b", "c"}
  Bo = {1, 2, 3}
  NoBo = NoBo
  NoData = NoData
  NoFd = NoFd
  Format <- MCFormat
  KnownFormat <- MCKnownFormat
  YuvFormat = {"YCRCB_420_SP", "YV12"}
  ReadBits = {"SW_READ_OFTEN"}
  WriteBits = {"SW_WRITE_OFTEN"}
  HwBits = {"HW_RENDER", "HW_TEXTURE", "HW_COMPOSER", "PROTECTED"}
  LaxHw = {"HW_TEXTURE"}
  StaleErrno = {"0", "EINVAL"}
  MaxLocks = 2
  Buffer <- MCBuffer
  Allocated <- MCAllocated
  NoFile = NoFile
  NoHandle = NoHandle
  Field = {"DATASPACE", "BLEND_MODE", "SMPTE2086", "CTA861_3"}
  Value = {"initial", "set"}
  Default = "initial"
  NoMetadata = NoMetadata
  HighBits = {"FRONT_BUFFER"}
  NegativeCalls = TRUE
  Pitch = 64
INVARIANTS VerdictAsExpected FixtureLeaksNothing
