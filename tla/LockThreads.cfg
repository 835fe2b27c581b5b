SPECIFICATION Spec
CONSTANTS
  Thread = {t1, t2}
  Client <- Both
  r = r
  w = w
  ReadBits = {r}
  WriteBits = {w}
  Mapping = {m1, m2}
  NoMapping = NoMapping
  NoData = NoData
  MaxCalls = 4
INVARIANTS ThreadsTypeOK NoNullData SerialisedStayMapped NoBadUnmap
PROPERTIES CallsAreAtomic CallsReturn
\* A client stops calling after so many calls.
CHECK_DEADLOCK FALSE
