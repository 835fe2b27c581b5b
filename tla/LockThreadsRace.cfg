SPECIFICATION Spec
CONSTANTS
  Thread = {t1, t2}
  Client <- Racers
  r = r
  w = w
  ReadBits = {r}
  WriteBits = {w}
  Mapping = {m1, m2, m3}
  NoMapping = NoMapping
  NoData = NoData
  MaxCalls = 4
INVARIANT PointersStayMapped
\* A client stops calling after so many calls.
CHECK_DEADLOCK FALSE
