--------------------------- MODULE MetadataCodec ---------------------------
(***************************************************************************)
(* IMapperMetadataTypes.h: how a standard metadata value becomes a message *)
(* in a buffer of the caller, and is read back.  A message is the sequence *)
(* of the fields written into it, [size, data]; a value is the sequence of *)
(* the data it is written as, counts and lengths included.                 *)
(***************************************************************************)
EXTENDS Integers, Sequences, SequencesExt

MaxInt32 == 2147483647
BAD_VALUE == 3
UNSUPPORTED == 7

\* Fields.  A string or a byte vector is [length, bytes].
Int32(v) == <<[size |-> 4, data |-> v]>>
Int64(v) == <<[size |-> 8, data |-> v]>>
Ints(size, v) == [i \in 1..Len(v) |-> [size |-> size, data |-> v[i]]]
Text(s) == [length |-> Len(s), bytes |-> s]
Bytes(v) == Int64(v.length) \o <<[size |-> v.length, data |-> v.bytes]>>
ExtendableType(e) == Bytes(e.name) \o Int64(e.value)

HeaderName == Text("android.hardware.graphics.common.StandardMetadataType")
ASSUME HeaderNameAssumption == HeaderName.length = 53
Header(type) == Bytes(HeaderName) \o Int64(type)

\* DEFINE_TYPE: how the value of each standard type is represented.
Kind ==
  [BUFFER_ID |-> "int64", NAME |-> "string", WIDTH |-> "int64", HEIGHT |-> "int64",
   LAYER_COUNT |-> "int64", PIXEL_FORMAT_REQUESTED |-> "int32", PIXEL_FORMAT_FOURCC |-> "int32",
   PIXEL_FORMAT_MODIFIER |-> "int64", USAGE |-> "int64", ALLOCATION_SIZE |-> "int64",
   PROTECTED_CONTENT |-> "int64", COMPRESSION |-> "extendable", INTERLACED |-> "extendable",
   CHROMA_SITING |-> "extendable", PLANE_LAYOUTS |-> "layouts", CROP |-> "rects",
   DATASPACE |-> "int32", BLEND_MODE |-> "int32", SMPTE2086 |-> "smpte2086",
   CTA861_3 |-> "cta861_3", SMPTE2094_10 |-> "bytes", SMPTE2094_40 |-> "bytes",
   STRIDE |-> "int32"]

StandardMetadataType == DOMAIN Kind

\* std::nullopt, which three kinds may hold.
Optional == {"smpte2086", "cta861_3", "bytes"}
Absent == <<>>
IsAbsent(type, value) == Kind[type] \in Optional /\ value = Absent

\* The 32-bit fields of the kinds that consist of nothing else.
Int32Fields == [int32 |-> 1, smpte2086 |-> 10, cta861_3 |-> 2]

-----------------------------------------------------------------------------
(* MetadataWriter. *)

\* Fault: only what fits is counted.
ReserveCountsWritten(w, field) ==
  IF field.size > w.remaining
    THEN w
    ELSE [w EXCEPT !.desired = @ + field.size, !.remaining = @ - field.size,
                   !.dest = Append(@, field)]

\* A field that does not fit is counted, and ends the writing; a size that
\* overflows int32_t is an error that stays.
Reserve(w, field) ==
  IF w.desired < 0
    THEN w
  ELSE IF field.size > MaxInt32 - w.desired
    THEN [dest |-> w.dest, remaining |-> 0, desired |-> -BAD_VALUE]
  ELSE IF field.size > w.remaining
    THEN [dest |-> w.dest, remaining |-> 0, desired |-> w.desired + field.size]
    ELSE [dest |-> Append(w.dest, field), remaining |-> w.remaining - field.size,
          desired |-> w.desired + field.size]

\* The writer after each number of fields.
Written(fields, destBufferSize) ==
  LET w[k \in 0..Len(fields)] ==
        IF k = 0 THEN [dest |-> <<>>, remaining |-> destBufferSize, desired |-> 0]
                 ELSE Reserve(w[k - 1], fields[k])
  IN w[Len(fields)]

Component(c) == ExtendableType(c.type) \o Ints(8, <<c.offsetInBits, c.sizeInBits>>)

\* Vectors are preceded by their lengths.  A plane layout is its components,
\* [type, offsetInBits, sizeInBits], and eight numbers.
PlaneLayout(p) ==
  Int64(Len(p.components))
  \o FlattenSeq([i \in 1..Len(p.components) |-> Component(p.components[i])])
  \o Ints(8, p.numbers)

Payload(kind, value) ==
  CASE kind = "int64" -> Int64(value)
    [] kind = "int32" -> Int32(value)
    [] kind \in {"string", "bytes"} -> Bytes(value)
    [] kind = "extendable" -> ExtendableType(value)
    [] kind = "layouts" ->
         Int64(Len(value)) \o FlattenSeq([i \in 1..Len(value) |-> PlaneLayout(value[i])])
    [] kind = "rects" ->
         Int64(Len(value)) \o FlattenSeq([i \in 1..Len(value) |-> Ints(4, value[i])])
    [] kind \in {"smpte2086", "cta861_3"} -> Ints(4, value)

\* MetadataValue::encode into a buffer of the given size: [desired, dest].
encode(type, value, destBufferSize) ==
  IF IsAbsent(type, value)
    THEN Written(<<>>, destBufferSize)
    ELSE Written(Header(type) \o Payload(Kind[type], value), destBufferSize)

\* What a decoder makes of a value.
DataOfFields(fields) == [i \in 1..Len(fields) |-> fields[i].data]
Decoded(type, value) ==
  IF IsAbsent(type, value) THEN Absent ELSE DataOfFields(Payload(Kind[type], value))

-----------------------------------------------------------------------------
(* MetadataReader.  Where nothing was written the buffer holds zeros. *)

\* at counts the fields passed, ok is mOk, out is what has been read.
Reader(message, metadataSize) ==
  [message |-> message, at |-> 0, remaining |-> metadataSize, ok |-> TRUE, out |-> <<>>]

\* What the next bytes hold, read as a number or as bytes of that size.
Found(r, size) ==
  IF r.at < Len(r.message) /\ r.message[r.at + 1].size = size THEN r.message[r.at + 1].data ELSE 0

Advance(r, size) ==
  IF r.ok /\ r.remaining >= size
    THEN [message |-> r.message, at |-> r.at + 1, remaining |-> r.remaining - size, ok |-> TRUE,
          out |-> Append(r.out, Found(r, size))]
    ELSE [message |-> r.message, at |-> r.at, remaining |-> r.remaining, ok |-> FALSE,
          out |-> r.out]

\* The number just read, 0 if none was.
Count(r) == IF r.ok THEN Last(r.out) ELSE 0

\* A loop of n rounds that ends early when a read fails.
Repeat(Read(_), n, r) ==
  LET s[k \in 0..n] ==
        IF k = 0 THEN r ELSE LET before == s[k - 1] IN
                             IF before.ok THEN Read(before) ELSE before
  IN s[n]

ReadInt64(r) == Advance(r, 8)
ReadInts(size, n, r) == Repeat(LAMBDA s : Advance(s, size), n, r)
ReadBytes(r) == LET length == ReadInt64(r) IN
                IF length.ok THEN Advance(length, Count(length)) ELSE length
ReadExtendable(r) == ReadInt64(ReadBytes(r))
ReadComponent(r) == ReadInts(8, 2, ReadExtendable(r))
ReadComponents(n, r) == Repeat(ReadComponent, n, r)
ReadLayout(r) == LET n == ReadInt64(r) IN ReadInts(8, 8, ReadComponents(Count(n), n))
ReadLayouts(n, r) == Repeat(ReadLayout, n, r)
ReadRect(r) == ReadInts(4, 4, r)
ReadRects(n, r) == Repeat(ReadRect, n, r)

ReadPayload(kind, r) ==
  CASE kind = "int64" -> ReadInt64(r)
    [] kind \in {"string", "bytes"} -> ReadBytes(r)
    [] kind = "extendable" -> ReadExtendable(r)
    [] kind = "layouts" -> LET n == ReadInt64(r) IN ReadLayouts(Count(n), n)
    [] kind = "rects" -> LET n == ReadInt64(r) IN ReadRects(Count(n), n)
    [] kind \in DOMAIN Int32Fields -> ReadInts(4, Int32Fields[kind], r)

checkHeader(type, r) ==
  LET header == ReadInt64(ReadBytes(r)) IN
  [message |-> r.message, at |-> header.at, remaining |-> header.remaining,
   ok |-> header.ok /\ header.out = DataOfFields(Header(type)), out |-> <<>>]

\* MetadataValue::decode: [ok, value].  An optional value of size 0 is absent.
decode(type, message, metadataSize) ==
  IF Kind[type] \in Optional /\ metadataSize = 0
    THEN [ok |-> TRUE, value |-> Absent]
    ELSE LET r == ReadPayload(Kind[type], checkHeader(type, Reader(message, metadataSize))) IN
         [ok |-> r.ok, value |-> IF r.ok THEN r.out ELSE <<>>]

-----------------------------------------------------------------------------
(* Dispatch on the type, which may be none of the standard ones. *)

\* got is what the mapper gives for the type: a value to encode, or the number
\* to return without encoding.
provideStandardMetadata(type, got, destBufferSize) ==
  IF type \notin StandardMetadataType
    THEN [desired |-> -UNSUPPORTED, dest |-> <<>>]
  ELSE IF got.returns # 0
    THEN [desired |-> got.returns, dest |-> <<>>]
    ELSE encode(type, got.value, destBufferSize)

=============================================================================
