------------------------- MODULE MetadataCodecTests -------------------------
(***************************************************************************)
(* implutils/impltests.cpp: what the repository's own unit tests expect of *)
(* the codec, over the same values and buffer sizes.                       *)
(***************************************************************************)
EXTENDS MetadataCodec

HeaderSize == 69
BufferSize == 10000

\* encode() needs `payload' bytes after the header, whatever room there is, and
\* writes nothing into no room.
Needs(type, value, payload) ==
  LET none == encode(type, value, 0) IN
  /\ {none.desired, encode(type, value, BufferSize).desired} = {HeaderSize + payload}
  /\ \A i \in 1..Len(none.dest) : none.dest[i].size = 0

ReadsBack(type, value) ==
  decode(type, encode(type, value, BufferSize).dest, BufferSize)
    = [ok |-> TRUE, value |-> Decoded(type, value)]

NotFromNothing(type) == ~decode(type, <<>>, 0).ok

fakePlaneLayouts ==
  <<[components |-> [i \in 1..3 |-> [type |-> [name |-> Text("Plane ID"), value |-> 39 + i],
                                     offsetInBits |-> 19 + i, sizeInBits |-> 29 + i]],
     numbers |-> <<10, 11, 12, 13, 14, 15, 16, 17>>],
    [components |-> <<>>, numbers |-> <<0, 0, 0, 0, 0, 0, 0, 0>>]>>

setGetBufferId == Needs("BUFFER_ID", 18, 8) /\ NotFromNothing("BUFFER_ID") /\ ReadsBack("BUFFER_ID", 18)

setGetDataspace ==
  Needs("DATASPACE", 147193856, 4) /\ NotFromNothing("DATASPACE") /\ ReadsBack("DATASPACE", 147193856)

setGetValidName == Needs("NAME", Text("Hello"), 5 + 8) /\ ReadsBack("NAME", Text("Hello"))

\* The room ends inside the name: its length is written, and decoding fails.
setGetInvalidName ==
  LET name == Text("This is a long string")
      w == encode("NAME", name, HeaderSize + 12)
  IN
  /\ w.desired = HeaderSize + 8 + 21
  /\ w.dest = Header("NAME") \o Int64(21)
  /\ ~decode("NAME", w.dest, HeaderSize + 12).ok
  /\ NotFromNothing("NAME")

wouldOverflowName ==
  \A less \in {0, 7} :
    encode("NAME", [length |-> MaxInt32 - less, bytes |-> "badbeef"], BufferSize).desired
      = -BAD_VALUE

setGetMismatchedWidthHight ==
  LET w == encode("WIDTH", 100, BufferSize) IN
  /\ Needs("WIDTH", 100, 8) /\ ReadsBack("WIDTH", 100)
  /\ ~decode("HEIGHT", w.dest, BufferSize).ok

setGetCompression ==
  LET c == [name |-> Text("bestest_compression_ever"), value |-> 42] IN
  Needs("COMPRESSION", c, 24 + 16) /\ NotFromNothing("COMPRESSION") /\ ReadsBack("COMPRESSION", c)

setGetPlaneLayout ==
  /\ Needs("PLANE_LAYOUTS", fakePlaneLayouts, (9 * 8 + 3 * (8 + 4 * 8)) + 9 * 8 + 8)
  /\ NotFromNothing("PLANE_LAYOUTS")
  /\ ReadsBack("PLANE_LAYOUTS", fakePlaneLayouts)

setGetRects ==
  LET crop == << <<10, 11, 12, 13>>, <<20, 21, 22, 23>> >> IN
  Needs("CROP", crop, 8 + 8 * 4) /\ ReadsBack("CROP", crop)

\* A float is named by its decimal digits.
setGetSmpte2086 ==
  LET source == <<1, 2, 3, 4, 5, 6, -6, -9, 452889, 12335>> IN
  /\ Needs("SMPTE2086", source, 10 * 4) /\ ReadsBack("SMPTE2086", source)
  /\ decode("SMPTE2086", <<>>, 0) = [ok |-> TRUE, value |-> Absent]

setGetCta861_3 ==
  LET source == <<202202, 24455>> IN
  /\ Needs("CTA861_3", source, 2 * 4) /\ ReadsBack("CTA861_3", source)
  /\ decode("CTA861_3", <<>>, 0) = [ok |-> TRUE, value |-> Absent]

\* Absent and empty are different values.
setGetSmpte2094_10 ==
  /\ encode("SMPTE2094_10", Absent, BufferSize).desired = 0
  /\ decode("SMPTE2094_10", <<>>, 0) = [ok |-> TRUE, value |-> Absent]
  /\ \A v \in {Text(""), Text("012345")} :
       Needs("SMPTE2094_10", v, 8 + v.length) /\ ReadsBack("SMPTE2094_10", v)

\* MetadataProvider: bufferId, allJumpsWork, and the types that are not there.
provides ==
  LET id == [returns |-> 0, value |-> 42]
      jump == [returns |-> 100, value |-> Absent]
      Provide(type) == provideStandardMetadata(type, jump, 0).desired
  IN
  /\ provideStandardMetadata("BUFFER_ID", id, BufferSize) = encode("BUFFER_ID", 42, BufferSize)
  /\ \A type \in StandardMetadataType : Provide(type) = 100
  /\ Provide("INVALID") = -UNSUPPORTED

\* encode(): for the size first, then into exactly that.
EncodesInTwoCalls(type, value) ==
  LET size == encode(type, value, 0).desired IN
  size >= 0 /\ encode(type, value, size) = [encode(type, value, BufferSize) EXCEPT !.remaining = 0]

\* MetadataGralloc4Interop: the values encoded so.  The encoder of libgralloctypes
\* they are compared with is no part of the repository.
InteropValues ==
  [BUFFER_ID |-> 42, NAME |-> Text("Hello, Interop!"), WIDTH |-> 128, HEIGHT |-> 64,
   LAYER_COUNT |-> 3, PIXEL_FORMAT_REQUESTED |-> "RGBX_8888", PIXEL_FORMAT_FOURCC |-> "ABGR8888",
   PIXEL_FORMAT_MODIFIER |-> 123456, USAGE |-> "COMPOSER_OVERLAY", ALLOCATION_SIZE |-> 10200,
   PROTECTED_CONTENT |-> 1,
   COMPRESSION |-> [name |-> Text("android.hardware.graphics.common.Compression"), value |-> 1],
   INTERLACED |-> [name |-> Text("android.hardware.graphics.common.Interlaced"), value |-> 1],
   CHROMA_SITING |-> [name |-> Text("android.hardware.graphics.common.ChromaSiting"), value |-> 2],
   PLANE_LAYOUTS |-> fakePlaneLayouts, CROP |-> << <<10, 11, 12, 13>>, <<20, 21, 22, 23>> >>,
   DATASPACE |-> "DISPLAY_P3", BLEND_MODE |-> "PREMULTIPLIED",
   SMPTE2086 |-> <<1, 2, 3, 4, 5, 6, 7, 8, 452889, 12335>>, CTA861_3 |-> <<302202, 24455>>,
   SMPTE2094_10 |-> Text("123456"), SMPTE2094_40 |-> Text("123456")]

MetadataGralloc4Interop ==
  /\ \A type \in DOMAIN InteropValues : EncodesInTwoCalls(type, InteropValues[type])
  /\ \A type \in {"SMPTE2094_10", "SMPTE2094_40"} : EncodesInTwoCalls(type, Absent)

\* The codec keeps what its unit tests say of it: the size does not depend on
\* the room, what fits is read back, what does not fit or carries another
\* type's header is refused.
CodecTestsPass ==
  /\ setGetBufferId /\ setGetDataspace /\ setGetValidName /\ setGetInvalidName
  /\ wouldOverflowName /\ setGetMismatchedWidthHight /\ setGetCompression
  /\ setGetPlaneLayout /\ setGetRects /\ setGetSmpte2086 /\ setGetCta861_3
  /\ setGetSmpte2094_10 /\ provides /\ MetadataGralloc4Interop

=============================================================================
