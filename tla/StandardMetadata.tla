-------------------------- MODULE StandardMetadata --------------------------
(***************************************************************************)
(* What the mapper answers about one buffer: getStandardMetadata,          *)
(* setStandardMetadata and listSupportedMetadataTypes of Mapper.cpp as     *)
(* functions of the gralloc_handle_t (hnd), the gbm_bo it was imported as  *)
(* (bo), and its gralloc_metadata (md).  Enumerators are their names.      *)
(***************************************************************************)
EXTENDS PixelFormats, MetadataCodec

BAD_BUFFER == 2

\* The metadata a client may set, and the sizes of their C structures.
SizeOfRaw == [DATASPACE |-> 4, BLEND_MODE |-> 4, SMPTE2086 |-> 40, CTA861_3 |-> 8]
Settable == DOMAIN SizeOfRaw

\* A new gralloc_metadata.
NewMetadata ==
  [DATASPACE |-> "UNKNOWN", BLEND_MODE |-> "NONE", SMPTE2086 |-> [i \in 1..10 |-> 0],
   CTA861_3 |-> [i \in 1..2 |-> 0]]

ComponentTypeName == Text("android.hardware.graphics.common.PlaneLayoutComponentType")
ComponentType(c) == [name |-> ComponentTypeName, value |-> c]

\* The layouts of a format, completed from the handle: every plane starts at
\* offset 0 and has the size of the first.
PlaneLayouts(hnd) ==
  LET planes == getPlaneLayouts(gralloc_gm_android_format_to_gbm_format(hnd.format)) IN
  [i \in 1..Len(planes) |->
     LET p == planes[i] IN
     [components |-> [j \in 1..Len(p.components) |->
        LET c == p.components[j] IN
        [type |-> ComponentType(c[1]), offsetInBits |-> c[2], sizeInBits |-> c[3]]],
      numbers |-> <<0, p.sampleIncrementInBits, hnd.stride, hnd.width \div p.subsampling,
                    hnd.height \div p.subsampling, hnd.stride * hnd.height,
                    p.subsampling, p.subsampling>>]]

None(name) == [name |-> Text("android.hardware.graphics.common." \o name), value |-> 0]

ASSUME NamesAssumption ==
  /\ ComponentTypeName.length \in 0..255
  /\ \A name \in {"Compression", "Interlaced", "ChromaSiting"} :
       None(name).name.length \in 0..255

\* The value each branch provides; a type without a branch has none.
BufferValues(hnd, bo, md) ==
  [BUFFER_ID |-> hnd.address, WIDTH |-> hnd.width, HEIGHT |-> hnd.height, LAYER_COUNT |-> 1,
   PIXEL_FORMAT_REQUESTED |-> hnd.format,
   PIXEL_FORMAT_FOURCC |-> gralloc_gm_android_format_to_gbm_format(hnd.format),
   PIXEL_FORMAT_MODIFIER |-> hnd.modifier, USAGE |-> hnd.usage,
   ALLOCATION_SIZE |-> bo.stride * bo.height,
   PROTECTED_CONTENT |-> IF "PROTECTED" \in hnd.usage THEN 1 ELSE 0,
   COMPRESSION |-> None("Compression"), INTERLACED |-> None("Interlaced"),
   CHROMA_SITING |-> None("ChromaSiting"), PLANE_LAYOUTS |-> PlaneLayouts(hnd),
   CROP |-> << <<0, 0, hnd.width, hnd.height>> >>,
   DATASPACE |-> md.DATASPACE, BLEND_MODE |-> md.BLEND_MODE, SMPTE2086 |-> md.SMPTE2086,
   CTA861_3 |-> md.CTA861_3,
   STRIDE |-> gralloc_gm_android_caculate_pixel_stride(hnd.format, hnd.stride)]

Provided(hnd, bo, md, type) ==
  LET values == BufferValues(hnd, bo, md) IN
  IF type \in DOMAIN values /\ ~(type = "PIXEL_FORMAT_FOURCC" /\ values[type] = NoFormat)
    THEN [returns |-> 0, value |-> values[type]]
    ELSE [returns |-> UNSUPPORTED, value |-> Absent]

\* The number returned is an error code as it stands when the type has no
\* branch, and its negation when it is not a standard type.
getStandardMetadata(hnd, bo, md, type, destBufferSize) ==
  provideStandardMetadata(type, Provided(hnd, bo, md, type), destBufferSize)

\* The caller's bytes are the C structure itself.
setStandardMetadata(type, metadataSize) ==
  IF type \in Settable
    THEN IF metadataSize = SizeOfRaw[type] THEN "NONE" ELSE "BAD_VALUE"
  ELSE IF type \in {"BUFFER_ID", "NAME", "WIDTH", "HEIGHT", "LAYER_COUNT",
                    "PIXEL_FORMAT_REQUESTED", "USAGE"}
    THEN "BAD_VALUE"
    ELSE "UNSUPPORTED"

\* listSupportedMetadataTypes: what is listed, and what of it as gettable; nothing
\* is listed as settable.
Gettable ==
  {"BUFFER_ID", "WIDTH", "HEIGHT", "LAYER_COUNT", "PIXEL_FORMAT_REQUESTED", "USAGE",
   "ALLOCATION_SIZE", "STRIDE"}
Listed == Gettable \cup {"NAME", "PROTECTED_CONTENT"}
ListedSettable == {}

=============================================================================
