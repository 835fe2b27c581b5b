---------------------------- MODULE BufferReports ----------------------------
(***************************************************************************)
(* One buffer from its descriptor to what a client learns of it: the       *)
(* allocator sizes the gbm_bo, the client's mapper imports it with sizes   *)
(* it computes again from the handle, and a client reads metadata by       *)
(* guessing a size, and asking again when the guess was too small, while   *)
(* another user of the same handle sets them.                              *)
(***************************************************************************)
EXTENDS StandardMetadata, MetadataCodecTests, FiniteSets

CONSTANTS
  Descriptors,  \* [format, width, height, usage] requests
  Pitches,      \* row alignments, in bytes, of the GBM backends
  Guesses,      \* sizes a client tries first
  HdrValues     \* the Cta861_3 values set by clients

Idle == [stage |-> "idle"]
NoBuffer == [format |-> "none"]

ASSUME ReportsAssumption ==
  /\ \A d \in Descriptors :
       /\ DOMAIN d = {"format", "width", "height", "usage"}
       /\ d.width \in Nat \ {0} /\ d.height \in Nat \ {0}
  /\ Pitches \subseteq Nat \ {0}
  /\ Guesses \subseteq Nat
  /\ \A v \in HdrValues : Len(v) = 2

VARIABLES
  descriptor,  \* what was requested
  allocated,   \* the allocator's bo: [width, height, stride], and its pixel stride
  handle,      \* the gralloc_handle_t that travels
  imported,    \* the client's bo
  md,          \* its gralloc_metadata
  query,       \* the client's getStandardMetadata in progress
  seen         \* what the type being queried has been worth since the query began

vars == <<descriptor, allocated, handle, imported, md, query, seen>>

Unallocated == [width |-> 0, height |-> 0, stride |-> 0, pixelStride |-> 0]
NotImported == [width |-> 0, height |-> 0, stride |-> 0]

Init ==
  /\ descriptor = NoBuffer /\ handle = NoBuffer
  /\ allocated = Unallocated /\ imported = NotImported
  /\ md = NewMetadata
  /\ query = Idle /\ seen = {}

\* gralloc_allocate, and the pixel stride GbmMesaAllocator returns.  No backend
\* knows the format 0.
Allocate(d, pitch) ==
  LET gbmFormat == gralloc_gm_android_format_to_gbm_format(d.format)
      size == AllocationSize(d)
      stride == BoStride(size, gbmFormat, pitch)
  IN
  /\ descriptor = NoBuffer
  /\ gbmFormat # NoFormat
  /\ descriptor' = d
  /\ allocated' = [width |-> size.width, height |-> size.height, stride |-> stride,
                   pixelStride |-> gralloc_gm_android_caculate_pixel_stride(d.format, stride)]
  /\ handle' = [address |-> "handle", width |-> d.width, height |-> d.height,
                format |-> d.format, usage |-> d.usage, stride |-> stride,
                modifier |-> "modifier"]
  /\ UNCHANGED <<imported, md, query, seen>>

Import ==
  /\ handle # NoBuffer
  /\ imported = NotImported
  /\ imported' = [width |-> ImportSize(handle).width, height |-> ImportSize(handle).height,
                  stride |-> handle.stride]
  /\ md' = NewMetadata
  /\ UNCHANGED <<descriptor, allocated, handle, query, seen>>

\* Fault: freeBuffer leaves the metadata behind.
FreeKeepsMetadata ==
  /\ imported # NotImported
  /\ query = Idle
  /\ descriptor' = NoBuffer /\ handle' = NoBuffer
  /\ allocated' = Unallocated /\ imported' = NotImported
  /\ UNCHANGED <<md, query, seen>>

\* freeBuffer, between two queries; the buffer is released and another requested.
Free ==
  /\ imported # NotImported
  /\ query = Idle
  /\ descriptor' = NoBuffer /\ handle' = NoBuffer
  /\ allocated' = Unallocated /\ imported' = NotImported
  /\ md' = NewMetadata
  /\ UNCHANGED <<query, seen>>

Answer(type, size) == getStandardMetadata(handle, imported, md, type, size)
Current(type) == Provided(handle, imported, md, type)

Begin(type, guess) ==
  /\ imported # NotImported
  /\ query = Idle
  /\ query' = [stage |-> "call", type |-> type, size |-> guess, calls |-> 0]
  /\ seen' = {Current(type)}
  /\ UNCHANGED <<descriptor, allocated, handle, imported, md>>

\* One call into the mapper.
Call ==
  /\ query.stage = "call"
  /\ LET answer == Answer(query.type, query.size) IN
     query' = [stage |-> IF answer.desired > query.size THEN "resize" ELSE "decode",
               type |-> query.type, size |-> query.size, calls |-> query.calls + 1,
               returned |-> answer.desired, dest |-> answer.dest]
  /\ UNCHANGED <<descriptor, allocated, handle, imported, md, seen>>

\* Fault: the client grows by one byte only.
ResizeByOne ==
  /\ query.stage = "resize"
  /\ query' = [stage |-> IF query.calls = 2 THEN "refused" ELSE "call", type |-> query.type,
               size |-> query.size + 1, calls |-> query.calls]
  /\ UNCHANGED <<descriptor, allocated, handle, imported, md, seen>>

\* The client calls twice at most.
Resize ==
  /\ query.stage = "resize"
  /\ query' = [stage |-> IF query.calls = 2 THEN "refused" ELSE "call", type |-> query.type,
               size |-> query.returned, calls |-> query.calls]
  /\ UNCHANGED <<descriptor, allocated, handle, imported, md, seen>>

Decode ==
  /\ query.stage = "decode"
  /\ LET d == IF query.returned < 0 THEN [ok |-> FALSE, value |-> <<>>]
              ELSE decode(query.type, query.dest, query.returned)
     IN query' = [stage |-> IF d.ok THEN "answered" ELSE "refused", type |-> query.type,
                  value |-> d.value]
  /\ UNCHANGED <<descriptor, allocated, handle, imported, md, seen>>

Finish ==
  /\ query.stage \in {"answered", "refused"}
  /\ query' = Idle /\ seen' = {}
  /\ UNCHANGED <<descriptor, allocated, handle, imported, md>>

\* Another user of the buffer sets the HDR metadata, in the form the mapper
\* takes, or encoded as IMapper.h tells, which it refuses.
Set(value, encoded) ==
  /\ imported # NotImported
  /\ LET size == IF encoded THEN encode("CTA861_3", value, 0).desired ELSE SizeOfRaw.CTA861_3
         ret == setStandardMetadata("CTA861_3", size)
     IN md' = IF ret = "NONE" THEN [md EXCEPT !.CTA861_3 = value] ELSE md
  /\ seen' = IF query # Idle /\ query.type = "CTA861_3"
               THEN seen \cup {Provided(handle, imported, md', "CTA861_3")} ELSE seen
  /\ UNCHANGED <<descriptor, allocated, handle, imported, query>>

Next ==
  \/ \E d \in Descriptors, pitch \in Pitches : Allocate(d, pitch)
  \/ Import \/ Free
  \/ \E type \in StandardMetadataType, guess \in Guesses : Begin(type, guess)
  \/ Call \/ Resize \/ Decode \/ Finish
  \/ \E value \in HdrValues, encoded \in BOOLEAN : Set(value, encoded)

Spec == Init /\ [][Next]_vars

-----------------------------------------------------------------------------
(* Properties. *)

\* The type of each variable; metadata live as long as the import they belong
\* to, and what is seen of a type includes what it is now.
ReportsTypeOK ==
  /\ descriptor \in Descriptors \cup {NoBuffer}
  /\ \A f \in {"width", "height", "stride"} : allocated[f] \in Nat /\ imported[f] \in Nat
  /\ md.CTA861_3 \in HdrValues \cup {NewMetadata.CTA861_3}
  /\ query.stage \in {"idle", "call", "resize", "decode", "answered", "refused"}
  /\ imported = NotImported => md = NewMetadata /\ query = Idle
  /\ IF query = Idle THEN seen = {} ELSE Current(query.type) \in seen

\* The codec passes the unit tests of impltests.cpp, and every value the mapper
\* provides of an imported buffer survives it, encoded for its size first and
\* then into exactly that many bytes, while one byte less is too small.
CodecKeepsReports ==
  imported # NotImported /\ query = Idle =>
    /\ CodecTestsPass
    /\ \A type \in {t \in StandardMetadataType : Current(t).returns = 0} :
         LET value == Current(type).value
             size == encode(type, value, 0).desired
         IN
         /\ decode(type, encode(type, value, size).dest, size)
              = [ok |-> TRUE, value |-> Decoded(type, value)]
         /\ ~decode(type, encode(type, value, size - 1).dest, size - 1).ok

\* The size of a buffer is computed once when it is allocated and again when it
\* is imported: both give the same object, but for cursors in a format whose
\* cursor flag GBM never sees, which are imported larger than they are.
OddCursor(d) ==
  "CURSOR" \in d.usage /\ gralloc_gm_android_format_to_gbm_format(d.format) # "ARGB8888"
  /\ d.format # "YV12"

ImportSeesAllocation ==
  imported # NotImported /\ ~OddCursor(descriptor) =>
    /\ imported.width = allocated.width /\ imported.height = allocated.height
    /\ imported.stride = allocated.stride

\* gralloc_gbm_bo_lock_ycbcr hands out pointers into a mapping of the whole
\* object: the planes of a YV12 buffer stay inside it, and for the even heights
\* the format asks for no plane overlaps another.
PlanesWithinBuffer ==
  descriptor.format = "YV12" /\ imported # NotImported =>
    LET p == Ycbcr(handle)
        rows == DIV_ROUND_UP(handle.height, 2)
    IN
    /\ p.cb + p.cstride * rows <= imported.stride * imported.height
    /\ handle.height % 2 = 0 =>
         /\ p.y + p.ystride * handle.height <= p.cr
         /\ p.cr + p.cstride * rows <= p.cb

\* The formats a stride in pixels has a meaning for: those whose bytes per pixel
\* the code knows, but for the 4:2:0 ones, whose bytes per pixel count all the
\* planes where a stride is the first's.  BLOB, Y8, P010 and
\* IMPLEMENTATION_DEFINED are taken to have four.
RowFormat(f) ==
  /\ gralloc_gm_get_bpp_from_gbm_format(gralloc_gm_android_format_to_gbm_format(f)) > 0
  /\ f \notin YcbcrFormat \cup {"YCBCR_420_888"}

\* Mapper.cpp: "This stride should be the same value of AllocationResult of
\* Allocator", "and unit is pixels": what a client decodes is what the allocator
\* returned, and it holds the width requested.
StrideAgrees ==
  /\ query.stage = "answered" /\ query.type = "STRIDE" =>
       query.value = <<allocated.pixelStride>>
  /\ descriptor # NoBuffer /\ RowFormat(descriptor.format) =>
       allocated.pixelStride >= descriptor.width

\* A query answered gives a value the type had since the query began, never a
\* torn or truncated one, and it is refused only for the types the mapper does
\* not provide.
AnsweredAsWritten ==
  /\ query.stage = "answered" =>
       \E s \in seen : s.returns = 0 /\ query.value = Decoded(query.type, s.value)
  /\ query.stage = "refused" => \A s \in seen : s.returns # 0

=============================================================================
