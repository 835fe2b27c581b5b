------------------------------ MODULE VtsTests ------------------------------
(***************************************************************************)
(* VtsHalGraphicsMapperStableC_TargetTest.cpp: each test as the sequence   *)
(* of the steps of its body.  A step that fails fails the test, and ends   *)
(* it if it is fatal (ASSERT_).  Handles are the slots of the fixture they *)
(* are held in; buffers are named by what the test allocates them for.     *)
(***************************************************************************)
EXTENDS StandardMetadata

RW == {"SW_READ_OFTEN", "SW_WRITE_OFTEN"}

\* The slots: members of BufferAllocation hold raw handles, those of BufferHandle
\* imported ones.
RawSlot == {"raw", "raw2"}
ImportSlot == {"a", "b", "c"}

\* BufferDescriptorInfo, layerCount being 1.
Descriptor(format, height, usage) ==
  [format |-> format, width |-> 64, height |-> height, usage |-> usage]

Info ==
  [generic |-> Descriptor("RGBA_8888", 64, RW), generic2 |-> Descriptor("RGBA_8888", 64, RW),
   noCpu |-> Descriptor("RGBA_8888", 64, {}),
   ycrcb |-> Descriptor("YCRCB_420_SP", 64, RW), yv12 |-> Descriptor("YV12", 64, RW),
   ycbcr |-> Descriptor("YCBCR_420_888", 64, RW), p010 |-> Descriptor("YCBCR_P010", 64, RW),
   raw10 |-> Descriptor("RAW10", 64, RW), raw12 |-> Descriptor("RAW12", 64, RW),
   tall |-> Descriptor("RGBA_8888", 128, RW), tallYv12 |-> Descriptor("YV12", 128, RW),
   front |-> Descriptor("RGBA_8888", 64,
                        {"FRONT_BUFFER", "HW_RENDER", "HW_COMPOSER", "HW_TEXTURE"}),
   prot |-> Descriptor("RGBA_8888", 64, {"PROTECTED", "HW_COMPOSER"})]

\* Steps.  What a null allocation does is "fails" (ASSERT_NE), "asks" (the test
\* fails if isSupported said yes, and ends) or "crashes" (it is dereferenced).
Asked(op, slot, expect, fatal) == [op |-> op, slot |-> slot, expect |-> expect, fatal |-> fatal]

AllocateInto(slot, buf, ifNull) == [op |-> "allocate", slot |-> slot, buf |-> buf, ifNull |-> ifNull]
ImportInto(slot, from) == [op |-> "import", slot |-> slot, from |-> from, fatal |-> TRUE]
Destroy(slot) == [op |-> "destroy", slot |-> slot]
Checked(ok) == [op |-> "check", ok |-> ok, fatal |-> FALSE]

AssertLock(slot, usage) == Asked("lock", slot, "NONE", TRUE) @@ [usage |-> usage]
ExpectLock(slot, usage, expect) == Asked("lock", slot, expect, FALSE) @@ [usage |-> usage]
AssertUnlock(slot) == Asked("unlock", slot, "NONE", TRUE)
ExpectUnlock(slot, expect) == Asked("unlock", slot, expect, FALSE)
ExpectFree(slot, expect) == Asked("free", slot, expect, FALSE)
AssertFree(slot) == Asked("free", slot, "NONE", TRUE)

\* A call with a null handle, or with one that holds no descriptor.
ExpectNull(call, expect) == [op |-> "null", call |-> call, expect |-> expect, fatal |-> FALSE]
ExpectEmpty(call, expect) == [op |-> "empty", call |-> call, expect |-> expect, fatal |-> FALSE]

\* A value must be there, and match if the test says what it is.
AssertGot(slot, type) == [op |-> "get", slot |-> slot, type |-> type, fatal |-> TRUE]
ExpectGot(slot, type, expect) == [op |-> "compare", slot |-> slot, type |-> type, expect |-> expect,
                                  fatal |-> FALSE]
ExpectSet(slot, type, field) == [op |-> "set", slot |-> slot, type |-> type, field |-> field,
                                 fatal |-> FALSE]
AskFor(op, type, fatal) == [op |-> op, slot |-> "a", type |-> type, fatal |-> fatal]
Looked(op, slot, fatal) == [op |-> op, slot |-> slot, fatal |-> fatal]

\* What each settable type is set to.
Sent ==
  [DATASPACE |-> "DISPLAY_P3", BLEND_MODE |-> "COVERAGE",
   SMPTE2086 |-> <<1, 1, 2, 2, 3, 3, 400, 1000, 100000, 1>>, CTA861_3 |-> <<1000, 140>>]

Generic == <<AllocateInto("raw", "generic", "fails"), ImportInto("a", "raw")>>
GetAndCompare(slot, type, expect) == <<AssertGot(slot, type), ExpectGot(slot, type, expect)>>
GetGeneric(type, expect) == Generic \o GetAndCompare("a", type, expect)

-----------------------------------------------------------------------------
(* What the checks of the fixture accept of a value. *)

\* verifyRGBA8888PlaneLayouts
Rgba8888Accepted(layouts) ==
  /\ Len(layouts) = 1
  /\ LET p == layouts[1] IN
     /\ {<<p.components[i].type.value, p.components[i].offsetInBits, p.components[i].sizeInBits>>
           : i \in 1..Len(p.components)}
          = {<<"R", 0, 8>>, <<"G", 8, 8>>, <<"B", 16, 8>>, <<"A", 24, 8>>}
     /\ p.numbers[1] = 0 /\ p.numbers[2] = 32
     /\ p.numbers[4] * p.numbers[5] * 4 <= p.numbers[6]
     /\ p.numbers[7] = 1 /\ p.numbers[8] = 1

\* getAndroidYCbCr and the checks after it: one plane of Y and one sample each
\* of Cb and Cr, with the same stride and increment, subsampled by two.
PlanesWith(layouts, type) ==
  {i \in 1..Len(layouts) :
     \E j \in 1..Len(layouts[i].components) : layouts[i].components[j].type.value = type}

YcbcrAccepted(layouts, steps) ==
  /\ layouts # <<>>
  /\ \A type \in {"Y", "CB", "CR"} : \E i \in 1..Len(layouts) : PlanesWith(layouts, type) = {i}
  /\ \A i \in PlanesWith(layouts, "CB") \cup PlanesWith(layouts, "CR") :
       layouts[i].numbers[2] \div 8 \in steps /\ layouts[i].numbers[7] = 2 /\ layouts[i].numbers[8] = 2

\* YV12SubsampleMetadata
Yv12Accepted(layouts) == Len(layouts) = 3 /\ YcbcrAccepted(layouts, {1})

\* GetAllocationSize, for 4 bytes per pixel.
SizeAccepted(size, stride, height) ==
  size >= stride * height * 4 /\ size < stride * height * 4 * 2

-----------------------------------------------------------------------------
(* Versions, allocation, import and free. *)

ANDROID_HAL_MAPPER_VERSION == 5
AIMapperVersion == 5

Bound ==
  {"importBuffer", "freeBuffer", "getTransportSize", "lock", "unlock", "flushLockedBuffer",
   "rereadLockedBuffer", "getMetadata", "getStandardMetadata", "setMetadata",
   "setStandardMetadata", "listSupportedMetadataTypes", "dumpBuffer", "dumpAllBuffers",
   "getReservedRegion"}

VersionChecks == <<Checked(ANDROID_HAL_MAPPER_VERSION = 5 /\ AIMapperVersion = 5)>>
AllV5CallbacksDefined ==
  <<Checked({"importBuffer", "freeBuffer", "getTransportSize", "lock", "unlock",
             "flushLockedBuffer", "rereadLockedBuffer", "getMetadata", "getStandardMetadata",
             "setMetadata", "setStandardMetadata", "listSupportedMetadataTypes", "dumpBuffer",
             "getReservedRegion"} \subseteq Bound)>>
DualLoadIsIdentical == <<[op |-> "load"]>>

CanAllocate == <<AllocateInto("raw", "generic", "fails"), Looked("wide", "raw", FALSE)>>
ImportFreeBuffer == CanAllocate \o <<ImportInto("a", "raw"), ImportInto("b", "raw"),
                                     Checked("a" # "b"), Destroy("b"), Destroy("a")>>
ImportFreeBufferSingleton == CanAllocate \o <<ImportInto("a", "raw"), [op |-> "load"], AssertFree("a")>>

ImportBufferNegative ==
  <<ExpectNull("importBuffer", "BAD_BUFFER"), ExpectEmpty("importBuffer", "BAD_BUFFER")>>
FreeBufferNegative ==
  <<ExpectNull("freeBuffer", "BAD_BUFFER"), ExpectEmpty("freeBuffer", "BAD_BUFFER"),
    AllocateInto("raw", "generic", "crashes"), ExpectFree("raw", "BAD_BUFFER")>>

-----------------------------------------------------------------------------
(* Locks. *)

LockUnlockBasic ==
  Generic \o <<AssertLock("a", RW), AssertUnlock("a"), AssertLock("a", RW),
               AssertGot("a", "PLANE_LAYOUTS"), Looked("rgba", "a", FALSE), AssertUnlock("a")>>
LockUnlockNoCPUUsage ==
  <<AllocateInto("raw", "noCpu", "fails"), ImportInto("a", "raw"), ExpectLock("a", {}, "BAD_VALUE"),
    ExpectUnlock("a", "BAD_BUFFER")>>

LockOf(buf, ifNull) ==
  <<AllocateInto("raw", buf, ifNull), ImportInto("a", "raw"), AssertLock("a", RW),
    AssertGot("a", "PLANE_LAYOUTS")>>
LockYcbcr2(buf, ifNull, accept) ==
  LockOf(buf, ifNull)
  \o <<Looked(accept, "a", TRUE), AssertUnlock("a"), AssertLock("a", RW),
       Looked(accept, "a", TRUE), AssertUnlock("a")>>

Lock_YCRCB_420_SP == LockYcbcr2("ycrcb", "asks", "semiplanar")
YV12SubsampleMetadata ==
  LockOf("yv12", "fails") \o <<Looked("yv12", "a", TRUE), AssertUnlock("a")>>
Lock_YV12 == LockYcbcr2("yv12", "fails", "planar")
Lock_YCBCR_420_888 == LockYcbcr2("ycbcr", "fails", "anyYcbcr")
Lock_RAW10 == LockOf("raw10", "asks") \o <<Looked("rawLayout", "a", TRUE), AssertUnlock("a")>>
Lock_RAW12 == LockOf("raw12", "asks") \o <<Looked("rawLayout", "a", TRUE), AssertUnlock("a")>>
Lock_YCBCR_P010 == LockOf("p010", "asks") \o <<Looked("p010", "a", TRUE), AssertUnlock("a")>>

\* The region, twice the size of the buffer, is not looked at by the mapper.
LockBadAccessRegion == Generic \o <<ExpectLock("a", RW, "BAD_VALUE")>>

UnlockNegative ==
  <<ExpectNull("unlock", "BAD_BUFFER"), ExpectEmpty("unlock", "BAD_BUFFER"),
    AllocateInto("raw", "generic", "crashes"), ExpectUnlock("raw", "BAD_BUFFER")>>
UnlockNotImported == <<AllocateInto("raw", "generic", "fails"), ExpectUnlock("raw", "BAD_BUFFER")>>
UnlockNotLocked == Generic \o <<ExpectUnlock("a", "BAD_BUFFER")>>
LockUnlockNested ==
  Generic \o <<ImportInto("b", "raw"), ExpectLock("b", RW, "NONE"), ExpectLock("b", RW, "NONE"),
               ExpectUnlock("b", "NONE"), ExpectUnlock("b", "NONE"), ExpectUnlock("b", "BAD_BUFFER")>>
FlushRereadBasic ==
  Generic \o <<ImportInto("b", "raw"), ImportInto("c", "raw"),
               ExpectLock("b", {"SW_WRITE_OFTEN"}, "NONE"), ExpectLock("c", {"SW_READ_OFTEN"}, "NONE"),
               AssertGot("c", "PLANE_LAYOUTS"), Looked("rgba", "c", FALSE),
               ExpectUnlock("c", "NONE"), ExpectUnlock("b", "NONE")>>
FlushLockedBufferBadBuffer == <<ExpectNull("flushLockedBuffer", "BAD_BUFFER")>>
RereadLockedBufferBadBuffer == <<ExpectNull("rereadLockedBuffer", "BAD_BUFFER")>>

-----------------------------------------------------------------------------
(* Metadata. *)

GetBufferId ==
  <<AllocateInto("raw", "generic", "crashes"), ImportInto("a", "raw"), AssertGot("a", "BUFFER_ID"),
    AllocateInto("raw2", "generic2", "crashes"), ImportInto("b", "raw2"),
    AssertGot("b", "BUFFER_ID"), Looked("differentId", "b", FALSE)>>
GetName == GetGeneric("NAME", Text("Hello, World!"))
GetWidthHeight ==
  <<AllocateInto("raw", "tall", "crashes"), ImportInto("a", "raw")>>
  \o GetAndCompare("a", "WIDTH", 64) \o GetAndCompare("a", "HEIGHT", 128)
GetLayerCount == GetGeneric("LAYER_COUNT", 1)
GetPixelFormatRequested == GetGeneric("PIXEL_FORMAT_REQUESTED", "RGBA_8888")
GetPixelFormatFourCC ==
  <<AllocateInto("raw", "tall", "crashes"), ImportInto("a", "raw")>>
  \o GetAndCompare("a", "PIXEL_FORMAT_FOURCC", "ABGR8888")
  \o <<Destroy("a"), AllocateInto("raw2", "tallYv12", "crashes"), Destroy("raw"), ImportInto("b", "raw2")>>
  \o GetAndCompare("b", "PIXEL_FORMAT_FOURCC", "YVU420")
GetPixelFormatModifier == Generic \o <<AssertGot("a", "PIXEL_FORMAT_MODIFIER")>>
GetUsage == GetGeneric("USAGE", RW)
GetUsage64 ==
  <<AllocateInto("raw", "front", "crashes"), ImportInto("a", "raw")>>
  \o GetAndCompare("a", "USAGE", Info.front.usage)
GetAllocationSize == Generic \o <<AssertGot("a", "ALLOCATION_SIZE"), Looked("size", "a", FALSE)>>
GetProtectedContent ==
  <<AllocateInto("raw", "prot", "asks"), ImportInto("a", "raw")>>
  \o GetAndCompare("a", "PROTECTED_CONTENT", 1)
GetCompression == GetGeneric("COMPRESSION", None("Compression"))
GetInterlaced == GetGeneric("INTERLACED", None("Interlaced"))
GetChromaSiting == GetGeneric("CHROMA_SITING", None("ChromaSiting"))
GetPlaneLayouts == Generic \o <<AssertGot("a", "PLANE_LAYOUTS"), Looked("rgba", "a", FALSE)>>
GetCrop == GetGeneric("CROP", << <<0, 0, 64, 64>> >>)

GetSet(type, first) ==
  GetGeneric(type, first) \o <<ExpectSet("a", type, "set")>> \o GetAndCompare("a", type, Sent[type])
GetSetDataspace == GetSet("DATASPACE", "UNKNOWN")
GetSetBlendMode == GetSet("BLEND_MODE", "INVALID")

GetSetOptional(type) ==
  GetSet(type, Absent) \o <<ExpectSet("a", type, "unset")>> \o GetAndCompare("a", type, Absent)
GetSetSmpte2086 == GetSetOptional("SMPTE2086")
GetCta861_3 == GetSetOptional("CTA861_3")
GetSmpte2094_10 == Generic \o <<AskFor("getIf", "SMPTE2094_10", FALSE)>>
GetSmpte2094_40 == Generic \o <<AskFor("getIf", "SMPTE2094_40", FALSE)>>
GetStride == Generic \o <<AssertGot("a", "STRIDE"), Looked("stride", "a", FALSE)>>

SupportsRequiredGettersSetters ==
  Generic \o <<Checked(StandardMetadataType \ {"SMPTE2094_10", "SMPTE2094_40"} \subseteq Gettable),
               Checked(Settable \subseteq ListedSettable)>>
CheckRequiredSettersIfHasGetters ==
  Generic \o <<Checked(Gettable \cap {"SMPTE2094_10", "SMPTE2094_40"} \subseteq ListedSettable)>>
ListSupportedWorks ==
  Generic \o <<Checked((Listed \ Gettable) \cap ListedSettable = {})>>
  \o [i \in 1..8 |-> AskFor("probe", <<"BUFFER_ID", "WIDTH", "HEIGHT", "LAYER_COUNT",
        "PIXEL_FORMAT_REQUESTED", "USAGE", "ALLOCATION_SIZE", "STRIDE">>[i], FALSE)]
GetMetadataBadValue == <<ExpectNull("getStandardMetadata", "BAD_BUFFER")>>
GetUnsupportedMetadata == Generic \o <<Looked("fake", "a", FALSE), AskFor("invalid", "INVALID", FALSE)>>

=============================================================================
