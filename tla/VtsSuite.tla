------------------------------ MODULE VtsSuite ------------------------------
(***************************************************************************)
(* The VTS suite run against the mapper: the test process executes the     *)
(* steps of one test after the other (VtsTests) by calling MapperV5, and   *)
(* closes what a test leaves open as its scope ends.  A test may crash the *)
(* process, which is started again for the next one.  The device opens,    *)
(* there is memory enough, and the backend may refuse the formats and      *)
(* usage that not every GPU has.                                           *)
(***************************************************************************)
EXTENDS MapperV5, VtsTests

CONSTANT Pitch  \* row alignment of the backend, in bytes

VARIABLES
  test,    \* the test that runs, or NoTest
  todo,    \* its steps ahead
  failed,  \* TRUE once one of its checks failed
  verdict, \* [test, failed] of the test that ended last
  answer,  \* the answer to a getStandardMetadata that the fixture works on, or Unasked
  got      \* what the fixture decoded last: [ok, value], and the value before

vars == <<mapperVars, test, todo, failed, verdict, answer, got>>

NoTest == "none"
NoVerdict == [test |-> NoTest, failed |-> FALSE]
Unasked == [size |-> 0, desired |-> 0, dest |-> <<"unasked">>]
NothingGot == [ok |-> FALSE, value |-> <<>>, before |-> <<>>]

ASSUME VtsAssumption ==
  /\ Handle = RawSlot \cup ImportSlot
  /\ Fd = Handle                 \* each slot has a descriptor of its own
  /\ Buffer = DOMAIN Info
  /\ Field = Settable
  /\ Value = {"initial", "set"} /\ Default = "initial"
  /\ NegativeCalls
  /\ Pitch \in Nat \ {0}

LoadTests ==
  [VersionChecks |-> VersionChecks, AllV5CallbacksDefined |-> AllV5CallbacksDefined,
   DualLoadIsIdentical |-> DualLoadIsIdentical, CanAllocate |-> CanAllocate,
   ImportFreeBuffer |-> ImportFreeBuffer, ImportFreeBufferSingleton |-> ImportFreeBufferSingleton,
   ImportBufferNegative |-> ImportBufferNegative, FreeBufferNegative |-> FreeBufferNegative]

LockTests ==
  [LockUnlockBasic |-> LockUnlockBasic, LockUnlockNoCPUUsage |-> LockUnlockNoCPUUsage,
   Lock_YCRCB_420_SP |-> Lock_YCRCB_420_SP, YV12SubsampleMetadata |-> YV12SubsampleMetadata,
   Lock_YV12 |-> Lock_YV12, Lock_YCBCR_420_888 |-> Lock_YCBCR_420_888, Lock_RAW10 |-> Lock_RAW10,
   Lock_RAW12 |-> Lock_RAW12, Lock_YCBCR_P010 |-> Lock_YCBCR_P010,
   LockBadAccessRegion |-> LockBadAccessRegion, UnlockNegative |-> UnlockNegative,
   UnlockNotImported |-> UnlockNotImported, UnlockNotLocked |-> UnlockNotLocked,
   LockUnlockNested |-> LockUnlockNested, FlushRereadBasic |-> FlushRereadBasic,
   FlushLockedBufferBadBuffer |-> FlushLockedBufferBadBuffer,
   RereadLockedBufferBadBuffer |-> RereadLockedBufferBadBuffer]

MetadataTests ==
  [GetBufferId |-> GetBufferId, GetName |-> GetName, GetWidthHeight |-> GetWidthHeight,
   GetLayerCount |-> GetLayerCount, GetPixelFormatRequested |-> GetPixelFormatRequested,
   GetPixelFormatFourCC |-> GetPixelFormatFourCC, GetPixelFormatModifier |-> GetPixelFormatModifier,
   GetUsage |-> GetUsage, GetUsage64 |-> GetUsage64, GetAllocationSize |-> GetAllocationSize,
   GetProtectedContent |-> GetProtectedContent, GetCompression |-> GetCompression,
   GetInterlaced |-> GetInterlaced, GetChromaSiting |-> GetChromaSiting,
   GetPlaneLayouts |-> GetPlaneLayouts, GetCrop |-> GetCrop, GetSetDataspace |-> GetSetDataspace,
   GetSetBlendMode |-> GetSetBlendMode, GetSetSmpte2086 |-> GetSetSmpte2086,
   GetCta861_3 |-> GetCta861_3, GetSmpte2094_10 |-> GetSmpte2094_10,
   GetSmpte2094_40 |-> GetSmpte2094_40, GetStride |-> GetStride,
   SupportsRequiredGettersSetters |-> SupportsRequiredGettersSetters,
   CheckRequiredSettersIfHasGetters |-> CheckRequiredSettersIfHasGetters,
   ListSupportedWorks |-> ListSupportedWorks, GetMetadataBadValue |-> GetMetadataBadValue,
   GetUnsupportedMetadata |-> GetUnsupportedMetadata]

Tests == LoadTests @@ LockTests @@ MetadataTests

Queries == {"get", "getIf", "probe", "invalid"}

\* What the tests do to the slots: metadata are asked for, set and locked through
\* imported handles only, while raw handles are freed and unlocked as well.
UsesSlots(s) ==
  /\ s.op = "allocate" => s.slot \in RawSlot /\ s.buf \in DOMAIN Info
  /\ s.op = "import" => s.slot \in ImportSlot /\ s.from \in RawSlot
  /\ s.op \in Queries \cup {"set", "lock"} => s.slot \in ImportSlot
  /\ s.op = "lock" => s.usage \subseteq UsageBit \cup HighBits
  /\ s.op \in {"free", "unlock", "destroy"} => s.slot \in Handle

ASSUME TestsAssumption ==
  \A t \in DOMAIN Tests :
    /\ t # NoTest
    /\ Len(Tests[t]) \in Nat
    /\ Tests[t] = [i \in 1..Len(Tests[t]) |-> Tests[t][i]]
    /\ \A i \in 1..Len(Tests[t]) : UsesSlots(Tests[t][i])

\* What the tests find wrong with this mapper on every device, and on some.
AlwaysFails ==
  {"LockUnlockNoCPUUsage", "Lock_YCRCB_420_SP", "YV12SubsampleMetadata", "Lock_YV12",
   "Lock_YCBCR_420_888", "Lock_RAW10", "Lock_RAW12", "Lock_YCBCR_P010", "LockBadAccessRegion",
   "UnlockNotLocked", "LockUnlockNested", "FlushLockedBufferBadBuffer",
   "RereadLockedBufferBadBuffer", "GetName", "GetPixelFormatFourCC", "GetUsage64",
   "GetSetDataspace", "GetSetBlendMode", "GetSetSmpte2086", "GetCta861_3",
   "SupportsRequiredGettersSetters", "GetMetadataBadValue", "GetUnsupportedMetadata"}
MayFail == {"FreeBufferNegative", "GetProtectedContent"}

-----------------------------------------------------------------------------
(* A buffer as the test process sees it. *)

\* The gralloc_handle_t, gbm_bo and gralloc_metadata behind h.
AllocatedStride(d) ==
  BoStride(AllocationSize(d), gralloc_gm_android_format_to_gbm_format(d.format), Pitch)
GrallocHandle(h) ==
  LET d == Info[fds[native[h].prime_fd]] IN
  [address |-> h, width |-> d.width, height |-> d.height, format |-> native[h].format,
   usage |-> native[h].usage, stride |-> AllocatedStride(d), modifier |-> "modifier"]
GbmBo(hnd) == [stride |-> hnd.stride, height |-> ImportSize(hnd).height]
Metadata(h) ==
  [f \in Settable |-> IF createMetadata(h)[f] = "set" THEN Sent[f] ELSE NewMetadata[f]]

Answer(hnd, type, size) ==
  [size |-> size] @@ getStandardMetadata(hnd, GbmBo(hnd), Metadata(hnd.address), type, size)

\* The stride allocate2 returned.
PixelStride(hnd) == gralloc_gm_android_caculate_pixel_stride(hnd.format, hnd.stride)

\* The fixture's setStandardMetadata: the value goes encoded.
SetResult(type, value) == setStandardMetadata(type, encode(type, value, 0).desired)

\* What a null handle gets.  getStandardMetadata answers a positive error code,
\* which the test takes for a size.
NullResult ==
  [importBuffer |-> "BAD_BUFFER", freeBuffer |-> "BAD_BUFFER", unlock |-> "BAD_BUFFER",
   flushLockedBuffer |-> "NONE", rereadLockedBuffer |-> "NONE", getStandardMetadata |-> "NONE"]

-----------------------------------------------------------------------------
(* Steps. *)

Step == Head(todo)
Fatal(s) == "fatal" \in DOMAIN s /\ s.fatal

Running(ops) == test # NoTest /\ todo # <<>> /\ Step.op \in ops

\* The step is done: its check held, or the test has failed and may have to end.
Judged(ok) ==
  /\ failed' = (failed \/ ~ok)
  /\ todo' = IF ~ok /\ Fatal(Step) THEN <<>> ELSE Tail(todo)
  /\ UNCHANGED <<test, verdict>>
Checks(ok) == Judged(ok) /\ UNCHANGED <<answer, got>>
Aborts == failed' = TRUE /\ todo' = <<>> /\ UNCHANGED <<test, verdict, answer, got>>

\* The process dies: invalid memory was accessed outside libgralloc_gm.
Dies == Crash /\ UNCHANGED <<loaded, mInitialized, native, fds, gralloc_metadata_prime_fd_map, raw,
                             imported, held>>

\* allocate2 through Binder; isSupported says yes to everything the tests ask.
IsAllocated(buf) ==
  CASE gralloc_gm_android_format_to_gbm_format(Info[buf].format) = NoFormat -> {FALSE}
    [] buf \in {"ycrcb", "ycbcr", "p010", "front", "prot"} -> BOOLEAN
    [] OTHER -> {TRUE}

AllocateBuffer ==
  /\ Running({"allocate"})
  /\ \E done \in IsAllocated(Step.buf) :
       \/ done /\ ReceiveRaw(Step.slot, Step.slot, Step.buf) /\ Checks(TRUE)
       \/ ~done /\ Step.ifNull # "crashes" /\ UNCHANGED mapperVars /\ Aborts
       \/ ~done /\ Step.ifNull = "crashes" /\ Dies /\ Aborts

\* BufferHandle: native_handle_clone works.
ImportBuffer ==
  /\ Running({"import"})
  /\ \E ret \in {"NONE", "NO_RESOURCES"} :
       /\ importBuffer(Step.from, Step.slot, Step.slot, ret)
       /\ ret = "NONE" \/ ~CanImport(Step.slot, native[Step.from])
       /\ Checks(ret = "NONE")

FreeBuffer ==
  /\ Running({"free"})
  /\ \E ret \in {"NONE", "BAD_BUFFER"} : freeBuffer(Step.slot, ret) /\ Checks(ret = Step.expect)

LoadAgain == Running({"load"}) /\ UNCHANGED mapperVars /\ Checks(loaded)

JustChecked == Running({"check"}) /\ UNCHANGED mapperVars /\ Checks(Step.ok)

NullCall ==
  Running({"null"}) /\ UNCHANGED mapperVars /\ Checks(NullResult[Step.call] = Step.expect)

\* No such handle is in the map.  freeBuffer looks for it with the errno it finds:
\* 0 makes it delete the handle, which the test deletes again.
EmptyHandleCall ==
  /\ Running({"empty"})
  /\ \/ UNCHANGED mapperVars /\ Checks(Step.expect = "BAD_BUFFER")
     \/ Step.call = "freeBuffer" /\ OK \in StaleErrno /\ Dies /\ Aborts

\* With memory enough a lock fails only when it is refused.
Lockable(h, usage) ==
  /\ usage # {}
  /\ gbm_bo_handle_map[h] # NoBo
  /\ UsageAccepted(native[h].usage, usage)
  /\ DataOf(gbm_bo_handle_map[h]).lock_count = 0

LockBuffer ==
  /\ Running({"lock"})
  /\ \E ret \in {"NONE", "BAD_VALUE"} :
       /\ lock(Step.slot, Step.usage, NoFd, ret)
       /\ (ret = "NONE") = Lockable(Step.slot, Step.usage)
       /\ Checks(ret = Step.expect)

UnlockBuffer ==
  /\ Running({"unlock"})
  /\ \E ret \in {"NONE", "BAD_BUFFER"} : unlock(Step.slot, ret) /\ Checks(ret = Step.expect)

\* The fixture's getStandardMetadata asks with 512 bytes, or ListSupportedWorks
\* with none, and once more if they are too few.  A query of a standard type makes
\* the buffer's gralloc_metadata.
Asks(size) ==
  /\ \E ret \in {"NONE", "UNSUPPORTED"} :
       /\ getMetadata(Step.slot, ret)
       /\ Step.type \in StandardMetadataType =>
            gralloc_metadata_prime_fd_map'[native[Step.slot].prime_fd] # NoMetadata
       /\ Step.type \notin StandardMetadataType => UNCHANGED gralloc_metadata_prime_fd_map
  /\ \E hnd \in {GrallocHandle(Step.slot)} : answer' = Answer(hnd, Step.type, size)
  /\ UNCHANGED <<test, todo, failed, verdict, got>>

AskMetadata ==
  Running(Queries) /\ answer = Unasked /\ Asks(IF Step.op \in {"get", "getIf"} THEN 512 ELSE 0)
AskAgain ==
  Running(Queries) /\ answer # Unasked /\ answer.desired > answer.size /\ Asks(answer.desired)

DecodeAnswer ==
  /\ Running(Queries) /\ answer # Unasked /\ answer.desired <= answer.size
  /\ UNCHANGED mapperVars
  /\ answer' = Unasked
  /\ \E value \in {IF answer.desired < 0 \/ Step.op \in {"probe", "invalid"}
                     THEN [ok |-> FALSE, value |-> <<>>]
                     ELSE decode(Step.type, answer.dest, answer.desired)} :
       /\ got' = [before |-> got.value] @@ value
       /\ Judged(CASE Step.op = "get" -> value.ok
                   [] Step.op = "getIf" -> value.ok => value.value = Absent
                   [] Step.op = "probe" -> answer.desired = answer.size
                   [] Step.op = "invalid" -> answer.desired = -UNSUPPORTED)

\* The tests then look at what they got, or at the buffer, and change nothing.
\* getMetadata answers a type that is not standard with a positive number.
Compare ==
  Running({"compare"}) /\ UNCHANGED mapperVars /\ Checks(got.value = Decoded(Step.type, Step.expect))

LookAt ==
  /\ Running({"wide", "size", "stride", "differentId", "fake"})
  /\ UNCHANGED mapperVars
  /\ \E hnd \in {GrallocHandle(Step.slot)} :
       Checks(CASE Step.op = "wide" -> PixelStride(hnd) >= 64
                [] Step.op = "size" -> SizeAccepted(Head(got.value), PixelStride(hnd), hnd.height)
                [] Step.op = "stride" -> got.value = <<PixelStride(hnd)>>
                [] Step.op = "differentId" -> got.value # got.before
                [] Step.op = "fake" -> -UNSUPPORTED = UNSUPPORTED)

LookAtPlanes ==
  /\ Running({"rgba", "yv12", "semiplanar", "planar", "anyYcbcr", "rawLayout"})
  /\ UNCHANGED mapperVars
  /\ \E hnd \in {GrallocHandle(Step.slot)} : \E layouts \in {PlaneLayouts(hnd)} :
       Checks(CASE Step.op = "rgba" -> Rgba8888Accepted(layouts)
                [] Step.op = "yv12" -> Yv12Accepted(layouts)
                [] Step.op = "semiplanar" -> YcbcrAccepted(layouts, {2})
                [] Step.op = "planar" -> YcbcrAccepted(layouts, {1})
                [] Step.op = "anyYcbcr" -> YcbcrAccepted(layouts, {1, 2})
                [] Step.op = "rawLayout" -> PlanesWith(layouts, "RAW") = {1})

SetMetadata ==
  /\ Running({"set"})
  /\ \E ret \in {SetResult(Step.type, IF Step.field = "set" THEN Sent[Step.type] ELSE Absent)} :
       /\ setMetadata(Step.slot, Step.type, IF Step.field = "set" THEN "set" ELSE "initial", ret)
       /\ gralloc_metadata_prime_fd_map'[native[Step.slot].prime_fd] # NoMetadata
       /\ Checks(ret = "NONE")

\* getAndroidYCbCr_P010 reads two planes whatever it was given, and there are none.
LookAtP010 ==
  Running({"p010"}) /\ (UNCHANGED mapperVars \/ Dies) /\ Aborts

\* A scope ends: ~BufferHandle frees an import, ~BufferAllocation closes and
\* deletes a raw handle, even one that freeBuffer has deleted.
Leave(slot, ok) ==
  \/ imported[slot] # NoFile /\ \E ret \in {"NONE", "BAD_BUFFER"} :
       freeBuffer(slot, ret) /\ ok = (ret = "NONE")
  \/ imported[slot] = NoFile /\ ok /\ CloseRaw(slot)
  \/ slot \in raw /\ native[slot] = NoHandle /\ ok = FALSE /\ Dies

LeaveScope == Running({"destroy"}) /\ \E ok \in BOOLEAN : Leave(Step.slot, ok) /\ Checks(ok)

Alive(slot) == imported[slot] # NoFile \/ slot \in raw
Scope == <<"c", "b", "a", "raw2", "raw">>

EndScope ==
  /\ test # NoTest /\ todo = <<>>
  /\ \E i \in 1..Len(Scope), ok \in BOOLEAN :
       /\ Alive(Scope[i]) /\ \A j \in 1..(i - 1) : ~Alive(Scope[j])
       /\ Leave(Scope[i], ok)
       /\ failed' = (failed \/ ~ok)
  /\ UNCHANGED <<test, todo, verdict, answer, got>>

-----------------------------------------------------------------------------
(* The suite. *)

\* SetUp, which loads the mapper into a new process.
BeginTest(t) ==
  /\ test = NoTest
  /\ IF loaded THEN UNCHANGED mapperVars ELSE LoadIMapper /\ mInitialized'
  /\ test' = t /\ todo' = Tests[t] /\ failed' = FALSE /\ verdict' = NoVerdict
  /\ UNCHANGED <<answer, got>>

EndTest ==
  /\ test # NoTest /\ todo = <<>>
  /\ ~\E i \in 1..Len(Scope) : Alive(Scope[i])
  /\ verdict' = [test |-> test, failed |-> failed]
  /\ test' = NoTest /\ failed' = FALSE /\ got' = NothingGot
  /\ UNCHANGED <<mapperVars, todo, answer>>

\* The process that crashed is started again: nothing of it is left.
StartAgain ==
  /\ crashed
  /\ gbm_dev' = FALSE /\ gbm_bo_handle_map' = [h \in Handle |-> NoBo] /\ bos' = {}
  /\ user_data' = [b \in Bo |-> NoData] /\ crashed' = FALSE
  /\ loaded' = FALSE /\ mInitialized' = FALSE
  /\ native' = [h \in Handle |-> NoHandle] /\ fds' = [f \in Fd |-> NoFile]
  /\ gralloc_metadata_prime_fd_map' = [f \in Fd |-> NoMetadata]
  /\ raw' = {} /\ imported' = [h \in Handle |-> NoFile] /\ held' = [h \in Handle |-> 0]
  /\ verdict' = [test |-> test, failed |-> TRUE]
  /\ test' = NoTest /\ todo' = <<>> /\ failed' = FALSE
  /\ answer' = Unasked /\ got' = NothingGot

VtsInit ==
  MapperInit /\ test = NoTest /\ todo = <<>> /\ failed = FALSE /\ verdict = NoVerdict
  /\ answer = Unasked /\ got = NothingGot

VtsNext ==
  \/ /\ ~crashed
     /\ \/ \E t \in DOMAIN Tests : BeginTest(t)
        \/ AllocateBuffer \/ ImportBuffer \/ FreeBuffer \/ LoadAgain \/ JustChecked \/ NullCall
        \/ EmptyHandleCall \/ LockBuffer \/ UnlockBuffer
        \/ AskMetadata \/ AskAgain \/ DecodeAnswer \/ Compare \/ SetMetadata
        \/ LookAt \/ LookAtPlanes \/ LookAtP010 \/ LeaveScope \/ EndScope \/ EndTest
  \/ StartAgain

VtsSpec == VtsInit /\ [][VtsNext]_vars

-----------------------------------------------------------------------------
(* Properties. *)

\* What the suite says of the mapper: in whatever order the tests run, and
\* whatever the backend supports, exactly the tests named above fail.
VerdictAsExpected ==
  /\ verdict.test \in AlwaysFails => verdict.failed
  /\ verdict.test \in DOMAIN Tests \ (AlwaysFails \cup MayFail) => ~verdict.failed

\* A test that has ended, passed or failed, leaves nothing behind in the mapper
\* or the process: the next one finds it as a new process would be.
FixtureLeaksNothing ==
  test = NoTest /\ ~crashed =>
    /\ bos = {} /\ \A h \in Handle : gbm_bo_handle_map[h] = NoBo /\ native[h] = NoHandle
    /\ \A f \in Fd : fds[f] = NoFile /\ gralloc_metadata_prime_fd_map[f] = NoMetadata

\* What the tests of the repository say of the program they test: each passes.
SuitePasses == ~verdict.failed

=============================================================================
