# TLA+ models of gralloc_gbm_mesa

gralloc_gbm_mesa gives Android graphics buffers that are allocated and mapped
through Mesa's GBM. This directory holds TLA+ modules of its buffer management,
the TLC configurations that check them and proofs for the TLA+ proof system.

## The system

| part | source | state | operations |
| --- | --- | --- | --- |
| libgralloc_gm: device | `src/src/gralloc_gbm_mesa.cpp` 31-66, 277-308, 744-750 | `_gbm_dev_fd`, `_gbm_dev` | device_init, device_create, destructor |
| libgralloc_gm: registry | same, 325-425, 620-742 | `gbm_bo_handle_map`: native handle to `gbm_bo` | allocate, import, free |
| libgralloc_gm: CPU locks | same, 428-583 | `bo_data` of each object: `map_data`, `lock_count`, `locked_for` | lock, lock_ycbcr, unlock |
| libgralloc_gm: fenced locks | same, 585-618 | none | lock_async, unlock_async, lock_async_ycbcr |
| formats and strides | same, 69-275; `mapper_stablec/Mapper.cpp` 569-839 | none | format, flag, size and layout tables |
| stable-C mapper | `src/src/mapper_stablec/Mapper.cpp`, `IMapperProvider.h` | `mInitialized`, metadata by descriptor number | importBuffer, freeBuffer, lock, unlock, get and set metadata, reports |
| AIDL allocator | `src/src/aidl/Allocator.cpp`, `Main.cpp` | `_gbmDevFd`, locals of each call | allocate, allocate2, isSupported |
| gralloc HAL module | `src/src/gralloc4/Gralloc.cpp` | mutex, `initialized`, `gbm_dev` | register, unregister, alloc, free, lock variants, perform |
| AIDL conversion | `src/src/aidl/` other files | none | dupToAidl, generated parcelling |
| metadata codec | `IMapperMetadataTypes.h`, `impltests.cpp` | reader and writer | encode, decode, provideStandardMetadata, 14 unit tests |
| conformance suite | `VtsHalGraphicsMapperStableC_TargetTest.cpp` | the fixture's handles | 53 tests of a mapper and an allocator |

The allocator runs in a service with four binder threads (`Main.cpp:43`). A call
allocates its buffers, duplicates their descriptors into the reply and releases
everything of its own. A client process receives the descriptors, imports the
handle through the mapper (or the HAL module), locks it for the CPU and frees it.
All three front ends call the same library, which keeps its state in globals of
the process; its mutexes are commented out (lines 35-36, 401, 416, 636, 723).

What is hard about it:

* state of one buffer lives in several tables (the registry, the native handles,
  the metadata map, the descriptor table) that separate calls must keep in step,
  and the keys of these tables (addresses, descriptor numbers) are reused;
* one `map_data` pointer per object must serve nested locks;
* threads enter the library with no lock of its own;
* partial failure in the middle of an allocation of several buffers;
* error codes taken from an `errno` that nothing has set.

`PROJECT.json` lists each of these at its line, under `hazards`, with the
properties that would catch it.

What makes each part correct: the registry owns its objects (no dangling, shared
or lost one); an object is mapped exactly while it is locked for software
access; the mapper's tables agree, and the client sees one contract however handles and
numbers are reused below (the code's own, less than IMapper asks for);
an allocation returns everything it was asked for or leaves nothing behind;
the HAL module initialises once and gives a fence to one call at a time (one whose wait
fails is lost); layouts fit the buffer.

## The modules

| module | models | extends |
| --- | --- | --- |
| `GrallocGbm` | registry and locks of the library; one step per call | |
| `GbmDevice` | the GBM device and the DRM descriptors under it | |
| `LockThreads` | lock and unlock, statement by statement, in several threads | instantiates `GrallocGbm` |
| `GrallocHal` | the HAL module and fenced locks, several threads | `GbmDevice`, instantiates `GrallocGbm` |
| `AllocatorService` | doAllocate on concurrent binder threads | `GrallocGbm` |
| `BufferContract` | abstract: the contract the mapper's code keeps about imported buffers | |
| `MapperV5` | the mapper in one client process | `GrallocGbm` |
| `PixelFormats` | formats, flags, sizes, strides, planes: operators | |
| `MetadataCodec` | the writer and reader of metadata: operators | |
| `MetadataCodecTests` | the codec's unit tests as formulas | `MetadataCodec` |
| `StandardMetadata` | what the mapper answers about a buffer: operators | `PixelFormats`, `MetadataCodec` |
| `BufferReports` | one buffer from its descriptor to what a client reads of it | `StandardMetadata`, `MetadataCodecTests` |
| `VtsTests` | the conformance tests as sequences of steps | `StandardMetadata` |
| `VtsSuite` | the suite run against the mapper | `MapperV5`, `VtsTests` |
| `MC...` | instances for TLC | |
| `..._proofs` | theorems | the module they are about |

**GrallocGbm.** Variables have the names of the globals. `gbm_bo_handle_map` is a
function from handle addresses to an object or `NoBo`; `bos` are the objects
that exist; `user_data` is the `bo_data` of each. `map_data` is abstracted to the
access the mapping grants: "none", "r" or "rw". Every entry point is an operator
of its parameters and of the error code it returns, so that the front ends
conjoin it with what they do with that code. `errno` at the
start of a call is any member of `StaleErrno`. A null `bo_data` that is read, or a
device that was never created, sets `crashed`; the process then stops.
`Next` is any sequence of calls of a client that deletes a handle only once it is
unregistered; the front ends are shown to be such clients.

**GbmDevice.** Descriptors are numbers here, because the code compares them with
0. A process with `stdin` has 0 in use; in the other one the device may be opened
on 0, and is then never reused (`gralloc_gbm_mesa.cpp:286`). Initialisation may fail
to open, or to create a device on what it opened; `failures` counts the latter,
which leave a descriptor open. `destroyed_twice` records a second
`gbm_device_destroy` of one device.

**GrallocHal.** `gralloc_mod_gbm_init` is four steps under the module's mutex: test,
open, create, share. A lock with a fence waits in a step of its own, which ends
when the fence is signaled or the wait has failed; a fence has a state and an
owner (client, library, or nobody once it is lost). `held` are the locks the
client knows of, `stuck` those that a failed `lock_ycbcr` left behind. `Exit` runs
both destructors, the module's first. The registry and the locks are those of
`GrallocGbm`, whose `gbm_dev` is "`_gbm_dev` is not null".

**MapperV5.** `native` are the native handles of the client process, each with
one descriptor; `fds` is the descriptor table, by number; the metadata map is
keyed by number as in the code (`Mapper.cpp:71`). `held` counts the locks the
client was given, and `raw` and `imported` what it received and imported. The
client receives handles, obtains fences that are signaled some time later, and
calls the mapper. With `NegativeCalls = FALSE` it keeps to the interface: it
frees only unlocked buffers, unlocks only locked ones, locks for CPU usage only.
With `NegativeCalls = TRUE` it also makes the calls that the VTS makes to see
them refused; it never passes the address of a deleted handle.

**BufferContract.** Per imported handle: its buffer, its metadata, its lock count
and usage. `MapperV5` implements it under the mapping at the end of that module
(property `ImplementsContract`). It is the contract of this code, and in two clauses less
than IMapper asks for: metadata are kept per handle, where IMapper makes them global to
the buffer (`IMapper.h:366`, `376`; violated in the run `MapperV5Metadata`), and a software
lock excludes every other, where IMapper permits simultaneous locks (`IMapper.h:234`) and
the test `LockUnlockNested` expects a second one to succeed (it fails, `VtsSuiteVerdicts`).
What `ImplementsContract` adds to these findings is that there is nothing else: with
handles, descriptor numbers and objects reused in any order, a call acts on its one handle
as the contract says and on no other.

**LockThreads.** One buffer, several threads, one step per statement that reads
or writes `bo_data`; `lock_count++` is a read and a write. `kind` is the client:
one that admits one thread at a time (`serialised`), or one whose threads race. A
race is treated as an interleaving of these accesses; what a compiler may make of a
data race beyond that is not modelled.

**AllocatorService.** A library call of a thread is one step, and so are the
duplication into the reply and the closing of the handle; between them other
threads run. Handle addresses and descriptor numbers are reused as soon as they
are given back. `gbm_bo_get_fd` and the duplication may fail, and then the reply
holds no descriptor: the code reports neither.

**PixelFormats, MetadataCodec, StandardMetadata.** Pure operators; formats, flags and
enumerators are their names. The code's `ALIGN` masks, which equals rounding up for
the powers of two it is used with. A message is a sequence of fields, each with its
size in bytes and what it holds: a reader that asks for a field of another size than
was written reads 0 in its place. `desired` is the `int32_t` of
the writer, with its overflow.

**BufferReports.** `allocated` is the object the allocator made, `imported` the one
the client's mapper made from the `handle`, with sizes computed anew; `Pitches` are
the row alignments of the backends. A query is the loop of the VTS fixture: a guessed
size, a second call when it was too small, then a decode; another user of the same
handle sets metadata between its steps.

**VtsTests, VtsSuite.** A test is the sequence of its statements that call the mapper
or check something; `ASSERT_` steps are fatal. Handles are the variables of the
fixture, and at the end of a test what its scope still holds is freed and closed by
the destructors. A test that crashes ends the process and a new one runs the next.
The tests run in any order; the backend may refuse the formats and usage that not
every GPU has.

`map` in `PROJECT.json` gives the lines of each definition. The definitions
preceded by a comment that begins with "Fault:" are not part of the models: each
is a plausible mistake in the definition that follows it, and a property is only
listed with a mistake that TLC finds it to refute.

## The runs

Passing:

| run | question | bounds |
| --- | --- | --- |
| `GrallocGbm` | any sequence of library calls keeps the registry and the locks | 2 handles, 2 objects, 3 formats, 3 usage bits, 3 locks |
| `MapperV5` | a client that keeps to IMapper: tables agree, contract implemented | 3 handles, 2 objects, 4 descriptors, 2 buffers |
| `LockThreads` | racing threads find no null pointer and return; serialised calls are atomic | 2 threads; 3 calls each racing, 4 calls and 2 locks in turns |
| `AllocatorService` | nothing leaks, all or nothing, results distinct, calls answered | 2 threads, 2 handles, 3 descriptors, up to 2 buffers a call |
| `GrallocHal` | one device whatever fails and races; fences, locks, handles accounted for; a client of `GrallocGbm` | 2 threads, 1 handle, 1 fence, 2 descriptors, 2 devices, 2 locks, two formats |
| `BufferReports` | both sides agree on size, planes and stride; answers neither torn nor truncated | 6 formats, 3 widths, 2 heights, 2 usages, 2 pitches, 2 guesses, 2 HDR values |
| `VtsSuite` | which tests the mapper passes, and what they leave behind | 53 tests in any order, 5 handles, 3 objects |

Two handles are enough for one to be freed and reused, or to collide in a table,
while another is live; the mapper needs a third for a raw handle and two imports
of it. Descriptor numbers are fewer than the handles and fences would like, so
that they are reused. Three locks cover first, nested and last. In
`AllocatorService` the two threads compete for too few handles, so that calls
fail after their first allocation while the other thread goes on. `GrallocHal` has two
DRM descriptors, and numbers them from 0 or from 1: an initialisation can fail after
opening one and the next still succeed, and a second device, which no correct step
would make, can be made. The sizes of `BufferReports` lie below, on and above the
alignments of 16, 32 and 64, with an even and an odd height; a guess of 0 bytes always
asks twice and one of 512 hardly ever.

`VerdictAsExpected` names the tests that fail. On every device (23):

* `LockUnlockNoCPUUsage`, `LockBadAccessRegion`, `UnlockNotLocked`, `LockUnlockNested`,
  `FlushLockedBufferBadBuffer`, `RereadLockedBufferBadBuffer`: the mapper accepts, or
  for the nested lock refuses, what it should not;
* `Lock_YCRCB_420_SP`, `Lock_YV12`, `YV12SubsampleMetadata`, `Lock_YCBCR_420_888`,
  `Lock_YCBCR_P010`, `Lock_RAW10`, `Lock_RAW12`: `isSupported` says yes, and then the
  allocation fails or there are no, or other, plane layouts;
* `GetSetDataspace`, `GetSetBlendMode`, `GetSetSmpte2086`, `GetCta861_3`: encoded
  values are refused;
* `GetName`, `SupportsRequiredGettersSetters`: required types are not provided;
* `GetPixelFormatFourCC`, `GetUsage64`: the handle's format is not the one expected, and
  the front-buffer bit is lost with the upper half of the usage;
* `GetMetadataBadValue`, `GetUnsupportedMetadata`: errors are positive.

`FreeBufferNegative` passes or crashes with what `errno` holds, and
`GetProtectedContent` with what the backend allocates. All others pass.

Violated, each a finding (`findings` in `PROJECT.json` quotes both sides):

| run | expectation | what the code does |
| --- | --- | --- |
| `MapperV5Metadata` | metadata of a buffer are global | kept per descriptor number of one process |
| `MapperV5Fence` | the acquire fence has been signaled before a lock succeeds | closed, never waited for |
| `MapperV5FreeRaw` | freeing a raw handle is refused | returns -errno, which may be 0 |
| `LockThreadsRace` | simultaneous locks leave each its mapping | the first unlock unmaps the other's |
| `VtsSuiteVerdicts` | the conformance tests pass | 23 fail on every device, see above |

Two passing properties record what a reader might not expect: `DestroyedTwiceAtExit`
says that the two destructors destroy the one device of a process that initialised the
HAL module twice, at every exit and at no other time, and `LocksAccounted` counts the
locks that a failed `lock_ycbcr` leaves behind. Some properties are stated with a premise,
because they fail without it: `DeviceShared`, `HalNoCrash` and `LibraryCalled` are about a
process that has descriptor 0 in use; `ImportSeesAllocation` excepts cursors in formats
whose cursor flag GBM never sees, which are imported larger than they were allocated. `StrideAgrees` compares a stride with the width
in the formats of `RowFormat` only: YCBCR_420_888 has 12 bits per pixel in all its planes, taken as
two bytes, so its stride in pixels is half a row; and the bits-per-pixel table does not know the GBM
formats of BLOB, Y8, P010 and IMPLEMENTATION_DEFINED, which are then taken to have four bytes per
pixel (`gralloc_gbm_mesa.cpp:264`), so that the stride of a BLOB is a quarter of its width.

**Deadlock.** Checked for `MapperV5`, `AllocatorService`, `BufferReports` and
`VtsSuite`. `GrallocGbm` may stop by crashing; in `LockThreads` the clients stop
after `MaxCalls` calls; `GrallocHal` stops when the process exits.

**Fairness.** `CallsReturn`, `CallsAreAnswered` and `HalCallsReturn` assume weak fairness
of the steps of each thread that is inside a call: the kernel's scheduler runs a
runnable thread. No such step waits for another thread, and the wait for a fence ends
after three seconds whether or not it is signaled. Nothing is assumed of a thread that
waits for the HAL module's mutex, which is not a fair one, and nothing obliges a client
to call or a fence to be signaled.

## The proofs

`GrallocGbm_proofs` proves for every value of the constants that satisfy
`GrallocAssumption`:

* `TypeCorrect`: `Spec => []TypeOK`;
* `RegistryCorrect`: `Spec => []RegistryInv`. With types it is inductive; the
  uniqueness of entries needs that `NewBo` takes an object that does not exist,
  and that every entry points to one that does;
* `LockCorrect`: `Spec => []LockInv`. The invariant ties `map_data` to
  `locked_for`, and a mapping to a `lock_count` of one. The second half is why
  `Unlocked` may clear `map_data` without looking at the count;
* `LockedForStable`: `Spec => LockedForIsStable`, from the lock compatibility
  test, and from types for the last unlock.

The argument goes through one lemma: every call is one of a few steps of the
library (a registration, a removal, a new `bo_data` of one object, a crash), and
each of these preserves each invariant.

`MapperV5_proofs` proves the invariants that the run `MapperV5` checks, for any
handles, descriptors, buffers, usage bits and metadata that satisfy
`GrallocAssumption` and `MapperAssumption`. Of any client it proves

* `MapperUsesLibrary`: `MapperSpec => Spec`. Whatever the client calls, a step of the
  mapper is at most one call of the library, so what `GrallocGbm_proofs` shows holds of
  the process; all this needs is that native handles keep their type (`NativeStays`);
* `AnyClientKeepsLibrary`: hence `RegistryInv` and `LockInv` hold under a client that
  also frees and unlocks handles it never imported, as the VTS does;

and when `NegativeCalls = FALSE`

* `MapperCorrect`: `MapperSpec => []MapperInv`, from which follow
  `MapperTypeCorrect`, `ImportsLive`, `DescriptorsKept`, `MetadataKept`,
  `LocksAreCounted`, `LockedStaysMapped` and `NeverCrashes`.

`MapperInv` is their conjunction with the library's invariants and two
strengthenings. `TablesAgree` says what the tables of client and mapper share: a
handle that is not imported holds no lock, a raw handle exists and is not
imported. `SoftwareLocks` says that every lock of such a client is for software
access; with `LockInv` it makes a locked object a mapped one, which is
`LockedIsMapped`. The properties need one another: that freeing one handle takes
no metadata from another follows from the ownership of descriptors, that a lock
counts for its own handle from `EntriesUnshared`, and that a new import starts
unlocked from `DataOwned`. The proof has one lemma per action; `lock` and `unlock`
share the lemma about one `bo_data` that changes (`LockStepInv`).

The assumption is needed: with other calls an `unlock` of a buffer that was never
locked dereferences null, and `freeBuffer` of a locked handle ends its lock (see
`VtsSuite` and `MapperV5FreeRaw` for what such calls do).

It also proves `ContractKept`: when `NegativeCalls = FALSE`,
`MapperSpec => ImplementsContract`. `Viewed` rewrites the refinement mapping in terms of
the client's tables: with `MapperInv` the contract's buffers are `imported` and its
counts `held`. One lemma per call then shows a step of the contract or none.

`LockThreads_proofs` is about any finite set of threads, and any usages, mappings and calls:

* `NeverNull`: `Spec => []NoNullData`, for racing threads too. `PointerInv` says that
  nothing detaches a `bo_data` and that a lock is held only of an object that has one;
* `TurnsKeepMappings`, `TurnsUnmapOnce`: `SerialisedStayMapped` and `NoBadUnmap` for
  a client that admits one thread at a time. `SerialisedInv` says that at most one
  thread is inside a call, what it has done to the object at each of its statements,
  and that between calls the object is as the last call committed it;
* `CallsAtomic`: `Spec => CallsAreAtomic`. The step that returns is a step of
  `GrallocGbm`'s `Lock` or `Unlock` on the committed object, every other one a stutter;
* `ThreadsTypesHold`: `ThreadsTypeOK`, of which the hard part is the range of `lock_count`. Racing
  increments are lost, and a stale value may be written back after others have counted on, so no
  bound is inductive by itself. `Done` is the set of calls that have written the counter:
  `CountsWithin` keeps every counter, and every value read and not yet written, within the number of
  its members, and each write adds one. Where the client takes turns it is 0 or 1 (`CountsOnce`).

`AllocatorService_proofs` is about any threads, handles, objects, descriptors and counts,
under `GrallocAssumption` and `ServiceAssumption`. `ServiceInv` is inductive. `CallInv` gives
for each place in `doAllocate` how many of its buffers are made, returned and released
(`Progress`): `ServiceTypeCorrect` and `CallsAllOrNothing` follow. `HandleInv` says that the
threads' vectors hold the native handles, each once; `FdInv` that an open descriptor has one
holder, a handle or a place in a result; `BufferInv` that a result shares its buffer with a
handle only while its thread releases that handle; `EntryInv` when a handle is in the map.
`NothingIsLost` (`NothingLeaks`) and `ResultsAreDistinct` (`ResultsDistinct`) follow.
`ServiceUsesLibrary` is a refinement: every step of a binder thread is a step of `GrallocGbm` or
leaves the library alone, so `ServiceSpec => Spec`, and by `ServiceKeepsRegistry` the `RegistryInv`
of the library holds in the service. It needs `EntryInv`: the service deletes a handle only after
`gralloc_gm_buffer_free` has taken it out of the map.

`GrallocHal_proofs` proves every safety property of the run `GrallocHal`, for any threads,
fences, handles, objects, descriptors and devices under `HalAssumption` and
`DeviceAssumption`. `HalInv`, from `HalInvariant`, has these parts:

* `CallInv`: a thread holds the mutex exactly in the three steps of the initialisation, and
  only while the module is not initialised; which handle a call is on, and its state;
* `DeviceInv`: with descriptor 0 in use the library has a device from `device_init` on, on an
  open descriptor above 0, and the module has it once initialised. It is what keeps
  `gralloc_gbm_device_create` from making another, and gives `DeviceIsShared`,
  `TwiceAtExit` and, with `CallInv`, `HalNeverCrashes`;
* `FenceInv`: `FencesStayOwned`, and that a call that waits has a fence;
* `BufferInv`: the map has the client's handles, each object is one handle's, and
  `lock_count` is `held` plus `stuck`: `RegisteredStayLive`, `LocksAdded`, `HalTypeCorrect`.

Each action has a lemma; what a lock does to one `bo_data` is `LockEffect`, and `LockCounted`
adds it to the right count when `lock_ycbcr` fails after it.

`HalCallsLibrary` proves the refinement of this component, `LibraryCalled`: with descriptor 0 in use every step of the
module but the end of the process is at most one call of `GrallocGbm`, `register` and `unregister` among
its imports and frees, and what another thread's initialisation does among the steps that change
nothing. It needs `DeviceInv`: a `gralloc_gbm_device_create` that makes no second device. The end of the process is
the exception because it destroys the device under the buffers that are left. `HalKeepsLibrary` then
takes `RegistryInv` and `LockInv` over from `GrallocGbm_proofs`, whose lemmas it uses through an
instance: in this process too the map owns its objects and a mapping belongs to a lock, also after a
`lock_ycbcr` that failed with its lock taken.

`BufferReports_proofs` is about any descriptors, pitches, guesses and HDR values under
`ReportsAssumption`. `ReportsInv` is inductive: while there is a buffer, `allocated` and `handle` are
what `gralloc_allocate` computes from the descriptor for some pitch, and `imported` what
`gralloc_gm_buffer_import` computes from the handle. With it:

* `ReportsTypesHold` (`ReportsTypeOK`);
* `ImportSeesAllocationHolds` (`ImportSeesAllocation`): the two computations agree for every width
  and height, not only those around an alignment. The cursor flag is the reason for the exception:
  the allocator tests the GBM flag and the importer the usage bit;
* `PlanesWithinBufferHolds` (`PlanesWithinBuffer`): for every width, height and pitch, from facts about
  `ALIGN` and `DIV_ROUND_UP` proved as lemmas;
* `QueryInvHolds`: `QueryInv` is inductive with `ReportsInv`. All that a query has seen of its
  type is encoded in equally many bytes (`SeenAlike`), also the HDR values another client sets
  meanwhile; so a call made with the size the first one returned finds room, and what the query
  decodes is the message of one value it has seen (`Progress`);
* `AnsweredAsWrittenHolds` (`AnsweredAsWritten`) and `StrideAgreesHolds` (`StrideAgrees`) follow,
  the second with the arithmetic of `PixelStrideHoldsRow`. They rest on what every type of an
  imported buffer is worth (`ProvidesSmall`: at most three planes of four components, names of at
  most 255 bytes, so that no size overflows) and on the codec, and `UNSUPPORTED`, which comes back
  where a size is expected, decodes to nothing (`TooShort`);
* `CodecKeepsReportsHolds` (`CodecKeepsReports`): whatever is provided of an imported buffer comes back
  from a buffer of the size it asks for, by `RoundTrip`, and from one byte less does not, by
  `ShortRefused`. That the codec passes its 14 unit tests (`CodecTestsPass`), which is a computation on
  given values, is a hypothesis of this theorem: the run evaluates it.

`MetadataCodec_proofs` proves `RoundTrip`, for every standard type and every value of its kind,
with vectors of any length and strings of any size, whose message has at most `MaxInt32` bytes:
`encode` returns the size of the message into whatever buffer it writes, and a buffer of that size
or more then holds the message, which `decode` reads back as the value. `ShortRefused` is the other
half: from a buffer that is too small `decode` takes no value, wherever the message was cut off,
except that no bytes at all mean `std::nullopt` to the optional types. A loop's result is a
recursive function, so the argument is induction along the loop, from the well-foundedness of the
natural numbers (`UpTo`, `SameLoop`, `LoopRuns`): the writer after `k` fields has written the first
`k`, or those that fit and perhaps later ones of size 0 (`WriterCounts`); the reader before a field
stands where the writer stood, or has failed at the first field that did not fit (`FitIs`) and stays
there, where a count it cannot read is 0 and loops do nothing (`ReadField`, `ReadStays`, `NoRounds`,
`ReadsValues`); vectors and their elements are messages within a message
(`Flattened`, `HoldsJoin`). Two named assumptions give the lengths of the constant strings
(`HeaderNameAssumption`, `NamesAssumption`), which the prover does not count and TLC evaluates.

`VtsSuite_proofs` proves `FixtureCleansUp` (`FixtureLeaksNothing`) for any buffer objects, formats,
pitch and errno, and for any tests that use the slots of the fixture as `TestsAssumption` says; TLC
evaluates it for the 53 tests. `SuiteInv` says for each slot that an imported handle is in the
library's map, that metadata belong to an imported handle, a descriptor to a handle, and a handle to
the fixture, so that what `EndScope` frees is all there is. Which tests fail does not matter to it.
`SuiteIsAClient` relates the two modules: each step of the suite is a step that `MapperNext` allows
its client, a crash in the tests' own code (`Dies`), or a new process. It needs that the mapper is
loaded while a test runs (`LoadedInTests`) and that `setStandardMetadata` accepts settable types
only. `SuiteKeepsLibrary` follows: `RegistryInv` and `LockInv` hold at every statement, through the
negative tests and those that crash.

Checked by TLC only:

* liveness under fairness (`CallsReturn`, `CallsAreAnswered`, `HalCallsReturn`), which the prover
  cannot do;
* `VerdictAsExpected`, the verdicts of the 53 tests of the VTS, and `CodecTestsPass`, the 14 unit tests
  of the codec: computations on given values, whose result is that of evaluating them.

## Assumptions and what is left out

* Outside `GrallocHal`, the device's descriptor is positive. With descriptor 0 the
  library creates a device at each call (`gralloc_gbm_mesa.cpp:286`).
* Native handles have one descriptor, as those of this allocator do; handles with
  none are refused before anything happens.
* An operation on `gbm_bo_handle_map` is one step, also with several threads.
* `gralloc_is_desc_support` refuses nothing: its limit is `UINT32_MAX`.
* A `gbm_bo_create` that fails sets `errno`.
* In `MapperV5` the four settable metadata are alike, members of `Field`.

Not modelled:

* **Logging** and the dumps, which only print or do nothing.
* **Generated AIDL code** (`src/src/aidl/` other than `Allocator.cpp` and `Main.cpp`):
  it parcels what the allocator returns; the interface files it is generated from are
  not in the repository. `dupToAidl` is part of `AllocatorService`.
* **Vendored interfaces** (GBM, libdrm, IMapper, sync, hardware headers): declarations.
  What the code uses of them is modelled where it is used and marked external.
* `applyStandardMetadata` of the codec, which nothing calls, and the v33 copies of its
  headers, which are the same as those of v34.
* The bytes that a test writes through a locked pointer and reads back.
* A negative `count` of `allocate2`: the vector's constructor throws.
