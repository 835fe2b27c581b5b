------------------------------ MODULE MapperV5 ------------------------------
(***************************************************************************)
(* The stable-C mapper (src/src/mapper_stablec/Mapper.cpp) in the process  *)
(* of one client: native handles, their file descriptors, the metadata     *)
(* keyed by descriptor number, and the calls into libgralloc_gm, which are *)
(* the operators of GrallocGbm.  One action per AIMapper function that     *)
(* changes state.  The client receives raw handles over Binder, obtains    *)
(* fences, and makes any sequence of calls; Allocated says what handles of *)
(* each buffer look like.                                                  *)
(***************************************************************************)
EXTENDS GrallocGbm

CONSTANTS
  Buffer,       \* dma-bufs
  Allocated,    \* [Buffer -> [format, usage]] as the allocator set them
  NoFile,       \* an unused descriptor number
  NoHandle,     \* an address with no native_handle_t
  Field,        \* settable standard metadata: dataspace, blend mode, ...
  Value,        \* their values
  Default,      \* the value in a new gralloc_metadata
  NoMetadata,   \* no entry in the metadata map
  HighBits,     \* usage bits above the 32nd
  NegativeCalls \* TRUE: the client also makes calls the VTS makes to see them fail

Fence == {"pending", "signaled"}

AIMapper_Error == {"NONE", "BAD_BUFFER", "BAD_VALUE", "NO_RESOURCES", "UNSUPPORTED"}

ASSUME MapperAssumption ==
  /\ Allocated \in [Buffer -> [format : Format, usage : SUBSET UsageBit]]
  /\ NoFile \notin Buffer \cup Fence
  /\ Buffer \cap Fence = {}
  /\ NoHandle \notin HandleInfo
  /\ Default \in Value
  /\ NoMetadata \notin [Field -> Value]
  /\ HighBits \cap UsageBit = {}
  /\ NegativeCalls \in BOOLEAN

VARIABLES
  loaded,        \* TRUE once IMapperProvider has constructed the mapper
  mInitialized,
  native,        \* the native handles: [Handle -> HandleInfo or NoHandle]
  fds,           \* the process's descriptor table, as far as it matters here
  gralloc_metadata_prime_fd_map, \* [Fd -> gralloc_metadata or NoMetadata]
  raw,           \* handles the client received and has not closed
  imported,      \* what the client imported and has not freed: [Handle -> Buffer or NoFile]
  held           \* the locks a client holds through each handle

mapperVars == <<libVars, loaded, mInitialized, native, fds,
                gralloc_metadata_prime_fd_map, raw, imported, held>>

MapperTypeOK ==
  /\ TypeOK
  /\ loaded \in BOOLEAN /\ mInitialized \in BOOLEAN
  /\ native \in [Handle -> HandleInfo \cup {NoHandle}]
  /\ fds \in [Fd -> Buffer \cup Fence \cup {NoFile}]
  /\ gralloc_metadata_prime_fd_map \in [Fd -> [Field -> Value] \cup {NoMetadata}]
  /\ raw \in SUBSET Handle
  /\ imported \in [Handle -> Buffer \cup {NoFile}]
  /\ held \in [Handle -> 0..MaxLocks]

MapperInit ==
  /\ Init
  /\ loaded = FALSE /\ mInitialized = FALSE
  /\ native = [h \in Handle |-> NoHandle]
  /\ fds = [f \in Fd |-> NoFile]
  /\ gralloc_metadata_prime_fd_map = [f \in Fd |-> NoMetadata]
  /\ raw = {}
  /\ imported = [h \in Handle |-> NoFile]
  /\ held = [h \in Handle |-> 0]

\* A handle the client may pass: an imported one, or for a negative test a raw
\* one.  It never passes the address of a handle that is gone.
Passes(h) ==
  /\ native[h] # NoHandle
  /\ imported[h] # NoFile \/ (NegativeCalls /\ h \in raw)

-----------------------------------------------------------------------------
(* The client's own steps. *)

\* A handle arrives over Binder: a new native handle owning a new descriptor.
ReceiveRaw(h, f, buf) ==
  /\ native[h] = NoHandle
  /\ fds[f] = NoFile
  /\ native' = [native EXCEPT ![h] = [prime_fd |-> f, format |-> Allocated[buf].format,
                                      usage |-> Allocated[buf].usage]]
  /\ fds' = [fds EXCEPT ![f] = buf]
  /\ raw' = raw \cup {h}
  /\ UNCHANGED <<libVars, loaded, mInitialized, gralloc_metadata_prime_fd_map, imported, held>>

\* Fault: the handle is deleted, its descriptor never closed.
DeleteOnly(h) ==
  /\ UNCHANGED fds
  /\ native' = [native EXCEPT ![h] = NoHandle]

\* native_handle_close() and native_handle_delete() of h.
CloseAndDelete(h) ==
  /\ fds' = [fds EXCEPT ![native[h].prime_fd] = NoFile]
  /\ native' = [native EXCEPT ![h] = NoHandle]

CloseRaw(h) ==
  /\ h \in raw
  /\ native[h] # NoHandle
  /\ CloseAndDelete(h)
  /\ raw' = raw \ {h}
  /\ UNCHANGED <<libVars, loaded, mInitialized, gralloc_metadata_prime_fd_map, imported, held>>

\* The client obtains an acquire fence, which the GPU signals some time later,
\* and closes it unless it hands it to a lock.
ObtainFence(f) ==
  /\ fds[f] = NoFile
  /\ fds' = [fds EXCEPT ![f] = "pending"]
  /\ UNCHANGED <<libVars, loaded, mInitialized, native, gralloc_metadata_prime_fd_map, raw,
                 imported, held>>

SignalFence(f) ==
  /\ fds[f] = "pending"
  /\ fds' = [fds EXCEPT ![f] = "signaled"]
  /\ UNCHANGED <<libVars, loaded, mInitialized, native, gralloc_metadata_prime_fd_map, raw,
                 imported, held>>

CloseFence(f) ==
  /\ fds[f] \in Fence
  /\ fds' = [fds EXCEPT ![f] = NoFile]
  /\ UNCHANGED <<libVars, loaded, mInitialized, native, gralloc_metadata_prime_fd_map, raw,
                 imported, held>>

-----------------------------------------------------------------------------
(* AIMapper functions; ret is the AIMapper_Error they return. *)

\* AIMapper_loadIMapper: the first call constructs the mapper.
LoadIMapper ==
  /\ ~loaded
  /\ loaded' = TRUE
  /\ \E err \in ErrCode : gralloc_gbm_device_init(err) /\ mInitialized' = (err = OK)
  /\ UNCHANGED <<native, fds, gralloc_metadata_prime_fd_map, raw, imported, held>>

\* REQUIRE_DRIVER, the first thing every call does.
NoDriver(ret) ==
  /\ ~mInitialized
  /\ ret = "NO_RESOURCES"
  /\ UNCHANGED <<libVars, native, gralloc_metadata_prime_fd_map, imported, held>>

\* native_handle_clone() gets address n and descriptor f, or fails.  A clone
\* that cannot be imported is closed and deleted again, and leaves no trace.
importBuffer(h, n, f, ret) ==
  /\ native[h] # NoHandle
  /\ h \in raw \/ imported[h] # NoFile
  /\ native[n] = NoHandle
  /\ fds[f] = NoFile
  /\ LET clone == [native[h] EXCEPT !.prime_fd = f]
         buf == fds[native[h].prime_fd]
     IN
     \/ NoDriver(ret) /\ UNCHANGED fds
     \/ /\ mInitialized
        /\ ret = "NO_RESOURCES"
        /\ UNCHANGED <<libVars, native, fds, imported>>
     \/ /\ mInitialized
        /\ buf \in Buffer
        /\ \E b \in Bo, err \in ErrCode :
             /\ gralloc_gm_buffer_import(n, clone, b, err)
             /\ \/ /\ err = OK
                   /\ ret = "NONE"
                   /\ native' = [native EXCEPT ![n] = clone]
                   /\ fds' = [fds EXCEPT ![f] = buf]
                   /\ imported' = [imported EXCEPT ![n] = buf]
                \/ /\ err # OK
                   /\ ret = "NO_RESOURCES"
                   /\ UNCHANGED <<native, fds, imported>>
  /\ UNCHANGED <<loaded, mInitialized, raw, gralloc_metadata_prime_fd_map, held>>

\* Fault: freeBuffer leaves the metadata behind.
KeepMetadata(h) == UNCHANGED gralloc_metadata_prime_fd_map

EraseMetadata(h) ==
  gralloc_metadata_prime_fd_map' =
    [gralloc_metadata_prime_fd_map EXCEPT ![native[h].prime_fd] = NoMetadata]

\* The metadata go before the handle is known to be registered.
freeBuffer(h, ret) ==
  /\ Passes(h)
  /\ NegativeCalls \/ held[h] = 0
  /\ \/ NoDriver(ret) /\ UNCHANGED fds
     \/ /\ mInitialized
        /\ EraseMetadata(h)
        /\ \E errno \in StaleErrno, err \in ErrCode :
             /\ gralloc_gm_buffer_free(h, errno, err)
             /\ \/ /\ err = OK
                   /\ ret = "NONE"
                   /\ CloseAndDelete(h)
                   /\ imported' = [imported EXCEPT ![h] = NoFile]
                   /\ held' = [held EXCEPT ![h] = 0]
                \/ /\ err # OK
                   /\ ret = "BAD_BUFFER"
                   /\ UNCHANGED <<native, fds, imported, held>>
  /\ UNCHANGED <<loaded, mInitialized, raw>>

\* Fault: the error of gralloc_gbm_bo_lock is not looked at.
LockResultIgnored(err) == "NONE"

LockResult(err) == IF err = OK THEN "NONE" ELSE "BAD_VALUE"

\* unique_fd closes the fence on every path, and nothing waits for it.  The
\* cast of cpuUsage to int drops the high bits.
lock(h, cpuUsage, fence, ret) ==
  /\ Passes(h)
  /\ NegativeCalls \/ cpuUsage \subseteq SwBits
  /\ fence # NoFd => fds[fence] \in Fence
  /\ fds' = IF fence = NoFd THEN fds ELSE [fds EXCEPT ![fence] = NoFile]
  /\ \/ NoDriver(ret)
     \/ /\ mInitialized
        /\ cpuUsage = {}
        /\ ret = "BAD_VALUE"
        /\ UNCHANGED <<libVars, held>>
     \/ /\ mInitialized
        /\ cpuUsage # {}
        /\ \E err \in ErrCode :
             /\ gralloc_gbm_bo_lock(h, native[h], cpuUsage \ HighBits, err)
             /\ ret = LockResult(err)
             /\ held' = IF ret = "NONE" THEN [held EXCEPT ![h] = @ + 1] ELSE held
  /\ UNCHANGED <<loaded, mInitialized, native, gralloc_metadata_prime_fd_map, raw, imported>>

unlock(h, ret) ==
  /\ Passes(h)
  /\ NegativeCalls \/ held[h] > 0
  /\ \/ NoDriver(ret)
     \/ /\ mInitialized
        /\ \E err \in ErrCode :
             /\ gralloc_gbm_bo_unlock(h, err)
             /\ ret = IF err = OK THEN "NONE" ELSE "BAD_BUFFER"
             /\ held' = IF ret = "NONE" /\ held[h] > 0 THEN [held EXCEPT ![h] = @ - 1] ELSE held
  /\ UNCHANGED <<loaded, mInitialized, native, fds, gralloc_metadata_prime_fd_map, raw, imported>>

\* createMetadata: the entry for the handle's descriptor, made on demand.
createMetadata(h) ==
  LET md == gralloc_metadata_prime_fd_map[native[h].prime_fd] IN
  IF md = NoMetadata THEN [x \in Field |-> Default] ELSE md

PutMetadata(h, md) ==
  gralloc_metadata_prime_fd_map' =
    [gralloc_metadata_prime_fd_map EXCEPT ![native[h].prime_fd] = md]

\* A non-standard type is refused first, and one that provideStandardMetadata
\* does not know never reaches createMetadata; any other does, whether this
\* mapper provides it or not.
getMetadata(h, ret) ==
  /\ Passes(h)
  /\ \/ ret = "UNSUPPORTED" /\ UNCHANGED gralloc_metadata_prime_fd_map
     \/ NoDriver(ret)
     \/ /\ mInitialized
        /\ ret \in {"NONE", "UNSUPPORTED"}
        /\ PutMetadata(h, createMetadata(h))
  /\ UNCHANGED <<libVars, loaded, mInitialized, native, fds, raw, imported, held>>

\* A non-standard type; a settable field; a value of the wrong size, a read-only
\* or an unknown type.
setMetadata(h, field, v, ret) ==
  /\ Passes(h)
  /\ \/ ret = "UNSUPPORTED" /\ UNCHANGED gralloc_metadata_prime_fd_map
     \/ NoDriver(ret)
     \/ /\ mInitialized
        /\ \/ ret = "NONE" /\ PutMetadata(h, [createMetadata(h) EXCEPT ![field] = v])
           \/ ret \in {"BAD_VALUE", "UNSUPPORTED"} /\ PutMetadata(h, createMetadata(h))
  /\ UNCHANGED <<libVars, loaded, mInitialized, native, fds, raw, imported, held>>

Call(ret) ==
  \/ \E h, n \in Handle, f \in Fd : importBuffer(h, n, f, ret)
  \/ \E h \in Handle : freeBuffer(h, ret) \/ unlock(h, ret) \/ getMetadata(h, ret)
  \/ \E h \in Handle, field \in Field, v \in Value : setMetadata(h, field, v, ret)
  \/ \E h \in Handle, cpuUsage \in SUBSET (UsageBit \cup HighBits), fence \in Fd \cup {NoFd} :
       lock(h, cpuUsage, fence, ret)

MapperNext ==
  /\ ~crashed
  /\ \/ \E h \in Handle, f \in Fd, buf \in Buffer : ReceiveRaw(h, f, buf)
     \/ \E h \in Handle : CloseRaw(h)
     \/ \E f \in Fd : ObtainFence(f) \/ SignalFence(f) \/ CloseFence(f)
     \/ LoadIMapper
     \/ loaded /\ \E ret \in AIMapper_Error : Call(ret)

MapperSpec == MapperInit /\ [][MapperNext]_mapperVars

-----------------------------------------------------------------------------
(* Properties. *)

\* Handles and buffer objects: the library knows exactly the handles the client
\* imported and has not freed, and each is a native handle whose descriptor is
\* open on the buffer it was imported from.
ImportsAreLive ==
  \A h \in Handle :
    /\ imported[h] # NoFile <=> gbm_bo_handle_map[h] # NoBo
    /\ imported[h] # NoFile =>
         native[h] # NoHandle /\ fds[native[h].prime_fd] = imported[h]

\* Descriptors: every handle owns one of its own, and every open descriptor
\* is owned by a handle or is a fence the client has not handed over.
DescriptorsOwned ==
  /\ \A h1, h2 \in Handle :
       native[h1] # NoHandle /\ native[h2] # NoHandle /\ h1 # h2
         => native[h1].prime_fd # native[h2].prime_fd
  /\ \A f \in Fd :
       fds[f] \in Buffer <=> \E h \in Handle : native[h] # NoHandle /\ native[h].prime_fd = f
  /\ \A h \in Handle : native[h] # NoHandle => h \in raw \/ imported[h] # NoFile

\* Metadata are kept by descriptor number, which the kernel reuses: there are
\* some only for the descriptor of an imported handle, so that a handle never
\* starts with those of another.
MetadataOwned ==
  \A f \in Fd : gralloc_metadata_prime_fd_map[f] # NoMetadata =>
    \E h \in Handle : imported[h] # NoFile /\ native[h].prime_fd = f

\* The library counts exactly the locks the client holds.
LocksCounted ==
  \A h \in Handle : imported[h] # NoFile =>
    held[h] = DataOf(gbm_bo_handle_map[h]).lock_count

\* The pointer a lock handed out stays mapped until the client unlocks.
LockedIsMapped ==
  \A h \in Handle : imported[h] # NoFile /\ held[h] > 0 =>
    DataOf(gbm_bo_handle_map[h]).map_data # "none"

\* A client that keeps to the interface never makes the mapper dereference
\* a null bo_data.
NoCrash == ~crashed

\* IMapper.h: metadata must be global, so two imports of one buffer agree.
GlobalMetadata ==
  \A h1, h2 \in Handle :
    imported[h1] # NoFile /\ imported[h1] = imported[h2] => createMetadata(h1) = createMetadata(h2)

\* IMapper.h: the acquire fence is signaled when it is safe to lock, so a lock
\* that succeeds has not consumed a fence that is still pending.
FenceHonoured ==
  [][\A h \in Handle, f \in Fd :
       fds[f] = "pending" /\ held'[h] > held[h] => fds'[f] = "pending"]_mapperVars

\* VTS FreeBufferNegative: freeing a handle that was never imported fails.
FreeRefusesRaw ==
  [][\A h \in raw : imported[h] = NoFile => ~freeBuffer(h, "NONE")]_mapperVars

\* The client's view of the mapper, in the terms of BufferContract.
Mapped(h) == gbm_bo_handle_map[h] # NoBo /\ native[h] # NoHandle

Contract == INSTANCE BufferContract WITH
  NoBuffer <- NoFile, Metadata <- [Field -> Value], Default <- [x \in Field |-> Default],
  Usage <- UsageBit, SwUsage <- SwBits,
  buffer <- [h \in Handle |-> IF Mapped(h) THEN fds[native[h].prime_fd] ELSE NoFile],
  metadata <- [h \in Handle |-> IF Mapped(h) THEN createMetadata(h)
                                                   ELSE [x \in Field |-> Default]],
  lock_count <- [h \in Handle |-> IF Mapped(h) THEN DataOf(gbm_bo_handle_map[h]).lock_count
                                                     ELSE 0],
  locked_for <- [h \in Handle |-> IF Mapped(h) THEN DataOf(gbm_bo_handle_map[h]).locked_for
                                                     ELSE {}]

\* The mapper keeps the contract of its own code, which asks less than IMapper.h
\* does (see BufferContract): a step of it imports, frees, locks, unlocks or sets
\* the metadata of one handle as the contract says, or changes nothing the client
\* can see, whatever handles, descriptor numbers and objects are reused below.
ImplementsContract == Contract!Spec

=============================================================================
