----------------------------- MODULE GrallocHal -----------------------------
(***************************************************************************)
(* The gralloc HAL module (src/src/gralloc4/Gralloc.cpp) and the fenced    *)
(* locks it passes on to (gralloc_gbm_mesa.cpp 585-618), called by several *)
(* threads of a process.  The initialisation is split into its steps under *)
(* the module's mutex, and the wait for a fence from the lock after it; a  *)
(* call of the library is one step, with the operators of GrallocGbm for   *)
(* buffers and those of GbmDevice for the device.                          *)
(***************************************************************************)
EXTENDS GbmDevice

CONSTANTS
  Thread, NoThread,
  Fence,       \* sync fences
  NoFence,     \* fence_fd -1
  NoHandle,    \* a call without a handle
  Info,        \* what handles look like: a set of records [prime_fd, format, usage]
  Handle, Bo, NoBo, NoData, Fd, NoFd, Format, KnownFormat, YuvFormat,
  ReadBits, WriteBits, HwBits, LaxHw, StaleErrno, MaxLocks \* as in GrallocGbm

VARIABLES
  gbm_bo_handle_map, bos, user_data, crashed, \* as in GrallocGbm
  mutex,       \* the thread that holds mod->mutex
  initialized, \* mod->initialized
  gbm_dev,     \* mod->gbm_dev, which owns its device
  pc,          \* what each thread does next
  op,          \* the entry point it is in
  arg,         \* the handle it was given
  fence_fd,    \* the fence it was given
  fences,      \* [Fence -> [state, owner]]
  native,      \* the native handles and what the client has done with them
  info,        \* their contents
  held,        \* the locks the client knows it has
  stuck,       \* locks taken by a lock_ycbcr that then failed
  alloc_dev,   \* TRUE while the client has the alloc device open
  exited

Lib == INSTANCE GrallocGbm WITH gbm_dev <- _gbm_dev # NullDev

ASSUME HalAssumption ==
  /\ NoThread \notin Thread
  /\ NoFence \notin Fence
  /\ NoHandle \notin Handle
  /\ Info # {} /\ Info \subseteq Lib!HandleInfo
  /\ NoBo \notin Bo /\ NoFd \notin Fd /\ NoData \notin Lib!BoData
  /\ KnownFormat \subseteq Format /\ YuvFormat \subseteq Format
  /\ LaxHw \subseteq HwBits
  /\ StaleErrno \subseteq Lib!ErrCode
  /\ MaxLocks \in Nat \ {0}

libState == <<gbm_bo_handle_map, bos, user_data, crashed>>
moduleVars == <<mutex, initialized, gbm_dev>>
callVars == <<pc, op, arg, fence_fd>>
clientVars == <<fences, native, info, held, stuck, alloc_dev>>
halVars == <<deviceVars, libState, moduleVars, callVars, clientVars, exited>>

\* Entry points that initialise the module first, and those that may wait.
InitOps == {"perform", "register", "alloc"}
LockOps == {"lock", "lock_ycbcr"}

\* Whose the fence is: the client's, the library's, or nobody's any more.
FenceState ==
  [state : {"pending", "signaled"}, owner : {"client", "library", "nobody"}]
    \cup {[state |-> "closed", owner |-> "nobody"]}
Closed == [state |-> "closed", owner |-> "nobody"]

HalTypeOK ==
  /\ DeviceTypeOK
  /\ Lib!TypeOK
  /\ mutex \in Thread \cup {NoThread}
  /\ initialized \in BOOLEAN
  /\ gbm_dev \in 0..MaxDevice
  /\ pc \in [Thread -> {"idle", "init", "open", "create", "share", "call", "wait"}]
  /\ op \in [Thread -> InitOps \cup LockOps \cup {"none"}]
  /\ arg \in [Thread -> Handle \cup {NoHandle}]
  /\ fence_fd \in [Thread -> Fence \cup {NoFence}]
  /\ fences \in [Fence -> FenceState]
  /\ native \in [Handle -> {"none", "raw", "registered", "allocated", "freed"}]
  /\ info \in [Handle -> Info]
  /\ held \in [Handle -> 0..MaxLocks]
  /\ stuck \in [Handle -> 0..MaxLocks]
  /\ alloc_dev \in BOOLEAN
  /\ exited \in BOOLEAN

HalInit ==
  /\ DeviceInit
  /\ gbm_bo_handle_map = [h \in Handle |-> NoBo]
  /\ bos = {} /\ user_data = [b \in Bo |-> NoData] /\ crashed = FALSE
  /\ mutex = NoThread /\ initialized = FALSE /\ gbm_dev = NullDev
  /\ pc = [t \in Thread |-> "idle"]
  /\ op = [t \in Thread |-> "none"]
  /\ arg = [t \in Thread |-> NoHandle]
  /\ fence_fd = [t \in Thread |-> NoFence]
  /\ fences = [f \in Fence |-> Closed]
  /\ native = [h \in Handle |-> "none"]
  /\ info = [h \in Handle |-> CHOOSE i \in Info : TRUE]
  /\ held = [h \in Handle |-> 0]
  /\ stuck = [h \in Handle |-> 0]
  /\ alloc_dev = FALSE
  /\ exited = FALSE

-----------------------------------------------------------------------------
(* Calls: where they start and where they end. *)

\* The client does not touch a handle while a call on it is running.
Idle(h) == \A t \in Thread : arg[t] # h

Enter(t, name, h, at) ==
  /\ pc[t] = "idle"
  /\ pc' = [pc EXCEPT ![t] = at]
  /\ op' = [op EXCEPT ![t] = name]
  /\ arg' = [arg EXCEPT ![t] = h]

Return(t) ==
  /\ pc' = [pc EXCEPT ![t] = "idle"]
  /\ op' = [op EXCEPT ![t] = "none"]
  /\ arg' = [arg EXCEPT ![t] = NoHandle]
  /\ fence_fd' = [fence_fd EXCEPT ![t] = NoFence]

Goto(t, to) ==
  /\ pc' = [pc EXCEPT ![t] = to]
  /\ UNCHANGED <<op, arg, fence_fd>>

Begin(t, name, h) ==
  /\ name \in InitOps
  /\ name = "alloc" => alloc_dev
  /\ name = "register" <=> h # NoHandle
  /\ h # NoHandle => native[h] \in {"raw", "allocated"} /\ Idle(h)
  /\ Enter(t, name, h, "init")
  /\ UNCHANGED <<deviceVars, libState, moduleVars, fence_fd, clientVars, exited>>

\* The client gives its fence away with the call.
BeginLock(t, name, h, f) ==
  /\ name \in LockOps
  /\ native[h] \in {"registered", "allocated"}
  /\ Lib!DataOf(gbm_bo_handle_map[h]).lock_count
       + Cardinality({u \in Thread : arg[u] = h}) < MaxLocks \* a bound
  /\ f # NoFence => fences[f].owner = "client"
  /\ Enter(t, name, h, IF f = NoFence THEN "call" ELSE "wait")
  /\ fence_fd' = [fence_fd EXCEPT ![t] = f]
  /\ fences' = IF f = NoFence THEN fences ELSE [fences EXCEPT ![f].owner = "library"]
  /\ UNCHANGED <<deviceVars, libState, moduleVars, native, info, held, stuck, alloc_dev, exited>>

-----------------------------------------------------------------------------
(* gralloc_mod_gbm_init *)

\* gralloc_gbm_device_create as the module, each import and each allocation call it.
WithDevice(ret) ==
  /\ gralloc_gbm_device_create(_gbm_dev_fd, ret)
  /\ UNCHANGED <<stdin, drm_fds, failures, destroyed_twice>>

\* Fault: initialized is not looked at.
EnterInitAlways(t) ==
  /\ pc[t] = "init"
  /\ mutex = NoThread
  /\ mutex' = t /\ Goto(t, "open")
  /\ UNCHANGED <<deviceVars, libState, initialized, gbm_dev, clientVars, exited>>

\* Fault: initialized is set before the initialisation has succeeded.
EnterInitFlagged(t) ==
  /\ pc[t] = "init"
  /\ mutex = NoThread
  /\ initialized' = TRUE
  /\ \/ initialized /\ Goto(t, "call") /\ UNCHANGED mutex
     \/ ~initialized /\ mutex' = t /\ Goto(t, "open")
  /\ UNCHANGED <<deviceVars, libState, gbm_dev, clientVars, exited>>

EnterInit(t) ==
  /\ pc[t] = "init"
  /\ mutex = NoThread
  /\ \/ initialized /\ Goto(t, "call") /\ UNCHANGED mutex
     \/ ~initialized /\ mutex' = t /\ Goto(t, "open")
  /\ UNCHANGED <<deviceVars, libState, initialized, gbm_dev, clientVars, exited>>

\* Fault: the error path returns without unlocking.
OpenKeepsMutex(t) ==
  /\ pc[t] = "open"
  /\ \E ret \in {DevOK, "EINVAL"} :
       /\ device_init(ret)
       /\ IF ret = DevOK THEN Goto(t, "create") ELSE Return(t)
  /\ UNCHANGED <<libState, moduleVars, clientVars, exited>>

OpenDevice(t) ==
  /\ pc[t] = "open"
  /\ \E ret \in {DevOK, "EINVAL"} :
       /\ device_init(ret)
       /\ \/ ret = DevOK /\ Goto(t, "create") /\ UNCHANGED mutex
          \/ ret # DevOK /\ Return(t) /\ mutex' = NoThread
  /\ UNCHANGED <<libState, initialized, gbm_dev, clientVars, exited>>

CreateDeviceStep(t) ==
  /\ pc[t] = "create"
  /\ \E ret \in {DevOK, "EINVAL"} :
       /\ WithDevice(ret)
       /\ \/ ret = DevOK /\ Goto(t, "share") /\ UNCHANGED mutex
          \/ ret # DevOK /\ Return(t) /\ mutex' = NoThread
  /\ UNCHANGED <<libState, initialized, gbm_dev, clientVars, exited>>

\* The assignment to the shared_ptr destroys what mod->gbm_dev pointed to.
ShareDevice(t) ==
  /\ pc[t] = "share"
  /\ DestroyAll(<<gbm_dev>>)
  /\ gbm_dev' = _gbm_dev
  /\ initialized' = TRUE
  /\ mutex' = NoThread
  /\ Goto(t, "call")
  /\ UNCHANGED <<stdin, drm_fds, _gbm_dev_fd, _gbm_dev, made, failures, libState, clientVars,
                 exited>>

-----------------------------------------------------------------------------
(* The rest of perform, registerBuffer and alloc. *)

\* GRALLOC_MODULE_PERFORM_GET_DRM_FD, or -EINVAL for any other operation.
Perform(t) ==
  /\ pc[t] = "call" /\ op[t] = "perform"
  /\ Return(t)
  /\ UNCHANGED <<deviceVars, libState, moduleVars, clientVars, exited>>

\* The client's own handle is imported: it is not cloned.
RegisterBuffer(t) ==
  LET h == arg[t] IN
  /\ pc[t] = "call" /\ op[t] = "register"
  /\ \E ret \in {DevOK, "EINVAL"}, b \in Bo, err \in Lib!ErrCode :
       /\ WithDevice(ret)
       /\ \/ /\ ret = DevOK
             /\ Lib!gralloc_gm_buffer_import(h, info[h], b, err)
             /\ native' = IF err = Lib!OK THEN [native EXCEPT ![h] = "registered"] ELSE native
          \/ /\ ret # DevOK
             /\ UNCHANGED <<libState, native>>
  /\ Return(t)
  /\ UNCHANGED <<moduleVars, fences, info, held, stuck, alloc_dev, exited>>

\* Without a device the library reads dev uninitialised: see GrallocGbm.
AllocBuffer(t, h) ==
  /\ pc[t] = "call" /\ op[t] = "alloc"
  /\ \E ret \in {DevOK, "EINVAL"}, b \in Bo, err \in Lib!ErrCode, i \in Info :
       /\ WithDevice(ret)
       /\ \/ /\ ret = DevOK
             /\ Lib!gralloc_allocate(h, b, err)
             /\ err = Lib!OK => native[h] = "none"
             /\ native' = IF err = Lib!OK THEN [native EXCEPT ![h] = "allocated"] ELSE native
             /\ info' = IF err = Lib!OK THEN [info EXCEPT ![h] = i] ELSE info
          \/ /\ ret # DevOK
             /\ crashed' \in BOOLEAN
             /\ UNCHANGED <<gbm_bo_handle_map, bos, user_data, native, info>>
  /\ Return(t)
  /\ UNCHANGED <<moduleVars, fences, held, stuck, alloc_dev, exited>>

-----------------------------------------------------------------------------
(* lockAsync and lockAsync_ycbcr; lock and lock_ycbcr pass no fence. *)

\* Fault: a fence that was waited for is not closed.
WaitLeavesOpen(t) ==
  /\ pc[t] = "wait"
  /\ \/ fences[fence_fd[t]].state = "signaled" /\ UNCHANGED fences /\ Goto(t, "call")
     \/ fences' = [fences EXCEPT ![fence_fd[t]].owner = "nobody"] /\ Return(t)
  /\ UNCHANGED <<deviceVars, libState, moduleVars, native, info, held, stuck, alloc_dev, exited>>

\* sync_wait() returns when the fence is signaled, after three seconds, or with
\* another error; the fence is closed in the first case only.
Wait(t) ==
  LET f == fence_fd[t] IN
  /\ pc[t] = "wait"
  /\ \/ /\ fences[f].state = "signaled"
        /\ fences' = [fences EXCEPT ![f] = Closed]
        /\ Goto(t, "call")
     \/ /\ fences' = [fences EXCEPT ![f].owner = "nobody"]
        /\ Return(t)
  /\ UNCHANGED <<deviceVars, libState, moduleVars, native, info, held, stuck, alloc_dev, exited>>

\* Fault: the caller does not look at the error.
HeldAnyway(taken, err) == TRUE

\* What the caller makes of the result.  A lock_ycbcr that fails on the format
\* has taken the lock all the same.
IsHeld(taken, err) == err = Lib!OK
IsStuck(taken, err) == taken /\ err # Lib!OK

LockBuffer(t, usage) ==
  LET h == arg[t] IN
  /\ pc[t] = "call" /\ op[t] \in LockOps
  /\ UNCHANGED deviceVars
  /\ \E err \in Lib!ErrCode :
       /\ \/ op[t] = "lock" /\ Lib!gralloc_gbm_bo_lock(h, info[h], usage, err)
          \/ op[t] = "lock_ycbcr" /\ Lib!gralloc_gbm_bo_lock_ycbcr(h, info[h], usage, err)
       /\ LET b == gbm_bo_handle_map[h]
              taken == user_data'[b] # NoData /\ user_data'[b].lock_count > Lib!DataOf(b).lock_count
          IN
          /\ held' = IF IsHeld(taken, err) THEN [held EXCEPT ![h] = @ + 1] ELSE held
          /\ stuck' = IF IsStuck(taken, err) THEN [stuck EXCEPT ![h] = @ + 1] ELSE stuck
  /\ Return(t)
  /\ UNCHANGED <<moduleVars, fences, native, info, alloc_dev, exited>>

-----------------------------------------------------------------------------
(* Calls that need neither the device nor a fence. *)

\* unlock and unlockAsync; *fence_fd becomes -1, there is no release fence.
Unlock(t, h) ==
  /\ pc[t] = "idle"
  /\ held[h] > 0 /\ Idle(h)
  /\ UNCHANGED deviceVars
  /\ Lib!gralloc_gbm_bo_unlock(h, Lib!OK)
  /\ held' = [held EXCEPT ![h] = @ - 1]
  /\ UNCHANGED <<moduleVars, callVars, fences, native, info, stuck, alloc_dev, exited>>

\* unregisterBuffer and the alloc device's free: both only free the object.
Release(t, h, from, to) ==
  /\ pc[t] = "idle"
  /\ native[h] = from
  /\ held[h] = 0 /\ Idle(h)
  /\ UNCHANGED deviceVars
  /\ \E errno \in StaleErrno : Lib!gralloc_gm_buffer_free(h, errno, Lib!OK)
  /\ native' = [native EXCEPT ![h] = to]
  /\ stuck' = [stuck EXCEPT ![h] = 0]
  /\ UNCHANGED <<moduleVars, callVars, fences, info, held, alloc_dev, exited>>

UnregisterBuffer(t, h) == Release(t, h, "registered", "raw")
FreeBuffer(t, h) == alloc_dev /\ Release(t, h, "allocated", "freed")

\* open(GRALLOC_HARDWARE_GPU0) and the alloc device's close: buffers stay.
ToggleAllocDevice ==
  /\ alloc_dev' = ~alloc_dev
  /\ alloc_dev => \A t \in Thread : op[t] # "alloc"
  /\ UNCHANGED <<deviceVars, libState, moduleVars, callVars, fences, native, info, held, stuck,
                 exited>>

-----------------------------------------------------------------------------
(* The client, the kernel and the end of the process. *)

ReceiveHandle(h, i) ==
  /\ native[h] = "none"
  /\ native' = [native EXCEPT ![h] = "raw"]
  /\ info' = [info EXCEPT ![h] = i]
  /\ UNCHANGED <<deviceVars, libState, moduleVars, callVars, fences, held, stuck, alloc_dev, exited>>

CloseHandle(h) ==
  /\ native[h] = "raw" /\ Idle(h)
  /\ native' = [native EXCEPT ![h] = "none"]
  /\ UNCHANGED <<deviceVars, libState, moduleVars, callVars, fences, info, held, stuck, alloc_dev, exited>>

FenceStep(f) ==
  /\ \/ /\ fences[f] = Closed
        /\ fences' = [fences EXCEPT ![f] = [state |-> "pending", owner |-> "client"]]
     \/ /\ fences[f].state = "pending"
        /\ fences' = [fences EXCEPT ![f].state = "signaled"]
     \/ /\ fences[f].owner = "client"
        /\ fences' = [fences EXCEPT ![f] = Closed]
  /\ UNCHANGED <<deviceVars, libState, moduleVars, callVars, native, info, held, stuck, alloc_dev, exited>>

\* exit(): the module's destructor, then the library's.
Exit ==
  /\ \A t \in Thread : pc[t] = "idle"
  /\ exited' = TRUE
  /\ CleanupAll(gbm_dev)
  /\ UNCHANGED <<libState, moduleVars, callVars, clientVars>>

\* The steps of a call that has begun, but for the wait for the mutex.
CallStep(t) ==
  \/ OpenDevice(t) \/ CreateDeviceStep(t) \/ ShareDevice(t)
  \/ Perform(t) \/ RegisterBuffer(t) \/ Wait(t)
  \/ \E h \in Handle : AllocBuffer(t, h)
  \/ \E usage \in SUBSET Lib!UsageBit : LockBuffer(t, usage)

HalNext ==
  /\ ~exited
  /\ ~crashed
  /\ \/ \E t \in Thread :
          \/ \E name \in InitOps, h \in Handle \cup {NoHandle} : Begin(t, name, h)
          \/ \E name \in LockOps, h \in Handle, f \in Fence \cup {NoFence} : BeginLock(t, name, h, f)
          \/ EnterInit(t)
          \/ CallStep(t)
          \/ \E h \in Handle : Unlock(t, h) \/ UnregisterBuffer(t, h) \/ FreeBuffer(t, h)
     \/ \E h \in Handle : CloseHandle(h) \/ \E i \in Info : ReceiveHandle(h, i)
     \/ \E f \in Fence : FenceStep(f)
     \/ ToggleAllocDevice
     \/ Exit

\* The kernel runs every thread that can run; the mutex is not a fair one, so
\* nothing is assumed of a thread that waits for it.
HalSpec == HalInit /\ [][HalNext]_halVars /\ \A t \in Thread : WF_halVars(CallStep(t))

-----------------------------------------------------------------------------
(* Properties. *)

\* Once the module is initialised it owns the one device of the library, which
\* exists on an open descriptor, however many initialisations failed before and
\* whichever threads raced for the first; each failure has left one descriptor
\* open and nothing else.  (In a process that has descriptor 0 in use.)
DeviceShared ==
  stdin /\ ~exited =>
    /\ Cardinality(devices) <= 1
    /\ Cardinality(drm_fds) = failures + Cardinality(devices)
    /\ initialized => devices = {gbm_dev} /\ _gbm_dev = gbm_dev /\ _gbm_dev_fd \in drm_fds

\* No device is destroyed twice while the process runs, and every exit of a
\* process whose module was initialised destroys one twice: the module's
\* destructor and the library's each destroy the device they share.
DestroyedTwiceAtExit == stdin => (destroyed_twice <=> exited /\ initialized)

\* With descriptor 0 in use no call finds the library without a device once
\* the module is initialised, so that none reads dev uninitialised.
HalNoCrash == stdin => ~crashed

\* Buffers: the library knows exactly the handles the client registered or
\* allocated, so that no key of its map is the address of a deleted handle.
RegisteredAreLive ==
  \A h \in Handle : gbm_bo_handle_map[h] # NoBo <=> native[h] \in {"registered", "allocated"}

\* Locks: lock_count counts the locks the client was given and those that a
\* lock_ycbcr took before it failed, which nobody will undo.
LocksAccounted ==
  \A h \in Handle : gbm_bo_handle_map[h] # NoBo =>
    Lib!DataOf(gbm_bo_handle_map[h]).lock_count = held[h] + stuck[h]

WaitsFor(t, f) == pc[t] = "wait" /\ fence_fd[t] = f

\* Fences: the library owns a fence exactly while a call waits for it, and one
\* call only; afterwards it is closed, or left open and owned by nobody.
FencesOwned ==
  \A f \in Fence :
    /\ fences[f].owner = "library" <=> \E t \in Thread : WaitsFor(t, f)
    /\ \A t, u \in Thread : WaitsFor(t, f) /\ WaitsFor(u, f) => t = u

\* However the threads race through the initialisation and wherever it fails, the
\* module makes the library behave as GrallocGbm: it starts as the library does,
\* and each of its steps until exit() is at most one call of the library, made as
\* GrallocGbm expects it.  The device never goes away under a registered buffer,
\* and no statement of the initialisation between the calls shows in the library.
\* (In a process that has descriptor 0 in use.)
LibraryCalled == Lib!Init /\ [][stdin => Lib!Next \/ Exit]_(Lib!libVars)

\* Every thread gives the mutex back, and every call that is past it returns,
\* whether or not its fence is ever signaled.
HalCallsReturn ==
  /\ (mutex # NoThread) ~> (mutex = NoThread)
  /\ \A t \in Thread : (pc[t] \notin {"idle", "init"}) ~> (pc[t] \in {"idle", "init"})

=============================================================================
