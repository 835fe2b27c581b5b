-------------------------- MODULE GrallocHal_proofs --------------------------
(***************************************************************************)
(* Theorems about GrallocHal for any threads, fences, handles, buffer      *)
(* objects, descriptors and devices.                                       *)
(***************************************************************************)
EXTENDS GrallocHal, FiniteSetTheorems, WellFoundedInduction, TLAPS

\* Types but for the ranges of the two counts of locks.
HalTyped ==
  /\ DeviceTypeOK
  /\ gbm_bo_handle_map \in [Handle -> Bo \cup {NoBo}]
  /\ bos \in SUBSET Bo
  /\ user_data \in [Bo -> Lib!BoData \cup {NoData}]
  /\ crashed \in BOOLEAN
  /\ mutex \in Thread \cup {NoThread}
  /\ initialized \in BOOLEAN
  /\ gbm_dev \in 0..MaxDevice
  /\ pc \in [Thread -> {"idle", "init", "open", "create", "share", "call", "wait"}]
  /\ op \in [Thread -> InitOps \cup LockOps \cup {"none"}]
  /\ arg \in [Thread -> Handle \cup {NoHandle}]
  /\ fence_fd \in [Thread -> Fence \cup {NoFence}]
  /\ fences \in [Fence -> FenceState]
  /\ native \in [Handle -> {"none", "raw", "registered", "allocated", "freed"}]
  /\ info \in [Handle -> Info]
  /\ held \in [Handle -> Nat]
  /\ stuck \in [Handle -> Nat]
  /\ alloc_dev \in BOOLEAN
  /\ exited \in BOOLEAN

\* The steps of the initialisation, which the mutex is held for.
Initialising == {"open", "create", "share"}

\* Who holds the mutex, which handle a call is on, what has been done for it.
CallInv ==
  /\ \A t \in Thread :
       /\ mutex = t <=> pc[t] \in Initialising
       /\ pc[t] \in Initialising => ~initialized
       /\ pc[t] = "idle" => op[t] = "none" /\ arg[t] = NoHandle
       /\ pc[t] \in Initialising \cup {"init"} => op[t] \in InitOps
       /\ pc[t] = "call" /\ op[t] \in InitOps => initialized
       /\ pc[t] = "wait" => op[t] \in LockOps
       /\ op[t] \in LockOps => arg[t] \in Handle /\ native[arg[t]] \in {"registered", "allocated"}
       /\ op[t] = "register" => arg[t] \in Handle /\ native[arg[t]] \in {"raw", "allocated"}
  /\ \A t, u \in Thread : op[t] = "register" /\ op[u] = "register" /\ arg[t] = arg[u] => t = u

\* Half of what is known of the device holds with any descriptor: the library
\* has a device while it has a descriptor for it.
DevicePaired == _gbm_dev = NullDev <=> _gbm_dev_fd = -1

\* With descriptor 0 in use, until the process exits.
DeviceInv ==
  /\ DevicePaired
  /\ stdin /\ ~exited =>
       /\ 0 \notin drm_fds /\ ~destroyed_twice
       /\ devices = IF _gbm_dev = NullDev THEN {} ELSE {_gbm_dev}
       /\ _gbm_dev # NullDev => _gbm_dev_fd \in drm_fds
       /\ _gbm_dev # NullDev <=> initialized \/ \E t \in Thread : pc[t] \in {"create", "share"}
       /\ gbm_dev = IF initialized THEN _gbm_dev ELSE NullDev
       /\ Cardinality(drm_fds) = failures + Cardinality(devices)
  /\ stdin /\ exited => (destroyed_twice <=> initialized)

\* Fences: FencesOwned, and a call that waits has one.
FenceInv ==
  /\ FencesOwned
  /\ \A t \in Thread : pc[t] = "wait" => fence_fd[t] \in Fence

\* The lock_count of a bo_data, or of the one a first lock makes.
CountOf(d) == IF d = NoData THEN 0 ELSE d.lock_count

\* The registry and the locks.
BufferInv ==
  /\ HalNoCrash
  /\ RegisteredAreLive
  /\ \A h \in Handle : gbm_bo_handle_map[h] # NoBo => gbm_bo_handle_map[h] \in bos
  /\ \A h, k \in Handle :
       gbm_bo_handle_map[h] = gbm_bo_handle_map[k] /\ gbm_bo_handle_map[h] # NoBo => h = k
  /\ \A b \in Bo \ bos : user_data[b] = NoData
  /\ \A h \in Handle : held[h] + stuck[h] =
       IF gbm_bo_handle_map[h] = NoBo THEN 0 ELSE CountOf(user_data[gbm_bo_handle_map[h]])

HalInv == HalTyped /\ CallInv /\ DeviceInv /\ FenceInv /\ BufferInv

-----------------------------------------------------------------------------
(* What a step leaves alone. *)

\* Steps that touch neither the device nor the module's pointer to it.
LEMMA SameDevice ==
  ASSUME HalTyped, DeviceInv, UNCHANGED <<deviceVars, initialized, gbm_dev, exited>>,
         \A t \in Thread : pc'[t] \in {"create", "share"} <=> pc[t] \in {"create", "share"}
  PROVE  DeviceInv'
BY DEF DeviceInv, DevicePaired, deviceVars

\* Steps of calls that wait for no fence before or after.
LEMMA SameFences ==
  ASSUME HalTyped, FenceInv, UNCHANGED fences,
         \A t \in Thread : (pc'[t] = "wait" <=> pc[t] = "wait") /\ (pc[t] = "wait" => fence_fd'[t] = fence_fd[t])
  PROVE  FenceInv'
BY DEF FenceInv, FencesOwned, WaitsFor

\* Steps that touch no buffer and no lock.
LEMMA SameBuffers ==
  ASSUME HalTyped, BufferInv, UNCHANGED <<libState, held, stuck, stdin>>,
         \A h \in Handle : native'[h] \in {"registered", "allocated"} <=>
                           native[h] \in {"registered", "allocated"}
  PROVE  BufferInv'
BY DEF BufferInv, HalNoCrash, RegisteredAreLive, CountOf, libState

\* A thread leaves the module with its call done, or before it has begun.
LEMMA Returned ==
  ASSUME HalTyped, NEW t \in Thread, Return(t)
  PROVE  /\ pc' \in [Thread -> {"idle", "init", "open", "create", "share", "call", "wait"}]
         /\ op' \in [Thread -> InitOps \cup LockOps \cup {"none"}]
         /\ arg' \in [Thread -> Handle \cup {NoHandle}]
         /\ fence_fd' \in [Thread -> Fence \cup {NoFence}]
         /\ pc'[t] = "idle" /\ op'[t] = "none" /\ arg'[t] = NoHandle
         /\ \A u \in Thread : u # t => pc'[u] = pc[u] /\ op'[u] = op[u] /\ arg'[u] = arg[u]
                                       /\ fence_fd'[u] = fence_fd[u]
BY DEF Return, HalTyped

\* Or goes on with it.
LEMMA GoesOn ==
  ASSUME HalTyped, NEW t \in Thread,
         NEW to \in {"idle", "init", "open", "create", "share", "call", "wait"}, Goto(t, to)
  PROVE  /\ pc' \in [Thread -> {"idle", "init", "open", "create", "share", "call", "wait"}]
         /\ UNCHANGED <<op, arg, fence_fd>>
         /\ pc'[t] = to
         /\ \A u \in Thread : u # t => pc'[u] = pc[u]
BY DEF Goto, HalTyped

-----------------------------------------------------------------------------
(* The device. *)

\* A set of descriptors has a lowest one.
LEMMA Lowest ==
  ASSUME NEW S \in SUBSET Nat, S # {}
  PROVE  \E f \in S : \A g \in S : f <= g
<1> DEFINE R == OpToRel(<, Nat)
<1>1. IsWellFoundedOn(R, Nat)
  BY NatLessThanWellFounded
<1>2. PICK f \in S : \A g \in S : ~ (<<g, f>> \in R)
  <2> HIDE DEF R
  <2> QED BY <1>1, WFMin
<1>3. \A g \in S : f <= g
  <2> TAKE g \in S
  <2>1. ~(g < f)
    BY <1>2 DEF OpToRel
  <2> QED BY <2>1
<1> QED BY <1>3

\* The descriptor that open() returns is free.
LEMMA LowestIsFree ==
  ASSUME FreeFds # {}
  PROVE  LowestFree \in FreeFds
<1>1. FreeFds \in SUBSET Nat
  BY DeviceAssumption DEF FreeFds
<1>2. \E f \in FreeFds : \A g \in FreeFds : f <= g
  BY <1>1, Lowest
<1> QED BY <1>2 DEF LowestFree

\* gralloc_gbm_device_create() on the library's own descriptor: with descriptor
\* 0 in use it finds the device that is there.
LEMMA WithDeviceEffect ==
  ASSUME HalTyped, DeviceInv, NEW ret, WithDevice(ret)
  PROVE  /\ DeviceTypeOK' /\ DevicePaired' /\ UNCHANGED <<stdin, destroyed_twice>>
         /\ ret = DevOK => _gbm_dev # NullDev
         /\ stdin /\ ~exited => UNCHANGED deviceVars /\ (_gbm_dev # NullDev => ret = DevOK)
<1>1. /\ _gbm_dev_fd \in -1..MaxFd /\ _gbm_dev \in 0..MaxDevice /\ made \in 0..MaxDevice
      /\ devices \in SUBSET (1..MaxDevice) /\ MaxFd \in Nat /\ MaxDevice \in Nat
      /\ drm_fds \in SUBSET (0..MaxFd)
      /\ DeviceTypeOK /\ (_gbm_dev = NullDev <=> _gbm_dev_fd = -1)
  BY DeviceAssumption DEF HalTyped, DeviceTypeOK, DeviceInv, DevicePaired
<1>2. UNCHANGED <<stdin, drm_fds, failures, destroyed_twice>>
  BY DEF WithDevice
<1>3. CASE Reusable /\ ret = DevOK /\ UNCHANGED <<_gbm_dev_fd, _gbm_dev, devices, made>>
  BY <1>1, <1>2, <1>3 DEF Reusable, DeviceTypeOK, DevicePaired, deviceVars
<1>4. CASE ~Reusable /\ _gbm_dev_fd < 0 /\ ret = "EINVAL" /\ UNCHANGED <<_gbm_dev_fd, _gbm_dev, devices, made>>
  BY <1>1, <1>2, <1>4 DEF DeviceTypeOK, DevicePaired, deviceVars, DevOK
<1>5. CASE ~Reusable /\ _gbm_dev_fd >= 0 /\ CreateDevice(_gbm_dev_fd, ret)
  <2>1. _gbm_dev # NullDev /\ _gbm_dev_fd = 0
    BY <1>1, <1>5 DEF Reusable
  <2>2. ~(stdin /\ ~exited)
    BY <2>1 DEF DeviceInv
  <2>3. CASE made < MaxDevice /\ made' = made + 1 /\ devices' = devices \cup {made + 1}
             /\ _gbm_dev' = made + 1 /\ _gbm_dev_fd' = _gbm_dev_fd
    BY <1>1, <1>2, <2>1, <2>2, <2>3 DEF DeviceTypeOK, DevicePaired, NullDev
  <2>4. CASE _gbm_dev' = NullDev /\ _gbm_dev_fd' = -1 /\ UNCHANGED <<made, devices>>
    BY <1>1, <1>2, <2>1, <2>2, <2>4 DEF DeviceTypeOK, DevicePaired, NullDev
  <2> QED BY <1>5, <2>3, <2>4 DEF CreateDevice
<1> QED BY <1>3, <1>4, <1>5 DEF WithDevice, gralloc_gbm_device_create

\* gralloc_gbm_device_init() of a library without a device: it makes one, or
\* leaves one descriptor more open.
LEMMA OpenEffect ==
  ASSUME HalTyped, DeviceInv, NEW ret \in {DevOK, "EINVAL"}, device_init(ret)
  PROVE  /\ DeviceTypeOK' /\ DevicePaired' /\ UNCHANGED <<stdin, destroyed_twice>>
         /\ stdin /\ ~exited /\ _gbm_dev = NullDev =>
              /\ 0 \notin drm_fds'
              /\ devices' = IF _gbm_dev' = NullDev THEN {} ELSE {_gbm_dev'}
              /\ _gbm_dev' # NullDev => _gbm_dev_fd' \in drm_fds'
              /\ _gbm_dev' # NullDev <=> ret = DevOK
              /\ Cardinality(drm_fds') = failures' + Cardinality(devices')
<1>1. /\ _gbm_dev_fd \in -1..MaxFd /\ _gbm_dev \in 0..MaxDevice /\ made \in 0..MaxDevice
      /\ devices \in SUBSET (1..MaxDevice) /\ MaxFd \in Nat /\ MaxDevice \in Nat
      /\ drm_fds \in SUBSET (0..MaxFd) /\ failures \in Nat
      /\ DeviceTypeOK /\ (_gbm_dev = NullDev <=> _gbm_dev_fd = -1)
  BY DeviceAssumption DEF HalTyped, DeviceTypeOK, DeviceInv, DevicePaired
<1>2. CASE ret = "EINVAL" /\ UNCHANGED deviceVars
  BY <1>1, <1>2 DEF deviceVars, DeviceTypeOK, DevicePaired, DeviceInv, DevOK
<1>3. CASE /\ FreeFds # {} /\ drm_fds' = drm_fds \cup {LowestFree}
           /\ gralloc_gbm_device_create(LowestFree, ret)
           /\ failures' = IF ret = DevOK THEN failures ELSE failures + 1
           /\ UNCHANGED <<stdin, destroyed_twice>>
  <2> DEFINE f == LowestFree
  <2>1. /\ f \in 0..MaxFd /\ f \notin drm_fds /\ (stdin => f # 0)
    BY <1>1, <1>3, LowestIsFree DEF FreeFds
  <2> HIDE DEF f
  <2>2. drm_fds' \in SUBSET (0..MaxFd) /\ failures' \in Nat /\ f >= 0 /\ f # -1 /\ drm_fds' = drm_fds \cup {f}
    BY <1>1, <1>3, <2>1 DEF f
  <2>3. IsFiniteSet(drm_fds) /\ Cardinality(drm_fds') = Cardinality(drm_fds) + 1 /\ Cardinality(drm_fds) \in Nat
    <3>1. IsFiniteSet(0..MaxFd)
      BY <1>1, FS_Interval
    <3>2. IsFiniteSet(drm_fds)
      BY <1>1, <3>1, FS_Subset
    <3> QED BY <2>1, <2>2, <3>2, FS_AddElement, FS_CardinalityType
  <2>4. Cardinality({}) = 0 /\ \A x : Cardinality({x}) = 1
    BY FS_EmptySet, FS_Singleton
  <2>5. CASE Reusable /\ ret = DevOK /\ UNCHANGED <<_gbm_dev_fd, _gbm_dev, devices, made>>
    BY <1>1, <1>3, <2>2, <2>5 DEF Reusable, DeviceTypeOK, DevicePaired
  <2>6. CASE ~Reusable /\ ret = DevOK /\ made < MaxDevice /\ made' = made + 1 /\ devices' = devices \cup {made + 1}
             /\ _gbm_dev' = made + 1 /\ _gbm_dev_fd' = f
    <3>1. DeviceTypeOK' /\ DevicePaired' /\ _gbm_dev' # NullDev
      BY <1>1, <1>3, <2>1, <2>2, <2>6 DEF DeviceTypeOK, DevicePaired, NullDev
    <3>2. ASSUME stdin, ~exited, _gbm_dev = NullDev
          PROVE  /\ 0 \notin drm_fds' /\ devices' = {_gbm_dev'} /\ _gbm_dev_fd' \in drm_fds'
                 /\ Cardinality(drm_fds') = failures' + Cardinality(devices')
      <4>1. 0 \notin drm_fds /\ devices = {} /\ Cardinality(drm_fds) = failures + Cardinality(devices)
        BY <3>2 DEF DeviceInv
      <4>2. Cardinality(drm_fds) = failures
        BY <1>1, <2>4, <4>1
      <4>3. devices' = {_gbm_dev'} /\ Cardinality(devices') = 1 /\ failures' = failures
        BY <1>3, <2>4, <2>6, <4>1
      <4> QED BY <2>1, <2>2, <2>3, <2>6, <3>2, <4>1, <4>2, <4>3
    <3> QED BY <1>3, <2>6, <3>1, <3>2
  <2>7. CASE ~Reusable /\ ret = "EINVAL" /\ _gbm_dev' = NullDev /\ _gbm_dev_fd' = -1 /\ UNCHANGED <<made, devices>>
    <3>1. DeviceTypeOK' /\ DevicePaired'
      BY <1>1, <1>3, <2>2, <2>7 DEF DeviceTypeOK, DevicePaired, NullDev
    <3>2. ASSUME stdin, ~exited, _gbm_dev = NullDev
          PROVE  /\ 0 \notin drm_fds' /\ devices' = {}
                 /\ Cardinality(drm_fds') = failures' + Cardinality(devices')
      <4>1. 0 \notin drm_fds /\ devices = {} /\ Cardinality(drm_fds) = failures + Cardinality(devices)
        BY <3>2 DEF DeviceInv
      <4>2. Cardinality(drm_fds) = failures /\ failures' = failures + 1 /\ Cardinality(devices') = 0
        BY <1>1, <1>3, <2>4, <2>7, <4>1 DEF DevOK
      <4> QED BY <1>1, <2>1, <2>2, <2>3, <2>7, <3>2, <4>1, <4>2
    <3> QED BY <1>3, <2>7, <3>1, <3>2 DEF DevOK
  <2>8. ~(f < 0)
    BY <2>1
  <2>9. gralloc_gbm_device_create(f, ret)
    BY <1>3 DEF f
  <2> QED BY <2>5, <2>6, <2>7, <2>8, <2>9 DEF gralloc_gbm_device_create, CreateDevice
<1> QED BY <1>2, <1>3 DEF device_init

-----------------------------------------------------------------------------
(* The initialisation. *)

\* perform, registerBuffer or alloc is called.
LEMMA BeginStep ==
  ASSUME HalInv, NEW t \in Thread, NEW name \in InitOps, NEW h \in Handle \cup {NoHandle}, Begin(t, name, h)
  PROVE  HalInv'
<1>1. /\ pc[t] = "idle" /\ pc' = [pc EXCEPT ![t] = "init"] /\ op' = [op EXCEPT ![t] = name]
      /\ arg' = [arg EXCEPT ![t] = h]
      /\ name = "register" <=> h # NoHandle
      /\ h # NoHandle => native[h] \in {"raw", "allocated"} /\ \A u \in Thread : arg[u] # h
      /\ UNCHANGED <<deviceVars, libState, moduleVars, fence_fd, clientVars, exited>>
  BY DEF Begin, Enter, Idle
<1>2. HalTyped /\ CallInv /\ DeviceInv /\ FenceInv /\ BufferInv
  BY DEF HalInv
<1>3. HalTyped'
  BY <1>1, <1>2 DEF HalTyped, deviceVars, DeviceTypeOK, libState, moduleVars, clientVars
<1>4. \A u \in Thread : /\ pc'[u] = IF u = t THEN "init" ELSE pc[u]
                        /\ op'[u] = IF u = t THEN name ELSE op[u]
                        /\ arg'[u] = IF u = t THEN h ELSE arg[u]
  BY <1>1, <1>2 DEF HalTyped
<1>5. CallInv'
  <2>1. UNCHANGED <<mutex, initialized, native>>
    BY <1>1 DEF moduleVars, clientVars
  <2>2. name \notin LockOps
    BY DEF InitOps, LockOps
  <2> QED BY <1>1, <1>2, <1>4, <2>1, <2>2 DEF CallInv, Initialising
<1>6. DeviceInv' /\ FenceInv' /\ BufferInv'
  BY <1>1, <1>2, <1>4, SameDevice, SameFences, SameBuffers DEF moduleVars, clientVars, deviceVars
<1> QED BY <1>3, <1>5, <1>6 DEF HalInv

\* gralloc_mod_gbm_init() takes the mutex, or finds the module initialised.
LEMMA EnterInitStep ==
  ASSUME HalInv, NEW t \in Thread, EnterInit(t)
  PROVE  HalInv'
<1>1. /\ pc[t] = "init" /\ mutex = NoThread
      /\ \/ initialized /\ Goto(t, "call") /\ UNCHANGED mutex
         \/ ~initialized /\ mutex' = t /\ Goto(t, "open")
      /\ UNCHANGED <<deviceVars, libState, initialized, gbm_dev, clientVars, exited>>
  BY DEF EnterInit
<1>2. HalTyped /\ CallInv /\ DeviceInv /\ FenceInv /\ BufferInv
  BY DEF HalInv
<1>3. PICK to \in {"call", "open"} :
        /\ Goto(t, to) /\ (to = "call" <=> initialized)
        /\ mutex' = IF to = "call" THEN NoThread ELSE t
  BY <1>1, <1>2 DEF HalTyped
<1>4. /\ pc' \in [Thread -> {"idle", "init", "open", "create", "share", "call", "wait"}]
      /\ UNCHANGED <<op, arg, fence_fd>>
      /\ \A u \in Thread : pc'[u] = IF u = t THEN to ELSE pc[u]
  BY <1>2, <1>3, GoesOn
<1>5. HalTyped'
  BY <1>1, <1>2, <1>3, <1>4 DEF HalTyped, deviceVars, DeviceTypeOK, libState, clientVars
<1>6. CallInv'
  <2>1. UNCHANGED <<initialized, native>>
    BY <1>1 DEF clientVars
  <2>2. \A u \in Thread : pc[u] \notin Initialising
    BY <1>1, <1>2, HalAssumption DEF CallInv
  <2> QED BY <1>1, <1>2, <1>3, <1>4, <2>1, <2>2, HalAssumption DEF CallInv, Initialising
<1>7. DeviceInv' /\ FenceInv' /\ BufferInv'
  <2>1. /\ UNCHANGED <<libState, held, stuck, stdin, native, fences>>
        /\ UNCHANGED <<deviceVars, initialized, gbm_dev, exited>>
    BY <1>1 DEF clientVars, deviceVars
  <2>2. \A u \in Thread : /\ pc'[u] \in {"create", "share"} <=> pc[u] \in {"create", "share"}
                          /\ pc'[u] = "wait" <=> pc[u] = "wait"
                          /\ fence_fd'[u] = fence_fd[u]
    BY <1>1, <1>4
  <2> QED BY <1>2, <2>1, <2>2, SameDevice, SameFences, SameBuffers
<1> QED BY <1>5, <1>6, <1>7 DEF HalInv

\* The thread that holds the mutex opens a descriptor and makes the device, or
\* gives the mutex back.
LEMMA OpenStep ==
  ASSUME HalInv, ~exited, NEW t \in Thread, OpenDevice(t)
  PROVE  HalInv'
<1>1. PICK ret \in {DevOK, "EINVAL"} :
        /\ device_init(ret)
        /\ \/ ret = DevOK /\ Goto(t, "create") /\ UNCHANGED mutex
           \/ ret # DevOK /\ Return(t) /\ mutex' = NoThread
  BY DEF OpenDevice
<1>2. pc[t] = "open" /\ UNCHANGED <<libState, initialized, gbm_dev, clientVars, exited>>
  BY DEF OpenDevice
<1>3. HalTyped /\ CallInv /\ DeviceInv /\ FenceInv /\ BufferInv
  BY DEF HalInv
<1>4. /\ mutex = t /\ ~initialized
      /\ \A u \in Thread : pc[u] \in Initialising => u = t
  BY <1>2, <1>3 DEF CallInv, Initialising
<1>5. stdin /\ ~exited => _gbm_dev = NullDev
  BY <1>2, <1>3, <1>4 DEF DeviceInv, Initialising
<1>6. /\ DeviceTypeOK' /\ DevicePaired' /\ UNCHANGED <<stdin, destroyed_twice>>
      /\ stdin /\ ~exited /\ _gbm_dev = NullDev =>
           /\ 0 \notin drm_fds'
           /\ devices' = IF _gbm_dev' = NullDev THEN {} ELSE {_gbm_dev'}
           /\ _gbm_dev' # NullDev => _gbm_dev_fd' \in drm_fds'
           /\ _gbm_dev' # NullDev <=> ret = DevOK
           /\ Cardinality(drm_fds') = failures' + Cardinality(devices')
  BY <1>1, <1>3, OpenEffect
<1>7. PICK to \in {"create", "idle"} :
        /\ pc' \in [Thread -> {"idle", "init", "open", "create", "share", "call", "wait"}]
        /\ op' \in [Thread -> InitOps \cup LockOps \cup {"none"}]
        /\ arg' \in [Thread -> Handle \cup {NoHandle}]
        /\ fence_fd' \in [Thread -> Fence \cup {NoFence}]
        /\ pc'[t] = to /\ (to = "create" <=> ret = DevOK)
        /\ IF to = "idle" THEN op'[t] = "none" /\ arg'[t] = NoHandle /\ mutex' = NoThread
                          ELSE op'[t] = op[t] /\ arg'[t] = arg[t] /\ mutex' = t
        /\ \A u \in Thread : u # t => pc'[u] = pc[u] /\ op'[u] = op[u] /\ arg'[u] = arg[u]
                                      /\ fence_fd'[u] = fence_fd[u]
  <2>1. CASE ret = DevOK
    BY <1>1, <1>3, <1>4, <2>1, GoesOn DEF HalTyped
  <2>2. CASE ret # DevOK
    BY <1>1, <1>3, <2>2, Returned
  <2> QED BY <2>1, <2>2
<1>8. HalTyped'
  BY <1>2, <1>3, <1>6, <1>7 DEF HalTyped, libState, clientVars
<1>9. CallInv'
  <2>1. UNCHANGED <<initialized, native>>
    BY <1>2 DEF clientVars
  <2>2. "none" \notin InitOps \cup LockOps /\ "register" # "none"
    BY DEF InitOps, LockOps
  <2> QED BY <1>2, <1>3, <1>4, <1>7, <2>1, <2>2, HalAssumption DEF CallInv, Initialising
<1>10. DeviceInv'
  <2>1. stdin /\ ~exited =>
          (_gbm_dev' # NullDev <=> initialized' \/ \E u \in Thread : pc'[u] \in {"create", "share"})
    BY <1>2, <1>4, <1>5, <1>6, <1>7 DEF Initialising
  <2> QED BY <1>2, <1>3, <1>4, <1>5, <1>6, <2>1 DEF DeviceInv
<1>11. FenceInv' /\ BufferInv'
  BY <1>2, <1>3, <1>6, <1>7, SameFences, SameBuffers DEF clientVars
<1> QED BY <1>8, <1>9, <1>10, <1>11 DEF HalInv

\* It fetches the device, which is the one it has just made.
LEMMA CreateStep ==
  ASSUME HalInv, ~exited, NEW t \in Thread, CreateDeviceStep(t)
  PROVE  HalInv'
<1>1. PICK ret \in {DevOK, "EINVAL"} :
        /\ WithDevice(ret)
        /\ \/ ret = DevOK /\ Goto(t, "share") /\ UNCHANGED mutex
           \/ ret # DevOK /\ Return(t) /\ mutex' = NoThread
  BY DEF CreateDeviceStep
<1>2. pc[t] = "create" /\ UNCHANGED <<libState, initialized, gbm_dev, clientVars, exited>>
  BY DEF CreateDeviceStep
<1>3. HalTyped /\ CallInv /\ DeviceInv /\ FenceInv /\ BufferInv
  BY DEF HalInv
<1>4. /\ mutex = t /\ ~initialized
      /\ \A u \in Thread : pc[u] \in Initialising => u = t
  BY <1>2, <1>3 DEF CallInv, Initialising
<1>5. stdin /\ ~exited => _gbm_dev # NullDev
  BY <1>2, <1>3 DEF DeviceInv
<1>6. /\ DeviceTypeOK' /\ DevicePaired' /\ UNCHANGED <<stdin, destroyed_twice>>
      /\ stdin /\ ~exited => UNCHANGED deviceVars /\ ret = DevOK
  BY <1>1, <1>3, <1>5, WithDeviceEffect
<1>7. PICK to \in {"share", "idle"} :
        /\ pc' \in [Thread -> {"idle", "init", "open", "create", "share", "call", "wait"}]
        /\ op' \in [Thread -> InitOps \cup LockOps \cup {"none"}]
        /\ arg' \in [Thread -> Handle \cup {NoHandle}]
        /\ fence_fd' \in [Thread -> Fence \cup {NoFence}]
        /\ pc'[t] = to /\ (to = "share" <=> ret = DevOK)
        /\ IF to = "idle" THEN op'[t] = "none" /\ arg'[t] = NoHandle /\ mutex' = NoThread
                          ELSE op'[t] = op[t] /\ arg'[t] = arg[t] /\ mutex' = t
        /\ \A u \in Thread : u # t => pc'[u] = pc[u] /\ op'[u] = op[u] /\ arg'[u] = arg[u]
                                      /\ fence_fd'[u] = fence_fd[u]
  <2>1. CASE ret = DevOK
    BY <1>1, <1>3, <1>4, <2>1, GoesOn DEF HalTyped
  <2>2. CASE ret # DevOK
    BY <1>1, <1>3, <2>2, Returned
  <2> QED BY <2>1, <2>2
<1>8. HalTyped'
  BY <1>2, <1>3, <1>6, <1>7 DEF HalTyped, libState, clientVars
<1>9. CallInv'
  <2>1. UNCHANGED <<initialized, native>>
    BY <1>2 DEF clientVars
  <2>2. "none" \notin InitOps \cup LockOps /\ "register" # "none"
    BY DEF InitOps, LockOps
  <2> QED BY <1>2, <1>3, <1>4, <1>7, <2>1, <2>2, HalAssumption DEF CallInv, Initialising
<1>10. DeviceInv'
  <2>1. stdin /\ ~exited =>
          (_gbm_dev' # NullDev <=> initialized' \/ \E u \in Thread : pc'[u] \in {"create", "share"})
    BY <1>5, <1>6, <1>7 DEF deviceVars
  <2> QED BY <1>2, <1>3, <1>6, <2>1 DEF DeviceInv, deviceVars
<1>11. FenceInv' /\ BufferInv'
  BY <1>2, <1>3, <1>6, <1>7, SameFences, SameBuffers DEF clientVars
<1> QED BY <1>8, <1>9, <1>10, <1>11 DEF HalInv

\* gbm_device_destroy() of one pointer, or of none.
LEMMA DestroyOne ==
  ASSUME NEW d, DestroyAll(<<d>>)
  PROVE  /\ devices' = IF d = NullDev THEN devices ELSE devices \ {d}
         /\ destroyed_twice' = (destroyed_twice \/ (d # NullDev /\ d \notin devices))
<1> DEFINE ptrs == <<d>>
           live == {i \in DOMAIN ptrs : ptrs[i] # NullDev}
<1>1. DOMAIN ptrs = {1} /\ ptrs[1] = d
  OBVIOUS
<1>2. live = IF d = NullDev THEN {} ELSE {1}
  BY <1>1
<1>3. /\ devices' = devices \ {ptrs[i] : i \in live}
      /\ destroyed_twice' =
           (destroyed_twice \/ (\E i \in live : ptrs[i] \notin devices \/ \E j \in live : j < i /\ ptrs[j] = ptrs[i]))
  BY DEF DestroyAll
<1>4. ~(1 < 1)
  OBVIOUS
<1> HIDE DEF live, ptrs
<1>5. CASE d = NullDev
  BY <1>2, <1>3, <1>5
<1>6. CASE d # NullDev
  BY <1>1, <1>2, <1>3, <1>4, <1>6
<1> QED BY <1>5, <1>6

\* mod->gbm_dev takes the device and the mutex is given back.
LEMMA ShareStep ==
  ASSUME HalInv, ~exited, NEW t \in Thread, ShareDevice(t)
  PROVE  HalInv'
<1>1. /\ pc[t] = "share" /\ DestroyAll(<<gbm_dev>>) /\ gbm_dev' = _gbm_dev /\ initialized' = TRUE
      /\ mutex' = NoThread /\ Goto(t, "call")
      /\ UNCHANGED <<stdin, drm_fds, _gbm_dev_fd, _gbm_dev, made, failures, libState, clientVars, exited>>
  BY DEF ShareDevice
<1>2. HalTyped /\ CallInv /\ DeviceInv /\ FenceInv /\ BufferInv
  BY DEF HalInv
<1>3. /\ mutex = t /\ ~initialized
      /\ \A u \in Thread : pc[u] \in Initialising => u = t
  BY <1>1, <1>2 DEF CallInv, Initialising
<1>4. /\ devices' \in SUBSET devices /\ destroyed_twice' \in BOOLEAN
      /\ gbm_dev = NullDev => UNCHANGED devices /\ (destroyed_twice' <=> destroyed_twice)
  BY <1>1, DestroyOne
<1>5. /\ pc' \in [Thread -> {"idle", "init", "open", "create", "share", "call", "wait"}]
      /\ UNCHANGED <<op, arg, fence_fd>>
      /\ \A u \in Thread : pc'[u] = IF u = t THEN "call" ELSE pc[u]
  BY <1>1, <1>2, GoesOn
<1>6. HalTyped'
  <2>1. DeviceTypeOK'
    BY <1>1, <1>2, <1>4 DEF HalTyped, DeviceTypeOK
  <2> QED BY <1>1, <1>2, <1>5, <2>1 DEF HalTyped, DeviceTypeOK, libState, clientVars
<1>7. CallInv'
  <2>1. UNCHANGED native
    BY <1>1 DEF clientVars
  <2> QED BY <1>1, <1>2, <1>3, <1>5, <2>1, HalAssumption DEF CallInv, Initialising
<1>8. DeviceInv'
  <2>1. DevicePaired'
    BY <1>1, <1>2 DEF DeviceInv, DevicePaired
  <2>2. stdin /\ ~exited => gbm_dev = NullDev /\ _gbm_dev # NullDev
    BY <1>1, <1>2, <1>3 DEF DeviceInv
  <2> QED BY <1>1, <1>2, <1>4, <2>1, <2>2 DEF DeviceInv
<1>9. FenceInv' /\ BufferInv'
  BY <1>1, <1>2, <1>5, SameFences, SameBuffers DEF clientVars
<1> QED BY <1>6, <1>7, <1>8, <1>9 DEF HalInv

-----------------------------------------------------------------------------
(* Calls that return. *)

\* A call that returns takes nothing from the others.
LEMMA CallReturns ==
  ASSUME HalTyped, CallInv, NEW t \in Thread, pc[t] \in {"call", "wait"}, Return(t),
         UNCHANGED <<mutex, initialized>>,
         \A u \in Thread : u # t =>
           /\ op[u] \in LockOps => native'[arg[u]] \in {"registered", "allocated"}
           /\ op[u] = "register" => native'[arg[u]] \in {"raw", "allocated"}
  PROVE  CallInv'
<1>1. /\ pc'[t] = "idle" /\ op'[t] = "none" /\ arg'[t] = NoHandle
      /\ \A u \in Thread : u # t => pc'[u] = pc[u] /\ op'[u] = op[u] /\ arg'[u] = arg[u]
  BY Returned
<1>2. "none" \notin InitOps \cup LockOps /\ "register" # "none"
  BY DEF InitOps, LockOps
<1> QED BY <1>1, <1>2, HalAssumption DEF CallInv, Initialising

\* perform() only answers.
LEMMA PerformStep ==
  ASSUME HalInv, NEW t \in Thread, Perform(t)
  PROVE  HalInv'
<1>1. /\ pc[t] = "call" /\ Return(t)
      /\ UNCHANGED <<deviceVars, libState, moduleVars, clientVars, exited>>
  BY DEF Perform
<1>2. HalTyped /\ CallInv /\ DeviceInv /\ FenceInv /\ BufferInv
  BY DEF HalInv
<1>3. UNCHANGED <<mutex, initialized, gbm_dev, native, fences, held, stuck, stdin>>
  BY <1>1 DEF moduleVars, clientVars, deviceVars
<1>4. HalTyped'
  BY <1>1, <1>2, Returned DEF HalTyped, deviceVars, DeviceTypeOK, libState, moduleVars, clientVars
<1>5. CallInv'
  BY <1>1, <1>2, <1>3, CallReturns DEF CallInv
<1>6. \A u \in Thread : /\ pc'[u] = IF u = t THEN "idle" ELSE pc[u]
                        /\ u # t => fence_fd'[u] = fence_fd[u]
  BY <1>1, <1>2, Returned
<1>7. DeviceInv' /\ FenceInv' /\ BufferInv'
  BY <1>1, <1>2, <1>3, <1>6, SameDevice, SameFences, SameBuffers
<1> QED BY <1>4, <1>5, <1>7 DEF HalInv

\* What else is typed in a step that changes buffers.
LibTyped ==
  /\ gbm_bo_handle_map \in [Handle -> Bo \cup {NoBo}]
  /\ bos \in SUBSET Bo
  /\ user_data \in [Bo -> Lib!BoData \cup {NoData}]

\* A handle enters the map with a new buffer object.
LEMMA NewBuffer ==
  ASSUME HalTyped, BufferInv, NEW h \in Handle, NEW b \in Bo, gbm_bo_handle_map[h] = NoBo,
         Lib!NewBo(h, b), NEW to \in {"registered", "allocated"},
         native' = [native EXCEPT ![h] = to], UNCHANGED <<held, stuck, stdin>>
  PROVE  BufferInv' /\ LibTyped' /\ UNCHANGED crashed
<1>1. /\ b \notin bos /\ bos' = bos \cup {b} /\ gbm_bo_handle_map' = [gbm_bo_handle_map EXCEPT ![h] = b]
      /\ UNCHANGED <<user_data, crashed>>
  BY DEF Lib!NewBo, Lib!Emplace
<1>2. /\ \A k \in Handle : gbm_bo_handle_map'[k] = IF k = h THEN b ELSE gbm_bo_handle_map[k]
      /\ \A k \in Handle : native'[k] = IF k = h THEN to ELSE native[k]
      /\ b # NoBo
  BY <1>1, HalAssumption DEF HalTyped
<1>3. LibTyped'
  BY <1>1 DEF HalTyped, LibTyped
<1>4. /\ \A k \in Handle : gbm_bo_handle_map[k] # b
      /\ user_data[b] = NoData /\ held[h] + stuck[h] = 0
  BY <1>1, HalAssumption DEF BufferInv
<1>5. HalNoCrash' /\ RegisteredAreLive'
  BY <1>1, <1>2 DEF BufferInv, HalNoCrash, RegisteredAreLive
<1>6. /\ \A k \in Handle : gbm_bo_handle_map'[k] # NoBo => gbm_bo_handle_map'[k] \in bos'
      /\ \A k, l \in Handle :
           gbm_bo_handle_map'[k] = gbm_bo_handle_map'[l] /\ gbm_bo_handle_map'[k] # NoBo => k = l
      /\ \A c \in Bo \ bos' : user_data'[c] = NoData
  BY <1>1, <1>2, <1>4 DEF BufferInv
<1>7. \A k \in Handle : held'[k] + stuck'[k] =
        IF gbm_bo_handle_map'[k] = NoBo THEN 0 ELSE CountOf(user_data'[gbm_bo_handle_map'[k]])
  BY <1>1, <1>2, <1>4 DEF BufferInv, CountOf
<1> QED BY <1>1, <1>3, <1>5, <1>6, <1>7 DEF BufferInv

\* registerBuffer() imports the handle, or fails and changes nothing.
LEMMA RegisterStep ==
  ASSUME HalInv, ~exited, NEW t \in Thread, RegisterBuffer(t)
  PROVE  HalInv'
<1> DEFINE h == arg[t]
<1>1. PICK ret \in {DevOK, "EINVAL"}, b \in Bo, err \in Lib!ErrCode :
        /\ WithDevice(ret)
        /\ \/ /\ ret = DevOK
              /\ Lib!gralloc_gm_buffer_import(h, info[h], b, err)
              /\ native' = IF err = Lib!OK THEN [native EXCEPT ![h] = "registered"] ELSE native
           \/ /\ ret # DevOK
              /\ UNCHANGED <<libState, native>>
  BY DEF RegisterBuffer
<1>2. /\ pc[t] = "call" /\ op[t] = "register" /\ Return(t)
      /\ UNCHANGED <<moduleVars, fences, info, held, stuck, alloc_dev, exited>>
  BY DEF RegisterBuffer
<1>3. HalTyped /\ CallInv /\ DeviceInv /\ FenceInv /\ BufferInv
  BY DEF HalInv
<1>4. h \in Handle /\ native[h] \in {"raw", "allocated"} /\ initialized
  BY <1>2, <1>3 DEF CallInv, InitOps
<1>5. /\ DeviceTypeOK' /\ DevicePaired' /\ UNCHANGED <<stdin, destroyed_twice>>
      /\ stdin /\ ~exited => UNCHANGED deviceVars
  BY <1>1, <1>3, WithDeviceEffect
<1>6. UNCHANGED <<mutex, initialized, gbm_dev>>
  BY <1>2 DEF moduleVars
<1>7. \A u \in Thread : /\ pc'[u] = IF u = t THEN "idle" ELSE pc[u]
                        /\ u # t => fence_fd'[u] = fence_fd[u]
  BY <1>2, <1>3, Returned
<1>8. DeviceInv'
  BY <1>2, <1>3, <1>5, <1>6, <1>7, SameDevice DEF DeviceInv, deviceVars
<1>9. FenceInv'
  BY <1>2, <1>3, <1>7, SameFences
<1>10. CASE gbm_bo_handle_map[h] = NoBo /\ Lib!NewBo(h, b) /\ native' = [native EXCEPT ![h] = "registered"]
  <2>1. BufferInv' /\ LibTyped' /\ UNCHANGED crashed
    BY <1>2, <1>3, <1>4, <1>5, <1>10, NewBuffer
  <2>2. HalTyped'
    BY <1>2, <1>3, <1>5, <1>6, <1>10, <2>1, Returned DEF HalTyped, LibTyped
  <2>3. native[h] = "raw"
    BY <1>3, <1>4, <1>10 DEF BufferInv, RegisteredAreLive
  <2>4. \A k \in Handle : native'[k] = IF k = h THEN "registered" ELSE native[k]
    BY <1>3, <1>10 DEF HalTyped
  <2>5. CallInv'
    BY <1>2, <1>3, <1>4, <1>6, <2>3, <2>4, CallReturns DEF CallInv
  <2> QED BY <1>8, <1>9, <2>1, <2>2, <2>5 DEF HalInv
<1>11. CASE UNCHANGED <<libState, native>>
  <2>1. BufferInv'
    BY <1>2, <1>3, <1>5, <1>11, SameBuffers
  <2>2. HalTyped'
    BY <1>2, <1>3, <1>5, <1>6, <1>11, Returned DEF HalTyped, libState
  <2>3. CallInv'
    BY <1>2, <1>3, <1>6, <1>11, CallReturns DEF CallInv
  <2> QED BY <1>8, <1>9, <2>1, <2>2, <2>3 DEF HalInv
<1> QED BY <1>1, <1>10, <1>11 DEF Lib!gralloc_gm_buffer_import, Lib!CanImport, Lib!libVars, libState, Lib!OK

\* alloc() makes a handle and its buffer object, or fails; without a device it
\* may crash, which descriptor 0 rules out.
LEMMA AllocStep ==
  ASSUME HalInv, ~exited, NEW t \in Thread, NEW h \in Handle, AllocBuffer(t, h)
  PROVE  HalInv'
<1>1. PICK ret \in {DevOK, "EINVAL"}, b \in Bo, err \in Lib!ErrCode, i \in Info :
        /\ WithDevice(ret)
        /\ \/ /\ ret = DevOK
              /\ Lib!gralloc_allocate(h, b, err)
              /\ err = Lib!OK => native[h] = "none"
              /\ native' = IF err = Lib!OK THEN [native EXCEPT ![h] = "allocated"] ELSE native
              /\ info' = IF err = Lib!OK THEN [info EXCEPT ![h] = i] ELSE info
           \/ /\ ret # DevOK
              /\ crashed' \in BOOLEAN
              /\ UNCHANGED <<gbm_bo_handle_map, bos, user_data, native, info>>
  BY DEF AllocBuffer
<1>2. /\ pc[t] = "call" /\ op[t] = "alloc" /\ Return(t)
      /\ UNCHANGED <<moduleVars, fences, held, stuck, alloc_dev, exited>>
  BY DEF AllocBuffer
<1>3. HalTyped /\ CallInv /\ DeviceInv /\ FenceInv /\ BufferInv
  BY DEF HalInv
<1>4. initialized
  BY <1>2, <1>3 DEF CallInv, InitOps
<1>5. /\ DeviceTypeOK' /\ DevicePaired' /\ UNCHANGED <<stdin, destroyed_twice>>
      /\ ret = DevOK => _gbm_dev # NullDev
      /\ stdin /\ ~exited => UNCHANGED deviceVars /\ (_gbm_dev # NullDev => ret = DevOK)
  BY <1>1, <1>3, WithDeviceEffect
<1>6. UNCHANGED <<mutex, initialized, gbm_dev>>
  BY <1>2 DEF moduleVars
<1>7. \A u \in Thread : /\ pc'[u] = IF u = t THEN "idle" ELSE pc[u]
                        /\ u # t => fence_fd'[u] = fence_fd[u]
  BY <1>2, <1>3, Returned
<1>8. DeviceInv'
  BY <1>2, <1>3, <1>5, <1>6, <1>7, SameDevice DEF DeviceInv, deviceVars
<1>9. FenceInv'
  BY <1>2, <1>3, <1>7, SameFences
<1>10. CASE /\ Lib!NewBo(h, b) /\ native[h] = "none" /\ native' = [native EXCEPT ![h] = "allocated"]
            /\ info' = [info EXCEPT ![h] = i]
  <2>0. gbm_bo_handle_map[h] = NoBo
    BY <1>3, <1>10 DEF BufferInv, RegisteredAreLive
  <2>1. BufferInv' /\ LibTyped' /\ UNCHANGED crashed
    BY <1>2, <1>3, <1>5, <1>10, <2>0, NewBuffer
  <2>2. HalTyped'
    BY <1>2, <1>3, <1>5, <1>6, <1>10, <2>1, Returned DEF HalTyped, LibTyped
  <2>3. \A k \in Handle : native'[k] = IF k = h THEN "allocated" ELSE native[k]
    BY <1>3, <1>10 DEF HalTyped
  <2>4. CallInv'
    BY <1>2, <1>3, <1>6, <1>10, <2>3, CallReturns DEF CallInv
  <2> QED BY <1>8, <1>9, <2>1, <2>2, <2>4 DEF HalInv
<1>11. CASE UNCHANGED <<gbm_bo_handle_map, bos, user_data, native, info>> /\ crashed' \in BOOLEAN
            /\ (crashed' = crashed \/ ret # DevOK)
  <2>1. HalTyped'
    BY <1>2, <1>3, <1>5, <1>6, <1>11, Returned DEF HalTyped
  <2>2. stdin => crashed' = crashed
    BY <1>3, <1>4, <1>5, <1>11 DEF DeviceInv
  <2>3. BufferInv'
    BY <1>2, <1>3, <1>5, <1>11, <2>2 DEF BufferInv, HalNoCrash, RegisteredAreLive, CountOf
  <2>4. CallInv'
    BY <1>2, <1>3, <1>6, <1>11, CallReturns DEF CallInv
  <2> QED BY <1>8, <1>9, <2>1, <2>3, <2>4 DEF HalInv
<1>12. ASSUME ret = DevOK, Lib!gralloc_allocate(h, b, err)
       PROVE  (err = Lib!OK /\ Lib!NewBo(h, b)) \/ (err # Lib!OK /\ UNCHANGED libState)
  <2>1. _gbm_dev # NullDev
    BY <1>5, <1>12
  <2> QED BY <1>12, <2>1 DEF Lib!gralloc_allocate, Lib!libVars, libState, Lib!OK
<1>13. CASE ret = DevOK
  BY <1>1, <1>3, <1>10, <1>11, <1>12, <1>13 DEF libState, HalTyped
<1>14. CASE ret # DevOK
  BY <1>1, <1>11, <1>14
<1> QED BY <1>13, <1>14

-----------------------------------------------------------------------------
(* Fences. *)

\* A lock is called, and the fence goes with it.
LEMMA BeginLockStep ==
  ASSUME HalInv, NEW t \in Thread, NEW name \in LockOps, NEW h \in Handle, NEW f \in Fence \cup {NoFence},
         BeginLock(t, name, h, f)
  PROVE  HalInv'
<1> DEFINE to == IF f = NoFence THEN "call" ELSE "wait"
<1>1. /\ pc[t] = "idle" /\ pc' = [pc EXCEPT ![t] = to] /\ op' = [op EXCEPT ![t] = name]
      /\ arg' = [arg EXCEPT ![t] = h] /\ fence_fd' = [fence_fd EXCEPT ![t] = f]
      /\ native[h] \in {"registered", "allocated"}
      /\ f # NoFence => fences[f].owner = "client"
      /\ fences' = IF f = NoFence THEN fences ELSE [fences EXCEPT ![f].owner = "library"]
      /\ UNCHANGED <<deviceVars, libState, moduleVars, native, info, held, stuck, alloc_dev, exited>>
  BY DEF BeginLock, Enter
<1>2. HalTyped /\ CallInv /\ DeviceInv /\ FenceInv /\ BufferInv
  BY DEF HalInv
<1>3. UNCHANGED <<mutex, initialized, gbm_dev, stdin>> /\ to \in {"call", "wait"}
  BY <1>1 DEF moduleVars, deviceVars
<1>4. \A u \in Thread : /\ pc'[u] = IF u = t THEN to ELSE pc[u]
                        /\ op'[u] = IF u = t THEN name ELSE op[u]
                        /\ arg'[u] = IF u = t THEN h ELSE arg[u]
                        /\ fence_fd'[u] = IF u = t THEN f ELSE fence_fd[u]
  BY <1>1, <1>2 DEF HalTyped
<1>5. fences' \in [Fence -> FenceState] /\ \A g \in Fence : g # f => fences'[g] = fences[g]
  <2>1. CASE f = NoFence
    BY <1>1, <1>2, <2>1 DEF HalTyped
  <2>2. CASE f # NoFence
    <3>1. fences[f] \in FenceState /\ fences[f].owner = "client"
      BY <1>1, <1>2, <2>2 DEF HalTyped
    <3>2. [fences[f] EXCEPT !.owner = "library"] \in FenceState
      BY <3>1 DEF FenceState
    <3>3. fences' = [fences EXCEPT ![f] = [fences[f] EXCEPT !.owner = "library"]]
      BY <1>1, <2>2
    <3> QED BY <1>2, <3>2, <3>3 DEF HalTyped
  <2> QED BY <2>1, <2>2
<1>6. f # NoFence => f \in Fence /\ fences'[f].owner = "library"
  <2> SUFFICES ASSUME f # NoFence PROVE f \in Fence /\ fences'[f].owner = "library"
    OBVIOUS
  <2>1. fences[f] \in FenceState /\ fences[f].owner = "client" /\ f \in Fence
    BY <1>1, <1>2 DEF HalTyped
  <2>2. [fences[f] EXCEPT !.owner = "library"].owner = "library"
    BY <2>1 DEF FenceState
  <2>3. fences'[f] = [fences[f] EXCEPT !.owner = "library"]
    BY <1>1, <1>2, <2>1 DEF HalTyped
  <2> QED BY <2>1, <2>2, <2>3
<1> HIDE DEF to
<1>7. HalTyped'
  <2>1. DeviceTypeOK'
    BY <1>1, <1>2 DEF HalTyped, DeviceTypeOK, deviceVars
  <2> QED BY <1>1, <1>2, <1>3, <1>5, <2>1 DEF HalTyped, libState
<1>8. CallInv'
  <2>1. name \notin InitOps /\ name # "register" /\ name # "none" /\ name \in LockOps
    BY DEF InitOps, LockOps
  <2> QED BY <1>1, <1>2, <1>3, <1>4, <2>1 DEF CallInv, Initialising
<1>9. FenceInv'
  <2>1. \A u \in Thread, g \in Fence : WaitsFor(u, g)' <=> WaitsFor(u, g) \/ (u = t /\ g = f)
    BY <1>1, <1>4, HalAssumption DEF to, WaitsFor
  <2>2. f # NoFence => \A u \in Thread : ~WaitsFor(u, f)
    <3> SUFFICES ASSUME f # NoFence PROVE \A u \in Thread : ~WaitsFor(u, f)
      OBVIOUS
    <3>1. f \in Fence /\ fences[f].owner # "library"
      BY <1>1, <1>6
    <3> QED BY <1>2, <3>1 DEF FenceInv, FencesOwned
  <2>3. FencesOwned'
    BY <1>2, <1>5, <1>6, <2>1, <2>2, HalAssumption DEF FenceInv, FencesOwned
  <2>4. \A u \in Thread : pc'[u] = "wait" => fence_fd'[u] \in Fence
    BY <1>2, <1>4, <1>6 DEF to, FenceInv
  <2> QED BY <2>3, <2>4 DEF FenceInv
<1>10. DeviceInv' /\ BufferInv'
  BY <1>1, <1>2, <1>3, <1>4, SameDevice, SameBuffers
<1> QED BY <1>7, <1>8, <1>9, <1>10 DEF HalInv

\* sync_wait() returns: the fence is closed, or lost with the call.
LEMMA WaitStep ==
  ASSUME HalInv, NEW t \in Thread, Wait(t)
  PROVE  HalInv'
<1> DEFINE f == fence_fd[t]
<1>1. /\ pc[t] = "wait"
      /\ UNCHANGED <<deviceVars, libState, moduleVars, native, info, held, stuck, alloc_dev, exited>>
      /\ \/ fences' = [fences EXCEPT ![f] = Closed] /\ Goto(t, "call")
         \/ fences' = [fences EXCEPT ![f] = [fences[f] EXCEPT !.owner = "nobody"]] /\ Return(t)
  BY DEF Wait
<1>2. HalTyped /\ CallInv /\ DeviceInv /\ FenceInv /\ BufferInv
  BY DEF HalInv
<1>3. UNCHANGED <<mutex, initialized, gbm_dev, stdin>>
  BY <1>1 DEF moduleVars, deviceVars
<1>4. f \in Fence /\ WaitsFor(t, f) /\ fences[f].owner = "library" /\ op[t] \in LockOps
      /\ fences[f] \in FenceState
  <2>1. f \in Fence /\ WaitsFor(t, f) /\ fences[f].owner = "library" /\ fences[f] \in FenceState
    BY <1>1, <1>2 DEF FenceInv, FencesOwned, WaitsFor, HalTyped
  <2>2. op[t] \in LockOps
    BY <1>1, <1>2 DEF CallInv
  <2> QED BY <2>1, <2>2
<1>5. \E x \in FenceState : x.owner = "nobody" /\ fences' = [fences EXCEPT ![f] = x]
  <2>1. Closed \in FenceState /\ Closed.owner = "nobody"
    BY DEF Closed, FenceState
  <2>2. [fences[f] EXCEPT !.owner = "nobody"] \in FenceState /\ [fences[f] EXCEPT !.owner = "nobody"].owner = "nobody"
    BY <1>4 DEF FenceState
  <2> QED BY <1>1, <2>1, <2>2
<1>6. /\ fences' \in [Fence -> FenceState] /\ fences'[f].owner = "nobody"
      /\ \A g \in Fence : g # f => fences'[g] = fences[g]
  BY <1>2, <1>4, <1>5 DEF HalTyped
<1>7. PICK to \in {"call", "idle"} :
        /\ pc' \in [Thread -> {"idle", "init", "open", "create", "share", "call", "wait"}]
        /\ op' \in [Thread -> InitOps \cup LockOps \cup {"none"}]
        /\ arg' \in [Thread -> Handle \cup {NoHandle}]
        /\ fence_fd' \in [Thread -> Fence \cup {NoFence}]
        /\ pc'[t] = to
        /\ IF to = "idle" THEN Return(t) ELSE op'[t] = op[t] /\ arg'[t] = arg[t]
        /\ \A u \in Thread : u # t => pc'[u] = pc[u] /\ op'[u] = op[u] /\ arg'[u] = arg[u]
                                      /\ fence_fd'[u] = fence_fd[u]
  <2>1. CASE Goto(t, "call")
    BY <1>2, <2>1, GoesOn DEF HalTyped
  <2>2. CASE Return(t)
    BY <1>2, <2>2, Returned
  <2> QED BY <1>1, <2>1, <2>2
<1> HIDE DEF f
<1>8. HalTyped'
  <2>1. DeviceTypeOK'
    BY <1>1, <1>2 DEF HalTyped, DeviceTypeOK, deviceVars
  <2> QED BY <1>1, <1>2, <1>3, <1>6, <1>7, <2>1 DEF HalTyped, libState
<1>9. CallInv'
  <2>1. CASE to = "idle"
    BY <1>1, <1>2, <1>3, <1>7, <2>1, CallReturns DEF CallInv
  <2>2. CASE to = "call"
    <3>1. op[t] \notin InitOps
      BY <1>4 DEF InitOps, LockOps
    <3> QED BY <1>1, <1>2, <1>3, <1>4, <1>7, <2>2, <3>1 DEF CallInv, Initialising
  <2> QED BY <2>1, <2>2
<1>10. FenceInv'
  <2>1. \A u \in Thread, g \in Fence : WaitsFor(u, g)' <=> WaitsFor(u, g) /\ u # t
    BY <1>7 DEF WaitsFor
  <2>2. \A u \in Thread : WaitsFor(u, f) => u = t
    BY <1>2, <1>4 DEF FenceInv, FencesOwned
  <2>3. \A g \in Fence : WaitsFor(t, g) => g = f
    BY DEF WaitsFor, f
  <2>4. FencesOwned'
    BY <1>2, <1>6, <2>1, <2>2, <2>3 DEF FenceInv, FencesOwned
  <2>5. \A u \in Thread : pc'[u] = "wait" => fence_fd'[u] \in Fence
    BY <1>2, <1>7 DEF FenceInv
  <2> QED BY <2>4, <2>5 DEF FenceInv
<1>11. \A u \in Thread : pc'[u] \in {"create", "share"} <=> pc[u] \in {"create", "share"}
  BY <1>1, <1>7
<1>12. DeviceInv' /\ BufferInv'
  BY <1>1, <1>2, <1>3, <1>11, SameDevice, SameBuffers
<1> QED BY <1>8, <1>9, <1>10, <1>12 DEF HalInv

\* The kernel signals a fence, the client gets and closes its own.
LEMMA FenceStepKeeps ==
  ASSUME HalInv, NEW f \in Fence, FenceStep(f)
  PROVE  HalInv'
<1>1. /\ UNCHANGED <<deviceVars, libState, moduleVars, callVars, native, info, held, stuck, alloc_dev, exited>>
      /\ \/ fences[f] = Closed /\ fences' = [fences EXCEPT ![f] = [state |-> "pending", owner |-> "client"]]
         \/ fences[f].state = "pending" /\ fences' = [fences EXCEPT ![f] = [fences[f] EXCEPT !.state = "signaled"]]
         \/ fences[f].owner = "client" /\ fences' = [fences EXCEPT ![f] = Closed]
  BY DEF FenceStep
<1>2. HalTyped /\ CallInv /\ DeviceInv /\ FenceInv /\ BufferInv
  BY DEF HalInv
<1>3. UNCHANGED <<mutex, initialized, gbm_dev, stdin, pc, op, arg, fence_fd>>
  BY <1>1 DEF moduleVars, deviceVars, callVars
<1>4. \E x \in FenceState : /\ fences' = [fences EXCEPT ![f] = x]
                            /\ x.owner = "library" <=> fences[f].owner = "library"
  <2>1. fences[f] \in FenceState
    BY <1>2 DEF HalTyped
  <2>2. /\ Closed \in FenceState /\ Closed.owner # "library"
        /\ [state |-> "pending", owner |-> "client"] \in FenceState
        /\ [state |-> "pending", owner |-> "client"].owner # "library"
    BY DEF Closed, FenceState
  <2>3. fences[f].state = "pending" =>
          /\ [fences[f] EXCEPT !.state = "signaled"] \in FenceState
          /\ [fences[f] EXCEPT !.state = "signaled"].owner = fences[f].owner
    BY <2>1 DEF FenceState
  <2> QED BY <1>1, <2>2, <2>3
<1>5. /\ fences' \in [Fence -> FenceState]
      /\ \A g \in Fence : fences'[g].owner = "library" <=> fences[g].owner = "library"
  BY <1>2, <1>4 DEF HalTyped
<1>6. HalTyped'
  <2>1. DeviceTypeOK'
    BY <1>1, <1>2 DEF HalTyped, DeviceTypeOK, deviceVars
  <2> QED BY <1>1, <1>2, <1>3, <1>5, <2>1 DEF HalTyped, libState
<1>7. CallInv'
  BY <1>1, <1>2, <1>3 DEF CallInv
<1>8. FenceInv'
  BY <1>2, <1>3, <1>5 DEF FenceInv, FencesOwned, WaitsFor
<1>9. DeviceInv' /\ BufferInv'
  BY <1>1, <1>2, <1>3, SameDevice, SameBuffers
<1> QED BY <1>6, <1>7, <1>8, <1>9 DEF HalInv

-----------------------------------------------------------------------------
(* Locks. *)

\* The bo_data of one registered handle changes, and its locks with it.
LEMMA DataChanged ==
  ASSUME HalTyped, BufferInv, NEW h \in Handle, gbm_bo_handle_map[h] # NoBo, NEW d1 \in Lib!BoData,
         user_data' = [user_data EXCEPT ![gbm_bo_handle_map[h]] = d1],
         UNCHANGED <<gbm_bo_handle_map, bos, crashed, native, stdin>>,
         \A k \in Handle : k # h => held'[k] = held[k] /\ stuck'[k] = stuck[k],
         held'[h] + stuck'[h] = d1.lock_count
  PROVE  BufferInv' /\ LibTyped'
<1> DEFINE b == gbm_bo_handle_map[h]
<1>1. b \in Bo /\ b \in bos /\ d1 # NoData
  BY HalAssumption DEF HalTyped, BufferInv
<1>2. \A c \in Bo : user_data'[c] = IF c = b THEN d1 ELSE user_data[c]
  BY <1>1 DEF HalTyped
<1>3. LibTyped'
  BY <1>1 DEF HalTyped, LibTyped
<1>4. \A k \in Handle : k # h /\ gbm_bo_handle_map[k] # NoBo =>
        gbm_bo_handle_map[k] \in Bo /\ gbm_bo_handle_map[k] # b
  BY HalAssumption DEF HalTyped, BufferInv
<1>5. HalNoCrash' /\ RegisteredAreLive'
  BY DEF BufferInv, HalNoCrash, RegisteredAreLive
<1>6. \A k \in Handle : held'[k] + stuck'[k] =
        IF gbm_bo_handle_map'[k] = NoBo THEN 0 ELSE CountOf(user_data'[gbm_bo_handle_map'[k]])
  <2> TAKE k \in Handle
  <2>1. CASE k = h
    BY <1>1, <1>2, <2>1 DEF CountOf
  <2>2. CASE k # h
    BY <1>2, <1>4, <2>2 DEF BufferInv
  <2> QED BY <2>1, <2>2
<1>7. \A c \in Bo \ bos' : user_data'[c] = NoData
  BY <1>1, <1>2 DEF BufferInv
<1> QED BY <1>3, <1>5, <1>6, <1>7 DEF BufferInv

\* The bo_data that a lock starts from.
LEMMA DataAtLock ==
  ASSUME HalTyped, NEW b \in Bo
  PROVE  /\ Lib!DataOf(b) \in Lib!BoData /\ Lib!DataOf(b).lock_count = CountOf(user_data[b])
         /\ Lib!DataOf(b).lock_count \in 0..MaxLocks
<1>1. Lib!NewData \in Lib!BoData /\ Lib!NewData.lock_count = 0
  BY HalAssumption DEF Lib!NewData, Lib!BoData
<1>2. \A d \in Lib!BoData : d.lock_count \in 0..MaxLocks
  BY DEF Lib!BoData
<1> QED BY <1>1, <1>2, HalAssumption DEF Lib!DataOf, CountOf, HalTyped

\* gralloc_gbm_bo_lock() takes the lock it reports, and no other.
LEMMA LockEffect ==
  ASSUME HalTyped, NEW h \in Handle, gbm_bo_handle_map[h] # NoBo, NEW hnd,
         NEW usage \in SUBSET Lib!UsageBit, NEW e, Lib!gralloc_gbm_bo_lock(h, hnd, usage, e)
  PROVE  LET b == gbm_bo_handle_map[h] IN
         /\ UNCHANGED <<gbm_bo_handle_map, bos, crashed>>
         /\ \/ e # Lib!OK /\ UNCHANGED user_data
            \/ \E d1 \in Lib!BoData :
                 /\ user_data' = [user_data EXCEPT ![b] = d1]
                 /\ d1.lock_count = CountOf(user_data[b]) + IF e = Lib!OK THEN 1 ELSE 0
<1> DEFINE b == gbm_bo_handle_map[h]
           d == Lib!DataOf(b)
           all == usage \cup d.locked_for
<1>1. b \in Bo
  BY HalAssumption DEF HalTyped
<1>2. d \in Lib!BoData /\ d.lock_count = CountOf(user_data[b]) /\ d.lock_count \in 0..MaxLocks
  BY <1>1, DataAtLock
<1>3. d.locked_for \in SUBSET Lib!UsageBit /\ d.map_data \in {"none", "r", "rw"} /\ MaxLocks \in Nat
  BY <1>2, HalAssumption DEF Lib!BoData
<1> HIDE DEF b, d
<1>4. CASE e = "EINVAL" /\ UNCHANGED Lib!libVars
  BY <1>4 DEF Lib!libVars, Lib!OK
<1>5. CASE e # Lib!OK /\ Lib!SetData(b, d)
  <2>1. user_data' = [user_data EXCEPT ![b] = d] /\ UNCHANGED <<gbm_bo_handle_map, bos, crashed>>
    BY <1>5 DEF Lib!SetData
  <2>2. d.lock_count = CountOf(user_data[b]) + IF e = Lib!OK THEN 1 ELSE 0
    BY <1>2, <1>5
  <2> QED BY <1>2, <2>1, <2>2 DEF b
<1>6. ASSUME NEW map \in {"none", "r", "rw"}, e = Lib!OK, d.lock_count < MaxLocks,
             Lib!SetData(b, [map_data |-> map, lock_count |-> d.lock_count + 1,
                             locked_for |-> d.locked_for \cup all])
      PROVE  \E d1 \in Lib!BoData :
               /\ user_data' = [user_data EXCEPT ![b] = d1] /\ UNCHANGED <<gbm_bo_handle_map, bos, crashed>>
               /\ d1.lock_count = CountOf(user_data[b]) + IF e = Lib!OK THEN 1 ELSE 0
  <2> DEFINE d1 == [map_data |-> map, lock_count |-> d.lock_count + 1, locked_for |-> d.locked_for \cup all]
  <2>1. d.lock_count + 1 \in 0..MaxLocks
    BY <1>2, <1>3, <1>6
  <2>2. d1 \in Lib!BoData
    BY <1>3, <2>1 DEF Lib!BoData
  <2>3. user_data' = [user_data EXCEPT ![b] = d1] /\ UNCHANGED <<gbm_bo_handle_map, bos, crashed>>
    BY <1>6 DEF Lib!SetData
  <2>4. d1.lock_count = CountOf(user_data[b]) + IF e = Lib!OK THEN 1 ELSE 0
    BY <1>2, <1>6
  <2> HIDE DEF d1
  <2> QED BY <2>2, <2>3, <2>4
<1>7. CASE Lib!TakeLock(b, d, all, e)
  <2>1. Lib!MapAccess(all) \in {"none", "r", "rw"}
    BY DEF Lib!MapAccess
  <2>2. "ENOMEM" # Lib!OK /\ "EINVAL" # Lib!OK
    BY DEF Lib!OK
  <2>3. \/ e # Lib!OK /\ Lib!SetData(b, d)
        \/ \E map \in {"none", "r", "rw"} :
             /\ e = Lib!OK /\ d.lock_count < MaxLocks
             /\ Lib!SetData(b, [map_data |-> map, lock_count |-> d.lock_count + 1,
                                locked_for |-> d.locked_for \cup all])
    BY <1>3, <1>7, <2>1, <2>2 DEF Lib!TakeLock
  <2> QED BY <1>5, <1>6, <2>3 DEF b
<1>8. b # NoBo
  BY DEF b
<1>9. "EINVAL" # Lib!OK
  BY DEF Lib!OK
<1> QED BY <1>4, <1>5, <1>7, <1>8, <1>9 DEF Lib!gralloc_gbm_bo_lock, b, d

\* The lock that a call of lock or lock_ycbcr took is held or stuck.
LEMMA LockCounted ==
  ASSUME HalTyped, BufferInv, NEW h \in Handle, gbm_bo_handle_map[h] # NoBo, NEW hnd,
         NEW usage \in SUBSET Lib!UsageBit, NEW e, Lib!gralloc_gbm_bo_lock(h, hnd, usage, e),
         NEW err, e # Lib!OK => err # Lib!OK,
         UNCHANGED <<native, stdin>>,
         LET b == gbm_bo_handle_map[h]
             taken == user_data'[b] # NoData /\ user_data'[b].lock_count > Lib!DataOf(b).lock_count
         IN
         /\ held' = IF IsHeld(taken, err) THEN [held EXCEPT ![h] = @ + 1] ELSE held
         /\ stuck' = IF IsStuck(taken, err) THEN [stuck EXCEPT ![h] = @ + 1] ELSE stuck
  PROVE  BufferInv' /\ LibTyped' /\ UNCHANGED crashed
         /\ held' \in [Handle -> Nat] /\ stuck' \in [Handle -> Nat]
<1> DEFINE b == gbm_bo_handle_map[h]
           taken == user_data'[b] # NoData /\ user_data'[b].lock_count > Lib!DataOf(b).lock_count
<1>1. b \in Bo /\ b # NoBo
  BY HalAssumption DEF HalTyped
<1>2. /\ Lib!DataOf(b) \in Lib!BoData /\ Lib!DataOf(b).lock_count = CountOf(user_data[b])
      /\ CountOf(user_data[b]) \in Nat
  <2>1. \A x \in 0..MaxLocks : x \in Nat
    BY HalAssumption
  <2> QED BY <1>1, <2>1, DataAtLock
<1>3. held[h] + stuck[h] = CountOf(user_data[b]) /\ held[h] \in Nat /\ stuck[h] \in Nat
  BY <1>1 DEF BufferInv, HalTyped
<1>4. /\ held' = IF err = Lib!OK THEN [held EXCEPT ![h] = @ + 1] ELSE held
      /\ stuck' = IF taken /\ err # Lib!OK THEN [stuck EXCEPT ![h] = @ + 1] ELSE stuck
  BY DEF IsHeld, IsStuck
<1> HIDE DEF b, taken
<1>5. /\ held' \in [Handle -> Nat] /\ stuck' \in [Handle -> Nat]
      /\ \A k \in Handle : k # h => held'[k] = held[k] /\ stuck'[k] = stuck[k]
      /\ held'[h] = IF err = Lib!OK THEN held[h] + 1 ELSE held[h]
      /\ stuck'[h] = IF taken /\ err # Lib!OK THEN stuck[h] + 1 ELSE stuck[h]
  BY <1>3, <1>4 DEF HalTyped
<1>6. /\ UNCHANGED <<gbm_bo_handle_map, bos, crashed>>
      /\ \/ e # Lib!OK /\ UNCHANGED user_data
         \/ \E d1 \in Lib!BoData :
              /\ user_data' = [user_data EXCEPT ![b] = d1]
              /\ d1.lock_count = CountOf(user_data[b]) + IF e = Lib!OK THEN 1 ELSE 0
  BY LockEffect DEF b
<1>7. CASE e # Lib!OK /\ UNCHANGED user_data
  <2>1. ~taken
    BY <1>1, <1>2, <1>7 DEF taken, CountOf
  <2>2. held' = held /\ stuck' = stuck
    BY <1>4, <1>7, <2>1
  <2>3. BufferInv'
    BY <1>6, <1>7, <2>2, SameBuffers DEF libState
  <2>4. LibTyped'
    BY <1>6, <1>7 DEF HalTyped, LibTyped
  <2> QED BY <1>5, <1>6, <2>3, <2>4
<1>8. ASSUME NEW d1 \in Lib!BoData, user_data' = [user_data EXCEPT ![b] = d1],
             d1.lock_count = CountOf(user_data[b]) + IF e = Lib!OK THEN 1 ELSE 0
      PROVE  BufferInv' /\ LibTyped'
  <2>1. user_data'[b] = d1 /\ d1 # NoData
    BY <1>1, <1>8, HalAssumption DEF HalTyped
  <2>2. taken <=> e = Lib!OK
    BY <1>2, <1>8, <2>1 DEF taken
  <2>3. held'[h] + stuck'[h] = d1.lock_count
    BY <1>2, <1>3, <1>5, <1>8, <2>2
  <2> QED BY <1>5, <1>6, <1>8, <2>3, DataChanged DEF b
<1> QED BY <1>5, <1>6, <1>7, <1>8

\* lock and lock_ycbcr, once the fence is out of the way.
LEMMA LockBufferStep ==
  ASSUME HalInv, NEW t \in Thread, NEW usage \in SUBSET Lib!UsageBit, LockBuffer(t, usage)
  PROVE  HalInv'
<1> DEFINE h == arg[t]
           b == gbm_bo_handle_map[h]
           taken == user_data'[b] # NoData /\ user_data'[b].lock_count > Lib!DataOf(b).lock_count
<1>1. PICK err \in Lib!ErrCode :
        /\ \/ op[t] = "lock" /\ Lib!gralloc_gbm_bo_lock(h, info[h], usage, err)
           \/ op[t] = "lock_ycbcr" /\ Lib!gralloc_gbm_bo_lock_ycbcr(h, info[h], usage, err)
        /\ held' = IF IsHeld(taken, err) THEN [held EXCEPT ![h] = @ + 1] ELSE held
        /\ stuck' = IF IsStuck(taken, err) THEN [stuck EXCEPT ![h] = @ + 1] ELSE stuck
  BY DEF LockBuffer
<1>2. /\ pc[t] = "call" /\ op[t] \in LockOps /\ Return(t)
      /\ UNCHANGED deviceVars /\ UNCHANGED <<moduleVars, fences, native, info, alloc_dev, exited>>
  BY DEF LockBuffer
<1>3. HalTyped /\ CallInv /\ DeviceInv /\ FenceInv /\ BufferInv
  BY DEF HalInv
<1>4. h \in Handle /\ b # NoBo
  BY <1>2, <1>3 DEF CallInv, BufferInv, RegisteredAreLive
<1>5. UNCHANGED <<mutex, initialized, gbm_dev, stdin>>
  BY <1>2 DEF moduleVars, deviceVars
<1>6. \E e : Lib!gralloc_gbm_bo_lock(h, info[h], usage, e) /\ (e # Lib!OK => err # Lib!OK)
  BY <1>1 DEF Lib!gralloc_gbm_bo_lock_ycbcr
<1>7. /\ BufferInv' /\ LibTyped' /\ UNCHANGED crashed
      /\ held' \in [Handle -> Nat] /\ stuck' \in [Handle -> Nat]
  BY <1>1, <1>2, <1>3, <1>4, <1>5, <1>6, LockCounted
<1>8. HalTyped'
  <2>1. DeviceTypeOK'
    BY <1>2, <1>3 DEF HalTyped, DeviceTypeOK, deviceVars
  <2> QED BY <1>2, <1>3, <1>5, <1>7, <2>1, Returned DEF HalTyped, LibTyped
<1>9. CallInv'
  BY <1>2, <1>3, <1>5, CallReturns DEF CallInv
<1>10. \A u \in Thread : /\ pc'[u] = IF u = t THEN "idle" ELSE pc[u]
                         /\ u # t => fence_fd'[u] = fence_fd[u]
  BY <1>2, <1>3, Returned
<1>11. DeviceInv' /\ FenceInv'
  BY <1>2, <1>3, <1>5, <1>10, SameDevice, SameFences
<1> QED BY <1>7, <1>8, <1>9, <1>11 DEF HalInv

\* unlock() of a lock the client holds.
LEMMA UnlockStep ==
  ASSUME HalInv, NEW t \in Thread, NEW h \in Handle, Unlock(t, h)
  PROVE  HalInv'
<1> DEFINE b == gbm_bo_handle_map[h]
           d1 == Lib!Unlocked(user_data[b])
<1>1. /\ held[h] > 0 /\ held' = [held EXCEPT ![h] = @ - 1] /\ Lib!gralloc_gbm_bo_unlock(h, Lib!OK)
      /\ UNCHANGED deviceVars
      /\ UNCHANGED <<moduleVars, callVars, fences, native, info, stuck, alloc_dev, exited>>
  BY DEF Unlock
<1>2. HalTyped /\ CallInv /\ DeviceInv /\ FenceInv /\ BufferInv
  BY DEF HalInv
<1>3. UNCHANGED <<mutex, initialized, gbm_dev, stdin, pc, op, arg, fence_fd>>
  BY <1>1 DEF moduleVars, deviceVars, callVars
<1>4. held[h] \in Nat /\ stuck[h] \in Nat /\ held[h] + stuck[h] # 0
  BY <1>1, <1>2 DEF HalTyped
<1>5. b # NoBo /\ user_data[b] # NoData /\ user_data[b].lock_count = held[h] + stuck[h]
  BY <1>2, <1>4 DEF BufferInv, CountOf
<1>6. b \in Bo /\ user_data[b] \in Lib!BoData
  BY <1>2, <1>5, HalAssumption DEF HalTyped
<1>7. /\ d1 \in Lib!BoData /\ d1.lock_count = user_data[b].lock_count - 1
  <2> DEFINE d == user_data[b]
  <2>1. /\ d.lock_count \in 0..MaxLocks /\ d.locked_for \in SUBSET Lib!UsageBit
        /\ d.map_data \in {"none", "r", "rw"} /\ d.lock_count > 0 /\ MaxLocks \in Nat
    BY <1>1, <1>4, <1>5, <1>6, HalAssumption DEF Lib!BoData
  <2> HIDE DEF d
  <2>2. d.lock_count - 1 \in 0..MaxLocks
    BY <2>1
  <2>3. Lib!Unlocked(d) \in Lib!BoData /\ Lib!Unlocked(d).lock_count = d.lock_count - 1
    BY <2>1, <2>2 DEF Lib!Unlocked, Lib!BoData
  <2> QED BY <2>3 DEF d
<1>8. user_data' = [user_data EXCEPT ![b] = d1] /\ UNCHANGED <<gbm_bo_handle_map, bos, crashed>>
  <2>1. user_data[b].lock_count # 0
    BY <1>4, <1>5
  <2> QED BY <1>1, <1>5, <2>1 DEF Lib!gralloc_gbm_bo_unlock, Lib!SetData, Lib!OK
<1> HIDE DEF d1
<1>9. /\ held' \in [Handle -> Nat] /\ held'[h] = held[h] - 1 /\ stuck' = stuck
      /\ \A k \in Handle : k # h => held'[k] = held[k]
  <2>1. held[h] - 1 \in Nat
    BY <1>1, <1>4
  <2> QED BY <1>1, <1>2, <2>1 DEF HalTyped
<1>10. held'[h] + stuck'[h] = d1.lock_count
  BY <1>4, <1>5, <1>7, <1>9
<1>11. BufferInv' /\ LibTyped'
  BY <1>1, <1>2, <1>3, <1>5, <1>7, <1>8, <1>9, <1>10, DataChanged
<1>12. HalTyped'
  <2>1. DeviceTypeOK'
    BY <1>1, <1>2 DEF HalTyped, DeviceTypeOK, deviceVars
  <2> QED BY <1>1, <1>2, <1>3, <1>8, <1>9, <1>11, <2>1 DEF HalTyped, LibTyped
<1>13. CallInv'
  BY <1>1, <1>2, <1>3 DEF CallInv
<1>14. DeviceInv' /\ FenceInv'
  BY <1>1, <1>2, <1>3, SameDevice, SameFences
<1> QED BY <1>11, <1>12, <1>13, <1>14 DEF HalInv

-----------------------------------------------------------------------------
(* The client. *)

\* The client changes the state of one handle that no call is on.
LEMMA OthersKeepTheirs ==
  ASSUME HalTyped, CallInv, NEW h \in Handle, Idle(h) \/ native[h] = "none",
         UNCHANGED <<mutex, initialized, pc, op, arg>>,
         \A k \in Handle : k # h => native'[k] = native[k]
  PROVE  CallInv'
<1>1. \A t \in Thread : op[t] \in LockOps \cup {"register"} => arg[t] \in Handle /\ arg[t] # h
  BY DEF CallInv, Idle
<1>2. \A t \in Thread : op[t] \in LockOps \cup {"register"} => native'[arg[t]] = native[arg[t]]
  BY <1>1
<1> QED BY <1>1, <1>2 DEF CallInv

\* unregisterBuffer() and the alloc device's free().
LEMMA ReleaseStep ==
  ASSUME HalInv, NEW t \in Thread, NEW h \in Handle, NEW from \in {"registered", "allocated"},
         NEW to \in {"raw", "freed"}, Release(t, h, from, to)
  PROVE  HalInv'
<1> DEFINE b == gbm_bo_handle_map[h]
<1>1. /\ native[h] = from /\ held[h] = 0 /\ Idle(h)
      /\ native' = [native EXCEPT ![h] = to] /\ stuck' = [stuck EXCEPT ![h] = 0]
      /\ UNCHANGED deviceVars /\ UNCHANGED <<moduleVars, callVars, fences, info, held, alloc_dev, exited>>
      /\ \E errno \in StaleErrno : Lib!gralloc_gm_buffer_free(h, errno, Lib!OK)
  BY DEF Release
<1>2. HalTyped /\ CallInv /\ DeviceInv /\ FenceInv /\ BufferInv
  BY DEF HalInv
<1>3. UNCHANGED <<mutex, initialized, gbm_dev, stdin, pc, op, arg, fence_fd>>
  BY <1>1 DEF moduleVars, deviceVars, callVars
<1>4. b # NoBo
  BY <1>1, <1>2 DEF BufferInv, RegisteredAreLive
<1>5. b \in Bo /\ \A k \in Handle : k # h => gbm_bo_handle_map[k] # b
  BY <1>2, <1>4 DEF HalTyped, BufferInv
<1>6. /\ gbm_bo_handle_map' = [gbm_bo_handle_map EXCEPT ![h] = NoBo] /\ bos' = bos \ {b}
      /\ user_data' = [user_data EXCEPT ![b] = NoData] /\ UNCHANGED crashed
  BY <1>1, <1>4 DEF Lib!gralloc_gm_buffer_free
<1> HIDE DEF b
<1>7. /\ \A k \in Handle : /\ gbm_bo_handle_map'[k] = IF k = h THEN NoBo ELSE gbm_bo_handle_map[k]
                           /\ native'[k] = IF k = h THEN to ELSE native[k]
                           /\ stuck'[k] = IF k = h THEN 0 ELSE stuck[k]
      /\ \A c \in Bo : user_data'[c] = IF c = b THEN NoData ELSE user_data[c]
  BY <1>1, <1>2, <1>5, <1>6 DEF HalTyped
<1>8. HalTyped'
  <2>1. DeviceTypeOK'
    BY <1>1, <1>2 DEF HalTyped, DeviceTypeOK, deviceVars
  <2> QED BY <1>1, <1>2, <1>3, <1>6, <2>1 DEF HalTyped
<1>9. BufferInv'
  <2>1. HalNoCrash' /\ RegisteredAreLive'
    BY <1>2, <1>3, <1>6, <1>7 DEF BufferInv, HalNoCrash, RegisteredAreLive
  <2>2. /\ \A k \in Handle : gbm_bo_handle_map'[k] # NoBo => gbm_bo_handle_map'[k] \in bos'
        /\ \A k, l \in Handle :
             gbm_bo_handle_map'[k] = gbm_bo_handle_map'[l] /\ gbm_bo_handle_map'[k] # NoBo => k = l
        /\ \A c \in Bo \ bos' : user_data'[c] = NoData
    BY <1>2, <1>5, <1>6, <1>7 DEF BufferInv
  <2>3. \A k \in Handle : held'[k] + stuck'[k] =
          IF gbm_bo_handle_map'[k] = NoBo THEN 0 ELSE CountOf(user_data'[gbm_bo_handle_map'[k]])
    <3> TAKE k \in Handle
    <3>1. CASE k = h
      BY <1>1, <1>7, <3>1
    <3>2. CASE k # h
      <4>1. gbm_bo_handle_map[k] # NoBo => gbm_bo_handle_map[k] \in Bo /\ gbm_bo_handle_map[k] # b
        BY <1>2, <1>5, <3>2 DEF HalTyped
      <4>2. held'[k] = held[k] /\ stuck'[k] = stuck[k] /\ gbm_bo_handle_map'[k] = gbm_bo_handle_map[k]
        BY <1>1, <1>7, <3>2
      <4> QED BY <1>2, <1>7, <4>1, <4>2 DEF BufferInv
    <3> QED BY <3>1, <3>2
  <2> QED BY <2>1, <2>2, <2>3 DEF BufferInv
<1>10. CallInv'
  BY <1>1, <1>2, <1>3, <1>7, OthersKeepTheirs
<1>11. DeviceInv' /\ FenceInv'
  BY <1>1, <1>2, <1>3, SameDevice, SameFences
<1> QED BY <1>8, <1>9, <1>10, <1>11 DEF HalInv

\* The client receives a handle from another process, or closes one.
LEMMA ClientStep ==
  ASSUME HalInv, NEW h \in Handle, CloseHandle(h) \/ \E i \in Info : ReceiveHandle(h, i)
  PROVE  HalInv'
<1>1. PICK to \in {"none", "raw"} :
        /\ native[h] \in {"none", "raw"} /\ (Idle(h) \/ native[h] = "none")
        /\ native' = [native EXCEPT ![h] = to]
  BY DEF CloseHandle, ReceiveHandle
<1>2. /\ UNCHANGED <<deviceVars, libState, moduleVars, callVars, fences, held, stuck, alloc_dev, exited>>
      /\ info' = info \/ \E i \in Info : info' = [info EXCEPT ![h] = i]
  BY DEF CloseHandle, ReceiveHandle
<1>3. HalTyped /\ CallInv /\ DeviceInv /\ FenceInv /\ BufferInv
  BY DEF HalInv
<1>4. UNCHANGED <<mutex, initialized, gbm_dev, stdin, pc, op, arg, fence_fd>>
  BY <1>2 DEF moduleVars, deviceVars, callVars
<1>5. \A k \in Handle : native'[k] = IF k = h THEN to ELSE native[k]
  BY <1>1, <1>3 DEF HalTyped
<1>6. HalTyped'
  <2>1. DeviceTypeOK'
    BY <1>2, <1>3 DEF HalTyped, DeviceTypeOK, deviceVars
  <2> QED BY <1>1, <1>2, <1>3, <1>4, <2>1 DEF HalTyped, libState
<1>7. CallInv'
  BY <1>1, <1>3, <1>4, <1>5, OthersKeepTheirs
<1>8. DeviceInv' /\ FenceInv' /\ BufferInv'
  BY <1>1, <1>2, <1>3, <1>4, <1>5, SameDevice, SameFences, SameBuffers
<1> QED BY <1>6, <1>7, <1>8 DEF HalInv

\* The alloc device is opened or closed.
LEMMA ToggleStep ==
  ASSUME HalInv, ToggleAllocDevice
  PROVE  HalInv'
<1>1. /\ alloc_dev' = ~alloc_dev
      /\ UNCHANGED <<deviceVars, libState, moduleVars, callVars, fences, native, info, held, stuck, exited>>
  BY DEF ToggleAllocDevice
<1>2. HalTyped /\ CallInv /\ DeviceInv /\ FenceInv /\ BufferInv
  BY DEF HalInv
<1>3. UNCHANGED <<mutex, initialized, gbm_dev, stdin, pc, op, arg, fence_fd>>
  BY <1>1 DEF moduleVars, deviceVars, callVars
<1>4. HalTyped'
  <2>1. DeviceTypeOK'
    BY <1>1, <1>2 DEF HalTyped, DeviceTypeOK, deviceVars
  <2> QED BY <1>1, <1>2, <1>3, <2>1 DEF HalTyped, libState
<1>5. CallInv'
  BY <1>1, <1>2, <1>3 DEF CallInv
<1>6. DeviceInv' /\ FenceInv' /\ BufferInv'
  BY <1>1, <1>2, <1>3, SameDevice, SameFences, SameBuffers
<1> QED BY <1>4, <1>5, <1>6 DEF HalInv

\* gbm_device_destroy() of two pointers, one after the other.
LEMMA DestroyBoth ==
  ASSUME NEW d, NEW e, destroyed_twice \in BOOLEAN, DestroyAll(<<d, e>>)
  PROVE  /\ devices' \in SUBSET devices /\ destroyed_twice' \in BOOLEAN
         /\ d = NullDev /\ e = NullDev => destroyed_twice' = destroyed_twice
         /\ d # NullDev /\ d = e => destroyed_twice'
<1> DEFINE ptrs == <<d, e>>
           live == {i \in DOMAIN ptrs : ptrs[i] # NullDev}
<1>1. DOMAIN ptrs = {1, 2} /\ ptrs[1] = d /\ ptrs[2] = e
  OBVIOUS
<1>2. /\ d = NullDev /\ e = NullDev => live = {}
      /\ d # NullDev /\ d = e => 1 \in live /\ 2 \in live
  BY <1>1
<1>3. /\ devices' = devices \ {ptrs[i] : i \in live}
      /\ destroyed_twice' =
           (destroyed_twice \/ (\E i \in live : ptrs[i] \notin devices \/ \E j \in live : j < i /\ ptrs[j] = ptrs[i]))
  BY DEF DestroyAll
<1>4. 1 < 2
  OBVIOUS
<1> HIDE DEF live, ptrs
<1>5. CASE d = NullDev /\ e = NullDev
  BY <1>2, <1>3, <1>5
<1>6. ASSUME d # NullDev, d = e PROVE destroyed_twice'
  BY <1>1, <1>2, <1>3, <1>4, <1>6
<1> QED BY <1>3, <1>5, <1>6

\* exit(): both destructors run, and each destroys the one device there is.
LEMMA ExitStep ==
  ASSUME HalInv, ~exited, Exit
  PROVE  HalInv'
<1>1. /\ \A t \in Thread : pc[t] = "idle"
      /\ exited' = TRUE /\ DestroyAll(<<gbm_dev, _gbm_dev>>) /\ _gbm_dev_fd' = -1 /\ _gbm_dev' = NullDev
      /\ UNCHANGED <<stdin, drm_fds, made, failures>>
      /\ UNCHANGED <<libState, moduleVars, callVars, clientVars>>
  BY DEF Exit, CleanupAll
<1>2. HalTyped /\ CallInv /\ DeviceInv /\ FenceInv /\ BufferInv
  BY DEF HalInv
<1>3. UNCHANGED <<mutex, initialized, gbm_dev, pc, op, arg, fence_fd, fences, native, info, held, stuck, alloc_dev>>
  BY <1>1 DEF moduleVars, callVars, clientVars
<1>4. /\ devices' \in SUBSET devices /\ destroyed_twice' \in BOOLEAN
      /\ gbm_dev = NullDev /\ _gbm_dev = NullDev => destroyed_twice' = destroyed_twice
      /\ gbm_dev # NullDev /\ gbm_dev = _gbm_dev => destroyed_twice'
  <2>1. destroyed_twice \in BOOLEAN
    BY <1>2 DEF HalTyped, DeviceTypeOK
  <2> QED BY <1>1, <2>1, DestroyBoth
<1>5. HalTyped'
  <2>1. -1 \in -1..MaxFd /\ NullDev \in 0..MaxDevice
    BY DeviceAssumption DEF NullDev
  <2>2. DeviceTypeOK'
    BY <1>1, <1>2, <1>4, <2>1 DEF HalTyped, DeviceTypeOK
  <2> QED BY <1>1, <1>2, <1>3, <2>2 DEF HalTyped, libState
<1>6. CallInv'
  BY <1>2, <1>3 DEF CallInv
<1>7. DeviceInv'
  <2>1. stdin => ~destroyed_twice /\ (_gbm_dev # NullDev <=> initialized)
                 /\ gbm_dev = IF initialized THEN _gbm_dev ELSE NullDev
    BY <1>1, <1>2 DEF DeviceInv
  <2> QED BY <1>1, <1>3, <1>4, <2>1 DEF DeviceInv, DevicePaired
<1>8. FenceInv' /\ BufferInv'
  BY <1>1, <1>2, <1>3, SameFences, SameBuffers
<1> QED BY <1>5, <1>6, <1>7, <1>8 DEF HalInv

-----------------------------------------------------------------------------
(* Every behaviour. *)

\* Nothing has been called yet.
LEMMA HalInvAtFirst ==
  ASSUME HalInit
  PROVE  HalInv
<1>1. IsFiniteSet({}) /\ Cardinality({}) = 0
  BY FS_EmptySet
<1>2. (CHOOSE i \in Info : TRUE) \in Info
  BY HalAssumption
<1>3. Closed \in FenceState /\ Closed.owner = "nobody"
  BY DEF Closed, FenceState
<1>4. DeviceTypeOK /\ NullDev \in 0..MaxDevice
  <2>1. -1 \in -1..MaxFd /\ 0 \in 0..MaxDevice /\ NullDev = 0
    BY DeviceAssumption DEF NullDev
  <2> QED BY <2>1 DEF HalInit, DeviceInit, DeviceTypeOK
<1>5. HalTyped
  <2>1. PICK i \in Info : info = [h \in Handle |-> i]
    BY <1>2 DEF HalInit
  <2> QED BY <1>3, <1>4, <2>1 DEF HalInit, HalTyped
<1>6. CallInv
  BY HalAssumption DEF HalInit, CallInv, Initialising, InitOps, LockOps
<1>7. DeviceInv
  <2>1. DevicePaired
    BY DEF HalInit, DeviceInit, DevicePaired
  <2>2. Cardinality(drm_fds) = failures + Cardinality(devices)
    BY <1>1 DEF HalInit, DeviceInit
  <2>3. 0 \notin drm_fds /\ ~destroyed_twice /\ devices = {} /\ _gbm_dev = NullDev /\ gbm_dev = NullDev
        /\ ~initialized /\ ~exited /\ \A t \in Thread : pc[t] = "idle"
    BY DEF HalInit, DeviceInit
  <2> QED BY <2>1, <2>2, <2>3 DEF DeviceInv
<1>8. FenceInv
  <2>1. \A t \in Thread : pc[t] = "idle"
    BY DEF HalInit
  <2>2. \A f \in Fence : fences[f].owner # "library"
    BY <1>3 DEF HalInit
  <2> QED BY <2>1, <2>2 DEF FenceInv, FencesOwned, WaitsFor
<1>9. BufferInv
  BY DEF HalInit, BufferInv, HalNoCrash, RegisteredAreLive
<1> QED BY <1>5, <1>6, <1>7, <1>8, <1>9 DEF HalInv

\* One step per action.
LEMMA HalInvKept ==
  ASSUME HalInv, [HalNext]_halVars
  PROVE  HalInv'
<1>1. CASE HalNext
  <2>1. ~exited
    BY <1>1 DEF HalNext
  <2>2. ASSUME NEW t \in Thread, CallStep(t)
        PROVE  HalInv'
    <3>1. CASE \E h \in Handle : AllocBuffer(t, h)
      BY <2>1, <3>1, AllocStep
    <3>2. CASE \E usage \in SUBSET Lib!UsageBit : LockBuffer(t, usage)
      BY <3>2, LockBufferStep
    <3> QED BY <2>1, <2>2, <3>1, <3>2, OpenStep, CreateStep, ShareStep, PerformStep, RegisterStep, WaitStep
            DEF CallStep
  <2>3. ASSUME NEW t \in Thread, NEW h \in Handle, Unlock(t, h) \/ UnregisterBuffer(t, h) \/ FreeBuffer(t, h)
        PROVE  HalInv'
    BY <2>3, UnlockStep, ReleaseStep DEF UnregisterBuffer, FreeBuffer
  <2>4. ASSUME NEW t \in Thread, NEW name \in InitOps, NEW h \in Handle \cup {NoHandle}, Begin(t, name, h)
        PROVE  HalInv'
    BY <2>4, BeginStep
  <2>5. ASSUME NEW t \in Thread, NEW name \in LockOps, NEW h \in Handle, NEW f \in Fence \cup {NoFence},
               BeginLock(t, name, h, f)
        PROVE  HalInv'
    BY <2>5, BeginLockStep
  <2>6. ASSUME NEW h \in Handle, CloseHandle(h) \/ \E i \in Info : ReceiveHandle(h, i)
        PROVE  HalInv'
    BY <2>6, ClientStep
  <2> QED BY <1>1, <2>1, <2>2, <2>3, <2>4, <2>5, <2>6, EnterInitStep, FenceStepKeeps, ToggleStep, ExitStep
          DEF HalNext
<1>2. CASE UNCHANGED halVars
  <2>1. UNCHANGED <<deviceVars, libState, moduleVars, callVars, fences, native, info, held, stuck, alloc_dev, exited>>
    BY <1>2 DEF halVars, clientVars
  <2>2. HalTyped /\ CallInv /\ DeviceInv /\ FenceInv /\ BufferInv
    BY DEF HalInv
  <2>3. UNCHANGED <<mutex, initialized, gbm_dev, stdin, pc, op, arg, fence_fd>>
    BY <2>1 DEF moduleVars, deviceVars, callVars
  <2>4. HalTyped'
    <3>1. DeviceTypeOK'
      BY <2>1, <2>2 DEF HalTyped, DeviceTypeOK, deviceVars
    <3> QED BY <2>1, <2>2, <2>3, <3>1 DEF HalTyped, libState
  <2>5. CallInv'
    BY <2>1, <2>2, <2>3 DEF CallInv
  <2>6. DeviceInv' /\ FenceInv' /\ BufferInv'
    BY <2>1, <2>2, <2>3, SameDevice, SameFences, SameBuffers
  <2> QED BY <2>4, <2>5, <2>6 DEF HalInv
<1> QED BY <1>1, <1>2

\* The inductive invariant of the module holds in every reachable state.
THEOREM HalInvariant == HalSpec => []HalInv
<1> QED BY HalInvAtFirst, HalInvKept, PTL DEF HalSpec

\* Types, with both counts of locks within the bound that lock_count has.
THEOREM HalTypeCorrect == HalSpec => []HalTypeOK
<1>1. ASSUME HalInv PROVE HalTypeOK
  <2>1. HalTyped /\ BufferInv
    BY <1>1 DEF HalInv
  <2>2. \A h \in Handle : held[h] + stuck[h] \in 0..MaxLocks
    <3> TAKE h \in Handle
    <3>1. CASE gbm_bo_handle_map[h] = NoBo
      BY <2>1, <3>1, HalAssumption DEF BufferInv
    <3>2. CASE gbm_bo_handle_map[h] # NoBo
      <4>1. gbm_bo_handle_map[h] \in Bo
        BY <2>1, <3>2 DEF HalTyped
      <4> QED BY <2>1, <3>2, <4>1, DataAtLock DEF BufferInv
    <3> QED BY <3>1, <3>2
  <2>3. \A h \in Handle : held[h] \in 0..MaxLocks /\ stuck[h] \in 0..MaxLocks
    <3> TAKE h \in Handle
    <3>1. held[h] \in Nat /\ stuck[h] \in Nat /\ held[h] + stuck[h] \in 0..MaxLocks /\ MaxLocks \in Nat
      BY <2>1, <2>2, HalAssumption DEF HalTyped
    <3> QED BY <3>1
  <2>4. held \in [Handle -> 0..MaxLocks] /\ stuck \in [Handle -> 0..MaxLocks]
    BY <2>1, <2>3 DEF HalTyped
  <2>5. Lib!TypeOK
    BY <2>1 DEF HalTyped, Lib!TypeOK
  <2> QED BY <2>1, <2>4, <2>5 DEF HalTyped, HalTypeOK
<1> QED BY <1>1, HalInvariant, PTL

\* One device, owned by the library and the module together, for as long as the
\* process runs.
THEOREM DeviceIsShared == HalSpec => []DeviceShared
<1>1. ASSUME HalInv PROVE DeviceShared
  <2> SUFFICES ASSUME stdin, ~exited
               PROVE  /\ Cardinality(devices) <= 1
                      /\ Cardinality(drm_fds) = failures + Cardinality(devices)
                      /\ initialized => devices = {gbm_dev} /\ _gbm_dev = gbm_dev /\ _gbm_dev_fd \in drm_fds
    BY DEF DeviceShared
  <2>1. DeviceInv
    BY <1>1 DEF HalInv
  <2>2. Cardinality({}) = 0 /\ Cardinality({_gbm_dev}) = 1
    BY FS_EmptySet, FS_Singleton
  <2>3. devices = {} \/ devices = {_gbm_dev}
    BY <2>1 DEF DeviceInv
  <2>4. Cardinality(devices) = 0 \/ Cardinality(devices) = 1
    BY <2>2, <2>3
  <2>5. Cardinality(devices) <= 1
    BY <2>4
  <2> QED BY <2>1, <2>5 DEF DeviceInv
<1> QED BY <1>1, HalInvariant, PTL

\* The device is destroyed twice at every exit after an initialisation, and
\* never otherwise.
THEOREM TwiceAtExit == HalSpec => []DestroyedTwiceAtExit
<1>1. HalInv => DestroyedTwiceAtExit
  BY DEF HalInv, DeviceInv, DestroyedTwiceAtExit
<1> QED BY <1>1, HalInvariant, PTL

\* No call of the module finds the library without its device.
THEOREM HalNeverCrashes == HalSpec => []HalNoCrash
<1>1. HalInv => HalNoCrash
  BY DEF HalInv, BufferInv
<1> QED BY <1>1, HalInvariant, PTL

\* The library's map has the handles that the client registered or allocated.
THEOREM RegisteredStayLive == HalSpec => []RegisteredAreLive
<1>1. HalInv => RegisteredAreLive
  BY DEF HalInv, BufferInv
<1> QED BY <1>1, HalInvariant, PTL

\* Every lock is one that the client holds or one that a failure left behind.
THEOREM LocksAdded == HalSpec => []LocksAccounted
<1>1. ASSUME HalInv PROVE LocksAccounted
  <2> SUFFICES ASSUME NEW h \in Handle, gbm_bo_handle_map[h] # NoBo
               PROVE  Lib!DataOf(gbm_bo_handle_map[h]).lock_count = held[h] + stuck[h]
    BY DEF LocksAccounted
  <2>1. HalTyped /\ BufferInv
    BY <1>1 DEF HalInv
  <2>2. gbm_bo_handle_map[h] \in Bo
    BY <2>1 DEF HalTyped
  <2> QED BY <2>1, <2>2, DataAtLock DEF BufferInv
<1> QED BY <1>1, HalInvariant, PTL

\* The library owns a fence while exactly one call waits for it.
THEOREM FencesStayOwned == HalSpec => []FencesOwned
<1>1. HalInv => FencesOwned
  BY DEF HalInv, FenceInv
<1> QED BY <1>1, HalInvariant, PTL

-----------------------------------------------------------------------------
(* The module is a client of the library: GrallocGbm is what it implements. *)

\* The library has a device, seen as GrallocGbm sees it, before and after.
LEMMA SameLibDevice ==
  ASSUME UNCHANGED deviceVars
  PROVE  (_gbm_dev # NullDev)' = (_gbm_dev # NullDev)
BY DEF deviceVars

\* gralloc_gbm_device_init() of a library whose device, if it has one, can be
\* reused: the call of GrallocGbm, whether or not open() left a descriptor.
LEMMA OpenIsLibStep ==
  ASSUME HalInv, ~exited, stdin, NEW t \in Thread, OpenDevice(t)
  PROVE  Lib!InitDevice \/ UNCHANGED Lib!libVars
<1>1. PICK ret \in {DevOK, "EINVAL"} : device_init(ret)
  BY DEF OpenDevice
<1>2. UNCHANGED libState /\ pc[t] = "open"
  BY DEF OpenDevice
<1>3. HalTyped /\ CallInv /\ DeviceInv
  BY DEF HalInv
<1>4. _gbm_dev = NullDev
  <2>1. ~initialized /\ mutex = t
    BY <1>2, <1>3 DEF CallInv, Initialising
  <2>2. \A u \in Thread : pc[u] \notin {"create", "share"}
    BY <1>2, <1>3, <2>1 DEF CallInv, Initialising
  <2> QED BY <1>3, <2>1, <2>2 DEF DeviceInv
<1>5. _gbm_dev' # NullDev <=> ret = DevOK
  BY <1>1, <1>3, <1>4, OpenEffect
<1>6. CASE ret = DevOK
  <2>1. Lib!gralloc_gbm_device_init(Lib!OK)
    BY <1>2, <1>5, <1>6 DEF Lib!gralloc_gbm_device_init, libState
  <2>2. Lib!OK \in Lib!ErrCode
    BY DEF Lib!ErrCode
  <2> QED BY <2>1, <2>2 DEF Lib!InitDevice
<1>7. CASE ret # DevOK
  BY <1>2, <1>4, <1>5, <1>7 DEF Lib!libVars, libState
<1> QED BY <1>6, <1>7

\* The other steps leave the library's device alone: those of the initialisation
\* find the one that OpenDevice made.
LEMMA InitIsNoLibStep ==
  ASSUME HalInv, ~exited, stdin, NEW t \in Thread, CreateDeviceStep(t) \/ ShareDevice(t)
  PROVE  UNCHANGED Lib!libVars
<1>1. HalTyped /\ DeviceInv
  BY DEF HalInv
<1>2. CASE CreateDeviceStep(t)
  <2>1. UNCHANGED deviceVars /\ UNCHANGED libState
    BY <1>1, <1>2, WithDeviceEffect DEF CreateDeviceStep
  <2> QED BY <2>1, SameLibDevice DEF Lib!libVars, libState
<1>3. CASE ShareDevice(t)
  BY <1>3 DEF ShareDevice, Lib!libVars, libState
<1> QED BY <1>2, <1>3

\* registerBuffer() is an import, with the handle's own contents.
LEMMA RegisterIsImport ==
  ASSUME HalInv, ~exited, stdin, NEW t \in Thread, RegisterBuffer(t)
  PROVE  Lib!Import \/ UNCHANGED Lib!libVars
<1> DEFINE h == arg[t]
<1>1. PICK ret \in {DevOK, "EINVAL"}, b \in Bo, err \in Lib!ErrCode :
        /\ WithDevice(ret)
        /\ \/ Lib!gralloc_gm_buffer_import(h, info[h], b, err)
           \/ UNCHANGED libState
  BY DEF RegisterBuffer
<1>2. HalTyped /\ CallInv /\ DeviceInv
  BY DEF HalInv
<1>3. h \in Handle /\ info[h] \in Lib!HandleInfo
  <2>1. h \in Handle
    BY <1>2 DEF RegisterBuffer, CallInv
  <2> QED BY <1>2, <2>1, HalAssumption DEF HalTyped
<1>4. UNCHANGED deviceVars
  BY <1>1, <1>2, WithDeviceEffect
<1>5. CASE Lib!gralloc_gm_buffer_import(h, info[h], b, err)
  BY <1>3, <1>5 DEF Lib!Import
<1>6. CASE UNCHANGED libState
  BY <1>4, <1>6, SameLibDevice DEF Lib!libVars, libState
<1> QED BY <1>1, <1>5, <1>6

\* alloc() of a new handle is an allocation, and the device it needs is there.
LEMMA AllocIsAllocate ==
  ASSUME HalInv, ~exited, stdin, NEW t \in Thread, NEW h \in Handle, AllocBuffer(t, h)
  PROVE  Lib!Allocate \/ UNCHANGED Lib!libVars
<1>1. PICK ret \in {DevOK, "EINVAL"}, b \in Bo, err \in Lib!ErrCode :
        /\ WithDevice(ret)
        /\ \/ /\ ret = DevOK
              /\ Lib!gralloc_allocate(h, b, err)
              /\ err = Lib!OK => native[h] = "none"
           \/ ret # DevOK
  BY DEF AllocBuffer
<1>2. HalTyped /\ CallInv /\ DeviceInv /\ BufferInv
  BY DEF HalInv
<1>3. initialized
  BY <1>2 DEF AllocBuffer, CallInv, InitOps
<1>4. _gbm_dev # NullDev
  BY <1>2, <1>3 DEF DeviceInv
<1>5. UNCHANGED deviceVars /\ ret = DevOK
  BY <1>1, <1>2, <1>4, WithDeviceEffect
<1>6. CASE err = Lib!OK
  <2>1. gbm_bo_handle_map[h] = NoBo
    BY <1>1, <1>2, <1>5, <1>6 DEF BufferInv, RegisteredAreLive
  <2> QED BY <1>1, <1>5, <2>1 DEF Lib!Allocate
<1>7. CASE err # Lib!OK
  BY <1>1, <1>5, <1>7 DEF Lib!gralloc_allocate
<1> QED BY <1>6, <1>7

\* A lock of the module is the library's lock of the same name.
LEMMA LockIsLock ==
  ASSUME HalInv, NEW t \in Thread, NEW usage \in SUBSET Lib!UsageBit, LockBuffer(t, usage)
  PROVE  Lib!Lock \/ Lib!LockYcbcr
<1> DEFINE h == arg[t]
<1>1. PICK err \in Lib!ErrCode :
        \/ Lib!gralloc_gbm_bo_lock(h, info[h], usage, err)
        \/ Lib!gralloc_gbm_bo_lock_ycbcr(h, info[h], usage, err)
  BY DEF LockBuffer
<1>2. HalTyped /\ CallInv
  BY DEF HalInv
<1>3. h \in Handle
  BY <1>2 DEF LockBuffer, CallInv
<1>4. info[h] \in Lib!HandleInfo
  BY <1>2, <1>3, HalAssumption DEF HalTyped
<1> QED BY <1>1, <1>3, <1>4 DEF Lib!Lock, Lib!LockYcbcr

\* unlock() passes on what it is given.
LEMMA UnlockIsUnlock ==
  ASSUME NEW t \in Thread, NEW h \in Handle, Unlock(t, h)
  PROVE  Lib!Unlock
<1>1. Lib!OK \in Lib!ErrCode
  BY DEF Lib!ErrCode
<1> QED BY <1>1 DEF Unlock, Lib!Unlock

\* unregisterBuffer() and free() both end in the free of the library.
LEMMA ReleaseIsFree ==
  ASSUME NEW t \in Thread, NEW h \in Handle, UnregisterBuffer(t, h) \/ FreeBuffer(t, h)
  PROVE  Lib!Free
<1>1. Lib!OK \in Lib!ErrCode
  BY DEF Lib!ErrCode
<1> QED BY <1>1 DEF UnregisterBuffer, FreeBuffer, Release, Lib!Free

\* One step of the module is at most one call of the library.
LEMMA StepIsLibStep ==
  ASSUME HalInv, stdin, [HalNext]_halVars
  PROVE  Lib!Next \/ Exit \/ UNCHANGED Lib!libVars
<1>1. CASE UNCHANGED halVars
  BY <1>1, SameLibDevice DEF halVars, Lib!libVars, libState
<1>2. CASE HalNext
  <2>1. ~exited /\ ~crashed
    BY <1>2 DEF HalNext
  <2>2. ASSUME NEW t \in Thread, CallStep(t)
        PROVE  \/ Lib!InitDevice \/ Lib!Import \/ Lib!Allocate \/ Lib!Lock \/ Lib!LockYcbcr
               \/ UNCHANGED Lib!libVars
    <3>1. CASE OpenDevice(t)
      BY <2>1, <3>1, OpenIsLibStep
    <3>2. CASE CreateDeviceStep(t) \/ ShareDevice(t)
      BY <2>1, <3>2, InitIsNoLibStep
    <3>3. CASE Perform(t) \/ Wait(t)
      BY <3>3, SameLibDevice DEF Perform, Wait, Lib!libVars, libState
    <3>4. CASE RegisterBuffer(t)
      BY <2>1, <3>4, RegisterIsImport
    <3>5. CASE \E h \in Handle : AllocBuffer(t, h)
      BY <2>1, <3>5, AllocIsAllocate
    <3>6. CASE \E usage \in SUBSET Lib!UsageBit : LockBuffer(t, usage)
      BY <3>6, LockIsLock
    <3> QED BY <2>2, <3>1, <3>2, <3>3, <3>4, <3>5, <3>6 DEF CallStep
  <2>3. ASSUME NEW t \in Thread, NEW h \in Handle, Unlock(t, h) \/ UnregisterBuffer(t, h) \/ FreeBuffer(t, h)
        PROVE  Lib!Unlock \/ Lib!Free
    BY <2>3, UnlockIsUnlock, ReleaseIsFree
  <2>4. ASSUME NEW t \in Thread,
               \/ \E name \in InitOps, h \in Handle \cup {NoHandle} : Begin(t, name, h)
               \/ \E name \in LockOps, h \in Handle, f \in Fence \cup {NoFence} : BeginLock(t, name, h, f)
               \/ EnterInit(t)
        PROVE  UNCHANGED Lib!libVars
    BY <2>4, SameLibDevice DEF Begin, BeginLock, EnterInit, Lib!libVars, libState
  <2>5. ASSUME \/ \E h \in Handle : CloseHandle(h) \/ \E i \in Info : ReceiveHandle(h, i)
               \/ \E f \in Fence : FenceStep(f)
               \/ ToggleAllocDevice
        PROVE  UNCHANGED Lib!libVars
    BY <2>5, SameLibDevice DEF CloseHandle, ReceiveHandle, FenceStep, ToggleAllocDevice, Lib!libVars, libState
  <2> QED BY <1>2, <2>1, <2>2, <2>3, <2>4, <2>5 DEF HalNext, Lib!Next
<1> QED BY <1>1, <1>2

\* The module implements the library's client: every theorem about GrallocGbm
\* is one about the library inside the HAL.
THEOREM HalCallsLibrary == HalSpec => LibraryCalled
<1>1. HalInit => Lib!Init
  BY DEF HalInit, DeviceInit, Lib!Init
<1>2. HalInv /\ [HalNext]_halVars => [stdin => Lib!Next \/ Exit]_(Lib!libVars)
  BY StepIsLibStep
<1> QED BY <1>1, <1>2, HalInvariant, PTL DEF HalSpec, LibraryCalled

\* The theorems about the library, for the one inside the HAL.
Proved == INSTANCE GrallocGbm_proofs WITH gbm_dev <- _gbm_dev # NullDev

\* It is the same library: the two instances of GrallocGbm have the same
\* definitions.
LEMMA SameLibrary ==
  /\ Lib!TypeOK <=> Proved!TypeOK
  /\ Lib!RegistryInv <=> Proved!RegistryInv
  /\ Lib!LockInv <=> Proved!LockInv
  /\ Lib!Next <=> Proved!Next
<1>1. Lib!TypeOK <=> Proved!TypeOK
  BY DEF Lib!TypeOK, Lib!BoData, Lib!UsageBit, Proved!TypeOK, Proved!BoData, Proved!UsageBit
<1>2. Lib!RegistryInv <=> Proved!RegistryInv
  BY DEF Lib!RegistryInv, Lib!EntriesExist, Lib!EntriesUnshared, Lib!NoneLeaks, Lib!DataOwned, Lib!Registered,
         Proved!RegistryInv, Proved!EntriesExist, Proved!EntriesUnshared, Proved!NoneLeaks, Proved!DataOwned,
         Proved!Registered
<1>3. Lib!LockInv <=> Proved!LockInv
  BY DEF Lib!LockInv, Lib!WellLocked, Lib!MapAccess, Lib!SwBits,
         Proved!LockInv, Proved!WellLocked, Proved!MapAccess, Proved!SwBits
<1>4. Lib!Next <=> Proved!Next
  BY DEF Lib!Next, Lib!InitDevice, Lib!Allocate, Lib!Import, Lib!Free, Lib!Lock, Lib!LockYcbcr, Lib!Unlock,
         Lib!gralloc_gbm_device_init, Lib!gralloc_allocate, Lib!gralloc_gm_buffer_import, Lib!CanImport,
         Lib!gralloc_gm_buffer_free, Lib!gralloc_gbm_bo_lock, Lib!gralloc_gbm_bo_lock_ycbcr, Lib!gralloc_gbm_bo_unlock,
         Lib!NewBo, Lib!Emplace, Lib!Crash, Lib!SetData, Lib!TakeLock, Lib!Compatible, Lib!UsageAccepted, Lib!DataOf,
         Lib!NewData, Lib!Unlocked, Lib!MapAccess, Lib!SwBits, Lib!UsageBit, Lib!HandleInfo, Lib!ErrCode, Lib!OK,
         Lib!libVars,
         Proved!Next, Proved!InitDevice, Proved!Allocate, Proved!Import, Proved!Free, Proved!Lock, Proved!LockYcbcr,
         Proved!Unlock,
         Proved!gralloc_gbm_device_init, Proved!gralloc_allocate, Proved!gralloc_gm_buffer_import, Proved!CanImport,
         Proved!gralloc_gm_buffer_free, Proved!gralloc_gbm_bo_lock, Proved!gralloc_gbm_bo_lock_ycbcr,
         Proved!gralloc_gbm_bo_unlock,
         Proved!NewBo, Proved!Emplace, Proved!Crash, Proved!SetData, Proved!TakeLock, Proved!Compatible,
         Proved!UsageAccepted, Proved!DataOf, Proved!NewData, Proved!Unlocked, Proved!MapAccess, Proved!SwBits,
         Proved!UsageBit, Proved!HandleInfo, Proved!ErrCode, Proved!OK, Proved!libVars
<1> QED BY <1>1, <1>2, <1>3, <1>4

\* What GrallocGbm_proofs takes for granted of the constants.
LEMMA LibraryAssumed ==
  /\ NoBo \notin Bo /\ NoFd \notin Fd /\ NoData \notin Proved!BoData
  /\ KnownFormat \subseteq Format /\ YuvFormat \subseteq Format
  /\ LaxHw \subseteq HwBits
  /\ StaleErrno \subseteq Proved!ErrCode
  /\ MaxLocks \in Nat \ {0}
<1>1. Lib!BoData = Proved!BoData /\ Lib!ErrCode = Proved!ErrCode
  BY DEF Lib!BoData, Lib!UsageBit, Lib!ErrCode, Lib!OK, Proved!BoData, Proved!UsageBit, Proved!ErrCode, Proved!OK
<1> QED BY <1>1, HalAssumption

\* A call of the library keeps its registry and its locks in order.
LEMMA LibStepKeeps ==
  ASSUME Lib!TypeOK, Lib!Next
  PROVE  /\ Lib!RegistryInv => Lib!RegistryInv'
         /\ Lib!LockInv => Lib!LockInv'
<1>1. Proved!TypeOK /\ Proved!Next
  BY SameLibrary
<1>2. Proved!RegistryInv => Proved!RegistryInv'
  BY <1>1, LibraryAssumed, Proved!NextRegistryInv
<1>3. Proved!LockInv => Proved!LockInv'
  BY <1>1, LibraryAssumed, Proved!NextLockInv
<1>4. /\ Lib!RegistryInv <=> Proved!RegistryInv
      /\ Lib!LockInv <=> Proved!LockInv
  BY SameLibrary
<1>5. Lib!RegistryInv' <=> Proved!RegistryInv'
  BY DEF Lib!RegistryInv, Lib!EntriesExist, Lib!EntriesUnshared, Lib!NoneLeaks, Lib!DataOwned, Lib!Registered,
         Proved!RegistryInv, Proved!EntriesExist, Proved!EntriesUnshared, Proved!NoneLeaks, Proved!DataOwned,
         Proved!Registered
<1>6. Lib!LockInv' <=> Proved!LockInv'
  BY DEF Lib!LockInv, Lib!WellLocked, Lib!MapAccess, Lib!SwBits,
         Proved!LockInv, Proved!WellLocked, Proved!MapAccess, Proved!SwBits
<1> QED BY <1>2, <1>3, <1>4, <1>5, <1>6

\* Descriptor 0 stays in use, or stays closed.
LEMMA StdinKept ==
  ASSUME [HalNext]_halVars
  PROVE  stdin' = stdin
<1>1. CASE UNCHANGED halVars
  BY <1>1 DEF halVars, deviceVars
<1>2. \A ret : (WithDevice(ret) \/ device_init(ret)) => stdin' = stdin
  BY DEF WithDevice, device_init, deviceVars
<1>3. \A t \in Thread : CallStep(t) => stdin' = stdin
  BY <1>2 DEF CallStep, OpenDevice, CreateDeviceStep, ShareDevice, Perform, RegisterBuffer, Wait, AllocBuffer,
              LockBuffer, deviceVars
<1>4. \A t \in Thread, h \in Handle : Unlock(t, h) \/ UnregisterBuffer(t, h) \/ FreeBuffer(t, h) => stdin' = stdin
  BY DEF Unlock, UnregisterBuffer, FreeBuffer, Release, deviceVars
<1>5. \A t \in Thread : /\ \A name \in InitOps, h \in Handle \cup {NoHandle} : Begin(t, name, h) => stdin' = stdin
                        /\ \A name \in LockOps, h \in Handle, f \in Fence \cup {NoFence} :
                             BeginLock(t, name, h, f) => stdin' = stdin
                        /\ EnterInit(t) => stdin' = stdin
  BY DEF Begin, BeginLock, EnterInit, deviceVars
<1>6. /\ \A h \in Handle : CloseHandle(h) \/ (\E i \in Info : ReceiveHandle(h, i)) => stdin' = stdin
      /\ \A f \in Fence : FenceStep(f) => stdin' = stdin
      /\ ToggleAllocDevice \/ Exit => stdin' = stdin
  BY DEF CloseHandle, ReceiveHandle, FenceStep, ToggleAllocDevice, Exit, CleanupAll, deviceVars
<1>7. CASE HalNext
  BY <1>3, <1>4, <1>5, <1>6, <1>7 DEF HalNext
<1> QED BY <1>1, <1>7

\* The registry and the locks inside the HAL, in a process with descriptor 0 in
\* use: what holds of GrallocGbm holds here.
LibraryInv == stdin => Lib!RegistryInv /\ Lib!LockInv

\* No two handles share a buffer object, none leaks, and an object is mapped
\* exactly while one lock for software access is held, with any number of
\* threads in the module.
THEOREM HalKeepsLibrary == HalSpec => []LibraryInv
<1>1. HalInit => LibraryInv
  BY DEF HalInit, LibraryInv, Lib!RegistryInv, Lib!EntriesExist, Lib!EntriesUnshared, Lib!NoneLeaks, Lib!DataOwned,
         Lib!LockInv
<1>2. HalInv /\ LibraryInv /\ [HalNext]_halVars => LibraryInv'
  <2> SUFFICES ASSUME HalInv, Lib!RegistryInv, Lib!LockInv, [HalNext]_halVars, stdin
               PROVE  Lib!RegistryInv' /\ Lib!LockInv'
    BY StdinKept DEF LibraryInv
  <2>1. CASE Lib!Next
    <3>1. Lib!TypeOK
      BY DEF HalInv, HalTyped, Lib!TypeOK
    <3> QED BY <2>1, <3>1, LibStepKeeps
  <2>2. CASE UNCHANGED libState
    BY <2>2 DEF libState, Lib!RegistryInv, Lib!EntriesExist, Lib!EntriesUnshared, Lib!NoneLeaks, Lib!DataOwned,
                Lib!Registered, Lib!LockInv
  <2>3. Exit => UNCHANGED libState
    BY DEF Exit
  <2>4. UNCHANGED Lib!libVars => UNCHANGED libState
    BY DEF Lib!libVars, libState
  <2> QED BY <2>1, <2>2, <2>3, <2>4, StepIsLibStep
<1> QED BY <1>1, <1>2, HalInvariant, PTL DEF HalSpec

=============================================================================
