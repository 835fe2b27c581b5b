------------------------------ MODULE GbmDevice ------------------------------
(***************************************************************************)
(* The GBM device of libgralloc_gm and the DRM descriptors it is opened    *)
(* on: gralloc_gbm_device_init, gralloc_gbm_device_create, the library's   *)
(* destructor, and the gbm_device_destroy() of a front end that shares it. *)
(* Descriptors are numbers, since the code compares them with 0: open()    *)
(* returns the lowest that is free, which is 0 in a process that runs      *)
(* with its standard input closed.                                         *)
(***************************************************************************)
EXTENDS Integers, FiniteSets

CONSTANTS
  MaxFd,    \* bound on descriptor numbers
  MaxDevice \* bound on the devices ever created

ASSUME DeviceAssumption == MaxFd \in Nat /\ MaxDevice \in Nat

DevOK == "0"
NullDev == 0

VARIABLES
  stdin,       \* TRUE: descriptor 0 is in use, as in any ordinary process
  drm_fds,     \* the open DRM descriptors
  _gbm_dev_fd,
  _gbm_dev,
  devices,     \* the gbm_device objects that exist
  made,        \* how many were ever created
  failures,    \* initialisations that opened a descriptor and got no device
  destroyed_twice

deviceVars == <<stdin, drm_fds, _gbm_dev_fd, _gbm_dev, devices, made, failures, destroyed_twice>>

DeviceTypeOK ==
  /\ stdin \in BOOLEAN
  /\ drm_fds \in SUBSET (0..MaxFd)
  /\ _gbm_dev_fd \in -1..MaxFd
  /\ _gbm_dev \in 0..MaxDevice
  /\ devices \in SUBSET (1..MaxDevice)
  /\ made \in 0..MaxDevice
  /\ failures \in Nat
  /\ destroyed_twice \in BOOLEAN

DeviceInit ==
  /\ stdin \in BOOLEAN
  /\ drm_fds = {}
  /\ _gbm_dev_fd = -1
  /\ _gbm_dev = NullDev
  /\ devices = {}
  /\ made = 0
  /\ failures = 0
  /\ destroyed_twice = FALSE

\* Fault: an existing device is not reused.
NeverReused == FALSE

Reusable == _gbm_dev_fd > 0 /\ _gbm_dev # NullDev

\* gbm_create_device(fd) makes a device, or fails and the library forgets the
\* one it may have had.
CreateDevice(fd, ret) ==
  \/ /\ made < MaxDevice
     /\ ret = DevOK
     /\ made' = made + 1
     /\ devices' = devices \cup {made + 1}
     /\ _gbm_dev' = made + 1
     /\ _gbm_dev_fd' = fd
  \/ /\ ret = "EINVAL"
     /\ _gbm_dev' = NullDev
     /\ _gbm_dev_fd' = -1
     /\ UNCHANGED <<made, devices>>

\* The device, not the descriptors.
gralloc_gbm_device_create(fd, ret) ==
  \/ Reusable /\ ret = DevOK /\ UNCHANGED <<_gbm_dev_fd, _gbm_dev, devices, made>>
  \/ ~Reusable /\ fd < 0 /\ ret = "EINVAL" /\ UNCHANGED <<_gbm_dev_fd, _gbm_dev, devices, made>>
  \/ ~Reusable /\ fd >= 0 /\ CreateDevice(fd, ret)

FreeFds == (IF stdin THEN 1 ELSE 0)..MaxFd \ drm_fds
LowestFree == CHOOSE f \in FreeFds : \A g \in FreeFds : f <= g

\* The descriptor opened stays open, whether a device is made on it, an existing
\* one is reused or none can be created.  A caller that succeeds gets
\* _gbm_dev_fd'.
device_init(ret) ==
  \/ ret = "EINVAL" /\ UNCHANGED deviceVars
  \/ /\ FreeFds # {}
     /\ drm_fds' = drm_fds \cup {LowestFree}
     /\ gralloc_gbm_device_create(LowestFree, ret)
     /\ failures' = IF ret = DevOK THEN failures ELSE failures + 1
     /\ UNCHANGED <<stdin, destroyed_twice>>

\* gbm_device_destroy() of each pointer of the sequence, in turn.
DestroyAll(ptrs) ==
  LET live == {i \in DOMAIN ptrs : ptrs[i] # NullDev} IN
  /\ devices' = devices \ {ptrs[i] : i \in live}
  /\ destroyed_twice' =
       (destroyed_twice \/ (\E i \in live : ptrs[i] \notin devices \/ \E j \in live : j < i /\ ptrs[j] = ptrs[i]))

\* _cleanup_all, after the front end's own destructor has destroyed shared.
CleanupAll(shared) ==
  /\ DestroyAll(<<shared, _gbm_dev>>)
  /\ _gbm_dev_fd' = -1
  /\ _gbm_dev' = NullDev
  /\ UNCHANGED <<stdin, drm_fds, made, failures>>

=============================================================================
