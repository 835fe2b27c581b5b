----------------------------- MODULE GrallocGbm -----------------------------
(***************************************************************************)
(* libgralloc_gm (src/src/gralloc_gbm_mesa.cpp): the GBM device, the map   *)
(* from native handles to GBM buffer objects, and the CPU-lock state every *)
(* buffer object carries as its GBM user data.                             *)
(*                                                                         *)
(* One operator per entry point.  Each is an action whose last parameter   *)
(* is the error code the call returns, so that a front end (MapperV5)      *)
(* conjoins it with what it does with that code.  A call is one step: this *)
(* module is about sequences of calls; LockThreads splits lock and unlock  *)
(* into the accesses of concurrent threads.  The device's file descriptor  *)
(* is taken to be positive, as it is in a process whose standard streams   *)
(* are open: then gralloc_gbm_device_create reuses an existing device.     *)
(***************************************************************************)
EXTENDS Integers

CONSTANTS
  Handle,      \* addresses native_handle_create() can return
  Bo,          \* addresses of struct gbm_bo
  NoBo,        \* the null struct gbm_bo *
  NoData,      \* the null bo_data_t *
  Fd,          \* file descriptor numbers
  NoFd,        \* -1
  Format,      \* Android pixel formats a handle may carry
  KnownFormat, \* those with a GBM equivalent
  YuvFormat,   \* those gralloc_gbm_bo_lock_ycbcr can lay out
  ReadBits,    \* bits of GRALLOC_USAGE_SW_READ_MASK (those of SW_READ_OFTEN)
  WriteBits,   \* bits of GRALLOC_USAGE_SW_WRITE_MASK
  HwBits,      \* the other usage bits
  LaxHw,       \* GRALLOC_USAGE_HW_FB and GRALLOC_USAGE_HW_TEXTURE
  StaleErrno,  \* values errno may hold when a call starts: no call resets it
  MaxLocks     \* bound on bo_data->lock_count

OK == "0"
ErrCode == {OK, "EINVAL", "ENOMEM", "ETIME"}

UsageBit == ReadBits \cup WriteBits \cup HwBits
SwBits == ReadBits \cup WriteBits

\* The fields of struct gralloc_handle_t that the library reads.
HandleInfo ==
  [prime_fd : Fd \cup {NoFd}, format : Format, usage : SUBSET UsageBit]

\* struct bo_data; map_data is abstracted to the access the mapping grants.
BoData ==
  [map_data : {"none", "r", "rw"}, lock_count : 0..MaxLocks, locked_for : SUBSET UsageBit]

ASSUME GrallocAssumption ==
  /\ NoBo \notin Bo
  /\ NoFd \notin Fd
  /\ NoData \notin BoData
  /\ KnownFormat \subseteq Format
  /\ YuvFormat \subseteq Format
  /\ LaxHw \subseteq HwBits
  /\ StaleErrno \subseteq ErrCode
  /\ MaxLocks \in Nat \ {0}

VARIABLES
  gbm_dev,            \* TRUE once _gbm_dev points to a device
  gbm_bo_handle_map,  \* [Handle -> Bo or NoBo], NoBo: no entry
  bos,                \* the gbm_bo objects that exist
  user_data,          \* gbm_bo_get_user_data() of each gbm_bo
  crashed             \* TRUE once the process has dereferenced an invalid pointer

libVars == <<gbm_dev, gbm_bo_handle_map, bos, user_data, crashed>>

TypeOK ==
  /\ gbm_dev \in BOOLEAN
  /\ gbm_bo_handle_map \in [Handle -> Bo \cup {NoBo}]
  /\ bos \in SUBSET Bo
  /\ user_data \in [Bo -> BoData \cup {NoData}]
  /\ crashed \in BOOLEAN

Init ==
  /\ gbm_dev = FALSE
  /\ gbm_bo_handle_map = [h \in Handle |-> NoBo]
  /\ bos = {}
  /\ user_data = [b \in Bo |-> NoData]
  /\ crashed = FALSE

-----------------------------------------------------------------------------
(* The device and the registry of buffer objects. *)

\* open() or gbm_create_device() may fail; an existing device is reused.
gralloc_gbm_device_init(err) ==
  /\ \/ err = OK /\ gbm_dev' = TRUE
     \/ err = "EINVAL" /\ gbm_dev' = gbm_dev
  /\ UNCHANGED <<gbm_bo_handle_map, bos, user_data, crashed>>

\* std::unordered_map::emplace: an existing entry is kept.
Emplace(h, b) ==
  gbm_bo_handle_map' =
    IF gbm_bo_handle_map[h] = NoBo THEN [gbm_bo_handle_map EXCEPT ![h] = b]
                                   ELSE gbm_bo_handle_map

\* gbm_bo_create() or gbm_bo_import() returned the new object b.
NewBo(h, b) ==
  /\ b \notin bos
  /\ bos' = bos \cup {b}
  /\ Emplace(h, b)
  /\ UNCHANGED <<gbm_dev, user_data, crashed>>

Crash ==
  /\ crashed' = TRUE
  /\ UNCHANGED <<gbm_dev, gbm_bo_handle_map, bos, user_data>>

\* h is the address native_handle_create() returned, out_handle on success.
\* Every descriptor is supported; no memory for the handle or no buffer object
\* (then -errno as gbm_bo_create() left it) changes nothing.  Without a device
\* the local dev is read uninitialised: null is reported, anything else is
\* dereferenced.
gralloc_allocate(h, b, err) ==
  \/ err = OK /\ gbm_dev /\ NewBo(h, b)
  \/ err \in {"EINVAL", "ENOMEM"} /\ UNCHANGED libVars
  \/ err = OK /\ ~gbm_dev /\ Crash

\* Fault: the "Duplicated buffer" test is missing.
CanImportAgain(h, hnd) ==
  gbm_dev /\ hnd.prime_fd # NoFd /\ hnd.format \in KnownFormat

CanImport(h, hnd) ==
  /\ gbm_bo_handle_map[h] = NoBo
  /\ gbm_dev
  /\ hnd.prime_fd # NoFd
  /\ hnd.format \in KnownFormat

gralloc_gm_buffer_import(h, hnd, b, err) ==
  \/ err = OK /\ CanImport(h, hnd) /\ NewBo(h, b)
  \/ err = "EINVAL" /\ UNCHANGED libVars

\* Fault: the object is destroyed but stays in the map.
FreeKeepsEntry(h, errno, err) ==
  LET b == gbm_bo_handle_map[h] IN
  \/ b = NoBo /\ err = errno /\ UNCHANGED libVars
  \/ /\ b # NoBo
     /\ err = OK
     /\ bos' = bos \ {b}
     /\ user_data' = [user_data EXCEPT ![b] = NoData]
     /\ UNCHANGED <<gbm_dev, gbm_bo_handle_map, crashed>>

\* An unknown handle returns -errno, and nothing on that path sets errno.
\* Otherwise the entry goes, and gbm_bo_destroy() deletes the bo_data.
gralloc_gm_buffer_free(h, errno, err) ==
  LET b == gbm_bo_handle_map[h] IN
  \/ b = NoBo /\ err = errno /\ UNCHANGED libVars
  \/ /\ b # NoBo
     /\ err = OK
     /\ gbm_bo_handle_map' = [gbm_bo_handle_map EXCEPT ![h] = NoBo]
     /\ bos' = bos \ {b}
     /\ user_data' = [user_data EXCEPT ![b] = NoData]
     /\ UNCHANGED <<gbm_dev, crashed>>

-----------------------------------------------------------------------------
(* CPU locks. *)

NewData == [map_data |-> "none", lock_count |-> 0, locked_for |-> {}]

\* The bo_data that gralloc_gbm_bo_lock works on: made at the first lock.
DataOf(b) == IF user_data[b] = NoData THEN NewData ELSE user_data[b]

\* A lock may ask for usage the buffer was not allocated with only when the
\* buffer is software-readable, a framebuffer or a texture.
UsageAccepted(have, usage) ==
  usage \subseteq have \/ have \cap (ReadBits \cup LaxHw) # {}

\* Fault: a nested lock may widen the usage.
AlwaysCompatible(d, usage) == TRUE

Compatible(d, usage) == d.lock_count = 0 \/ usage \subseteq d.locked_for

MapAccess(usage) == IF usage \cap WriteBits # {} THEN "rw" ELSE "r"

SetData(b, d) ==
  /\ user_data' = [user_data EXCEPT ![b] = d]
  /\ UNCHANGED <<gbm_dev, gbm_bo_handle_map, bos, crashed>>

\* The rest of gralloc_gbm_bo_lock once the lock is known to be compatible;
\* usage includes d.locked_for.  Only software usage maps the object:
\* gralloc_gbm_map refuses one that is mapped, and gbm_bo_map() may fail.
TakeLock(b, d, usage, err) ==
  LET Locked(map) == [map_data |-> map, lock_count |-> d.lock_count + 1,
                      locked_for |-> d.locked_for \cup usage]
      Software == usage \cap SwBits # {}
  IN
  \/ ~Software /\ d.lock_count < MaxLocks /\ err = OK /\ SetData(b, Locked(d.map_data))
  \/ /\ Software
     /\ \/ d.map_data # "none" /\ err = "EINVAL" /\ SetData(b, d)
        \/ d.map_data = "none" /\ err = "ENOMEM" /\ SetData(b, d)
        \/ /\ d.map_data = "none" /\ d.lock_count < MaxLocks
           /\ err = OK
           /\ SetData(b, Locked(MapAccess(usage)))

gralloc_gbm_bo_lock(h, hnd, usage, err) ==
  LET b == gbm_bo_handle_map[h]
      Refused == b = NoBo \/ ~UsageAccepted(hnd.usage, usage)
      d == DataOf(b)
  IN
  \/ Refused /\ err = "EINVAL" /\ UNCHANGED libVars
  \/ ~Refused /\ ~Compatible(d, usage) /\ err = "EINVAL" /\ SetData(b, d)
  \/ ~Refused /\ Compatible(d, usage) /\ TakeLock(b, d, usage \cup d.locked_for, err)

\* The format is looked at after the lock has been taken.
gralloc_gbm_bo_lock_ycbcr(h, hnd, usage, err) ==
  \E e \in ErrCode :
    /\ gralloc_gbm_bo_lock(h, hnd, usage, e)
    /\ err = IF e = OK /\ hnd.format \notin YuvFormat THEN "EINVAL" ELSE e

\* Fault: locked_for is never cleared.
UnlockedKeepsUsage(d) ==
  [d EXCEPT !.map_data = IF d.locked_for \cap SwBits # {} THEN "none" ELSE @,
            !.lock_count = @ - 1]

\* gralloc_gbm_unmap and the bookkeeping after it.
Unlocked(d) ==
  [map_data   |-> IF d.locked_for \cap SwBits # {} THEN "none" ELSE d.map_data,
   lock_count |-> d.lock_count - 1,
   locked_for |-> IF d.lock_count = 1 THEN {} ELSE d.locked_for]

\* Fault: a buffer that is already unlocked is not recognised.
UnlockUnchecked(h, err) ==
  LET b == gbm_bo_handle_map[h] IN
  \/ b = NoBo /\ err = "EINVAL" /\ UNCHANGED libVars
  \/ b # NoBo /\ user_data[b] = NoData /\ err = OK /\ Crash
  \/ b # NoBo /\ user_data[b] # NoData /\ err = OK /\ SetData(b, Unlocked(user_data[b]))

\* bo_data is null until the first lock, and read unconditionally.
gralloc_gbm_bo_unlock(h, err) ==
  LET b == gbm_bo_handle_map[h] IN
  \/ b = NoBo /\ err = "EINVAL" /\ UNCHANGED libVars
  \/ /\ b # NoBo
     /\ user_data[b] = NoData
     /\ err = OK
     /\ Crash
  \/ /\ b # NoBo
     /\ user_data[b] # NoData
     /\ err = OK
     /\ \/ user_data[b].lock_count = 0 /\ UNCHANGED libVars
        \/ user_data[b].lock_count # 0 /\ SetData(b, Unlocked(user_data[b]))

-----------------------------------------------------------------------------
(* Any sequence of calls by a client that deletes a handle only once it is *)
(* unregistered, so that the address of a new handle is not in the map.    *)

Allocate == \E h \in Handle, b \in Bo, err \in ErrCode :
              gbm_bo_handle_map[h] = NoBo /\ gralloc_allocate(h, b, err)
Import   == \E h \in Handle, hnd \in HandleInfo, b \in Bo, err \in ErrCode :
              gralloc_gm_buffer_import(h, hnd, b, err)
Free     == \E h \in Handle, errno \in StaleErrno, err \in ErrCode :
              gralloc_gm_buffer_free(h, errno, err)
Lock     == \E h \in Handle, hnd \in HandleInfo, usage \in SUBSET UsageBit, err \in ErrCode :
              gralloc_gbm_bo_lock(h, hnd, usage, err)
LockYcbcr == \E h \in Handle, hnd \in HandleInfo, usage \in SUBSET UsageBit, err \in ErrCode :
              gralloc_gbm_bo_lock_ycbcr(h, hnd, usage, err)
Unlock   == \E h \in Handle, err \in ErrCode : gralloc_gbm_bo_unlock(h, err)
InitDevice == \E err \in ErrCode : gralloc_gbm_device_init(err)

Next ==
  /\ ~crashed
  /\ \/ InitDevice
     \/ Allocate
     \/ Import
     \/ Free
     \/ Lock
     \/ LockYcbcr
     \/ Unlock

Spec == Init /\ [][Next]_libVars

-----------------------------------------------------------------------------
(* Properties. *)

Registered(b) == \E h \in Handle : gbm_bo_handle_map[h] = b

\* gbm_bo_handle_map owns the buffer objects (every registration is undone
\* exactly once, by gralloc_gm_buffer_free): an entry points to an object that
\* exists, no two handles share one, every object that exists is in the map
\* (none leaks), and user data lives no longer than its object.
EntriesExist == \A h \in Handle : gbm_bo_handle_map[h] # NoBo => gbm_bo_handle_map[h] \in bos
EntriesUnshared ==
  \A h1, h2 \in Handle :
    gbm_bo_handle_map[h1] = gbm_bo_handle_map[h2] /\ gbm_bo_handle_map[h1] # NoBo => h1 = h2
NoneLeaks == \A b \in bos : Registered(b)
DataOwned == \A b \in Bo \ bos : user_data[b] = NoData

RegistryInv == EntriesExist /\ EntriesUnshared /\ NoneLeaks /\ DataOwned

WellLocked(d) ==
  /\ d.lock_count = 0 => d.locked_for = {}
  /\ d.map_data = IF d.locked_for \cap SwBits = {} THEN "none" ELSE MapAccess(d.locked_for)
  /\ d.map_data # "none" => d.lock_count = 1

\* What makes the single map_data pointer of bo_data_t enough: an object is
\* mapped exactly while it is locked for software access, by one lock only,
\* so that gralloc_gbm_bo_unlock never unmaps what another lock still uses.
LockInv == \A b \in Bo : user_data[b] # NoData => WellLocked(user_data[b])

\* While an object stays locked the usage it is locked for does not change:
\* later locks ask for a part of it, and only the last unlock clears it.
LockedForIsStable ==
  [][\A b \in Bo :
       /\ user_data[b] # NoData
       /\ user_data'[b] # NoData
       /\ user_data[b].lock_count > 0
       /\ user_data'[b].lock_count > 0
       => user_data'[b].locked_for = user_data[b].locked_for]_libVars

=============================================================================
