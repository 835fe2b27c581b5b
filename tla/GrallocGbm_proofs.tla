-------------------------- MODULE GrallocGbm_proofs --------------------------
(***************************************************************************)
(* Theorems about GrallocGbm for any handles, buffer objects, usage bits   *)
(* and bound on locks.  First what a step may do (NextCases), then what a  *)
(* lock and an unlock do to one bo_data, then the theorems.                *)
(***************************************************************************)
EXTENDS GrallocGbm, TLAPS

\* A lock that succeeds on the bo_data d leaves d1.
LockTaken(d, d1) ==
  \E usage \in SUBSET UsageBit :
    LET all == usage \cup d.locked_for IN
    /\ Compatible(d, usage)
    /\ d.lock_count < MaxLocks
    /\ d1 = [map_data   |-> IF all \cap SwBits = {} THEN d.map_data ELSE MapAccess(all),
             lock_count |-> d.lock_count + 1,
             locked_for |-> d.locked_for \cup all]
    /\ all \cap SwBits # {} => d.map_data = "none"

\* The bo_data d1 that a lock or an unlock of the object b may leave: the one
\* there was (a new one at a first lock that fails), a locked or an unlocked one.
DataStep(b, d1) ==
  \/ d1 = DataOf(b)
  \/ LockTaken(DataOf(b), d1)
  \/ user_data[b] # NoData /\ user_data[b].lock_count # 0 /\ d1 = Unlocked(user_data[b])

\* gralloc_gm_buffer_free() of a registered handle.
Destroyed(h) ==
  LET b == gbm_bo_handle_map[h] IN
  /\ b # NoBo
  /\ gbm_bo_handle_map' = [gbm_bo_handle_map EXCEPT ![h] = NoBo]
  /\ bos' = bos \ {b}
  /\ user_data' = [user_data EXCEPT ![b] = NoData]
  /\ UNCHANGED <<gbm_dev, crashed>>

\* Every step of the library is one of these, whatever call makes it.
LibStep ==
  \/ gbm_dev' \in BOOLEAN /\ UNCHANGED <<gbm_bo_handle_map, bos, user_data, crashed>>
  \/ Crash
  \/ \E h \in Handle, b \in Bo : gbm_bo_handle_map[h] = NoBo /\ NewBo(h, b)
  \/ \E h \in Handle : Destroyed(h)
  \/ \E h \in Handle, d \in BoData :
       LET b == gbm_bo_handle_map[h] IN b # NoBo /\ DataStep(b, d) /\ SetData(b, d)

-----------------------------------------------------------------------------
(* One bo_data. *)

\* The bo_data of a first lock is unlocked and unmapped.
LEMMA NewDataOK == NewData \in BoData /\ WellLocked(NewData)
  BY GrallocAssumption DEF NewData, BoData, WellLocked, SwBits

\* A successful lock keeps a bo_data well formed; when the buffer was locked
\* already, for the same usage.
LEMMA LockTakenOK ==
  ASSUME NEW d \in BoData, NEW d1, LockTaken(d, d1)
  PROVE  /\ d1 \in BoData
         /\ WellLocked(d) => WellLocked(d1)
         /\ d.lock_count > 0 => d1.locked_for = d.locked_for
<1>1. PICK usage \in SUBSET UsageBit :
        LET all == usage \cup d.locked_for IN
        /\ Compatible(d, usage)
        /\ d.lock_count < MaxLocks
        /\ d1 = [map_data   |-> IF all \cap SwBits = {} THEN d.map_data ELSE MapAccess(all),
                 lock_count |-> d.lock_count + 1,
                 locked_for |-> d.locked_for \cup all]
        /\ all \cap SwBits # {} => d.map_data = "none"
  BY DEF LockTaken
<1> DEFINE all == usage \cup d.locked_for
<1>2. /\ d.map_data \in {"none", "r", "rw"}
      /\ d.lock_count \in 0..MaxLocks
      /\ d.locked_for \subseteq UsageBit
      /\ MaxLocks \in Nat
  BY GrallocAssumption DEF BoData
<1>3. MapAccess(all) \in {"r", "rw"}
  BY DEF MapAccess
<1>4. d1 \in BoData
  BY <1>1, <1>2, <1>3 DEF BoData
<1>5. d.lock_count > 0 => all = d.locked_for
  BY <1>1, <1>2 DEF Compatible
<1>6. d1.locked_for = all
  BY <1>1
<1>7. ASSUME WellLocked(d) PROVE WellLocked(d1)
  <2>1. CASE all \cap SwBits = {}
    <3>1. d.locked_for \cap SwBits = {}
      BY <2>1
    <3>2. d1.map_data = "none" /\ d1.lock_count = d.lock_count + 1
      BY <1>1, <1>7, <2>1, <3>1 DEF WellLocked
    <3> QED BY <1>2, <1>6, <2>1, <3>2 DEF WellLocked
  <2>2. CASE all \cap SwBits # {}
    <3>1. d.map_data = "none"
      BY <1>1, <2>2
    <3>2. d.locked_for \cap SwBits = {}
      BY <1>7, <3>1 DEF WellLocked, MapAccess
    <3>3. d.lock_count = 0
      BY <1>2, <1>5, <2>2, <3>2
    <3>4. d1.lock_count = 1 /\ d1.map_data = MapAccess(all)
      BY <1>1, <2>2, <3>3
    <3> QED BY <1>6, <2>2, <3>4 DEF WellLocked
  <2> QED BY <2>1, <2>2
<1> QED BY <1>4, <1>5, <1>6, <1>7

\* So does an unlock; the usage stays until the last one.
LEMMA UnlockedOK ==
  ASSUME NEW d \in BoData, d.lock_count # 0
  PROVE  /\ Unlocked(d) \in BoData
         /\ WellLocked(d) => WellLocked(Unlocked(d))
         /\ Unlocked(d).lock_count > 0 => Unlocked(d).locked_for = d.locked_for
<1>1. /\ d.map_data \in {"none", "r", "rw"}
      /\ d.lock_count \in 1..MaxLocks
      /\ d.locked_for \subseteq UsageBit
      /\ MaxLocks \in Nat
  BY GrallocAssumption DEF BoData
<1> DEFINE e == Unlocked(d)
<1>2. /\ e.map_data = IF d.locked_for \cap SwBits # {} THEN "none" ELSE d.map_data
      /\ e.lock_count = d.lock_count - 1
      /\ e.locked_for = IF d.lock_count = 1 THEN {} ELSE d.locked_for
  BY DEF Unlocked
<1>3. e \in BoData
  BY <1>1 DEF Unlocked, BoData
<1>4. e.lock_count > 0 => e.locked_for = d.locked_for
  BY <1>1, <1>2
<1>5. ASSUME WellLocked(d) PROVE WellLocked(e)
  <2>1. e.lock_count = 0 => e.locked_for = {}
    BY <1>1, <1>2
  <2>2. CASE d.locked_for \cap SwBits = {}
    BY <1>2, <1>5, <2>1, <2>2 DEF WellLocked
  <2>3. CASE d.locked_for \cap SwBits # {}
    <3>1. d.lock_count = 1
      BY <1>5, <2>3 DEF WellLocked, MapAccess
    <3> QED BY <1>2, <2>1, <2>3, <3>1 DEF WellLocked
  <2> QED BY <2>2, <2>3
<1> HIDE DEF e
<1> QED BY <1>3, <1>4, <1>5 DEF e

-----------------------------------------------------------------------------
(* The steps. *)

\* The bo_data of a registered object, made on demand, has its type.
LEMMA DataOfOK ==
  ASSUME TypeOK, NEW b \in Bo
  PROVE  DataOf(b) \in BoData /\ (LockInv => WellLocked(DataOf(b)))
BY NewDataOK DEF TypeOK, LockInv, DataOf

\* A lock, whatever it returns, is a step of the library.
LEMMA LockIsLibStep ==
  ASSUME TypeOK, NEW h \in Handle, NEW hnd, NEW usage \in SUBSET UsageBit, NEW err,
         gralloc_gbm_bo_lock(h, hnd, usage, err)
  PROVE  LibStep \/ UNCHANGED libVars
<1> DEFINE b == gbm_bo_handle_map[h]
           d == DataOf(b)
           all == usage \cup d.locked_for
           locked(map) == [map_data |-> map, lock_count |-> d.lock_count + 1,
                           locked_for |-> d.locked_for \cup all]
<1>1. CASE UNCHANGED libVars
  BY <1>1
<1>2. CASE b # NoBo
  <2>1. b \in Bo
    BY <1>2 DEF TypeOK
  <2>2. d \in BoData
    BY <2>1, DataOfOK
  <2>3. ASSUME SetData(b, d) PROVE LibStep
    BY <1>2, <2>2, <2>3 DEF LibStep, DataStep
  <2>4. ASSUME NEW d1, LockTaken(d, d1), SetData(b, d1) PROVE LibStep
    <3>1. d1 \in BoData
      BY <2>2, <2>4, LockTakenOK
    <3> QED BY <1>2, <2>4, <3>1 DEF LibStep, DataStep
  <2>5. CASE Compatible(d, usage) /\ TakeLock(b, d, all, err)
    <3>1. CASE SetData(b, d)
      BY <2>3, <3>1
    <3>2. CASE all \cap SwBits = {} /\ d.lock_count < MaxLocks /\ SetData(b, locked(d.map_data))
      <4>1. LockTaken(d, locked(d.map_data))
        BY <2>5, <3>2 DEF LockTaken
      <4> QED BY <2>4, <3>2, <4>1
    <3>3. CASE /\ all \cap SwBits # {}
               /\ d.map_data = "none"
               /\ d.lock_count < MaxLocks
               /\ SetData(b, locked(MapAccess(all)))
      <4>1. LockTaken(d, locked(MapAccess(all)))
        BY <2>5, <3>3 DEF LockTaken
      <4> QED BY <2>4, <3>3, <4>1
    <3> QED BY <2>5, <3>1, <3>2, <3>3 DEF TakeLock
  <2> QED BY <1>1, <2>3, <2>5 DEF gralloc_gbm_bo_lock
<1> QED BY <1>1, <1>2 DEF gralloc_gbm_bo_lock

\* Every call of the library makes one of the steps of LibStep, or none.
LEMMA NextIsLibStep ==
  ASSUME TypeOK, Next
  PROVE  LibStep \/ UNCHANGED libVars
<1>1. CASE InitDevice
  BY <1>1 DEF InitDevice, gralloc_gbm_device_init, LibStep, TypeOK
<1>2. CASE Allocate
  BY <1>2 DEF Allocate, gralloc_allocate, LibStep
<1>3. CASE Import
  BY <1>3 DEF Import, gralloc_gm_buffer_import, CanImport, LibStep
<1>4. CASE Free
  BY <1>4 DEF Free, gralloc_gm_buffer_free, Destroyed, LibStep
<1>5. CASE Lock
  BY <1>5, LockIsLibStep DEF Lock
<1>6. CASE LockYcbcr
  BY <1>6, LockIsLibStep DEF LockYcbcr, gralloc_gbm_bo_lock_ycbcr
<1>7. CASE Unlock
  <2>1. PICK h \in Handle, err \in ErrCode : gralloc_gbm_bo_unlock(h, err)
    BY <1>7 DEF Unlock
  <2> DEFINE b == gbm_bo_handle_map[h]
  <2>2. CASE /\ b # NoBo
             /\ user_data[b] # NoData
             /\ user_data[b].lock_count # 0
             /\ SetData(b, Unlocked(user_data[b]))
    <3>1. user_data[b] \in BoData
      BY <2>2 DEF TypeOK
    <3>2. Unlocked(user_data[b]) \in BoData
      BY <2>2, <3>1, UnlockedOK
    <3> QED BY <2>2, <3>2 DEF LibStep, DataStep
  <2> QED BY <2>1, <2>2 DEF gralloc_gbm_bo_unlock, LibStep
<1> QED BY <1>1, <1>2, <1>3, <1>4, <1>5, <1>6, <1>7 DEF Next

-----------------------------------------------------------------------------
(* The theorems. *)

\* The library starts with its types.
LEMMA InitTypeOK == Init => TypeOK
  BY GrallocAssumption DEF Init, TypeOK

\* No call breaks the library's types.
LEMMA NextTypeOK == TypeOK /\ [Next]_libVars => TypeOK'
<1> SUFFICES ASSUME TypeOK, Next PROVE TypeOK'
  BY DEF TypeOK, libVars
<1>1. CASE UNCHANGED libVars
  BY <1>1 DEF libVars, TypeOK
<1>2. CASE gbm_dev' \in BOOLEAN /\ UNCHANGED <<gbm_bo_handle_map, bos, user_data, crashed>>
  BY <1>2 DEF TypeOK
<1>3. CASE Crash
  BY <1>3 DEF Crash, TypeOK
<1>4. ASSUME NEW h \in Handle, NEW b \in Bo, NewBo(h, b) PROVE TypeOK'
  BY <1>4 DEF NewBo, Emplace, TypeOK
<1>5. ASSUME NEW h \in Handle, Destroyed(h) PROVE TypeOK'
  BY <1>5 DEF Destroyed, TypeOK
<1>6. ASSUME NEW h \in Handle, NEW d \in BoData, SetData(gbm_bo_handle_map[h], d)
      PROVE  TypeOK'
  BY <1>6 DEF SetData, TypeOK
<1> QED BY <1>1, <1>2, <1>3, <1>4, <1>5, <1>6, NextIsLibStep DEF LibStep

\* The variables of the library keep their types; in particular lock_count
\* never falls below zero, however often a client unlocks.
THEOREM TypeCorrect == Spec => []TypeOK
<1>1. Init => TypeOK
  BY InitTypeOK
<1>2. TypeOK /\ [Next]_libVars => TypeOK'
  BY NextTypeOK
<1> QED BY <1>1, <1>2, PTL DEF Spec

\* No step leaves an object mapped that should not be, or the reverse.
LEMMA NextLockInv == TypeOK /\ LockInv /\ [Next]_libVars => LockInv'
<1> SUFFICES ASSUME TypeOK, LockInv, Next PROVE LockInv'
  BY DEF LockInv, libVars
<1>1. CASE user_data' = user_data
  BY <1>1 DEF LockInv
<1>2. ASSUME NEW h \in Handle, Destroyed(h) PROVE LockInv'
  BY <1>2 DEF Destroyed, LockInv, TypeOK
<1>3. ASSUME NEW h \in Handle, NEW d \in BoData, gbm_bo_handle_map[h] # NoBo,
             DataStep(gbm_bo_handle_map[h], d), SetData(gbm_bo_handle_map[h], d)
      PROVE  LockInv'
  <2> DEFINE b == gbm_bo_handle_map[h]
  <2>1. b \in Bo
    BY <1>3 DEF TypeOK
  <2>2. WellLocked(DataOf(b)) /\ DataOf(b) \in BoData
    BY <2>1, DataOfOK
  <2>3. WellLocked(d)
    <3>1. CASE d = DataOf(b)
      BY <2>2, <3>1
    <3>2. CASE LockTaken(DataOf(b), d)
      BY <2>2, <3>2, LockTakenOK
    <3>3. CASE /\ user_data[b] # NoData
               /\ user_data[b].lock_count # 0
               /\ d = Unlocked(user_data[b])
      BY <2>2, <3>3, UnlockedOK DEF DataOf
    <3> QED BY <1>3, <3>1, <3>2, <3>3 DEF DataStep
  <2> QED BY <1>3, <2>1, <2>3 DEF SetData, LockInv, TypeOK
<1> QED BY <1>1, <1>2, <1>3, NextIsLibStep DEF LibStep, Crash, NewBo, libVars

\* A buffer object is mapped exactly while it is locked for software access,
\* and then it is locked once: one map_data per bo_data is enough.
THEOREM LockCorrect == Spec => []LockInv
<1>1. Init => LockInv
  BY DEF Init, LockInv
<1>2. TypeOK /\ LockInv /\ [Next]_libVars => LockInv'
  BY NextLockInv
<1> QED BY <1>1, <1>2, TypeCorrect, PTL DEF Spec

\* No step shares, loses or leaves behind a buffer object.
LEMMA NextRegistryInv == TypeOK /\ RegistryInv /\ [Next]_libVars => RegistryInv'
<1> SUFFICES ASSUME TypeOK, RegistryInv, Next PROVE RegistryInv'
  BY DEF RegistryInv, EntriesExist, EntriesUnshared, NoneLeaks, DataOwned, Registered, libVars
<1>1. CASE UNCHANGED <<gbm_bo_handle_map, bos, user_data>>
  BY <1>1 DEF RegistryInv, EntriesExist, EntriesUnshared, NoneLeaks, DataOwned, Registered
<1>2. ASSUME NEW h \in Handle, NEW b \in Bo, gbm_bo_handle_map[h] = NoBo, NewBo(h, b)
      PROVE  RegistryInv'
  <2>1. /\ gbm_bo_handle_map' = [gbm_bo_handle_map EXCEPT ![h] = b]
        /\ bos' = bos \cup {b}
        /\ b \notin bos
        /\ b # NoBo
        /\ user_data' = user_data
    BY <1>2, GrallocAssumption DEF NewBo, Emplace
  <2>2. EntriesExist'
    BY <2>1 DEF RegistryInv, EntriesExist, TypeOK
  <2>3. EntriesUnshared'
    BY <2>1 DEF RegistryInv, EntriesExist, EntriesUnshared, TypeOK
  <2>4. NoneLeaks'
    <3> SUFFICES ASSUME NEW c \in bos' PROVE Registered(c)'
      BY DEF NoneLeaks
    <3>1. CASE c = b
      BY <2>1, <3>1 DEF Registered, TypeOK
    <3>2. CASE c \in bos
      <4>1. PICK k \in Handle : gbm_bo_handle_map[k] = c
        BY <3>2 DEF RegistryInv, NoneLeaks, Registered
      <4>2. k # h
        BY <1>2, <3>2, <4>1, GrallocAssumption DEF TypeOK
      <4> QED BY <2>1, <4>1, <4>2 DEF Registered, TypeOK
    <3> QED BY <2>1, <3>1, <3>2
  <2>5. DataOwned'
    BY <2>1 DEF RegistryInv, DataOwned
  <2> QED BY <2>2, <2>3, <2>4, <2>5 DEF RegistryInv
<1>3. ASSUME NEW h \in Handle, Destroyed(h) PROVE RegistryInv'
  <2> DEFINE b == gbm_bo_handle_map[h]
  <2>1. /\ gbm_bo_handle_map' = [gbm_bo_handle_map EXCEPT ![h] = NoBo]
        /\ bos' = bos \ {b}
        /\ b # NoBo
        /\ user_data' = [user_data EXCEPT ![b] = NoData]
    BY <1>3 DEF Destroyed
  <2>2. EntriesExist'
    BY <2>1 DEF RegistryInv, EntriesExist, EntriesUnshared, TypeOK
  <2>3. EntriesUnshared'
    BY <2>1 DEF RegistryInv, EntriesUnshared, TypeOK
  <2>4. NoneLeaks'
    BY <2>1 DEF RegistryInv, NoneLeaks, Registered, TypeOK
  <2>5. DataOwned'
    BY <2>1 DEF RegistryInv, DataOwned, TypeOK
  <2> QED BY <2>2, <2>3, <2>4, <2>5 DEF RegistryInv
<1>4. ASSUME NEW h \in Handle, NEW d \in BoData, gbm_bo_handle_map[h] # NoBo,
             SetData(gbm_bo_handle_map[h], d)
      PROVE  RegistryInv'
  <2>1. gbm_bo_handle_map[h] \in bos
    BY <1>4 DEF RegistryInv, EntriesExist
  <2>2. DataOwned'
    BY <1>4, <2>1 DEF SetData, RegistryInv, DataOwned, TypeOK
  <2> QED BY <1>4, <2>2 DEF SetData, RegistryInv, EntriesExist, EntriesUnshared, NoneLeaks,
                            Registered
<1> QED BY <1>1, <1>2, <1>3, <1>4, NextIsLibStep DEF LibStep, Crash, libVars

\* gbm_bo_handle_map owns the buffer objects: none dangles, none is shared,
\* none leaks.
THEOREM RegistryCorrect == Spec => []RegistryInv
<1>1. Init => RegistryInv
  BY DEF Init, RegistryInv, EntriesExist, EntriesUnshared, NoneLeaks, DataOwned
<1>2. TypeOK /\ RegistryInv /\ [Next]_libVars => RegistryInv'
  BY NextRegistryInv
<1> QED BY <1>1, <1>2, TypeCorrect, PTL DEF Spec

\* No call changes the usage a buffer stays locked for.
THEOREM LockedForStable == Spec => LockedForIsStable
<1> DEFINE Stable == \A b \in Bo :
             /\ user_data[b] # NoData
             /\ user_data'[b] # NoData
             /\ user_data[b].lock_count > 0
             /\ user_data'[b].lock_count > 0
             => user_data'[b].locked_for = user_data[b].locked_for
<1>1. TypeOK /\ [Next]_libVars => [Stable]_libVars
  <2> SUFFICES ASSUME TypeOK, Next PROVE Stable
    OBVIOUS
  <2>1. CASE user_data' = user_data
    BY <2>1
  <2>2. ASSUME NEW h \in Handle, Destroyed(h) PROVE Stable
    BY <2>2 DEF Destroyed, TypeOK
  <2>3. ASSUME NEW h \in Handle, NEW d \in BoData, gbm_bo_handle_map[h] # NoBo,
               DataStep(gbm_bo_handle_map[h], d), SetData(gbm_bo_handle_map[h], d)
        PROVE  Stable
    <3> DEFINE b == gbm_bo_handle_map[h]
    <3>1. b \in Bo /\ user_data'[b] = d
      BY <2>3 DEF SetData, TypeOK
    <3>2. ASSUME user_data[b] # NoData, user_data[b].lock_count > 0, d.lock_count > 0
          PROVE  d.locked_for = user_data[b].locked_for
      <4>1. DataOf(b) = user_data[b] /\ user_data[b] \in BoData
        BY <3>1, <3>2 DEF DataOf, TypeOK
      <4>2. CASE LockTaken(user_data[b], d)
        BY <3>2, <4>1, <4>2, LockTakenOK
      <4>3. CASE d = Unlocked(user_data[b]) /\ user_data[b].lock_count # 0
        BY <3>2, <4>1, <4>3, UnlockedOK
      <4> QED BY <2>3, <4>1, <4>2, <4>3 DEF DataStep
    <3> QED BY <2>3, <3>1, <3>2 DEF SetData, TypeOK
  <2> QED BY <2>1, <2>2, <2>3, NextIsLibStep DEF LibStep, Crash, NewBo, libVars
<1> QED BY <1>1, TypeCorrect, PTL DEF Spec, LockedForIsStable

=============================================================================
