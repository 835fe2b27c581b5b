--------------------------- MODULE MapperV5_proofs ---------------------------
(***************************************************************************)
(* Theorems about MapperV5 for any handles, descriptors, buffers, usage    *)
(* bits and metadata.  Whatever its client calls, a step of the mapper is  *)
(* at most one call of the library (MapperNextIsNext), so that what        *)
(* GrallocGbm_proofs proves holds of the library here.  With a client that *)
(* keeps to the interface the tables of the mapper and of the client are   *)
(* shown to agree, and the mapper to implement BufferContract.             *)
(***************************************************************************)
EXTENDS MapperV5, GrallocGbm_proofs

\* What else is needed to know of the client's and the mapper's tables: nothing
\* dereferenced null, locks are held through imported handles only, a raw handle
\* exists and is not imported, and every handle has a descriptor.
TablesAgree ==
  /\ crashed = FALSE
  /\ \A h \in Handle : imported[h] = NoFile => held[h] = 0
  /\ \A h \in raw : native[h] # NoHandle /\ imported[h] = NoFile
  /\ \A h \in Handle : native[h] # NoHandle => native[h].prime_fd \in Fd

\* Such a client locks for software access only.
SoftwareLocks ==
  \A b \in Bo :
    user_data[b] # NoData /\ user_data[b].lock_count > 0
      => user_data[b].locked_for \cap SwBits # {}

\* The inductive invariant.
MapperInv ==
  /\ MapperTypeOK /\ RegistryInv /\ LockInv
  /\ ImportsAreLive /\ DescriptorsOwned /\ MetadataOwned /\ LocksCounted
  /\ TablesAgree /\ SoftwareLocks

-----------------------------------------------------------------------------
(* The library below the mapper. *)

\* The handles the mapper passes down are those the library expects.
NativeTyped == native \in [Handle -> HandleInfo \cup {NoHandle}]

LEMMA NativeOK ==
  ASSUME NativeTyped, NEW h \in Handle, native[h] # NoHandle
  PROVE  native[h] \in HandleInfo
BY DEF NativeTyped

\* Client and metadata steps leave the library alone; loading, importing,
\* freeing, locking and unlocking are at most one call of it.
LEMMA MapperNextIsNext ==
  ASSUME NativeTyped, [MapperNext]_mapperVars
  PROVE  [Next]_libVars
<1>1. CASE UNCHANGED mapperVars
  BY <1>1 DEF mapperVars
<1>2. ASSUME NEW h \in Handle, NEW f \in Fd, NEW buf \in Buffer, ReceiveRaw(h, f, buf)
      PROVE  [Next]_libVars
  BY <1>2 DEF ReceiveRaw
<1>3. ASSUME NEW h \in Handle, CloseRaw(h) PROVE [Next]_libVars
  BY <1>3 DEF CloseRaw
<1>4. ASSUME NEW f \in Fd, ObtainFence(f) \/ SignalFence(f) \/ CloseFence(f)
      PROVE  [Next]_libVars
  BY <1>4 DEF ObtainFence, SignalFence, CloseFence
<1>5. CASE ~crashed /\ LoadIMapper
  BY <1>5 DEF LoadIMapper, Next, InitDevice
<1>6. ASSUME ~crashed, NEW ret, Call(ret) PROVE [Next]_libVars
  <2>1. ASSUME NEW h \in Handle, NEW n \in Handle, NEW f \in Fd, importBuffer(h, n, f, ret)
        PROVE  [Next]_libVars
    <3> DEFINE clone == [native[h] EXCEPT !.prime_fd = f]
    <3>1. clone \in HandleInfo
      <4>1. native[h] \in HandleInfo
        BY <2>1, NativeOK DEF importBuffer
      <4> QED BY <4>1 DEF HandleInfo
    <3>2. \/ UNCHANGED libVars
          \/ \E b \in Bo, err \in ErrCode : gralloc_gm_buffer_import(n, clone, b, err)
      BY <2>1 DEF importBuffer, NoDriver
    <3> HIDE DEF clone
    <3> QED BY <1>6, <3>1, <3>2 DEF Next, Import
  <2>2. ASSUME NEW h \in Handle, freeBuffer(h, ret) PROVE [Next]_libVars
    BY <1>6, <2>2 DEF freeBuffer, NoDriver, Next, Free
  <2>3. ASSUME NEW h \in Handle, unlock(h, ret) PROVE [Next]_libVars
    BY <1>6, <2>3 DEF unlock, NoDriver, Next, Unlock
  <2>4. ASSUME NEW h \in Handle, getMetadata(h, ret) PROVE [Next]_libVars
    BY <2>4 DEF getMetadata
  <2>5. ASSUME NEW h \in Handle, NEW field \in Field, NEW v \in Value,
               setMetadata(h, field, v, ret)
        PROVE  [Next]_libVars
    BY <2>5 DEF setMetadata
  <2>6. ASSUME NEW h \in Handle, NEW cpuUsage \in SUBSET (UsageBit \cup HighBits),
               NEW fence \in Fd \cup {NoFd}, lock(h, cpuUsage, fence, ret)
        PROVE  [Next]_libVars
    <3>1. native[h] \in HandleInfo
      BY <2>6, NativeOK DEF lock, Passes
    <3>2. cpuUsage \ HighBits \in SUBSET UsageBit
      OBVIOUS
    <3>3. \/ UNCHANGED libVars
          \/ \E err \in ErrCode : gralloc_gbm_bo_lock(h, native[h], cpuUsage \ HighBits, err)
      BY <2>6 DEF lock, NoDriver
    <3> QED BY <1>6, <3>1, <3>2, <3>3 DEF Next, Lock
  <2> QED BY <1>6, <2>1, <2>2, <2>3, <2>4, <2>5, <2>6 DEF Call
<1> QED BY <1>1, <1>2, <1>3, <1>4, <1>5, <1>6 DEF MapperNext

\* So the library's own invariants hold under the mapper.
LEMMA LibraryInv ==
  ASSUME MapperInv, [MapperNext]_mapperVars
  PROVE  TypeOK' /\ RegistryInv' /\ LockInv'
<1>1. TypeOK /\ [Next]_libVars
  BY MapperNextIsNext DEF MapperInv, MapperTypeOK, NativeTyped
<1> QED BY <1>1, NextTypeOK, NextRegistryInv, NextLockInv DEF MapperInv

\* A lock for software access that succeeds is counted and stays one for
\* software access; one that fails leaves the bo_data as it was.
LEMMA SoftwareLock ==
  ASSUME TypeOK, NEW h \in Handle, NEW hnd, NEW usage \in SUBSET UsageBit,
         usage \cap SwBits # {}, NEW err, gralloc_gbm_bo_lock(h, hnd, usage, err)
  PROVE  LET b == gbm_bo_handle_map[h] IN
         \/ err # OK /\ UNCHANGED libVars
         \/ err # OK /\ b # NoBo /\ SetData(b, DataOf(b))
         \/ /\ err = OK /\ b # NoBo
            /\ \E d1 \in BoData :
                 /\ SetData(b, d1)
                 /\ d1.lock_count = DataOf(b).lock_count + 1
                 /\ d1.locked_for \cap SwBits # {}
<1> DEFINE b == gbm_bo_handle_map[h]
           d == DataOf(b)
           all == usage \cup d.locked_for
           d1 == [map_data |-> MapAccess(all), lock_count |-> d.lock_count + 1,
                  locked_for |-> d.locked_for \cup all]
<1>1. CASE err = "EINVAL" /\ UNCHANGED libVars
  BY <1>1 DEF OK
<1>2. CASE b # NoBo /\ err = "EINVAL" /\ SetData(b, d)
  BY <1>2 DEF OK
<1>3. CASE b # NoBo /\ TakeLock(b, d, all, err)
  <2>1. all \cap SwBits # {}
    OBVIOUS
  <2>2. CASE err \in {"EINVAL", "ENOMEM"} /\ SetData(b, d)
    BY <1>3, <2>2 DEF OK
  <2>3. CASE d.lock_count < MaxLocks /\ err = OK /\ SetData(b, d1)
    <3>1. d \in BoData
      BY <1>3, DataOfOK DEF TypeOK
    <3>2. d1 \in BoData
      BY <2>3, <3>1, GrallocAssumption DEF BoData, MapAccess
    <3>3. d1.lock_count = d.lock_count + 1 /\ d1.locked_for \cap SwBits # {}
      BY <2>1
    <3> HIDE DEF d1
    <3> QED BY <1>3, <2>3, <3>2, <3>3
  <2> QED BY <1>3, <2>1, <2>2, <2>3 DEF TakeLock
<1> QED BY <1>1, <1>2, <1>3 DEF gralloc_gbm_bo_lock

-----------------------------------------------------------------------------
(* Each action keeps the invariant. *)

\* What the tables say of one imported handle, in one place.
LEMMA ImportedHandle ==
  ASSUME MapperInv, NEW h \in Handle, imported[h] # NoFile
  PROVE  /\ native[h] \in HandleInfo /\ native[h] # NoHandle
         /\ native[h].prime_fd \in Fd
         /\ fds[native[h].prime_fd] = imported[h]
         /\ imported[h] \in Buffer
         /\ gbm_bo_handle_map[h] \in Bo /\ gbm_bo_handle_map[h] # NoBo
         /\ gbm_bo_handle_map[h] \in bos
         /\ DataOf(gbm_bo_handle_map[h]) \in BoData
         /\ held[h] = DataOf(gbm_bo_handle_map[h]).lock_count
         /\ h \notin raw
<1>1. native[h] # NoHandle /\ gbm_bo_handle_map[h] # NoBo
  BY DEF MapperInv, ImportsAreLive
<1>2. TypeOK /\ gbm_bo_handle_map[h] \in Bo
  BY <1>1 DEF MapperInv, MapperTypeOK, TypeOK
<1>3. DataOf(gbm_bo_handle_map[h]) \in BoData
  BY <1>2, DataOfOK
<1>4. gbm_bo_handle_map[h] \in bos
  BY <1>1 DEF MapperInv, RegistryInv, EntriesExist
<1>5. native[h] \in HandleInfo /\ imported[h] \in Buffer
  BY <1>1 DEF MapperInv, MapperTypeOK
<1>6. fds[native[h].prime_fd] = imported[h]
  BY DEF MapperInv, ImportsAreLive
<1>7. held[h] = DataOf(gbm_bo_handle_map[h]).lock_count
  BY DEF MapperInv, LocksCounted
<1>8. native[h].prime_fd \in Fd /\ h \notin raw
  BY <1>1 DEF MapperInv, TablesAgree
<1> QED BY <1>1, <1>2, <1>3, <1>4, <1>5, <1>6, <1>7, <1>8

\* A handle that is not imported holds no lock; no handle has a free descriptor.
LEMMA OtherHandle ==
  ASSUME MapperInv, NEW h \in Handle
  PROVE  /\ native[h] = NoHandle => imported[h] = NoFile /\ h \notin raw
         /\ native[h] # NoHandle =>
              native[h].prime_fd \in Fd /\ fds[native[h].prime_fd] \in Buffer
         /\ imported[h] = NoFile <=> gbm_bo_handle_map[h] = NoBo
BY DEF MapperInv, ImportsAreLive, TablesAgree, DescriptorsOwned

\* A raw handle and its descriptor come from another process.
LEMMA ReceiveRawInv ==
  ASSUME MapperInv, NEW h \in Handle, NEW f \in Fd, NEW buf \in Buffer, ReceiveRaw(h, f, buf),
         TypeOK', RegistryInv', LockInv'
  PROVE  MapperInv'
<1> DEFINE info == [prime_fd |-> f, format |-> Allocated[buf].format,
                    usage |-> Allocated[buf].usage]
<1>1. info \in HandleInfo /\ info # NoHandle /\ info.prime_fd = f
  <2>1. Allocated[buf] \in [format : Format, usage : SUBSET UsageBit]
    BY MapperAssumption
  <2>2. info \in HandleInfo
    BY <2>1 DEF HandleInfo
  <2> QED BY <2>2, MapperAssumption
<1>2. /\ native[h] = NoHandle /\ fds[f] = NoFile
      /\ native' = [native EXCEPT ![h] = info]
      /\ fds' = [fds EXCEPT ![f] = buf]
      /\ raw' = raw \cup {h}
      /\ UNCHANGED <<libVars, loaded, mInitialized, gralloc_metadata_prime_fd_map, imported, held>>
  BY DEF ReceiveRaw
<1> HIDE DEF info
<1>3. imported[h] = NoFile /\ h \notin raw
  BY <1>2, OtherHandle
<1>4. NoFile \notin Buffer
  BY MapperAssumption
<1>5. MapperTypeOK'
  BY <1>1, <1>2 DEF MapperInv, MapperTypeOK
<1>6. native \in [Handle -> HandleInfo \cup {NoHandle}] /\ fds \in [Fd -> Buffer \cup Fence \cup {NoFile}]
  BY DEF MapperInv, MapperTypeOK
<1>7. \A k \in Handle : native[k] # NoHandle => native[k].prime_fd # f
  BY <1>2, <1>4, OtherHandle
<1>8. ImportsAreLive'
  BY <1>2, <1>3, <1>6, <1>7, ImportedHandle DEF MapperInv, ImportsAreLive, libVars
<1>9. DescriptorsOwned'
  BY <1>1, <1>2, <1>6, <1>7, OtherHandle DEF MapperInv, DescriptorsOwned
<1>10. MetadataOwned'
  BY <1>2, <1>3, <1>6 DEF MapperInv, MetadataOwned
<1>11. LocksCounted' /\ SoftwareLocks'
  BY <1>2 DEF MapperInv, LocksCounted, SoftwareLocks, DataOf, libVars
<1>12. TablesAgree'
  BY <1>1, <1>2, <1>3, <1>6 DEF MapperInv, TablesAgree, libVars
<1> QED BY <1>5, <1>8, <1>9, <1>10, <1>11, <1>12 DEF MapperInv

\* A raw handle goes with the descriptor it alone holds.
LEMMA CloseRawInv ==
  ASSUME MapperInv, NEW h \in Handle, CloseRaw(h), TypeOK', RegistryInv', LockInv'
  PROVE  MapperInv'
<1> DEFINE f == native[h].prime_fd
<1>1. /\ h \in raw /\ native[h] # NoHandle
      /\ native' = [native EXCEPT ![h] = NoHandle]
      /\ fds' = [fds EXCEPT ![f] = NoFile]
      /\ raw' = raw \ {h}
      /\ UNCHANGED <<libVars, loaded, mInitialized, gralloc_metadata_prime_fd_map, imported, held>>
  BY DEF CloseRaw, CloseAndDelete
<1>2. f \in Fd /\ fds[f] \in Buffer /\ imported[h] = NoFile
  BY <1>1, OtherHandle DEF MapperInv, TablesAgree
<1>3. \A k \in Handle : native[k] # NoHandle /\ k # h => native[k].prime_fd # f
  BY <1>1 DEF MapperInv, DescriptorsOwned
<1> HIDE DEF f
<1>4. native \in [Handle -> HandleInfo \cup {NoHandle}] /\ fds \in [Fd -> Buffer \cup Fence \cup {NoFile}]
  BY DEF MapperInv, MapperTypeOK
<1>5. MapperTypeOK'
  BY <1>1 DEF MapperInv, MapperTypeOK
<1>6. NoFile \notin Buffer
  BY MapperAssumption
<1>7. ImportsAreLive'
  BY <1>1, <1>2, <1>3, <1>4, ImportedHandle DEF MapperInv, ImportsAreLive, libVars
<1>8. DescriptorsOwned'
  <2>1. ASSUME NEW g \in Fd
        PROVE  fds'[g] \in Buffer
                 <=> \E k \in Handle : native'[k] # NoHandle /\ native'[k].prime_fd = g
    <3>1. CASE g = f
      BY <1>1, <1>2, <1>3, <1>4, <1>6, <3>1
    <3>2. CASE g # f
      <4>1. fds'[g] = fds[g]
        BY <1>1, <1>4, <3>2
      <4>2. \A k \in Handle : native'[k] # NoHandle /\ native'[k].prime_fd = g
                          <=> native[k] # NoHandle /\ native[k].prime_fd = g
        BY <1>1, <1>4, <3>2 DEF f
      <4> QED BY <4>1, <4>2 DEF MapperInv, DescriptorsOwned
    <3> QED BY <3>1, <3>2
  <2> QED BY <1>1, <1>4, <2>1 DEF MapperInv, DescriptorsOwned
<1>9. MetadataOwned'
  BY <1>1, <1>2, <1>4 DEF MapperInv, MetadataOwned
<1>10. LocksCounted' /\ SoftwareLocks'
  BY <1>1 DEF MapperInv, LocksCounted, SoftwareLocks, DataOf, libVars
<1>11. TablesAgree'
  BY <1>1, <1>4 DEF MapperInv, TablesAgree, libVars
<1> QED BY <1>5, <1>7, <1>8, <1>9, <1>10, <1>11 DEF MapperInv

\* A descriptor that is not a buffer's, before or after, is no handle's.
LEMMA FenceStepInv ==
  ASSUME MapperInv, NEW f \in Fd, NEW file \in Fence \cup {NoFile},
         fds[f] \in Fence \cup {NoFile},
         fds' = [fds EXCEPT ![f] = file],
         UNCHANGED <<native, raw, imported>>
  PROVE  /\ fds' \in [Fd -> Buffer \cup Fence \cup {NoFile}]
         /\ \A h \in Handle : imported[h] # NoFile => fds'[native[h].prime_fd] = imported[h]
         /\ DescriptorsOwned'
<1>1. fds \in [Fd -> Buffer \cup Fence \cup {NoFile}]
  BY DEF MapperInv, MapperTypeOK
<1>2. fds[f] \notin Buffer /\ file \notin Buffer
  BY MapperAssumption
<1>3. fds' \in [Fd -> Buffer \cup Fence \cup {NoFile}]
  BY <1>1
<1>4. \A g \in Fd : fds'[g] \in Buffer <=> fds[g] \in Buffer
  BY <1>1, <1>2
<1>5. DescriptorsOwned'
  BY <1>4 DEF MapperInv, DescriptorsOwned
<1>6. \A h \in Handle : imported[h] # NoFile => fds'[native[h].prime_fd] = imported[h]
  BY <1>1, <1>2, ImportedHandle
<1> QED BY <1>3, <1>5, <1>6

\* A fence has a descriptor of its own.
LEMMA FenceInv ==
  ASSUME MapperInv, NEW f \in Fd, ObtainFence(f) \/ SignalFence(f) \/ CloseFence(f),
         TypeOK', RegistryInv', LockInv'
  PROVE  MapperInv'
<1>1. /\ fds[f] \in Fence \cup {NoFile}
      /\ \E file \in Fence \cup {NoFile} : fds' = [fds EXCEPT ![f] = file]
      /\ UNCHANGED <<libVars, loaded, mInitialized, native, gralloc_metadata_prime_fd_map, raw,
                     imported, held>>
  BY DEF ObtainFence, SignalFence, CloseFence, Fence
<1>2. /\ fds' \in [Fd -> Buffer \cup Fence \cup {NoFile}]
      /\ \A h \in Handle : imported[h] # NoFile => fds'[native[h].prime_fd] = imported[h]
      /\ DescriptorsOwned'
  BY <1>1, FenceStepInv
<1> QED BY <1>1, <1>2 DEF MapperInv, MapperTypeOK, ImportsAreLive, MetadataOwned, LocksCounted,
                          TablesAgree, SoftwareLocks, DataOf, libVars

\* Loading the mapper opens the device and touches no table.
LEMMA LoadInv ==
  ASSUME MapperInv, LoadIMapper, TypeOK', RegistryInv', LockInv'
  PROVE  MapperInv'
<1>1. /\ loaded' \in BOOLEAN /\ mInitialized' \in BOOLEAN
      /\ UNCHANGED <<gbm_bo_handle_map, bos, user_data, crashed, native, fds,
                     gralloc_metadata_prime_fd_map, raw, imported, held>>
  BY DEF LoadIMapper, gralloc_gbm_device_init
<1> QED BY <1>1 DEF MapperInv, MapperTypeOK, ImportsAreLive, DescriptorsOwned, MetadataOwned,
                    LocksCounted, TablesAgree, SoftwareLocks, DataOf

\* importBuffer registers a clone, which has a new address and a new descriptor.
LEMMA ImportInv ==
  ASSUME MapperInv, NEW h \in Handle, NEW n \in Handle, NEW f \in Fd, NEW ret,
         importBuffer(h, n, f, ret), TypeOK', RegistryInv', LockInv'
  PROVE  MapperInv'
<1> DEFINE clone == [native[h] EXCEPT !.prime_fd = f]
           buf == fds[native[h].prime_fd]
<1>1. /\ native[h] # NoHandle /\ native[n] = NoHandle /\ fds[f] = NoFile
      /\ UNCHANGED <<loaded, mInitialized, raw, gralloc_metadata_prime_fd_map, held>>
  BY DEF importBuffer
<1>2. CASE UNCHANGED <<libVars, native, fds, imported>>
  BY <1>1, <1>2 DEF MapperInv, MapperTypeOK, ImportsAreLive, DescriptorsOwned, MetadataOwned,
                    LocksCounted, TablesAgree, SoftwareLocks, DataOf, libVars
<1>3. native[h] \in HandleInfo
  BY <1>1, NativeOK DEF MapperInv, MapperTypeOK, NativeTyped
<1>4. clone \in HandleInfo /\ clone # NoHandle /\ clone.prime_fd = f
  BY <1>3, MapperAssumption DEF HandleInfo
<1> HIDE DEF clone, buf
<1>5. ASSUME NEW b \in Bo, buf \in Buffer, NewBo(n, b), gbm_bo_handle_map[n] = NoBo,
             native' = [native EXCEPT ![n] = clone],
             fds' = [fds EXCEPT ![f] = buf],
             imported' = [imported EXCEPT ![n] = buf]
      PROVE  MapperInv'
  <2>1. /\ native \in [Handle -> HandleInfo \cup {NoHandle}]
        /\ fds \in [Fd -> Buffer \cup Fence \cup {NoFile}]
        /\ imported \in [Handle -> Buffer \cup {NoFile}]
        /\ gbm_bo_handle_map \in [Handle -> Bo \cup {NoBo}]
    BY DEF MapperInv, MapperTypeOK, TypeOK
  <2>2. /\ gbm_bo_handle_map' = [gbm_bo_handle_map EXCEPT ![n] = b]
        /\ UNCHANGED <<user_data, crashed>>
        /\ b \notin bos /\ b # NoBo
    BY <1>5, GrallocAssumption DEF NewBo, Emplace
  <2>3. NoFile \notin Buffer
    BY MapperAssumption
  <2>4. imported[n] = NoFile /\ n \notin raw
    BY <1>1, OtherHandle
  <2>5. \A k \in Handle : native[k] # NoHandle => native[k].prime_fd # f
    BY <1>1, <2>3, OtherHandle
  <2>6. MapperTypeOK'
    BY <1>1, <1>4, <1>5, <2>1 DEF MapperInv, MapperTypeOK
  <2>7. ImportsAreLive'
    <3> SUFFICES ASSUME NEW k \in Handle
                 PROVE  /\ imported'[k] # NoFile <=> gbm_bo_handle_map'[k] # NoBo
                        /\ imported'[k] # NoFile =>
                             native'[k] # NoHandle /\ fds'[native'[k].prime_fd] = imported'[k]
      BY DEF ImportsAreLive
    <3>1. CASE k = n
      BY <1>4, <1>5, <2>1, <2>2, <2>3, <3>1
    <3>2. CASE k # n
      BY <1>5, <2>1, <2>2, <2>5, <3>2, ImportedHandle, OtherHandle
    <3> QED BY <3>1, <3>2
  <2>8. DescriptorsOwned'
    BY <1>1, <1>4, <1>5, <2>1, <2>3, <2>5, OtherHandle DEF MapperInv, DescriptorsOwned
  <2>9. MetadataOwned'
    BY <1>1, <1>5, <2>1, <2>4 DEF MapperInv, MetadataOwned
  <2>10. LocksCounted'
    <3> SUFFICES ASSUME NEW k \in Handle, imported'[k] # NoFile
                 PROVE  held'[k] = DataOf(gbm_bo_handle_map[k])'.lock_count
      BY DEF LocksCounted
    <3>1. CASE k = n
      <4>1. user_data[b] = NoData
        BY <2>2 DEF MapperInv, RegistryInv, DataOwned
      <4>2. DataOf(gbm_bo_handle_map[k])' = NewData
        BY <2>1, <2>2, <3>1, <4>1 DEF DataOf
      <4>3. held[k] = 0
        BY <2>4, <3>1 DEF MapperInv, TablesAgree
      <4> QED BY <1>1, <4>2, <4>3 DEF NewData
    <3>2. CASE k # n
      <4>1. imported[k] # NoFile /\ gbm_bo_handle_map'[k] = gbm_bo_handle_map[k]
        BY <1>5, <2>1, <2>2, <3>2
      <4> QED BY <1>1, <2>2, <4>1, ImportedHandle DEF DataOf
    <3> QED BY <3>1, <3>2
  <2>11. SoftwareLocks'
    BY <2>2 DEF MapperInv, SoftwareLocks
  <2>12. TablesAgree'
    BY <1>1, <1>4, <1>5, <2>1, <2>2, <2>4 DEF MapperInv, TablesAgree
  <2> QED BY <1>5, <2>6, <2>7, <2>8, <2>9, <2>10, <2>11, <2>12 DEF MapperInv
<1>6. \/ UNCHANGED <<libVars, native, fds, imported>>
      \/ /\ buf \in Buffer
         /\ \E b \in Bo, err \in ErrCode :
              /\ gralloc_gm_buffer_import(n, clone, b, err)
              /\ \/ /\ err = OK
                    /\ native' = [native EXCEPT ![n] = clone]
                    /\ fds' = [fds EXCEPT ![f] = buf]
                    /\ imported' = [imported EXCEPT ![n] = buf]
                 \/ err # OK /\ UNCHANGED <<native, fds, imported>>
  BY DEF importBuffer, NoDriver, clone, buf
<1> QED BY <1>2, <1>5, <1>6 DEF gralloc_gm_buffer_import, CanImport, OK

\* freeBuffer takes the handle out of all tables and closes its descriptor.
LEMMA FreeInv ==
  ASSUME MapperInv, NegativeCalls = FALSE, NEW h \in Handle, NEW ret, freeBuffer(h, ret),
         TypeOK', RegistryInv', LockInv'
  PROVE  MapperInv'
<1> DEFINE f == native[h].prime_fd
           b == gbm_bo_handle_map[h]
<1>1. /\ native[h] # NoHandle /\ imported[h] # NoFile /\ held[h] = 0
      /\ UNCHANGED <<loaded, mInitialized, raw>>
  BY DEF freeBuffer, Passes
<1>2. f \in Fd /\ fds[f] = imported[h] /\ imported[h] \in Buffer /\ b # NoBo /\ b \in Bo /\ h \notin raw
  BY <1>1, ImportedHandle
<1>3. CASE UNCHANGED <<libVars, native, fds, gralloc_metadata_prime_fd_map, imported, held>>
  BY <1>1, <1>3 DEF MapperInv, MapperTypeOK, ImportsAreLive, DescriptorsOwned, MetadataOwned,
                    LocksCounted, TablesAgree, SoftwareLocks, DataOf, libVars
<1>4. CASE /\ gralloc_metadata_prime_fd_map' =
                [gralloc_metadata_prime_fd_map EXCEPT ![f] = NoMetadata]
           /\ gbm_bo_handle_map' = [gbm_bo_handle_map EXCEPT ![h] = NoBo]
           /\ user_data' = [user_data EXCEPT ![b] = NoData]
           /\ crashed' = crashed
           /\ fds' = [fds EXCEPT ![f] = NoFile]
           /\ native' = [native EXCEPT ![h] = NoHandle]
           /\ imported' = [imported EXCEPT ![h] = NoFile]
           /\ held' = [held EXCEPT ![h] = 0]
  <2>1. /\ native \in [Handle -> HandleInfo \cup {NoHandle}]
        /\ fds \in [Fd -> Buffer \cup Fence \cup {NoFile}]
        /\ imported \in [Handle -> Buffer \cup {NoFile}]
        /\ held \in [Handle -> 0..MaxLocks]
        /\ gralloc_metadata_prime_fd_map \in [Fd -> [Field -> Value] \cup {NoMetadata}]
        /\ gbm_bo_handle_map \in [Handle -> Bo \cup {NoBo}]
        /\ user_data \in [Bo -> BoData \cup {NoData}]
        /\ MaxLocks \in Nat
    BY GrallocAssumption DEF MapperInv, MapperTypeOK, TypeOK
  <2>2. NoFile \notin Buffer
    BY MapperAssumption
  <2>3. \A k \in Handle : native[k] # NoHandle /\ k # h => native[k].prime_fd # f
    BY <1>1 DEF MapperInv, DescriptorsOwned
  <2>4. \A k \in Handle : k # h => gbm_bo_handle_map[k] # b
    BY <1>2 DEF MapperInv, RegistryInv, EntriesUnshared
  <2> HIDE DEF f, b
  <2>5. MapperTypeOK'
    BY <1>1, <1>4, <2>1 DEF MapperInv, MapperTypeOK
  <2>6. ImportsAreLive'
    BY <1>4, <2>1, <2>3, ImportedHandle, OtherHandle DEF ImportsAreLive
  <2>7. DescriptorsOwned'
    <3>1. ASSUME NEW g \in Fd
          PROVE  fds'[g] \in Buffer
                   <=> \E k \in Handle : native'[k] # NoHandle /\ native'[k].prime_fd = g
      <4>1. CASE g = f
        BY <1>2, <1>4, <2>1, <2>2, <2>3, <4>1
      <4>2. CASE g # f
        <5>1. fds'[g] = fds[g]
          BY <1>4, <2>1, <4>2
        <5>2. \A k \in Handle : native'[k] # NoHandle /\ native'[k].prime_fd = g
                            <=> native[k] # NoHandle /\ native[k].prime_fd = g
          BY <1>4, <2>1, <4>2 DEF f
        <5> QED BY <5>1, <5>2 DEF MapperInv, DescriptorsOwned
      <4> QED BY <4>1, <4>2
    <3> QED BY <1>1, <1>4, <2>1, <3>1 DEF MapperInv, DescriptorsOwned
  <2>8. MetadataOwned'
    <3> SUFFICES ASSUME NEW g \in Fd, gralloc_metadata_prime_fd_map'[g] # NoMetadata
                 PROVE  \E k \in Handle : imported'[k] # NoFile /\ native'[k].prime_fd = g
      BY DEF MetadataOwned
    <3>1. g # f /\ gralloc_metadata_prime_fd_map[g] # NoMetadata
      BY <1>4, <2>1
    <3>2. PICK k \in Handle : imported[k] # NoFile /\ native[k].prime_fd = g
      BY <3>1 DEF MapperInv, MetadataOwned
    <3>3. k # h
      BY <3>1, <3>2 DEF f
    <3> QED BY <1>4, <2>1, <3>2, <3>3
  <2>9. LocksCounted'
    <3> SUFFICES ASSUME NEW k \in Handle, imported'[k] # NoFile
                 PROVE  held'[k] = DataOf(gbm_bo_handle_map[k])'.lock_count
      BY DEF LocksCounted
    <3>1. k # h /\ imported[k] # NoFile
      BY <1>4, <2>1
    <3>2. gbm_bo_handle_map[k] \in Bo /\ held[k] = DataOf(gbm_bo_handle_map[k]).lock_count
      BY <3>1, ImportedHandle
    <3>3. gbm_bo_handle_map'[k] = gbm_bo_handle_map[k] /\ held'[k] = held[k]
      BY <1>4, <2>1, <3>1
    <3>4. user_data'[gbm_bo_handle_map[k]] = user_data[gbm_bo_handle_map[k]]
      BY <1>4, <2>1, <2>4, <3>1, <3>2
    <3> QED BY <3>2, <3>3, <3>4 DEF DataOf
  <2>10. SoftwareLocks'
    BY <1>4, <2>1 DEF MapperInv, SoftwareLocks
  <2>11. TablesAgree'
    BY <1>1, <1>2, <1>4, <2>1 DEF MapperInv, TablesAgree
  <2> QED BY <2>5, <2>6, <2>7, <2>8, <2>9, <2>10, <2>11 DEF MapperInv
<1> QED BY <1>1, <1>2, <1>3, <1>4
        DEF freeBuffer, NoDriver, gralloc_gm_buffer_free, EraseMetadata, CloseAndDelete

\* One lock more or one less on an imported handle, or none.
LEMMA LockStepInv ==
  ASSUME MapperInv, NEW h \in Handle, imported[h] # NoFile, NEW d1 \in BoData,
         SetData(gbm_bo_handle_map[h], d1),
         held' = [held EXCEPT ![h] = d1.lock_count],
         d1.lock_count > 0 => d1.locked_for \cap SwBits # {},
         UNCHANGED <<imported, raw, native>>
  PROVE  /\ held' \in [Handle -> 0..MaxLocks]
         /\ LocksCounted' /\ SoftwareLocks' /\ TablesAgree'
<1> DEFINE b == gbm_bo_handle_map[h]
<1>1. b \in Bo /\ d1 # NoData /\ d1.lock_count \in 0..MaxLocks
  BY ImportedHandle, GrallocAssumption DEF BoData
<1>2. /\ user_data' = [user_data EXCEPT ![b] = d1]
      /\ UNCHANGED <<gbm_bo_handle_map, crashed>>
  BY DEF SetData
<1>3. /\ held \in [Handle -> 0..MaxLocks]
      /\ user_data \in [Bo -> BoData \cup {NoData}]
  BY DEF MapperInv, MapperTypeOK, TypeOK
<1>4. held' \in [Handle -> 0..MaxLocks]
  BY <1>1, <1>3
<1>5. LocksCounted'
  <2> SUFFICES ASSUME NEW k \in Handle, imported[k] # NoFile
               PROVE  held'[k] = DataOf(gbm_bo_handle_map[k])'.lock_count
    BY DEF LocksCounted
  <2>1. CASE k = h
    <3>1. DataOf(gbm_bo_handle_map[k])' = d1
      BY <1>1, <1>2, <1>3, <2>1 DEF DataOf
    <3> QED BY <1>3, <2>1, <3>1
  <2>2. CASE k # h
    <3>1. /\ gbm_bo_handle_map[k] \in Bo /\ gbm_bo_handle_map[k] # NoBo
          /\ held[k] = DataOf(gbm_bo_handle_map[k]).lock_count
      BY ImportedHandle
    <3>2. gbm_bo_handle_map[k] # b
      BY <2>2, <3>1 DEF MapperInv, RegistryInv, EntriesUnshared
    <3>3. DataOf(gbm_bo_handle_map[k])' = DataOf(gbm_bo_handle_map[k])
      BY <1>2, <1>3, <3>1, <3>2 DEF DataOf
    <3> QED BY <1>3, <2>2, <3>1, <3>3
  <2> QED BY <2>1, <2>2
<1>6. SoftwareLocks'
  BY <1>1, <1>2, <1>3 DEF MapperInv, SoftwareLocks
<1>7. TablesAgree'
  BY <1>2, <1>3 DEF MapperInv, TablesAgree
<1> QED BY <1>4, <1>5, <1>6, <1>7

\* A new bo_data is not locked.
LEMMA DataOfSoftware ==
  ASSUME MapperInv, NEW h \in Handle, imported[h] # NoFile,
         DataOf(gbm_bo_handle_map[h]).lock_count > 0
  PROVE  /\ user_data[gbm_bo_handle_map[h]] # NoData
         /\ DataOf(gbm_bo_handle_map[h]).locked_for \cap SwBits # {}
BY ImportedHandle DEF MapperInv, SoftwareLocks, DataOf, NewData

\* What a lock or an unlock does not touch stays right.
LEMMA RestInv ==
  ASSUME MapperInv, TypeOK', RegistryInv', LockInv',
         UNCHANGED <<loaded, mInitialized, native, gralloc_metadata_prime_fd_map, raw, imported,
                     gbm_bo_handle_map>>,
         fds' \in [Fd -> Buffer \cup Fence \cup {NoFile}],
         \A h \in Handle : imported[h] # NoFile => fds'[native[h].prime_fd] = imported[h],
         DescriptorsOwned',
         held' \in [Handle -> 0..MaxLocks], LocksCounted', SoftwareLocks', TablesAgree'
  PROVE  MapperInv'
BY DEF MapperInv, MapperTypeOK, ImportsAreLive, MetadataOwned

\* The library and the locks held are as they were.
LEMMA SameLocks ==
  ASSUME MapperInv, UNCHANGED <<libVars, native, raw, imported, held>>
  PROVE  /\ held' \in [Handle -> 0..MaxLocks]
         /\ LocksCounted' /\ SoftwareLocks' /\ TablesAgree'
         /\ gbm_bo_handle_map' = gbm_bo_handle_map
BY DEF MapperInv, MapperTypeOK, LocksCounted, SoftwareLocks, TablesAgree, DataOf, libVars

\* The fence is closed on every path, and the lock is counted when it succeeds.
LEMMA LockCallInv ==
  ASSUME MapperInv, NegativeCalls = FALSE, NEW h \in Handle,
         NEW cpuUsage \in SUBSET (UsageBit \cup HighBits), NEW fence \in Fd \cup {NoFd}, NEW ret,
         lock(h, cpuUsage, fence, ret), TypeOK', RegistryInv', LockInv'
  PROVE  MapperInv'
<1> DEFINE b == gbm_bo_handle_map[h]
           d == DataOf(b)
<1>1. /\ native[h] # NoHandle /\ imported[h] # NoFile
      /\ cpuUsage \subseteq SwBits
      /\ fence # NoFd => fds[fence] \in Fence
      /\ fds' = IF fence = NoFd THEN fds ELSE [fds EXCEPT ![fence] = NoFile]
      /\ UNCHANGED <<loaded, mInitialized, native, gralloc_metadata_prime_fd_map, raw, imported>>
  BY DEF lock, Passes
<1>2. b \in Bo /\ b # NoBo /\ d \in BoData /\ held[h] = d.lock_count
  BY <1>1, ImportedHandle
<1>3. held \in [Handle -> 0..MaxLocks] /\ fds \in [Fd -> Buffer \cup Fence \cup {NoFile}]
  BY DEF MapperInv, MapperTypeOK
<1>4. /\ fds' \in [Fd -> Buffer \cup Fence \cup {NoFile}]
      /\ \A k \in Handle : imported[k] # NoFile => fds'[native[k].prime_fd] = imported[k]
      /\ DescriptorsOwned'
  <2>1. CASE fence = NoFd
    BY <1>1, <1>3, <2>1, ImportedHandle DEF MapperInv, DescriptorsOwned
  <2>2. CASE fence # NoFd
    BY <1>1, <2>2, FenceStepInv
  <2> QED BY <2>1, <2>2
<1>5. /\ held' \in [Handle -> 0..MaxLocks]
      /\ LocksCounted' /\ SoftwareLocks' /\ TablesAgree'
      /\ gbm_bo_handle_map' = gbm_bo_handle_map
  <2>1. CASE UNCHANGED <<libVars, held>>
    BY <1>1, <2>1, SameLocks
  <2>2. ASSUME cpuUsage # {}, NEW err, gralloc_gbm_bo_lock(h, native[h], cpuUsage \ HighBits, err),
               held' = IF LockResult(err) = "NONE" THEN [held EXCEPT ![h] = @ + 1] ELSE held
        PROVE  /\ held' \in [Handle -> 0..MaxLocks]
               /\ LocksCounted' /\ SoftwareLocks' /\ TablesAgree'
               /\ gbm_bo_handle_map' = gbm_bo_handle_map
    <3>1. cpuUsage \ HighBits \in SUBSET UsageBit /\ (cpuUsage \ HighBits) \cap SwBits # {}
      BY <1>1, <2>2, MapperAssumption DEF UsageBit, SwBits
    <3>2. TypeOK
      BY DEF MapperInv, MapperTypeOK
    <3>3. \/ err # OK /\ UNCHANGED libVars
          \/ err # OK /\ SetData(b, d)
          \/ /\ err = OK
             /\ \E d1 \in BoData :
                  /\ SetData(b, d1)
                  /\ d1.lock_count = d.lock_count + 1
                  /\ d1.locked_for \cap SwBits # {}
      BY <2>2, <3>1, <3>2, SoftwareLock
    <3>4. CASE err # OK /\ UNCHANGED libVars
      BY <2>1, <2>2, <3>4 DEF LockResult
    <3>5. CASE err # OK /\ SetData(b, d)
      <4>1. held' = [held EXCEPT ![h] = d.lock_count]
        BY <1>2, <1>3, <2>2, <3>5 DEF LockResult
      <4>2. d.lock_count > 0 => d.locked_for \cap SwBits # {}
        BY <1>1, DataOfSoftware
      <4>3. gbm_bo_handle_map' = gbm_bo_handle_map
        BY <3>5 DEF SetData
      <4> QED BY <1>1, <1>2, <3>5, <4>1, <4>2, <4>3, LockStepInv
    <3>6. ASSUME err = OK, NEW d1 \in BoData, SetData(b, d1),
                 d1.lock_count = d.lock_count + 1, d1.locked_for \cap SwBits # {}
          PROVE  /\ held' \in [Handle -> 0..MaxLocks]
                 /\ LocksCounted' /\ SoftwareLocks' /\ TablesAgree'
                 /\ gbm_bo_handle_map' = gbm_bo_handle_map
      <4>1. held' = [held EXCEPT ![h] = d1.lock_count]
        BY <1>2, <1>3, <2>2, <3>6 DEF LockResult
      <4>2. gbm_bo_handle_map' = gbm_bo_handle_map
        BY <3>6 DEF SetData
      <4> QED BY <1>1, <3>6, <4>1, <4>2, LockStepInv
    <3> QED BY <3>3, <3>4, <3>5, <3>6
  <2> QED BY <2>1, <2>2 DEF lock, NoDriver
<1> HIDE DEF b, d
<1> QED BY <1>1, <1>4, <1>5, RestInv

\* Only a lock that is held is given up.
LEMMA UnlockCallInv ==
  ASSUME MapperInv, NegativeCalls = FALSE, NEW h \in Handle, NEW ret, unlock(h, ret),
         TypeOK', RegistryInv', LockInv'
  PROVE  MapperInv'
<1> DEFINE b == gbm_bo_handle_map[h]
           d == user_data[b]
<1>1. /\ imported[h] # NoFile /\ held[h] > 0
      /\ UNCHANGED <<loaded, mInitialized, native, fds, gralloc_metadata_prime_fd_map, raw, imported>>
  BY DEF unlock, Passes
<1>2. /\ fds' \in [Fd -> Buffer \cup Fence \cup {NoFile}]
      /\ \A k \in Handle : imported[k] # NoFile => fds'[native[k].prime_fd] = imported[k]
      /\ DescriptorsOwned'
  BY <1>1, ImportedHandle DEF MapperInv, MapperTypeOK, DescriptorsOwned
<1>3. /\ held' \in [Handle -> 0..MaxLocks]
      /\ LocksCounted' /\ SoftwareLocks' /\ TablesAgree'
      /\ gbm_bo_handle_map' = gbm_bo_handle_map
  <2>1. CASE UNCHANGED <<libVars, held>>
    BY <1>1, <2>1, SameLocks
  <2>2. ASSUME NEW err, gralloc_gbm_bo_unlock(h, err),
               ret = IF err = OK THEN "NONE" ELSE "BAD_BUFFER",
               held' = IF ret = "NONE" /\ held[h] > 0 THEN [held EXCEPT ![h] = @ - 1] ELSE held
        PROVE  /\ held' \in [Handle -> 0..MaxLocks]
               /\ LocksCounted' /\ SoftwareLocks' /\ TablesAgree'
               /\ gbm_bo_handle_map' = gbm_bo_handle_map
    <3>1. b \in Bo /\ b # NoBo /\ held[h] = DataOf(b).lock_count
      BY <1>1, ImportedHandle
    <3>2. d # NoData /\ d.locked_for \cap SwBits # {} /\ DataOf(b) = d
      BY <1>1, <3>1, DataOfSoftware DEF DataOf
    <3>3. d \in BoData /\ d.lock_count # 0 /\ d.lock_count \in Int
      BY <1>1, <3>1, <3>2, ImportedHandle, GrallocAssumption DEF BoData
    <3>4. Unlocked(d) \in BoData /\ Unlocked(d).lock_count = d.lock_count - 1
      BY <3>3, UnlockedOK DEF Unlocked
    <3>5. Unlocked(d).lock_count > 0 => Unlocked(d).locked_for \cap SwBits # {}
      BY <3>2, <3>3, UnlockedOK
    <3>6. err = OK /\ SetData(b, Unlocked(d))
      BY <2>2, <3>1, <3>2, <3>3 DEF gralloc_gbm_bo_unlock
    <3>7. held' = [held EXCEPT ![h] = Unlocked(d).lock_count]
      BY <1>1, <2>2, <3>1, <3>2, <3>4, <3>6
    <3>8. gbm_bo_handle_map' = gbm_bo_handle_map
      BY <3>6 DEF SetData
    <3> QED BY <1>1, <3>4, <3>5, <3>6, <3>7, <3>8, LockStepInv
  <2> QED BY <2>1, <2>2 DEF unlock, NoDriver
<1> HIDE DEF b, d
<1> QED BY <1>1, <1>2, <1>3, RestInv

\* Reading or setting metadata makes an entry for an imported handle only.
LEMMA MetadataCallInv ==
  ASSUME MapperInv, NegativeCalls = FALSE, NEW h \in Handle, Passes(h),
         \/ UNCHANGED gralloc_metadata_prime_fd_map
         \/ \E md \in [Field -> Value] : PutMetadata(h, md),
         UNCHANGED <<libVars, loaded, mInitialized, native, fds, raw, imported, held>>,
         TypeOK', RegistryInv', LockInv'
  PROVE  MapperInv'
<1>1. imported[h] # NoFile
  BY DEF Passes
<1>2. gralloc_metadata_prime_fd_map \in [Fd -> [Field -> Value] \cup {NoMetadata}]
  BY DEF MapperInv, MapperTypeOK
<1>3. /\ gralloc_metadata_prime_fd_map' \in [Fd -> [Field -> Value] \cup {NoMetadata}]
      /\ \A f \in Fd : f # native[h].prime_fd =>
           gralloc_metadata_prime_fd_map'[f] = gralloc_metadata_prime_fd_map[f]
  BY <1>2 DEF PutMetadata
<1>4. MetadataOwned'
  BY <1>1, <1>3 DEF MapperInv, MetadataOwned
<1> QED BY <1>3, <1>4 DEF MapperInv, MapperTypeOK, ImportsAreLive, DescriptorsOwned, LocksCounted,
                          TablesAgree, SoftwareLocks, DataOf, libVars

\* Metadata are made for the descriptor of a handle the client has imported.
LEMMA MetadataInv ==
  ASSUME MapperInv, NegativeCalls = FALSE, NEW h \in Handle, NEW ret,
         \/ getMetadata(h, ret)
         \/ \E field \in Field, v \in Value : setMetadata(h, field, v, ret),
         TypeOK', RegistryInv', LockInv'
  PROVE  MapperInv'
<1>1. CASE UNCHANGED gralloc_metadata_prime_fd_map
  BY <1>1, MetadataCallInv DEF getMetadata, setMetadata
<1>2. CASE Passes(h)
  <2>1. native[h].prime_fd \in Fd
    BY <1>2, OtherHandle DEF Passes
  <2>2. createMetadata(h) \in [Field -> Value]
    BY <2>1, MapperAssumption DEF MapperInv, MapperTypeOK, createMetadata
  <2>3. \A field \in Field, v \in Value :
          [createMetadata(h) EXCEPT ![field] = v] \in [Field -> Value]
    BY <2>2
  <2>4. \/ UNCHANGED gralloc_metadata_prime_fd_map
        \/ \E md \in [Field -> Value] : PutMetadata(h, md)
    BY <2>2, <2>3 DEF getMetadata, setMetadata, NoDriver
  <2> QED BY <1>2, <2>4, MetadataCallInv DEF getMetadata, setMetadata
<1> QED BY <1>1, <1>2 DEF getMetadata, setMetadata

-----------------------------------------------------------------------------
(* The theorems. *)

\* The process starts without handles, metadata or buffer objects.
LEMMA InitMapperInv == MapperInit => MapperInv
<1> SUFFICES ASSUME MapperInit PROVE MapperInv
  OBVIOUS
<1>1. TypeOK
  BY InitTypeOK DEF MapperInit
<1>2. MapperTypeOK
  <2>1. 0 \in 0..MaxLocks
    BY GrallocAssumption
  <2>2. held \in [Handle -> 0..MaxLocks]
    BY <2>1 DEF MapperInit
  <2>3. /\ loaded \in BOOLEAN /\ mInitialized \in BOOLEAN
        /\ native \in [Handle -> HandleInfo \cup {NoHandle}]
        /\ fds \in [Fd -> Buffer \cup Fence \cup {NoFile}]
        /\ gralloc_metadata_prime_fd_map \in [Fd -> [Field -> Value] \cup {NoMetadata}]
        /\ raw \in SUBSET Handle
        /\ imported \in [Handle -> Buffer \cup {NoFile}]
    BY DEF MapperInit
  <2> QED BY <1>1, <2>2, <2>3 DEF MapperTypeOK
<1>3. RegistryInv /\ LockInv
  BY DEF MapperInit, Init, RegistryInv, EntriesExist, EntriesUnshared, NoneLeaks, DataOwned, LockInv
<1>4. ImportsAreLive /\ MetadataOwned /\ LocksCounted
  BY DEF MapperInit, Init, ImportsAreLive, MetadataOwned, LocksCounted
<1>5. DescriptorsOwned
  <2>1. \A f \in Fd : fds[f] \notin Buffer
    BY MapperAssumption DEF MapperInit
  <2>2. \A h \in Handle : native[h] = NoHandle
    BY DEF MapperInit
  <2> QED BY <2>1, <2>2 DEF DescriptorsOwned
<1>6. TablesAgree /\ SoftwareLocks
  BY DEF MapperInit, Init, TablesAgree, SoftwareLocks
<1> QED BY <1>2, <1>3, <1>4, <1>5, <1>6 DEF MapperInv

\* No step of the mapper or of a client that keeps to the interface breaks the invariant.
LEMMA NextMapperInv ==
  ASSUME NegativeCalls = FALSE, MapperInv, [MapperNext]_mapperVars
  PROVE  MapperInv'
<1>1. TypeOK' /\ RegistryInv' /\ LockInv'
  BY LibraryInv
<1>2. CASE UNCHANGED mapperVars
  <2>1. /\ UNCHANGED <<gbm_dev, gbm_bo_handle_map, bos, user_data, crashed>>
        /\ UNCHANGED <<loaded, mInitialized, native, fds, gralloc_metadata_prime_fd_map, raw,
                       imported, held>>
    BY <1>2 DEF mapperVars, libVars
  <2> QED BY <1>1, <2>1 DEF MapperInv, MapperTypeOK, ImportsAreLive, DescriptorsOwned,
                            MetadataOwned, LocksCounted, TablesAgree, SoftwareLocks, DataOf
<1>3. ASSUME NEW ret, Call(ret) PROVE MapperInv'
  <2>1. ASSUME NEW h \in Handle, getMetadata(h, ret) PROVE MapperInv'
    BY <1>1, <2>1, MetadataInv
  <2>2. ASSUME NEW h \in Handle, NEW field \in Field, NEW v \in Value,
               setMetadata(h, field, v, ret)
        PROVE  MapperInv'
    BY <1>1, <2>2, MetadataInv
  <2> QED BY <1>1, <1>3, <2>1, <2>2, ImportInv, FreeInv, UnlockCallInv, LockCallInv DEF Call
<1> QED BY <1>1, <1>2, <1>3, ReceiveRawInv, CloseRawInv, FenceInv, LoadInv DEF MapperNext

\* With a client that keeps to the interface, the mapper's tables, the
\* library's and the client's agree after any sequence of calls.
THEOREM MapperCorrect == NegativeCalls = FALSE => (MapperSpec => []MapperInv)
<1> SUFFICES ASSUME NegativeCalls = FALSE PROVE MapperSpec => []MapperInv
  OBVIOUS
<1>1. MapperInit => MapperInv
  BY InitMapperInv
<1>2. MapperInv /\ [MapperNext]_mapperVars => MapperInv'
  BY NextMapperInv
<1> QED BY <1>1, <1>2, PTL DEF MapperSpec

\* The variables of the mapper keep their types.
THEOREM MapperTypeCorrect == NegativeCalls = FALSE => (MapperSpec => []MapperTypeOK)
<1>1. MapperInv => MapperTypeOK
  BY DEF MapperInv
<1> QED BY <1>1, MapperCorrect, PTL

\* The library's map holds exactly the handles the client imported and has not
\* freed, each with a descriptor open on its buffer.
THEOREM ImportsLive == NegativeCalls = FALSE => (MapperSpec => []ImportsAreLive)
<1>1. MapperInv => ImportsAreLive
  BY DEF MapperInv
<1> QED BY <1>1, MapperCorrect, PTL

\* No descriptor is shared by two handles or left open by a closed one.
THEOREM DescriptorsKept == NegativeCalls = FALSE => (MapperSpec => []DescriptorsOwned)
<1>1. MapperInv => DescriptorsOwned
  BY DEF MapperInv
<1> QED BY <1>1, MapperCorrect, PTL

\* A descriptor number the kernel reuses never brings back another buffer's
\* metadata.
THEOREM MetadataKept == NegativeCalls = FALSE => (MapperSpec => []MetadataOwned)
<1>1. MapperInv => MetadataOwned
  BY DEF MapperInv
<1> QED BY <1>1, MapperCorrect, PTL

\* lock_count is the number of locks the client holds.
THEOREM LocksAreCounted == NegativeCalls = FALSE => (MapperSpec => []LocksCounted)
<1>1. MapperInv => LocksCounted
  BY DEF MapperInv
<1> QED BY <1>1, MapperCorrect, PTL

\* The pointer that lock() returned stays mapped until its unlock().
THEOREM LockedStaysMapped == NegativeCalls = FALSE => (MapperSpec => []LockedIsMapped)
<1>1. MapperInv => LockedIsMapped
  <2> SUFFICES ASSUME MapperInv, NEW h \in Handle, imported[h] # NoFile, held[h] > 0
               PROVE  DataOf(gbm_bo_handle_map[h]).map_data # "none"
    BY DEF LockedIsMapped
  <2> DEFINE b == gbm_bo_handle_map[h]
             d == DataOf(b)
  <2>1. b \in Bo /\ d.lock_count > 0
    BY ImportedHandle
  <2>2. d.locked_for \cap SwBits # {} /\ user_data[b] # NoData
    BY <2>1, DataOfSoftware
  <2>3. WellLocked(d)
    BY <2>1, <2>2 DEF MapperInv, LockInv, DataOf
  <2> QED BY <2>2, <2>3 DEF WellLocked, MapAccess
<1> QED BY <1>1, MapperCorrect, PTL

\* The mapper never dereferences a null bo_data for such a client.
THEOREM NeverCrashes == NegativeCalls = FALSE => (MapperSpec => []NoCrash)
<1>1. MapperInv => NoCrash
  BY DEF MapperInv, TablesAgree, NoCrash
<1> QED BY <1>1, MapperCorrect, PTL

\* The handles keep their type whatever the client calls.
LEMMA NativeStays ==
  ASSUME NativeTyped, [MapperNext]_mapperVars
  PROVE  NativeTyped'
<1>1. CASE UNCHANGED native
  BY <1>1 DEF NativeTyped
<1>2. ASSUME NEW h \in Handle, NEW f \in Fd, NEW buf \in Buffer, ReceiveRaw(h, f, buf)
      PROVE  NativeTyped'
  <2>1. [prime_fd |-> f, format |-> Allocated[buf].format, usage |-> Allocated[buf].usage] \in HandleInfo
    BY MapperAssumption DEF HandleInfo
  <2> QED BY <1>2, <2>1 DEF ReceiveRaw, NativeTyped
<1>3. ASSUME NEW h \in Handle, CloseAndDelete(h) PROVE NativeTyped'
  BY <1>3 DEF CloseAndDelete, NativeTyped
<1>4. ASSUME NEW h \in Handle, NEW n \in Handle, NEW f \in Fd, NEW ret, importBuffer(h, n, f, ret)
      PROVE  NativeTyped'
  <2> DEFINE clone == [native[h] EXCEPT !.prime_fd = f]
  <2>1. native[h] \in HandleInfo
    BY <1>4, NativeOK DEF importBuffer
  <2>2. clone \in HandleInfo
    BY <2>1 DEF HandleInfo
  <2>3. UNCHANGED native \/ native' = [native EXCEPT ![n] = clone]
    BY <1>4 DEF importBuffer, NoDriver
  <2> HIDE DEF clone
  <2> QED BY <2>2, <2>3 DEF NativeTyped
<1>5. ASSUME NEW ret, Call(ret) PROVE NativeTyped'
  <2>1. ASSUME NEW h \in Handle, freeBuffer(h, ret) PROVE UNCHANGED native \/ CloseAndDelete(h)
    BY <2>1 DEF freeBuffer, NoDriver
  <2>2. ASSUME NEW h \in Handle, unlock(h, ret) \/ getMetadata(h, ret) PROVE UNCHANGED native
    BY <2>2 DEF unlock, getMetadata
  <2>3. ASSUME NEW h \in Handle, NEW field \in Field, NEW v \in Value, setMetadata(h, field, v, ret)
        PROVE  UNCHANGED native
    BY <2>3 DEF setMetadata
  <2>4. ASSUME NEW h \in Handle, NEW cpuUsage \in SUBSET (UsageBit \cup HighBits),
               NEW fence \in Fd \cup {NoFd}, lock(h, cpuUsage, fence, ret)
        PROVE  UNCHANGED native
    BY <2>4 DEF lock
  <2> QED BY <1>1, <1>3, <1>4, <1>5, <2>1, <2>2, <2>3, <2>4 DEF Call
<1>6. ASSUME NEW h \in Handle, CloseRaw(h) PROVE CloseAndDelete(h)
  BY <1>6 DEF CloseRaw
<1>7. ASSUME NEW f \in Fd, ObtainFence(f) \/ SignalFence(f) \/ CloseFence(f) PROVE UNCHANGED native
  BY <1>7 DEF ObtainFence, SignalFence, CloseFence
<1>8. LoadIMapper \/ UNCHANGED mapperVars => UNCHANGED native
  BY DEF LoadIMapper, mapperVars
<1> QED BY <1>1, <1>2, <1>3, <1>5, <1>6, <1>7, <1>8 DEF MapperNext

\* Whatever the client calls, those calls of the VTS that must fail included, a
\* step of the mapper is at most one call of the library: GrallocGbm is an
\* abstraction of the process that MapperV5 models.
THEOREM MapperUsesLibrary == MapperSpec => Spec
<1>1. MapperInit => Init /\ NativeTyped
  BY DEF MapperInit, NativeTyped
<1>2. NativeTyped /\ [MapperNext]_mapperVars => [Next]_libVars /\ NativeTyped'
  BY MapperNextIsNext, NativeStays
<1> QED BY <1>1, <1>2, PTL DEF MapperSpec, Spec

\* So a client that frees and unlocks what it never imported, or locks for any
\* usage, leaves the registry the owner of its objects, and every mapping to a lock.
THEOREM AnyClientKeepsLibrary == MapperSpec => [](RegistryInv /\ LockInv)
BY MapperUsesLibrary, RegistryCorrect, LockCorrect, PTL

-----------------------------------------------------------------------------
(* The mapper implements BufferContract.  What the contract speaks of is     *)
(* read off the client's tables first: its buffers are what is imported, its *)
(* lock counts the locks held.                                               *)

Defaults == [x \in Field |-> Default]

\* The metadata and the usage locked for that a client sees of each handle.
Meta == [h \in Handle |-> IF imported[h] = NoFile THEN Defaults ELSE createMetadata(h)]
LockedFor ==
  [h \in Handle |-> IF imported[h] = NoFile THEN {} ELSE DataOf(gbm_bo_handle_map[h]).locked_for]

\* The contract's variables are these.
Viewed ==
  /\ [h \in Handle |-> IF Mapped(h) THEN fds[native[h].prime_fd] ELSE NoFile] = imported
  /\ [h \in Handle |-> IF Mapped(h) THEN createMetadata(h)
                                      ELSE [x \in Field |-> Default]] = Meta
  /\ [h \in Handle |-> IF Mapped(h) THEN DataOf(gbm_bo_handle_map[h]).lock_count ELSE 0] = held
  /\ [h \in Handle |-> IF Mapped(h) THEN DataOf(gbm_bo_handle_map[h]).locked_for
                                     ELSE {}] = LockedFor

\* With the mapper's invariant a handle the library knows is one the client imported.
LEMMA ViewOK == MapperInv => Viewed
<1> SUFFICES ASSUME MapperInv PROVE Viewed
  OBVIOUS
<1>1. \A h \in Handle : Mapped(h) <=> imported[h] # NoFile
  BY OtherHandle, ImportedHandle DEF Mapped
<1>2. \A h \in Handle : imported[h] = NoFile => held[h] = 0
  BY DEF MapperInv, TablesAgree
<1>3. \A h \in Handle : imported[h] # NoFile =>
        fds[native[h].prime_fd] = imported[h] /\ held[h] = DataOf(gbm_bo_handle_map[h]).lock_count
  BY ImportedHandle
<1>4. DOMAIN imported = Handle /\ DOMAIN held = Handle
      /\ imported = [h \in Handle |-> imported[h]] /\ held = [h \in Handle |-> held[h]]
  BY DEF MapperInv, MapperTypeOK
<1> HIDE DEF Mapped
<1>5. [h \in Handle |-> IF Mapped(h) THEN fds[native[h].prime_fd] ELSE NoFile] = imported
  BY <1>1, <1>3, <1>4
<1>6. [h \in Handle |-> IF Mapped(h) THEN DataOf(gbm_bo_handle_map[h]).lock_count ELSE 0] = held
  BY <1>1, <1>2, <1>3, <1>4
<1> QED BY <1>1, <1>5, <1>6 DEF Viewed, Meta, LockedFor, Defaults

\* It is so before and after every step.
LEMMA ViewStays == MapperInv' => Viewed'
BY ViewOK, PTL

-----------------------------------------------------------------------------
(* Steps of the contract, in terms of the client's tables. *)

SameView == UNCHANGED <<imported, Meta, held, LockedFor>>

\* What leaves the tables alone leaves the contract's variables alone.
LEMMA ContractStutters ==
  ASSUME Viewed, Viewed', SameView
  PROVE  UNCHANGED Contract!contractVars
BY DEF Viewed, SameView, Contract!contractVars

\* importBuffer adds a handle and leaves metadata and locks alone.
LEMMA ContractImports ==
  ASSUME Viewed, Viewed', NEW h \in Handle, NEW b \in Buffer, imported[h] = NoFile,
         imported' = [imported EXCEPT ![h] = b], UNCHANGED <<Meta, held, LockedFor>>
  PROVE  Contract!Next
<1>1. Contract!Import(h, b)
  BY DEF Viewed, Contract!Import
<1> QED BY <1>1 DEF Contract!Next

\* freeBuffer takes an unlocked handle and its metadata away.
LEMMA ContractFrees ==
  ASSUME Viewed, Viewed', NEW h \in Handle, imported[h] # NoFile, held[h] = 0,
         imported' = [imported EXCEPT ![h] = NoFile], Meta' = [Meta EXCEPT ![h] = Defaults],
         UNCHANGED <<held, LockedFor>>
  PROVE  Contract!Next
<1>1. Contract!Free(h)
  BY DEF Viewed, Contract!Free, Defaults
<1> QED BY <1>1 DEF Contract!Next

\* setMetadata changes one handle's metadata.
LEMMA ContractSets ==
  ASSUME Viewed, Viewed', NEW h \in Handle, imported[h] # NoFile, NEW md \in [Field -> Value],
         Meta' = [Meta EXCEPT ![h] = md], UNCHANGED <<imported, held, LockedFor>>
  PROVE  Contract!Next
<1>1. Contract!SetMetadata(h, md)
  BY DEF Viewed, Contract!SetMetadata
<1> QED BY <1>1 DEF Contract!Next

\* lock adds one to a handle's locks.
LEMMA ContractLocks ==
  ASSUME Viewed, Viewed', NEW h \in Handle, imported[h] # NoFile, held[h] = 0,
         NEW usage \in SUBSET UsageBit,
         held' = [held EXCEPT ![h] = @ + 1],
         LockedFor' = [LockedFor EXCEPT ![h] = @ \cup usage],
         UNCHANGED <<imported, Meta>>
  PROVE  Contract!Next
<1>1. Contract!Lock(h, usage)
  BY DEF Viewed, Contract!Lock
<1> QED BY <1>1 DEF Contract!Next

\* unlock takes one lock back.
LEMMA ContractUnlocks ==
  ASSUME Viewed, Viewed', NEW h \in Handle, held[h] > 0,
         held' = [held EXCEPT ![h] = @ - 1],
         LockedFor' = [LockedFor EXCEPT ![h] = IF held[h] = 1 THEN {} ELSE @],
         UNCHANGED <<imported, Meta>>
  PROVE  Contract!Next
<1>1. Contract!Unlock(h)
  BY DEF Viewed, Contract!Unlock
<1> QED BY <1>1 DEF Contract!Next

-----------------------------------------------------------------------------
(* Which of them each action of the mapper is. *)

\* The metadata of the handles whose descriptor and entry stay.
LEMMA MetaFrame ==
  ASSUME NEW h \in Handle, UNCHANGED imported,
         imported[h] # NoFile =>
           /\ native'[h] = native[h]
           /\ gralloc_metadata_prime_fd_map'[native[h].prime_fd] =
                gralloc_metadata_prime_fd_map[native[h].prime_fd]
  PROVE  Meta'[h] = Meta[h]
BY DEF Meta, createMetadata, Defaults

\* A lock or an unlock of one handle is seen through that handle only.
LEMMA LockFrame ==
  ASSUME MapperInv, NEW h \in Handle, imported[h] # NoFile, NEW d,
         SetData(gbm_bo_handle_map[h], d), d # NoData, UNCHANGED imported
  PROVE  LockedFor' = [LockedFor EXCEPT ![h] = d.locked_for]
<1>1. user_data \in [Bo -> BoData \cup {NoData}] /\ gbm_bo_handle_map[h] \in Bo
  BY ImportedHandle DEF MapperInv, MapperTypeOK, TypeOK
<1>2. \A k \in Handle : k # h /\ imported[k] # NoFile =>
        gbm_bo_handle_map[k] # gbm_bo_handle_map[h] /\ gbm_bo_handle_map[k] \in Bo
  BY ImportedHandle DEF MapperInv, RegistryInv, EntriesUnshared
<1>3. UNCHANGED gbm_bo_handle_map
      /\ user_data' = [user_data EXCEPT ![gbm_bo_handle_map[h]] = d]
  BY DEF SetData
<1>4. \A k \in Handle : LockedFor'[k] = IF k = h THEN d.locked_for ELSE LockedFor[k]
  BY <1>1, <1>2, <1>3 DEF LockedFor, DataOf
<1> QED BY <1>4 DEF LockedFor

\* The client's own steps and the construction of the mapper.
LEMMA ClientStutters ==
  ASSUME MapperInv,
         \/ \E h \in Handle, f \in Fd, buf \in Buffer : ReceiveRaw(h, f, buf)
         \/ \E h \in Handle : CloseRaw(h)
         \/ \E f \in Fd : ObtainFence(f) \/ SignalFence(f) \/ CloseFence(f)
         \/ LoadIMapper
  PROVE  SameView
<1>1. /\ UNCHANGED <<gbm_bo_handle_map, user_data, gralloc_metadata_prime_fd_map, imported, held>>
      /\ \A h \in Handle : imported[h] # NoFile => native'[h] = native[h]
  <2>1. ASSUME NEW h \in Handle, NEW f \in Fd, NEW buf \in Buffer, ReceiveRaw(h, f, buf)
        PROVE  /\ UNCHANGED <<libVars, gralloc_metadata_prime_fd_map, imported, held>>
               /\ \A k \in Handle : imported[k] # NoFile => native'[k] = native[k]
    BY <2>1, OtherHandle DEF ReceiveRaw, MapperInv, MapperTypeOK
  <2>2. ASSUME NEW h \in Handle, CloseRaw(h)
        PROVE  /\ UNCHANGED <<libVars, gralloc_metadata_prime_fd_map, imported, held>>
               /\ \A k \in Handle : imported[k] # NoFile => native'[k] = native[k]
    BY <2>2, ImportedHandle DEF CloseRaw, CloseAndDelete, MapperInv, MapperTypeOK
  <2>3. ASSUME NEW f \in Fd, ObtainFence(f) \/ SignalFence(f) \/ CloseFence(f)
        PROVE  UNCHANGED <<libVars, gralloc_metadata_prime_fd_map, native, imported, held>>
    BY <2>3 DEF ObtainFence, SignalFence, CloseFence
  <2>4. CASE LoadIMapper
    BY <2>4 DEF LoadIMapper, gralloc_gbm_device_init
  <2> QED BY <2>1, <2>2, <2>3, <2>4 DEF libVars
<1>2. \A h \in Handle : Meta'[h] = Meta[h]
  BY <1>1, MetaFrame
<1>3. LockedFor' = LockedFor
  BY <1>1 DEF LockedFor, DataOf
<1> QED BY <1>1, <1>2, <1>3 DEF SameView, Meta

\* A call that touches neither the library nor the tables.
LEMMA Unseen ==
  ASSUME UNCHANGED <<libVars, native, gralloc_metadata_prime_fd_map, imported, held>>
  PROVE  SameView
BY DEF SameView, Meta, LockedFor, createMetadata, DataOf, libVars

\* An import starts with the defaults and unlocked: neither its descriptor's
\* number nor its buffer object brings anything back.
LEMMA ImportView ==
  ASSUME MapperInv, Viewed, Viewed', NEW h \in Handle, NEW n \in Handle, NEW f \in Fd, NEW ret,
         importBuffer(h, n, f, ret)
  PROVE  Contract!Next \/ SameView
<1> DEFINE clone == [native[h] EXCEPT !.prime_fd = f]
           buf == fds[native[h].prime_fd]
<1>1. CASE UNCHANGED <<libVars, native, fds, imported>>
  BY <1>1, Unseen DEF importBuffer
<1>2. ASSUME NEW b \in Bo, NewBo(n, b), buf \in Buffer, native' = [native EXCEPT ![n] = clone],
             imported' = [imported EXCEPT ![n] = buf]
      PROVE  Contract!Next
  <2>1. /\ native[n] = NoHandle /\ fds[f] = NoFile /\ native[h] # NoHandle
        /\ UNCHANGED <<gralloc_metadata_prime_fd_map, held>>
    BY DEF importBuffer
  <2>2. imported[n] = NoFile /\ gbm_bo_handle_map[n] = NoBo
    BY <2>1, OtherHandle
  <2>3. /\ b \notin bos /\ UNCHANGED user_data
        /\ gbm_bo_handle_map' = [gbm_bo_handle_map EXCEPT ![n] = b]
    BY <1>2, <2>2 DEF NewBo, Emplace
  <2>4. /\ native \in [Handle -> HandleInfo \cup {NoHandle}]
        /\ imported \in [Handle -> Buffer \cup {NoFile}]
        /\ gbm_bo_handle_map \in [Handle -> Bo \cup {NoBo}]
    BY DEF MapperInv, MapperTypeOK, TypeOK
  <2>5. clone.prime_fd = f
    BY <2>1, NativeOK DEF MapperInv, MapperTypeOK, NativeTyped, HandleInfo
  <2>6. gralloc_metadata_prime_fd_map[f] = NoMetadata
    <3>1. \A k \in Handle : imported[k] # NoFile => native[k].prime_fd # f
      BY <2>1, ImportedHandle
    <3> QED BY <3>1 DEF MapperInv, MetadataOwned
  <2>7. user_data[b] = NoData
    BY <2>3 DEF MapperInv, RegistryInv, DataOwned
  <2> HIDE DEF clone, buf
  <2>8. Meta' = Meta
    <3>1. Meta'[n] = Meta[n]
      BY <1>2, <2>1, <2>2, <2>4, <2>5, <2>6 DEF Meta, createMetadata, Defaults
    <3>2. \A k \in Handle : k # n => Meta'[k] = Meta[k]
      BY <1>2, <2>1, <2>4 DEF Meta, createMetadata
    <3> QED BY <3>1, <3>2 DEF Meta
  <2>9. LockedFor' = LockedFor
    <3>1. LockedFor'[n] = LockedFor[n]
      BY <1>2, <2>2, <2>3, <2>4, <2>7 DEF LockedFor, DataOf, NewData
    <3>2. \A k \in Handle : k # n => LockedFor'[k] = LockedFor[k]
      BY <1>2, <2>3, <2>4 DEF LockedFor, DataOf
    <3> QED BY <3>1, <3>2 DEF LockedFor
  <2> QED BY <1>2, <2>1, <2>2, <2>8, <2>9, ContractImports
<1>3. \/ UNCHANGED <<libVars, native, fds, imported>>
      \/ \E b \in Bo : /\ NewBo(n, b) /\ buf \in Buffer /\ native' = [native EXCEPT ![n] = clone]
                        /\ imported' = [imported EXCEPT ![n] = buf]
  BY DEF importBuffer, gralloc_gm_buffer_import, NoDriver, OK
<1> HIDE DEF clone, buf
<1> QED BY <1>1, <1>2, <1>3

\* Freeing an unlocked import takes its own metadata with it and no other's.
LEMMA FreeView ==
  ASSUME MapperInv, Viewed, Viewed', NegativeCalls = FALSE, NEW h \in Handle, NEW ret,
         freeBuffer(h, ret)
  PROVE  Contract!Next \/ SameView
<1> DEFINE b == gbm_bo_handle_map[h]
<1>1. imported[h] # NoFile /\ held[h] = 0
  BY DEF freeBuffer, Passes
<1>2. CASE NoDriver(ret)
  <2>1. UNCHANGED <<libVars, native, gralloc_metadata_prime_fd_map, imported, held>>
    BY <1>2 DEF NoDriver
  <2> QED BY <2>1, Unseen
<1>3. CASE ~NoDriver(ret)
  <2>1. b # NoBo /\ b \in Bo
    BY <1>1, ImportedHandle
  <2>2. /\ EraseMetadata(h) /\ CloseAndDelete(h)
        /\ imported' = [imported EXCEPT ![h] = NoFile]
        /\ held' = [held EXCEPT ![h] = 0]
        /\ gbm_bo_handle_map' = [gbm_bo_handle_map EXCEPT ![h] = NoBo]
        /\ user_data' = [user_data EXCEPT ![b] = NoData]
    BY <1>3, <2>1 DEF freeBuffer, gralloc_gm_buffer_free
  <2>3. held' = held
    BY <1>1, <2>2 DEF MapperInv, MapperTypeOK
  <2>4. /\ native \in [Handle -> HandleInfo \cup {NoHandle}]
        /\ imported \in [Handle -> Buffer \cup {NoFile}]
        /\ gbm_bo_handle_map \in [Handle -> Bo \cup {NoBo}]
        /\ user_data \in [Bo -> BoData \cup {NoData}]
        /\ gralloc_metadata_prime_fd_map \in [Fd -> [Field -> Value] \cup {NoMetadata}]
    BY DEF MapperInv, MapperTypeOK, TypeOK
  <2>5. \A k \in Handle : k # h /\ imported[k] # NoFile =>
          /\ native[k].prime_fd # native[h].prime_fd
          /\ gbm_bo_handle_map[k] # b /\ gbm_bo_handle_map[k] \in Bo
    BY <1>1, <2>1, ImportedHandle DEF MapperInv, DescriptorsOwned, RegistryInv, EntriesUnshared
  <2>6. Meta' = [Meta EXCEPT ![h] = Defaults]
    <3>1. Meta'[h] = Defaults
      BY <2>2, <2>4 DEF Meta
    <3>2. \A k \in Handle : k # h => Meta'[k] = Meta[k]
      BY <2>2, <2>4, <2>5 DEF Meta, createMetadata, EraseMetadata, CloseAndDelete
    <3> QED BY <3>1, <3>2 DEF Meta
  <2>7. LockedFor' = LockedFor
    <3>1. DataOf(b).lock_count = 0 /\ WellLocked(DataOf(b))
      BY <1>1, <2>1, ImportedHandle, DataOfOK DEF MapperInv, MapperTypeOK
    <3>2. LockedFor'[h] = LockedFor[h]
      BY <2>2, <2>4, <3>1 DEF LockedFor, WellLocked
    <3>3. \A k \in Handle : k # h => LockedFor'[k] = LockedFor[k]
      BY <2>1, <2>2, <2>4, <2>5 DEF LockedFor, DataOf
    <3> QED BY <3>2, <3>3 DEF LockedFor
  <2> QED BY <1>1, <2>2, <2>3, <2>6, <2>7, ContractFrees
<1> QED BY <1>2, <1>3

\* A lock that succeeds is the first: one for software access excludes every other.
LEMMA LockView ==
  ASSUME MapperInv, Viewed, Viewed', NegativeCalls = FALSE, NEW h \in Handle,
         NEW cpuUsage \in SUBSET (UsageBit \cup HighBits), NEW fence, NEW ret,
         lock(h, cpuUsage, fence, ret)
  PROVE  Contract!Next \/ SameView
<1> DEFINE b == gbm_bo_handle_map[h]
           d == DataOf(b)
           usage == cpuUsage \ HighBits
           all == usage \cup d.locked_for
<1>1. /\ imported[h] # NoFile /\ cpuUsage \subseteq SwBits
      /\ UNCHANGED <<native, gralloc_metadata_prime_fd_map, imported>>
  BY DEF lock, Passes
<1>2. /\ b \in Bo /\ d \in BoData /\ d # NoData /\ held[h] = d.lock_count /\ WellLocked(d)
      /\ held \in [Handle -> 0..MaxLocks]
  BY <1>1, ImportedHandle, DataOfOK, GrallocAssumption DEF MapperInv, MapperTypeOK
<1>3. Meta' = Meta
  BY <1>1 DEF Meta, createMetadata
<1>4. CASE UNCHANGED <<libVars, held>>
  BY <1>1, <1>4, Unseen
<1>5. CASE SetData(b, d) /\ UNCHANGED held
  <2>1. LockedFor' = [LockedFor EXCEPT ![h] = d.locked_for]
    BY <1>1, <1>2, <1>5, LockFrame
  <2>2. LockedFor' = LockedFor
    BY <1>1, <2>1 DEF LockedFor
  <2> QED BY <1>1, <1>3, <1>5, <2>2 DEF SameView
<1>6. ASSUME usage \in SUBSET UsageBit, usage \cap SwBits # {},
             Compatible(d, usage), TakeLock(b, d, all, OK), held' = [held EXCEPT ![h] = @ + 1]
      PROVE  Contract!Next
  <2>1. /\ d.map_data = "none" /\ d.lock_count < MaxLocks
        /\ SetData(b, [map_data |-> MapAccess(all), lock_count |-> d.lock_count + 1,
                       locked_for |-> d.locked_for \cup all])
    BY <1>6 DEF TakeLock, OK
  <2>2. d.lock_count = 0
    <3>1. d.lock_count # 0 => d.locked_for \cap SwBits # {}
      BY <1>1, <1>2, DataOfSoftware, GrallocAssumption DEF BoData
    <3> QED BY <1>2, <2>1, <3>1 DEF WellLocked, MapAccess
  <2>3. LockedFor' = [LockedFor EXCEPT ![h] = @ \cup usage]
    <3> DEFINE locked == [map_data |-> MapAccess(all), lock_count |-> d.lock_count + 1,
                          locked_for |-> d.locked_for \cup all]
    <3>1. locked \in BoData
      BY <1>2, <1>6, <2>1, GrallocAssumption DEF BoData, MapAccess
    <3>2. locked # NoData /\ locked.locked_for = d.locked_for \cup usage
      BY <3>1, GrallocAssumption
    <3>3. LockedFor[h] = d.locked_for
      BY <1>1 DEF LockedFor
    <3> HIDE DEF locked
    <3>4. LockedFor' = [LockedFor EXCEPT ![h] = locked.locked_for]
      BY <1>1, <2>1, <3>2, LockFrame DEF locked
    <3> QED BY <3>2, <3>3, <3>4
  <2> QED BY <1>1, <1>2, <1>3, <1>6, <2>2, <2>3, ContractLocks
<1>7. ASSUME NEW err, cpuUsage # {}, gralloc_gbm_bo_lock(h, native[h], usage, err),
             ret = LockResult(err),
             held' = IF ret = "NONE" THEN [held EXCEPT ![h] = @ + 1] ELSE held
      PROVE  Contract!Next \/ SameView
  <2>1. usage \in SUBSET UsageBit /\ usage \cap SwBits # {}
    BY <1>1, <1>7, MapperAssumption DEF UsageBit, SwBits
  <2>2. CASE err # OK
    <3>1. UNCHANGED held /\ (UNCHANGED libVars \/ SetData(b, d))
      BY <1>7, <2>2 DEF LockResult, gralloc_gbm_bo_lock, TakeLock
    <3> QED BY <1>4, <1>5, <3>1
  <2>3. CASE err = OK
    <3>1. Compatible(d, usage) /\ TakeLock(b, d, all, OK) /\ held' = [held EXCEPT ![h] = @ + 1]
      BY <1>7, <2>3 DEF LockResult, gralloc_gbm_bo_lock, OK
    <3> QED BY <1>6, <2>1, <3>1
  <2> QED BY <2>2, <2>3
<1> QED BY <1>4, <1>7 DEF lock, NoDriver

\* Such a client unlocks what it has locked.
LEMMA UnlockView ==
  ASSUME MapperInv, Viewed, Viewed', NegativeCalls = FALSE, NEW h \in Handle, NEW ret,
         unlock(h, ret)
  PROVE  Contract!Next \/ SameView
<1> DEFINE b == gbm_bo_handle_map[h]
           d == user_data[b]
<1>1. /\ imported[h] # NoFile /\ held[h] > 0
      /\ UNCHANGED <<native, gralloc_metadata_prime_fd_map, imported>>
  BY DEF unlock, Passes
<1>2. /\ b \in Bo /\ b # NoBo /\ d # NoData /\ DataOf(b) = d /\ d \in BoData
      /\ held[h] = d.lock_count
  <2>1. b \in Bo /\ b # NoBo /\ DataOf(b) \in BoData /\ held[h] = DataOf(b).lock_count
    BY <1>1, ImportedHandle
  <2>2. d # NoData
    BY <1>1, <2>1, DataOfSoftware
  <2> QED BY <2>1, <2>2 DEF DataOf
<1>3. CASE NoDriver(ret)
  <2>1. UNCHANGED <<libVars, held>>
    BY <1>3 DEF NoDriver
  <2> QED BY <1>1, <2>1, Unseen
<1>4. CASE ~NoDriver(ret)
  <2>1. SetData(b, Unlocked(d)) /\ held' = [held EXCEPT ![h] = @ - 1]
    BY <1>1, <1>2, <1>4 DEF unlock, gralloc_gbm_bo_unlock
  <2>2. Unlocked(d) \in BoData /\ Unlocked(d) # NoData
    BY <1>1, <1>2, UnlockedOK, GrallocAssumption
  <2>3. LockedFor' = [LockedFor EXCEPT ![h] = Unlocked(d).locked_for]
    BY <1>1, <2>1, <2>2, LockFrame
  <2>4. LockedFor[h] = d.locked_for /\ Unlocked(d).locked_for = IF held[h] = 1 THEN {} ELSE d.locked_for
    BY <1>1, <1>2 DEF LockedFor, Unlocked
  <2>5. Meta' = Meta
    BY <1>1 DEF Meta, createMetadata
  <2>6. LockedFor' = [LockedFor EXCEPT ![h] = IF held[h] = 1 THEN {} ELSE @]
    BY <2>3, <2>4
  <2> QED BY <1>1, <2>1, <2>5, <2>6, ContractUnlocks
<1> QED BY <1>3, <1>4

\* A query may make the entry it finds missing; a value that is set is seen
\* through that handle.
LEMMA MetadataView ==
  ASSUME MapperInv, Viewed, Viewed', NegativeCalls = FALSE, NEW h \in Handle, NEW ret,
         \/ getMetadata(h, ret)
         \/ \E field \in Field, v \in Value : setMetadata(h, field, v, ret)
  PROVE  Contract!Next \/ SameView
<1>1. /\ imported[h] # NoFile
      /\ UNCHANGED <<libVars, native, imported, held>>
  BY DEF getMetadata, setMetadata, Passes
<1>2. LockedFor' = LockedFor
  BY <1>1 DEF LockedFor, DataOf, libVars
<1>3. /\ gralloc_metadata_prime_fd_map \in [Fd -> [Field -> Value] \cup {NoMetadata}]
      /\ native[h].prime_fd \in Fd
  BY <1>1, ImportedHandle DEF MapperInv, MapperTypeOK
<1>4. createMetadata(h) \in [Field -> Value] /\ Meta[h] = createMetadata(h)
  BY <1>1, <1>3, MapperAssumption DEF createMetadata, Meta
<1>5. ASSUME NEW md \in [Field -> Value], PutMetadata(h, md)
      PROVE  Meta' = [Meta EXCEPT ![h] = md]
  <2>1. Meta'[h] = md
    BY <1>1, <1>3, <1>5, MapperAssumption DEF PutMetadata, Meta, createMetadata
  <2>2. \A k \in Handle : k # h /\ imported[k] # NoFile => native[k].prime_fd # native[h].prime_fd
    BY <1>1, ImportedHandle DEF MapperInv, DescriptorsOwned
  <2>3. \A k \in Handle : k # h => Meta'[k] = Meta[k]
    BY <1>1, <1>3, <1>5, <2>2 DEF PutMetadata, Meta, createMetadata
  <2> QED BY <2>1, <2>3 DEF Meta
<1>6. CASE UNCHANGED gralloc_metadata_prime_fd_map
  BY <1>1, <1>6, Unseen
<1>7. ASSUME NEW md \in [Field -> Value], PutMetadata(h, md) PROVE Contract!Next
  BY <1>1, <1>2, <1>5, <1>7, ContractSets
<1>8. \A field \in Field, v \in Value : [createMetadata(h) EXCEPT ![field] = v] \in [Field -> Value]
  BY <1>4
<1> QED BY <1>4, <1>6, <1>7, <1>8 DEF getMetadata, setMetadata, NoDriver

-----------------------------------------------------------------------------

\* With a client that keeps to the interface the mapper keeps the contract of its
\* own code, which is less than IMapper.h asks for (see BufferContract): every call
\* imports, frees, locks, unlocks or sets the metadata of one handle as the contract
\* says, or changes nothing the client can see.
THEOREM ContractKept == NegativeCalls = FALSE => (MapperSpec => ImplementsContract)
<1> SUFFICES ASSUME NegativeCalls = FALSE PROVE MapperSpec => ImplementsContract
  OBVIOUS
<1>1. MapperInit => Contract!Init
  BY DEF MapperInit, Init, Mapped, Contract!Init
<1>2. MapperInv /\ MapperInv' /\ [MapperNext]_mapperVars => [Contract!Next]_(Contract!contractVars)
  <2> SUFFICES ASSUME MapperInv, MapperInv', [MapperNext]_mapperVars
               PROVE  Contract!Next \/ UNCHANGED Contract!contractVars
    OBVIOUS
  <2>1. Viewed /\ Viewed'
    BY ViewOK, ViewStays
  <2>2. CASE UNCHANGED mapperVars
    BY <2>1, <2>2, Unseen, ContractStutters DEF mapperVars
  <2>3. ASSUME NEW ret, Call(ret) PROVE Contract!Next \/ SameView
    <3>1. ASSUME NEW h \in Handle, freeBuffer(h, ret) \/ unlock(h, ret) \/ getMetadata(h, ret)
          PROVE  Contract!Next \/ SameView
      BY <2>1, <3>1, FreeView, UnlockView, MetadataView
    <3>2. ASSUME NEW h \in Handle, NEW field \in Field, NEW v \in Value, setMetadata(h, field, v, ret)
          PROVE  Contract!Next \/ SameView
      BY <2>1, <3>2, MetadataView
    <3>3. ASSUME NEW h \in Handle, NEW n \in Handle, NEW f \in Fd, importBuffer(h, n, f, ret)
          PROVE  Contract!Next \/ SameView
      BY <2>1, <3>3, ImportView
    <3>4. ASSUME NEW h \in Handle, NEW cpuUsage \in SUBSET (UsageBit \cup HighBits),
                 NEW fence \in Fd \cup {NoFd}, lock(h, cpuUsage, fence, ret)
          PROVE  Contract!Next \/ SameView
      BY <2>1, <3>4, LockView
    <3> QED BY <2>3, <3>1, <3>2, <3>3, <3>4 DEF Call
  <2> QED BY <2>1, <2>2, <2>3, ClientStutters, ContractStutters DEF MapperNext
<1> QED BY <1>1, <1>2, MapperCorrect, PTL DEF MapperSpec, ImplementsContract, Contract!Spec

=============================================================================
