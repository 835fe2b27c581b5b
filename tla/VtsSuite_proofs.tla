---------------------------- MODULE VtsSuite_proofs ----------------------------
(***************************************************************************)
(* The fixture of the VTS suite cleans up after every test, for any buffer *)
(* objects, formats, usage bits, errno values and bound on locks: whatever *)
(* a test did and wherever a failed check ended it, the destructors give   *)
(* everything back to the mapper and to the kernel.  The suite is then     *)
(* shown to be a client as MapperV5 has it, negative calls included, so    *)
(* that what holds of the library under any client holds under the suite.  *)
(***************************************************************************)
EXTENDS VtsSuite, MapperV5_proofs, SequenceTheorems

\* The steps of the tests.
TestStep == UNION {{Tests[t][i] : i \in 1..Len(Tests[t])} : t \in DOMAIN Tests}

TablesTyped ==
  /\ TypeOK /\ RegistryInv
  /\ native \in [Handle -> HandleInfo \cup {NoHandle}]
  /\ fds \in [Fd -> Buffer \cup {NoFile}]
  /\ DOMAIN gralloc_metadata_prime_fd_map = Fd
  /\ raw \in SUBSET RawSlot
  /\ imported \in [Handle -> Buffer \cup {NoFile}]

\* What is known of slot h: an imported handle is in the map, metadata belong to
\* an imported handle, a descriptor to a handle, and a handle to the fixture.
SlotInv(h) ==
  /\ imported[h] # NoFile <=> gbm_bo_handle_map[h] # NoBo
  /\ imported[h] # NoFile => h \in ImportSlot /\ native[h] # NoHandle
  /\ native[h] # NoHandle => native[h].prime_fd = h /\ (h \in raw \/ imported[h] # NoFile)
  /\ fds[h] # NoFile <=> native[h] # NoHandle
  /\ gralloc_metadata_prime_fd_map[h] # NoMetadata => imported[h] # NoFile

TablesInv == TablesTyped /\ \A h \in Handle : SlotInv(h)

\* Between two tests the fixture holds nothing.
BetweenTests == test = NoTest /\ ~crashed => \A h \in Handle : ~Alive(h)

SuiteInv == TablesInv /\ todo \in Seq(TestStep) /\ BetweenTests

-----------------------------------------------------------------------------
(* The tests as data. *)

\* A test is a sequence of steps that use the slots as they should.
LEMMA TestsAreSteps ==
  /\ \A t \in DOMAIN Tests : t # NoTest /\ Tests[t] \in Seq(TestStep)
  /\ \A s \in TestStep : UsesSlots(s)
<1>1. ASSUME NEW t \in DOMAIN Tests PROVE t # NoTest /\ Tests[t] \in Seq(TestStep)
  <2> DEFINE s == Tests[t]
  <2>1. t # NoTest /\ Len(s) \in Nat /\ s = [i \in 1..Len(s) |-> s[i]]
    BY TestsAssumption
  <2>2. \A i \in 1..Len(s) : s[i] \in TestStep
    BY DEF TestStep
  <2>3. PICK n \in Nat : n = Len(s)
    BY <2>1
  <2>4. s = [i \in 1..n |-> s[i]] /\ \A i \in 1..n : s[i] \in TestStep
    BY <2>1, <2>2, <2>3
  <2> HIDE DEF s
  <2>5. s \in Seq(TestStep)
    <3>1. s \in [1..n -> TestStep]
      BY <2>4
    <3> QED BY <3>1, SeqDef
  <2> QED BY <2>1, <2>5 DEF s
<1>2. \A s \in TestStep : UsesSlots(s)
  BY TestsAssumption DEF TestStep
<1> QED BY <1>1, <1>2

\* The step that runs, and what is left after it.
LEMMA TheStep ==
  ASSUME todo \in Seq(TestStep), NEW ops, Running(ops)
  PROVE  /\ test # NoTest /\ Step.op \in ops /\ UsesSlots(Step)
         /\ \A ok : Judged(ok) => todo' \in Seq(TestStep) /\ test' = test
<1>1. todo \in Seq(TestStep) /\ todo # <<>> /\ test # NoTest /\ Step.op \in ops
  BY DEF Running
<1>2. Head(todo) \in TestStep /\ Tail(todo) \in Seq(TestStep)
  BY <1>1, HeadTailProperties
<1>3. <<>> \in Seq(TestStep)
  OBVIOUS
<1>4. \A ok : Judged(ok) => todo' \in {<<>>, Tail(todo)} /\ test' = test
  BY DEF Judged
<1> QED BY <1>1, <1>2, <1>3, <1>4, TestsAreSteps DEF Step

\* Slots of the two kinds differ, and every handle is one.
LEMMA Slots ==
  /\ Handle = Fd /\ RawSlot \subseteq Handle /\ ImportSlot \subseteq Handle
  /\ RawSlot \cap ImportSlot = {}
  /\ \A i \in 1..Len(Scope) : Scope[i] \in Handle
  /\ \A h \in Handle : \E i \in 1..Len(Scope) : Scope[i] = h
<1>1. Handle = RawSlot \cup ImportSlot /\ Fd = Handle
  BY VtsAssumption
<1>2. Len(Scope) = 5
  BY DEF Scope
<1>3. Scope[1] = "c" /\ Scope[2] = "b" /\ Scope[3] = "a" /\ Scope[4] = "raw2" /\ Scope[5] = "raw"
  BY DEF Scope
<1>4. Handle = {"c", "b", "a", "raw2", "raw"}
  BY <1>1 DEF RawSlot, ImportSlot
<1>5. \A i \in 1..5 : i = 1 \/ i = 2 \/ i = 3 \/ i = 4 \/ i = 5
  OBVIOUS
<1>6. {1, 2, 3, 4, 5} \subseteq 1..5
  OBVIOUS
<1>7. \A i \in 1..Len(Scope) : Scope[i] \in Handle
  BY <1>2, <1>3, <1>4, <1>5
<1>8. \A h \in Handle : \E i \in 1..Len(Scope) : Scope[i] = h
  BY <1>2, <1>3, <1>4, <1>6
<1> QED BY <1>1, <1>7, <1>8 DEF RawSlot, ImportSlot

-----------------------------------------------------------------------------
(* The calls of the mapper. *)

\* The library's part of the invariant, with a crash or without.
LEMMA LibraryKept ==
  ASSUME TypeOK, RegistryInv, [Next]_libVars \/ Crash
  PROVE  TypeOK' /\ RegistryInv'
<1>1. CASE [Next]_libVars
  BY <1>1, NextTypeOK, NextRegistryInv
<1>2. CASE Crash
  BY <1>2 DEF Crash, TypeOK, RegistryInv, EntriesExist, EntriesUnshared, NoneLeaks, DataOwned, Registered
<1> QED BY <1>1, <1>2

\* A step that leaves the tables alone, whatever it does to locks and to the
\* device; a crash is such a step.
LEMMA TablesStay ==
  ASSUME TablesInv, [Next]_libVars \/ Crash,
         UNCHANGED <<gbm_bo_handle_map, native, fds, gralloc_metadata_prime_fd_map, raw, imported>>
  PROVE  TablesInv'
<1>1. TypeOK' /\ RegistryInv'
  BY LibraryKept DEF TablesInv, TablesTyped
<1> QED BY <1>1 DEF TablesInv, TablesTyped, SlotInv

\* An allocation gives the fixture a handle with a descriptor of its own.
LEMMA ReceiveKeeps ==
  ASSUME TablesInv, NEW h \in RawSlot, NEW buf \in Buffer, ReceiveRaw(h, h, buf)
  PROVE  TablesInv'
<1>1. h \in Handle /\ h \in Fd /\ Handle = Fd
  BY Slots
<1>2. [prime_fd |-> h, format |-> Allocated[buf].format, usage |-> Allocated[buf].usage] \in HandleInfo
  BY <1>1, MapperAssumption DEF HandleInfo
<1>3. TypeOK' /\ RegistryInv' /\ gbm_bo_handle_map' = gbm_bo_handle_map
  BY LibraryKept DEF ReceiveRaw, TablesInv, TablesTyped, libVars
<1>4. buf # NoFile
  BY MapperAssumption
<1>5. TablesTyped'
  BY <1>1, <1>2, <1>3 DEF TablesInv, TablesTyped, ReceiveRaw
<1>6. [prime_fd |-> h, format |-> Allocated[buf].format, usage |-> Allocated[buf].usage] # NoHandle
  BY <1>2, MapperAssumption
<1>7. ASSUME NEW k \in Handle PROVE SlotInv(k)'
  <2>1. CASE k = h
    BY <1>1, <1>3, <1>4, <1>6, <2>1 DEF TablesInv, TablesTyped, SlotInv, ReceiveRaw
  <2>2. CASE k # h
    BY <1>1, <1>3, <2>2 DEF TablesInv, TablesTyped, SlotInv, ReceiveRaw
  <2> QED BY <2>1, <2>2
<1> QED BY <1>5, <1>7 DEF TablesInv

\* Closing a raw handle that was not imported leaves no metadata, because none
\* were made for its descriptor.
LEMMA CloseKeeps ==
  ASSUME TablesInv, NEW h \in Handle, imported[h] = NoFile, CloseRaw(h)
  PROVE  TablesInv'
<1>1. h \in Fd /\ Handle = Fd /\ native[h].prime_fd = h
  BY Slots DEF CloseRaw, TablesInv, SlotInv
<1>2. TypeOK' /\ RegistryInv' /\ gbm_bo_handle_map' = gbm_bo_handle_map
  BY LibraryKept DEF CloseRaw, TablesInv, TablesTyped, libVars
<1>3. TablesTyped'
  BY <1>1, <1>2 DEF TablesInv, TablesTyped, CloseRaw, CloseAndDelete
<1>4. ASSUME NEW k \in Handle PROVE SlotInv(k)'
  <2>1. CASE k = h
    BY <1>1, <1>2, <2>1 DEF TablesInv, TablesTyped, SlotInv, CloseRaw, CloseAndDelete
  <2>2. CASE k # h
    BY <1>1, <1>2, <2>2 DEF TablesInv, TablesTyped, SlotInv, CloseRaw, CloseAndDelete
  <2> QED BY <2>1, <2>2
<1> QED BY <1>3, <1>4 DEF TablesInv

\* An import puts a clone with a descriptor of its own in the slot, and in the map.
LEMMA ImportKeeps ==
  ASSUME TablesInv, crashed = FALSE, NEW h \in RawSlot, NEW n \in ImportSlot, NEW ret,
         importBuffer(h, n, n, ret)
  PROVE  TablesInv'
<1>1. h \in Handle /\ n \in Handle /\ n \in Fd /\ Handle = Fd /\ n \notin RawSlot
  BY Slots
<1>2. /\ native[h] # NoHandle /\ native[n] = NoHandle /\ fds[n] = NoFile
      /\ UNCHANGED <<raw, gralloc_metadata_prime_fd_map>>
  BY DEF importBuffer
<1>3. imported[n] = NoFile /\ gbm_bo_handle_map[n] = NoBo
  BY <1>1, <1>2 DEF TablesInv, SlotInv
<1>4. CASE UNCHANGED <<libVars, native, fds, imported>>
  BY <1>2, <1>4, TablesStay DEF libVars
<1> DEFINE clone == [native[h] EXCEPT !.prime_fd = n]
           buf == fds[native[h].prime_fd]
<1>5. clone \in HandleInfo /\ clone.prime_fd = n /\ clone # NoHandle
  <2>1. native[h] \in HandleInfo
    BY <1>1, <1>2 DEF TablesInv, TablesTyped
  <2> QED BY <1>1, <2>1, MapperAssumption DEF HandleInfo
<1> HIDE DEF clone
<1>6. ASSUME NEW b \in Bo, gralloc_gm_buffer_import(n, clone, b, OK), buf \in Buffer,
             native' = [native EXCEPT ![n] = clone], fds' = [fds EXCEPT ![n] = buf],
             imported' = [imported EXCEPT ![n] = buf]
      PROVE  TablesInv'
  <2>1. Import
    BY <1>1, <1>5, <1>6 DEF Import, ErrCode
  <2>2. TypeOK' /\ RegistryInv'
    BY <2>1, LibraryKept DEF TablesInv, TablesTyped, Next
  <2>3. gbm_bo_handle_map' = [gbm_bo_handle_map EXCEPT ![n] = b]
    BY <1>3, <1>6 DEF gralloc_gm_buffer_import, NewBo, Emplace, OK
  <2>4. b # NoBo /\ buf # NoFile
    BY <1>6, GrallocAssumption, MapperAssumption
  <2>5. TablesTyped'
    BY <1>1, <1>2, <1>5, <1>6, <2>2 DEF TablesInv, TablesTyped
  <2>6. ASSUME NEW k \in Handle PROVE SlotInv(k)'
    <3>1. CASE k = n
      BY <1>1, <1>2, <1>5, <1>6, <2>3, <2>4, <3>1 DEF TablesInv, TablesTyped, TypeOK, SlotInv
    <3>2. CASE k # n
      BY <1>1, <1>2, <1>6, <2>3, <3>2 DEF TablesInv, TablesTyped, TypeOK, SlotInv
    <3> QED BY <3>1, <3>2
  <2> QED BY <2>5, <2>6 DEF TablesInv
<1>7. ASSUME NEW b \in Bo, NEW err \in ErrCode, err # OK, gralloc_gm_buffer_import(n, clone, b, err)
      PROVE  UNCHANGED libVars
  BY <1>7 DEF gralloc_gm_buffer_import
<1> QED BY <1>4, <1>6, <1>7 DEF importBuffer, NoDriver, clone

\* freeBuffer takes the handle out of the map with its descriptor and its
\* metadata; a raw handle it deletes, or refuses, as errno happens to be.
LEMMA FreeKeeps ==
  ASSUME TablesInv, crashed = FALSE, NEW h \in Handle, NEW ret, freeBuffer(h, ret)
  PROVE  TablesInv'
<1>1. h \in Fd /\ Handle = Fd /\ native[h] # NoHandle /\ native[h].prime_fd = h /\ UNCHANGED raw
  BY Slots DEF freeBuffer, Passes, TablesInv, SlotInv
<1>2. CASE NoDriver(ret) /\ UNCHANGED fds
  BY <1>1, <1>2, TablesStay DEF NoDriver, libVars
<1>3. ASSUME EraseMetadata(h), NEW errno \in StaleErrno, NEW err \in ErrCode,
             gralloc_gm_buffer_free(h, errno, err),
             \/ /\ CloseAndDelete(h) /\ imported' = [imported EXCEPT ![h] = NoFile]
                /\ err = OK
             \/ UNCHANGED <<native, fds, imported>> /\ err # OK
      PROVE  TablesInv'
  <2>1. Free
    BY <1>3 DEF Free
  <2>2. TypeOK' /\ RegistryInv'
    BY <2>1, LibraryKept DEF TablesInv, TablesTyped, Next
  <2>3. /\ gralloc_metadata_prime_fd_map' = [gralloc_metadata_prime_fd_map EXCEPT ![h] = NoMetadata]
        /\ \A k \in Handle : k # h => gralloc_metadata_prime_fd_map'[k] = gralloc_metadata_prime_fd_map[k]
        /\ gralloc_metadata_prime_fd_map'[h] = NoMetadata
    BY <1>1, <1>3 DEF EraseMetadata, TablesInv, TablesTyped
  <2>4. CASE err = OK
    <3>1. native' = [native EXCEPT ![h] = NoHandle] /\ fds' = [fds EXCEPT ![h] = NoFile]
          /\ imported' = [imported EXCEPT ![h] = NoFile]
      BY <1>1, <1>3, <2>4 DEF CloseAndDelete
    <3>2. \A k \in Handle : gbm_bo_handle_map'[k] = IF k = h THEN NoBo ELSE gbm_bo_handle_map[k]
      BY <1>3, <2>4 DEF gralloc_gm_buffer_free, libVars, TablesInv, TablesTyped, TypeOK
    <3>3. TablesTyped'
      BY <1>1, <2>2, <2>3, <3>1 DEF TablesInv, TablesTyped
    <3>4. ASSUME NEW k \in Handle PROVE SlotInv(k)'
      BY <1>1, <2>3, <3>1, <3>2 DEF TablesInv, TablesTyped, SlotInv
    <3> QED BY <3>3, <3>4 DEF TablesInv
  <2>5. CASE err # OK
    <3>1. UNCHANGED <<libVars, native, fds, imported>> /\ gbm_bo_handle_map[h] = NoBo
      BY <1>3, <2>5 DEF gralloc_gm_buffer_free
    <3>2. UNCHANGED gbm_bo_handle_map
      BY <3>1 DEF libVars
    <3>3. TablesTyped'
      BY <1>1, <2>2, <2>3, <3>1 DEF TablesInv, TablesTyped
    <3>4. ASSUME NEW k \in Handle PROVE SlotInv(k)'
      BY <1>1, <2>3, <3>1, <3>2 DEF TablesInv, TablesTyped, SlotInv
    <3> QED BY <3>3, <3>4 DEF TablesInv
  <2> QED BY <2>4, <2>5
<1> QED BY <1>2, <1>3 DEF freeBuffer

\* Locks of imported handles: a test closes no fence, having none.
LEMMA LockKeeps ==
  ASSUME TablesInv, crashed = FALSE, NEW h \in Handle, NEW usage \in SUBSET (UsageBit \cup HighBits),
         NEW ret, lock(h, usage, NoFd, ret)
  PROVE  TablesInv'
<1>1. UNCHANGED <<native, fds, gralloc_metadata_prime_fd_map, raw, imported>> /\ native[h] # NoHandle
  BY DEF lock, Passes
<1>2. CASE UNCHANGED libVars
  BY <1>1, <1>2, TablesStay DEF libVars
<1>3. ASSUME NEW err \in ErrCode, gralloc_gbm_bo_lock(h, native[h], usage \ HighBits, err)
      PROVE  TablesInv'
  <2>1. native[h] \in HandleInfo /\ usage \ HighBits \in SUBSET UsageBit
    BY <1>1 DEF TablesInv, TablesTyped
  <2>2. Next
    BY <1>3, <2>1 DEF Lock, Next
  <2>3. gbm_bo_handle_map' = gbm_bo_handle_map
    BY <1>3 DEF gralloc_gbm_bo_lock, TakeLock, SetData, libVars
  <2> QED BY <1>1, <2>2, <2>3, TablesStay
<1> QED BY <1>2, <1>3 DEF lock, NoDriver

\* An unlock may dereference null, which ends the process.
LEMMA UnlockKeeps ==
  ASSUME TablesInv, crashed = FALSE, NEW h \in Handle, NEW ret, unlock(h, ret)
  PROVE  TablesInv'
<1>1. UNCHANGED <<native, fds, gralloc_metadata_prime_fd_map, raw, imported>>
  BY DEF unlock
<1>2. CASE UNCHANGED libVars
  BY <1>1, <1>2, TablesStay DEF libVars
<1>3. ASSUME NEW err \in ErrCode, gralloc_gbm_bo_unlock(h, err)
      PROVE  TablesInv'
  <2>1. Next
    BY <1>3 DEF Unlock, Next
  <2>2. gbm_bo_handle_map' = gbm_bo_handle_map
    BY <1>3 DEF gralloc_gbm_bo_unlock, SetData, Crash, libVars
  <2> QED BY <1>1, <2>1, <2>2, TablesStay
<1> QED BY <1>2, <1>3 DEF unlock, NoDriver

\* Queries and settings make metadata, but the slot they go through is not that
\* of a raw handle.
LEMMA MetadataKeeps ==
  ASSUME TablesInv, NEW h \in ImportSlot, NEW type, NEW v, NEW ret,
         getMetadata(h, ret) \/ setMetadata(h, type, v, ret)
  PROVE  TablesInv'
<1>1. h \in Handle /\ h \in Fd /\ Handle = Fd /\ h \notin raw
  BY Slots DEF TablesInv, TablesTyped
<1>2. /\ UNCHANGED <<libVars, native, fds, raw, imported>>
      /\ native[h] # NoHandle /\ (imported[h] # NoFile \/ h \in raw)
      /\ \/ UNCHANGED gralloc_metadata_prime_fd_map
         \/ \E md : PutMetadata(h, md)
  BY DEF getMetadata, setMetadata, Passes, NoDriver
<1>3. imported[h] # NoFile /\ native[h].prime_fd = h
  BY <1>1, <1>2 DEF TablesInv, SlotInv
<1>4. /\ DOMAIN gralloc_metadata_prime_fd_map' = Fd
      /\ \A k \in Handle : k # h => gralloc_metadata_prime_fd_map'[k] = gralloc_metadata_prime_fd_map[k]
  BY <1>1, <1>2, <1>3 DEF PutMetadata, TablesInv, TablesTyped
<1>5. TypeOK' /\ RegistryInv' /\ UNCHANGED gbm_bo_handle_map
  BY <1>2, LibraryKept DEF TablesInv, TablesTyped, libVars
<1>6. TablesTyped'
  BY <1>2, <1>4, <1>5 DEF TablesInv, TablesTyped
<1>7. ASSUME NEW k \in Handle PROVE SlotInv(k)'
  BY <1>1, <1>2, <1>3, <1>4, <1>5 DEF TablesInv, SlotInv
<1> QED BY <1>6, <1>7 DEF TablesInv

\* The fixture's own crash, and a step that calls nothing.
LEMMA OutsideKeeps ==
  ASSUME TablesInv, Dies \/ UNCHANGED mapperVars
  PROVE  TablesInv'
<1>1. /\ [Next]_libVars \/ Crash
      /\ UNCHANGED <<gbm_bo_handle_map, native, fds, gralloc_metadata_prime_fd_map, raw, imported>>
  BY DEF Dies, Crash, mapperVars, libVars
<1> QED BY <1>1, TablesStay

\* Loading opens the device.
LEMMA LoadKeeps ==
  ASSUME TablesInv, crashed = FALSE, LoadIMapper
  PROVE  TablesInv'
<1>1. InitDevice
  BY DEF LoadIMapper, InitDevice
<1>2. UNCHANGED <<gbm_bo_handle_map, native, fds, gralloc_metadata_prime_fd_map, raw, imported>>
  BY DEF LoadIMapper, gralloc_gbm_device_init
<1> QED BY <1>1, <1>2, TablesStay DEF Next

\* A destructor frees an import, or closes a raw handle, or dies of one that is
\* gone already.
LEMMA LeaveKeeps ==
  ASSUME TablesInv, crashed = FALSE, NEW h \in Handle, NEW ok, Leave(h, ok)
  PROVE  TablesInv'
BY FreeKeeps, CloseKeeps, OutsideKeeps DEF Leave

-----------------------------------------------------------------------------
(* The suite. *)

\* What a statement of a test does to the tables: it calls one function of the
\* mapper on slots it may use, or none, or it dies.
LEMMA StatementKeeps ==
  ASSUME SuiteInv, crashed = FALSE,
         \/ AllocateBuffer \/ ImportBuffer \/ FreeBuffer \/ LoadAgain \/ JustChecked \/ NullCall
         \/ EmptyHandleCall \/ LockBuffer \/ UnlockBuffer
         \/ AskMetadata \/ AskAgain \/ DecodeAnswer \/ Compare \/ SetMetadata
         \/ LookAt \/ LookAtPlanes \/ LookAtP010 \/ LeaveScope
  PROVE  SuiteInv'
<1>0. TablesInv /\ todo \in Seq(TestStep)
  BY DEF SuiteInv
<1> SUFFICES TablesInv' /\ todo' \in Seq(TestStep) /\ test' # NoTest
  BY DEF SuiteInv, BetweenTests
<1>1. <<>> \in Seq(TestStep)
  OBVIOUS
<1>2. CASE AllocateBuffer
  <2>1. test # NoTest /\ Step.slot \in RawSlot /\ Step.buf \in Buffer
        /\ \A ok : Judged(ok) => todo' \in Seq(TestStep) /\ test' = test
    <3>1. Running({"allocate"})
      BY <1>2 DEF AllocateBuffer
    <3> QED BY <1>0, <3>1, TheStep, VtsAssumption DEF UsesSlots
  <2> QED BY <1>0, <1>1, <1>2, <2>1, ReceiveKeeps, OutsideKeeps DEF AllocateBuffer, Checks, Aborts
<1>3. CASE ImportBuffer
  <2>1. test # NoTest /\ Step.slot \in ImportSlot /\ Step.from \in RawSlot
        /\ \A ok : Judged(ok) => todo' \in Seq(TestStep) /\ test' = test
    <3>1. Running({"import"})
      BY <1>3 DEF ImportBuffer
    <3> QED BY <1>0, <3>1, TheStep DEF UsesSlots
  <2> QED BY <1>0, <1>3, <2>1, ImportKeeps DEF ImportBuffer, Checks
<1>4. CASE FreeBuffer \/ UnlockBuffer \/ LeaveScope
  <2>1. test # NoTest /\ Step.slot \in Handle
        /\ \A ok : Judged(ok) => todo' \in Seq(TestStep) /\ test' = test
    <3>1. Running({"free"}) \/ Running({"unlock"}) \/ Running({"destroy"})
      BY <1>4 DEF FreeBuffer, UnlockBuffer, LeaveScope
    <3> QED BY <1>0, <3>1, TheStep DEF UsesSlots
  <2> QED BY <1>0, <1>4, <2>1, FreeKeeps, UnlockKeeps, LeaveKeeps
          DEF FreeBuffer, UnlockBuffer, LeaveScope, Checks
<1>5. CASE LockBuffer
  <2>1. test # NoTest /\ Step.slot \in Handle /\ Step.usage \in SUBSET (UsageBit \cup HighBits)
        /\ \A ok : Judged(ok) => todo' \in Seq(TestStep) /\ test' = test
    <3>1. Running({"lock"})
      BY <1>5 DEF LockBuffer
    <3> QED BY <1>0, <3>1, TheStep, Slots DEF UsesSlots
  <2> QED BY <1>0, <1>5, <2>1, LockKeeps DEF LockBuffer, Checks
<1>6. CASE SetMetadata
  <2>1. test # NoTest /\ Step.slot \in ImportSlot
        /\ \A ok : Judged(ok) => todo' \in Seq(TestStep) /\ test' = test
    <3>1. Running({"set"})
      BY <1>6 DEF SetMetadata
    <3> QED BY <1>0, <3>1, TheStep DEF UsesSlots
  <2> QED BY <1>0, <1>6, <2>1, MetadataKeeps DEF SetMetadata, Checks
<1>7. CASE AskMetadata \/ AskAgain
  <2>1. Running(Queries) /\ \E size : Asks(size)
    BY <1>7 DEF AskMetadata, AskAgain
  <2>2. test # NoTest /\ Step.slot \in ImportSlot
    BY <1>0, <2>1, TheStep DEF UsesSlots
  <2>3. (\E ret : getMetadata(Step.slot, ret)) /\ UNCHANGED <<test, todo>>
    BY <2>1 DEF Asks
  <2> QED BY <1>0, <2>2, <2>3, MetadataKeeps
<1>8. CASE DecodeAnswer
  <2>1. Running(Queries) /\ UNCHANGED mapperVars /\ \E ok : Judged(ok)
    BY <1>8 DEF DecodeAnswer
  <2> QED BY <1>0, <2>1, TheStep, OutsideKeeps
<1>9. CASE LoadAgain \/ JustChecked \/ NullCall \/ EmptyHandleCall \/ Compare \/ LookAt \/ LookAtPlanes \/ LookAtP010
  <2>1. /\ \E ops : Running(ops)
        /\ Dies \/ UNCHANGED mapperVars
        /\ (\E ok : Judged(ok)) \/ Aborts
    BY <1>9 DEF LoadAgain, JustChecked, NullCall, EmptyHandleCall, Compare, LookAt, LookAtPlanes,
                LookAtP010, Checks
  <2>2. test # NoTest /\ \A ok : Judged(ok) => todo' \in Seq(TestStep) /\ test' = test
    BY <1>0, <2>1, TheStep
  <2> QED BY <1>0, <1>1, <2>1, <2>2, OutsideKeeps DEF Aborts
<1> QED BY <1>2, <1>3, <1>4, <1>5, <1>6, <1>7, <1>8, <1>9

\* A process starts with nothing, the first time and after a crash.
LEMMA NothingAtFirst ==
  /\ VtsInit => SuiteInv
  /\ StartAgain => SuiteInv'
<1>1. Handle = Fd /\ <<>> \in Seq(TestStep)
  BY Slots
<1>2. VtsInit => SuiteInv
  <2> SUFFICES ASSUME VtsInit PROVE SuiteInv
    OBVIOUS
  <2>1. TypeOK /\ RegistryInv
    BY InitTypeOK DEF VtsInit, MapperInit, Init, RegistryInv, EntriesExist, EntriesUnshared,
                      NoneLeaks, DataOwned
  <2> QED BY <1>1, <2>1 DEF VtsInit, MapperInit, Init, SuiteInv, TablesInv, TablesTyped, SlotInv,
                            BetweenTests, Alive
<1>3. StartAgain => SuiteInv'
  <2> SUFFICES ASSUME StartAgain PROVE SuiteInv'
    OBVIOUS
  <2>1. TypeOK' /\ RegistryInv'
    BY GrallocAssumption DEF StartAgain, TypeOK, RegistryInv, EntriesExist, EntriesUnshared, NoneLeaks, DataOwned
  <2> QED BY <1>1, <2>1 DEF StartAgain, SuiteInv, TablesInv, TablesTyped, SlotInv, BetweenTests, Alive
<1> QED BY <1>2, <1>3

\* Every statement of a test, every destructor, and the end of a test keep the
\* fixture's invariant.
LEMMA SuiteKept == SuiteInv /\ [VtsNext]_vars => SuiteInv'
<1> SUFFICES ASSUME SuiteInv, [VtsNext]_vars PROVE SuiteInv'
  OBVIOUS
<1>0. TablesInv /\ todo \in Seq(TestStep) /\ (crashed \in BOOLEAN)
  BY DEF SuiteInv, TablesInv, TablesTyped, TypeOK
<1>1. CASE UNCHANGED vars
  <2>1. TablesInv'
    BY <1>0, <1>1, OutsideKeeps DEF vars
  <2>2. UNCHANGED <<todo, test, crashed, imported, raw>>
    BY <1>1 DEF vars, mapperVars, libVars
  <2> QED BY <1>0, <2>1, <2>2 DEF SuiteInv, BetweenTests, Alive
<1>2. CASE StartAgain
  BY <1>2, NothingAtFirst
<1>3. ASSUME NEW t \in DOMAIN Tests, ~crashed, BeginTest(t)
      PROVE  SuiteInv'
  <2>1. TablesInv'
    BY <1>0, <1>3, LoadKeeps, OutsideKeeps DEF BeginTest
  <2>2. todo' \in Seq(TestStep) /\ test' # NoTest
    BY <1>3, TestsAreSteps DEF BeginTest
  <2> QED BY <2>1, <2>2 DEF SuiteInv, BetweenTests
<1>4. CASE ~crashed /\ EndScope
  <2>1. PICK i \in 1..Len(Scope), ok \in BOOLEAN : Leave(Scope[i], ok)
    BY <1>4 DEF EndScope
  <2>2. TablesInv'
    BY <1>0, <1>4, <2>1, LeaveKeeps, Slots
  <2> QED BY <1>0, <1>4, <2>2 DEF EndScope, SuiteInv, BetweenTests
<1>5. CASE ~crashed /\ EndTest
  <2>1. TablesInv' /\ UNCHANGED <<todo, crashed, imported, raw>>
    BY <1>0, <1>5, OutsideKeeps DEF EndTest, mapperVars, libVars
  <2>2. \A h \in Handle : ~Alive(h)
    BY <1>5, Slots DEF EndTest
  <2> QED BY <1>0, <2>1, <2>2 DEF SuiteInv, BetweenTests, Alive
<1>6. ASSUME ~crashed,
             \/ AllocateBuffer \/ ImportBuffer \/ FreeBuffer \/ LoadAgain \/ JustChecked \/ NullCall
             \/ EmptyHandleCall \/ LockBuffer \/ UnlockBuffer
             \/ AskMetadata \/ AskAgain \/ DecodeAnswer \/ Compare \/ SetMetadata
             \/ LookAt \/ LookAtPlanes \/ LookAtP010 \/ LeaveScope
      PROVE  SuiteInv'
  <2>1. crashed = FALSE
    BY <1>0, <1>6
  <2> QED BY <1>6, <2>1, StatementKeeps
<1>7. CASE VtsNext
  BY <1>2, <1>3, <1>4, <1>5, <1>6, <1>7 DEF VtsNext
<1> QED BY <1>1, <1>7

\* Slots and tables agree all along a run of the suite (SuiteInv).
THEOREM SuiteInvHolds == VtsSpec => []SuiteInv
BY NothingAtFirst, SuiteKept, PTL DEF VtsSpec

\* GraphicsTestsBase's destructors leave no buffer object, handle, descriptor or
\* metadata behind, whichever checks failed (FixtureLeaksNothing).
THEOREM FixtureCleansUp == VtsSpec => []FixtureLeaksNothing
<1>1. SuiteInv => FixtureLeaksNothing
  <2> SUFFICES ASSUME SuiteInv, test = NoTest, ~crashed
               PROVE  /\ bos = {}
                      /\ \A h \in Handle : gbm_bo_handle_map[h] = NoBo /\ native[h] = NoHandle
                      /\ \A f \in Fd : fds[f] = NoFile /\ gralloc_metadata_prime_fd_map[f] = NoMetadata
    BY DEF FixtureLeaksNothing
  <2>1. \A h \in Handle : imported[h] = NoFile /\ h \notin raw /\ SlotInv(h)
    BY DEF SuiteInv, BetweenTests, TablesInv, Alive
  <2>2. \A h \in Handle : /\ gbm_bo_handle_map[h] = NoBo /\ native[h] = NoHandle
                          /\ fds[h] = NoFile /\ gralloc_metadata_prime_fd_map[h] = NoMetadata
    BY <2>1 DEF SlotInv
  <2>3. bos = {}
    BY <2>2, GrallocAssumption DEF SuiteInv, TablesInv, TablesTyped, TypeOK, RegistryInv, NoneLeaks, Registered
  <2> QED BY <2>2, <2>3, Slots
<1> QED BY <1>1, SuiteInvHolds, PTL
-----------------------------------------------------------------------------
(* The suite as a client of the mapper.  What MapperV5 proves of the client  *)
(* that makes the negative calls too holds of the suite's runs as long as    *)
(* every step the fixture takes is one that MapperNext allows, with the      *)
(* mapper loaded.                                                            *)

\* A step of the test process: a step of the client, a crash outside the library,
\* or a new process in place of the one that crashed.
Restart == crashed /\ MapperInit'
ClientStep == MapperNext \/ (~crashed /\ Dies) \/ Restart

\* SetUp has loaded the mapper before any statement of a test runs.
LoadedInTests == test # NoTest => loaded

\* The functions of the mapper, called the way MapperNext calls them.
LEMMA CallsAreCalls ==
  ASSUME loaded, ~crashed, NEW h \in Handle, NEW ret \in AIMapper_Error,
         \/ \E n \in Handle, f \in Fd : importBuffer(h, n, f, ret)
         \/ freeBuffer(h, ret) \/ unlock(h, ret) \/ getMetadata(h, ret)
         \/ \E usage \in SUBSET (UsageBit \cup HighBits) : lock(h, usage, NoFd, ret)
  PROVE  MapperNext /\ UNCHANGED loaded
<1>1. Call(ret)
  BY DEF Call
<1>2. UNCHANGED loaded
  BY DEF importBuffer, freeBuffer, unlock, getMetadata, lock
<1> QED BY <1>1, <1>2 DEF MapperNext

\* setStandardMetadata accepts a value only of a type that is settable; whatever
\* else it answers it would answer for any other type.
LEMMA SetsAreCalls ==
  ASSUME loaded, ~crashed, NEW h \in Handle, NEW type, NEW size, NEW v \in Value,
         setMetadata(h, type, v, setStandardMetadata(type, size))
  PROVE  MapperNext /\ UNCHANGED loaded
<1> DEFINE ret == setStandardMetadata(type, size)
<1>1. ret \in {"NONE", "BAD_VALUE", "UNSUPPORTED"} /\ (ret = "NONE" => type \in Settable)
  BY DEF setStandardMetadata
<1>2. Field = Settable /\ "DATASPACE" \in Settable
  BY VtsAssumption DEF Settable, SizeOfRaw
<1>3. setMetadata(h, type, v, ret)
  OBVIOUS
<1> HIDE DEF ret
<1>4. UNCHANGED loaded
  BY <1>3 DEF setMetadata
<1>5. type \in Field \/ ret # "NONE"
  BY <1>1, <1>2
<1>6. Call(ret)
  <2>1. CASE type \in Field
    BY <1>3, <2>1 DEF Call
  <2>2. CASE ret # "NONE"
    <3>1. setMetadata(h, "DATASPACE", v, ret)
      BY <1>3, <2>2 DEF setMetadata
    <3> QED BY <1>2, <3>1 DEF Call
  <2> QED BY <1>5, <2>1, <2>2
<1>7. ret \in AIMapper_Error
  BY <1>1 DEF AIMapper_Error
<1> QED BY <1>4, <1>6, <1>7 DEF MapperNext
\* A destructor frees what was imported, closes what was received, or crashes.
LEMMA LeaveIsClient ==
  ASSUME loaded, ~crashed, NEW h \in Handle, NEW ok, Leave(h, ok)
  PROVE  ClientStep /\ (UNCHANGED loaded)
<1>1. ASSUME NEW ret \in {"NONE", "BAD_BUFFER"}, freeBuffer(h, ret)
      PROVE  MapperNext /\ UNCHANGED loaded
  BY <1>1, CallsAreCalls DEF AIMapper_Error
<1>2. CASE CloseRaw(h)
  BY <1>2 DEF CloseRaw, MapperNext, ClientStep
<1>3. CASE Dies
  BY <1>3 DEF Dies, ClientStep
<1> QED BY <1>1, <1>2, <1>3 DEF Leave, ClientStep

\* Every statement of a test makes at most one call, and leaves the mapper loaded.
LEMMA StatementIsClient ==
  ASSUME todo \in Seq(TestStep), LoadedInTests, ~crashed,
         \/ AllocateBuffer \/ ImportBuffer \/ FreeBuffer \/ LoadAgain \/ JustChecked \/ NullCall
         \/ EmptyHandleCall \/ LockBuffer \/ UnlockBuffer
         \/ AskMetadata \/ AskAgain \/ DecodeAnswer \/ Compare \/ SetMetadata
         \/ LookAt \/ LookAtPlanes \/ LookAtP010 \/ LeaveScope
  PROVE  (ClientStep \/ UNCHANGED mapperVars) /\ UNCHANGED loaded
<1>0. RawSlot \subseteq Handle /\ ImportSlot \subseteq Handle /\ Handle = Fd
  BY Slots
<1>1. \A ops : Running(ops) => loaded /\ UsesSlots(Step) /\ Step.op \in ops
  BY TheStep DEF LoadedInTests
<1>2. CASE AllocateBuffer
  <2>1. loaded /\ Step.slot \in RawSlot /\ Step.buf \in Buffer
    BY <1>1, <1>2, VtsAssumption DEF AllocateBuffer, UsesSlots
  <2>2. ReceiveRaw(Step.slot, Step.slot, Step.buf) \/ UNCHANGED mapperVars \/ Dies
    BY <1>2 DEF AllocateBuffer
  <2>3. CASE ReceiveRaw(Step.slot, Step.slot, Step.buf)
    BY <1>0, <2>1, <2>3 DEF ReceiveRaw, MapperNext, ClientStep
  <2> QED BY <2>2, <2>3 DEF Dies, ClientStep, mapperVars
<1>3. CASE ImportBuffer
  <2>1. loaded /\ Step.slot \in Handle /\ Step.slot \in Fd /\ Step.from \in Handle
    BY <1>0, <1>1, <1>3 DEF ImportBuffer, UsesSlots
  <2>2. PICK ret \in {"NONE", "NO_RESOURCES"} : importBuffer(Step.from, Step.slot, Step.slot, ret)
    BY <1>3 DEF ImportBuffer
  <2> QED BY <2>1, <2>2, CallsAreCalls DEF ClientStep, AIMapper_Error
<1>4. CASE FreeBuffer \/ UnlockBuffer
  <2>1. loaded /\ Step.slot \in Handle
    BY <1>1, <1>4 DEF FreeBuffer, UnlockBuffer, UsesSlots
  <2>2. PICK ret \in {"NONE", "BAD_BUFFER"} : freeBuffer(Step.slot, ret) \/ unlock(Step.slot, ret)
    BY <1>4 DEF FreeBuffer, UnlockBuffer
  <2> QED BY <2>1, <2>2, CallsAreCalls DEF ClientStep, AIMapper_Error
<1>5. CASE LockBuffer
  <2>1. loaded /\ Step.slot \in Handle /\ Step.usage \in SUBSET (UsageBit \cup HighBits)
    BY <1>0, <1>1, <1>5 DEF LockBuffer, UsesSlots
  <2>2. PICK ret \in {"NONE", "BAD_VALUE"} : lock(Step.slot, Step.usage, NoFd, ret)
    BY <1>5 DEF LockBuffer
  <2> QED BY <2>1, <2>2, CallsAreCalls DEF ClientStep, AIMapper_Error
<1>6. CASE AskMetadata \/ AskAgain
  <2>1. loaded /\ Step.slot \in Handle
    BY <1>0, <1>1, <1>6 DEF AskMetadata, AskAgain, UsesSlots
  <2>2. PICK ret \in {"NONE", "UNSUPPORTED"} : getMetadata(Step.slot, ret)
    BY <1>6 DEF AskMetadata, AskAgain, Asks
  <2> QED BY <2>1, <2>2, CallsAreCalls DEF ClientStep, AIMapper_Error
<1>7. CASE SetMetadata
  <2>1. loaded /\ Step.slot \in Handle
    BY <1>0, <1>1, <1>7 DEF SetMetadata, UsesSlots
  <2> DEFINE v == IF Step.field = "set" THEN "set" ELSE "initial"
  <2>2. v \in Value
    BY VtsAssumption
  <2>3. PICK size : setMetadata(Step.slot, Step.type, v, setStandardMetadata(Step.type, size))
    BY <1>7 DEF SetMetadata, SetResult
  <2> HIDE DEF v
  <2> QED BY <2>1, <2>2, <2>3, SetsAreCalls DEF ClientStep
<1>8. CASE LeaveScope
  <2>1. loaded /\ Step.slot \in Handle
    BY <1>1, <1>8 DEF LeaveScope, UsesSlots
  <2> QED BY <1>8, <2>1, LeaveIsClient DEF LeaveScope
<1>9. CASE LoadAgain \/ JustChecked \/ NullCall \/ EmptyHandleCall \/ DecodeAnswer \/ Compare
             \/ LookAt \/ LookAtPlanes \/ LookAtP010
  <2>1. Dies \/ UNCHANGED mapperVars
    BY <1>9 DEF LoadAgain, JustChecked, NullCall, EmptyHandleCall, DecodeAnswer, Compare, LookAt,
                LookAtPlanes, LookAtP010
  <2> QED BY <2>1 DEF Dies, ClientStep, mapperVars
<1> QED BY <1>2, <1>3, <1>4, <1>5, <1>6, <1>7, <1>8, <1>9

\* So does every other step of the suite; a test begins with the mapper loaded.
LEMMA SuiteStepIsClient ==
  ASSUME todo \in Seq(TestStep), LoadedInTests, [VtsNext]_vars
  PROVE  [ClientStep]_mapperVars /\ LoadedInTests'
<1>1. CASE UNCHANGED vars
  BY <1>1 DEF vars, mapperVars, LoadedInTests
<1>2. CASE StartAgain
  BY <1>2 DEF StartAgain, ClientStep, Restart, MapperInit, Init, LoadedInTests
<1>3. ASSUME ~crashed, NEW t \in DOMAIN Tests, BeginTest(t)
      PROVE  [ClientStep]_mapperVars /\ LoadedInTests'
  <2>1. CASE loaded
    BY <1>3, <2>1 DEF BeginTest, LoadedInTests, mapperVars
  <2>2. CASE ~loaded
    BY <1>3, <2>2 DEF BeginTest, LoadIMapper, MapperNext, ClientStep, LoadedInTests
  <2> QED BY <2>1, <2>2
<1>4. CASE ~crashed /\ EndScope
  <2>1. PICK i \in 1..Len(Scope), ok \in BOOLEAN : Leave(Scope[i], ok)
    BY <1>4 DEF EndScope
  <2>2. loaded /\ Scope[i] \in Handle /\ test' = test
    BY <1>4, Slots DEF EndScope, LoadedInTests
  <2> QED BY <1>4, <2>1, <2>2, LeaveIsClient DEF LoadedInTests
<1>5. CASE ~crashed /\ EndTest
  BY <1>5 DEF EndTest, LoadedInTests
<1>6. ASSUME ~crashed,
             \/ AllocateBuffer \/ ImportBuffer \/ FreeBuffer \/ LoadAgain \/ JustChecked \/ NullCall
             \/ EmptyHandleCall \/ LockBuffer \/ UnlockBuffer
             \/ AskMetadata \/ AskAgain \/ DecodeAnswer \/ Compare \/ SetMetadata
             \/ LookAt \/ LookAtPlanes \/ LookAtP010 \/ LeaveScope
      PROVE  [ClientStep]_mapperVars /\ LoadedInTests'
  <2>1. ClientStep \/ UNCHANGED mapperVars
    BY <1>6, StatementIsClient
  <2>2. UNCHANGED <<loaded, test>>
    <3>1. UNCHANGED loaded
      BY <1>6, StatementIsClient
    <3>2. UNCHANGED test
      BY <1>6 DEF AllocateBuffer, ImportBuffer, FreeBuffer, LoadAgain, JustChecked, NullCall,
                  EmptyHandleCall, LockBuffer, UnlockBuffer, AskMetadata, AskAgain, Asks,
                  DecodeAnswer, Compare, SetMetadata, LookAt, LookAtPlanes, LookAtP010, LeaveScope,
                  Checks, Judged, Aborts
    <3> QED BY <3>1, <3>2
  <2> QED BY <2>1, <2>2 DEF LoadedInTests
<1>7. CASE VtsNext
  BY <1>2, <1>3, <1>4, <1>5, <1>6, <1>7 DEF VtsNext
<1> QED BY <1>1, <1>7

\* GraphicsTestsBase and its tests are a client of the mapper: from the start of
\* the process, each step of a run of the suite is a step that MapperNext allows
\* its client, a crash in the tests' own code, or a new process.
THEOREM SuiteIsAClient == VtsSpec => MapperInit /\ [][ClientStep]_mapperVars
<1>1. VtsInit => MapperInit /\ LoadedInTests
  BY DEF VtsInit, LoadedInTests
<1>2. SuiteInv /\ LoadedInTests /\ [VtsNext]_vars => [ClientStep]_mapperVars /\ LoadedInTests'
  BY SuiteStepIsClient DEF SuiteInv
<1> QED BY <1>1, <1>2, SuiteInvHolds, PTL DEF VtsSpec

\* Even the tests that misuse the interface, and those that crash the process,
\* leave gbm_bo_handle_map the owner of the buffer objects and every mapping to a
\* lock, at every step and not only between tests.
THEOREM SuiteKeepsLibrary == VtsSpec => [](RegistryInv /\ LockInv)
<1> DEFINE Kept == NativeTyped /\ TypeOK /\ RegistryInv /\ LockInv
<1>1. MapperInit => Kept
  BY InitTypeOK DEF MapperInit, Init, NativeTyped, RegistryInv, EntriesExist, EntriesUnshared, NoneLeaks,
                    DataOwned, LockInv
<1>2. Kept /\ [ClientStep]_mapperVars => Kept'
  <2>1. ASSUME Kept, [MapperNext]_mapperVars PROVE Kept'
    BY <2>1, MapperNextIsNext, NativeStays, NextTypeOK, NextRegistryInv, NextLockInv
  <2>2. ASSUME Kept, Dies PROVE Kept'
    BY <2>2, LibraryKept DEF Dies, Crash, NativeTyped, LockInv, WellLocked
  <2>3. ASSUME Restart PROVE Kept'
    BY <2>3, GrallocAssumption
       DEF Restart, MapperInit, Init, NativeTyped, TypeOK, RegistryInv, EntriesExist, EntriesUnshared,
           NoneLeaks, DataOwned, LockInv
  <2> HIDE DEF Kept
  <2> QED BY <2>1, <2>2, <2>3 DEF ClientStep
<1>3. Kept => RegistryInv /\ LockInv
  OBVIOUS
<1> HIDE DEF Kept
<1> QED BY <1>1, <1>2, <1>3, SuiteIsAClient, PTL

=============================================================================
