-------------------------- MODULE LockThreads_proofs --------------------------
(***************************************************************************)
(* Theorems about LockThreads for any number of threads, usages, mappings  *)
(* and calls: racing threads never find bo_data null; to a client that     *)
(* admits one thread at a time a pointer stays mapped until its unlock, no *)
(* mapping is unmapped twice and a call is one step of GrallocGbm.         *)
(***************************************************************************)
EXTENDS LockThreads, FiniteSetTheorems, TLAPS

AnyData ==
  [map_data : Mapping \cup {NoMapping}, lock_count : Int, locked_for : SUBSET SwBits]

\* Types but for the ranges of the counters, which racing threads corrupt.
Typed ==
  /\ kind \in Client
  /\ user_data \in Thread \cup {NoData}
  /\ data \in [Thread -> AnyData]
  /\ mapped \in SUBSET Mapping
  /\ pc \in [Thread -> PC]
  /\ bo_data \in [Thread -> Thread \cup {NoData}]
  /\ seen \in [Thread -> Thread \cup {NoData}]
  /\ usage \in [Thread -> SUBSET SwBits]
  /\ count \in [Thread -> Int]
  /\ ptr \in [Thread -> SUBSET Mapping]
  /\ held \in [Thread -> Int]
  /\ committed \in AnyData \cup {NoData}

\* Where the local bo_data, and that of gralloc_gbm_map and gralloc_gbm_unmap,
\* has been set, and where the object has a bo_data.
HasData == PC \ {"idle", "get_data", "unlock"}
HasSeen == {"map", "clear"}
Attached == PC \ {"idle", "get_data", "set_data"}

\* Nothing detaches a bo_data; a lock is held only of an object that has one.
DataAttached ==
  \A t \in Thread :
    /\ pc[t] \in HasData => bo_data[t] # NoData
    /\ pc[t] \in HasSeen => seen[t] # NoData
    /\ pc[t] \in Attached \/ held[t] > 0 => user_data # NoData

PointerInv == Typed /\ DataAttached /\ NoNullData

-----------------------------------------------------------------------------

\* A process starts with no bo_data and no thread in a call.
LEMMA PointerInit == Init => PointerInv
  BY ThreadsAssumption
  DEF Init, PointerInv, Typed, DataAttached, NoNullData, NewData, AnyData, PC, HasData, HasSeen, Attached

\* A new bo_data, and any that is changed in one field, is one.
LEMMA DataTyped ==
  /\ NewData \in AnyData
  /\ \A d \in AnyData : d.lock_count \in Int /\ d.locked_for \in SUBSET SwBits
                       /\ d.map_data \in Mapping \cup {NoMapping}
  BY DEF NewData, AnyData

\* A call that returns changes no local but its own.
LEMMA Returned ==
  ASSUME Typed, DataAttached, NoNullData, NEW t \in Thread, NEW err,
         Return(t, err, data, user_data), pc[t] \in Attached, UNCHANGED <<kind, user_data, mapped, fault, data, ptr, held>>
  PROVE  PointerInv'
<1>1. Typed'
  BY DEF Typed, Return, PC, Attached
<1>2. DataAttached' /\ NoNullData'
  BY DEF Typed, Return, PC, DataAttached, NoNullData, HasData, HasSeen, Attached
<1> QED BY <1>1, <1>2 DEF PointerInv

\* Every statement of a call leaves the pointers it reads next set.
LEMMA Steps ==
  ASSUME Typed, DataAttached, NoNullData, NEW t \in Thread, UNCHANGED kind
  PROVE  (BeginUnlock(t) \/ Step(t)) => PointerInv'
<1>1. CASE BeginUnlock(t)
  <2>1. Typed'
    BY <1>1, DataTyped DEF Typed, BeginUnlock, shared, locals, client, Goto, PC, CanCall, Enter, AnyData, DataAttached, HasData, HasSeen, Attached
  <2>2. (DataAttached /\ NoNullData)'
    BY <1>1, ThreadsAssumption DEF Typed, BeginUnlock, shared, locals, client, Goto, PC, CanCall, Enter, DataAttached, NoNullData, HasData, HasSeen, Attached
  <2> QED BY <2>1, <2>2 DEF PointerInv
<1>2. CASE GetUserData(t)
  <2>1. CASE user_data = NoData
    <3>1. /\ Goto(t, "get_data", "set_data")
          /\ bo_data' = [bo_data EXCEPT ![t] = t]
          /\ data' = [data EXCEPT ![t] = NewData]
          /\ UNCHANGED <<kind, user_data, mapped, fault, seen, usage, count, ptr, held,
                         committed>>
      BY <1>2, <2>1 DEF GetUserData, client
    <3>2. Typed'
      BY <3>1, DataTyped DEF Typed, Goto, PC
    <3>3. t # NoData
      BY ThreadsAssumption
    <3>4. DataAttached'
      <4> SUFFICES ASSUME NEW u \in Thread
                   PROVE  /\ pc'[u] \in HasData => bo_data'[u] # NoData
                          /\ pc'[u] \in HasSeen => seen'[u] # NoData
                          /\ pc'[u] \in Attached \/ held'[u] > 0 => user_data' # NoData
        BY DEF DataAttached
      <4>1. CASE u = t
        BY <3>1, <3>3, <4>1 DEF Typed, Goto, PC, DataAttached, HasSeen, Attached
      <4>2. CASE u # t
        BY <3>1, <4>2 DEF Typed, Goto, DataAttached
      <4> QED BY <4>1, <4>2
    <3> QED BY <3>1, <3>2, <3>4 DEF PointerInv, NoNullData
  <2>2. CASE user_data # NoData
    <3>1. /\ Goto(t, "get_data", "check")
          /\ bo_data' = [bo_data EXCEPT ![t] = user_data]
          /\ data' = data
          /\ UNCHANGED <<kind, user_data, mapped, fault, seen, usage, count, ptr, held,
                         committed>>
      BY <1>2, <2>2 DEF GetUserData, client
    <3>2. Typed'
      BY <3>1 DEF Typed, Goto, PC
    <3>3. DataAttached' /\ NoNullData'
      BY <2>2, <3>1 DEF Typed, Goto, PC, DataAttached, NoNullData, HasData, HasSeen, Attached
    <3> QED BY <3>2, <3>3 DEF PointerInv
  <2> QED BY <2>1, <2>2
<1>3. CASE SetUserData(t)
  <2>1. /\ Goto(t, "set_data", "check")
        /\ user_data' = bo_data[t]
        /\ UNCHANGED <<kind, data, mapped, fault, bo_data, seen, usage, count, ptr, held, committed>>
    BY <1>3 DEF SetUserData, locals, client
  <2>2. bo_data[t] \in Thread
    BY <2>1 DEF Typed, Goto, DataAttached, HasData, PC
  <2>3. Typed'
    BY <2>1, <2>2 DEF Typed, Goto, PC
  <2>4. user_data' # NoData
    BY <2>1, <2>2, ThreadsAssumption
  <2>5. DataAttached'
    BY <2>1, <2>2, <2>4 DEF Typed, Goto, PC, DataAttached, HasData, HasSeen
  <2> QED BY <2>1, <2>3, <2>5 DEF PointerInv, NoNullData
<1>4. CASE CheckCompatible(t)
  <2>1. CASE Return(t, "EINVAL", data, user_data)
    BY <1>4, <2>1, Returned DEF CheckCompatible, shared, Attached, PC
  <2>2. CASE Goto(t, "check", "widen") /\ UNCHANGED <<locals, ret, committed>>
    <3>1. Typed'
      BY <1>4, <2>2, DataTyped DEF Typed, shared, locals, client, Goto, PC, DataAttached, HasData, HasSeen, Attached, CheckCompatible
    <3>2. DataAttached' /\ NoNullData'
      BY <1>4, <2>2, ThreadsAssumption DEF Typed, shared, locals, client, Goto, PC, DataAttached, NoNullData, HasData, HasSeen, Attached, CheckCompatible
    <3> QED BY <3>1, <3>2 DEF PointerInv
  <2> QED BY <1>4, <2>1, <2>2 DEF CheckCompatible
<1>5. CASE Widen(t)
  <2>1. Typed'
    BY <1>5, DataTyped DEF Typed, Widen, shared, locals, client, Goto, PC, AnyData, DataAttached, HasData, HasSeen, Attached
  <2>2. (DataAttached /\ NoNullData)'
    BY <1>5, ThreadsAssumption DEF Typed, Widen, shared, locals, client, Goto, PC, DataAttached, NoNullData, HasData, HasSeen, Attached
  <2> QED BY <2>1, <2>2 DEF PointerInv
<1>6. CASE MapCheck(t)
  <2>1. user_data # NoData
    BY <1>6 DEF MapCheck, DataAttached, Attached, PC
  <2>2. CASE Return(t, "EINVAL", data, user_data)
    BY <1>6, <2>1, <2>2, Returned DEF MapCheck, NullData, shared, Attached, PC
  <2>3. CASE /\ Goto(t, "map_check", "map")
             /\ seen' = [seen EXCEPT ![t] = user_data]
             /\ UNCHANGED <<bo_data, usage, count, ret, committed>>
             /\ UNCHANGED <<shared, ptr, held, calls>>
    <3>1. Typed'
      BY <2>1, <2>3, DataTyped DEF Typed, shared, locals, client, Goto, PC, DataAttached, HasData, HasSeen, Attached
    <3>2. DataAttached' /\ NoNullData'
      BY <2>1, <2>3, ThreadsAssumption DEF Typed, shared, locals, client, Goto, PC, DataAttached, NoNullData, HasData, HasSeen, Attached
    <3> QED BY <3>1, <3>2 DEF PointerInv
  <2> QED BY <1>6, <2>1, <2>2, <2>3 DEF MapCheck, NullData
<1>7. CASE Map(t)
  <2>1. CASE Return(t, "ENOMEM", data, user_data) /\ UNCHANGED <<mapped, data, ptr>>
    BY <1>7, <2>1, Returned DEF Map, Attached, PC
  <2>2. ASSUME NEW m \in Mapping \ mapped,
               Goto(t, "map", "count_read"),
               mapped' = mapped \cup {m},
               data' = [data EXCEPT ![seen[t]].map_data = m],
               ptr' = [ptr EXCEPT ![t] = @ \cup {m}],
               UNCHANGED <<locals, ret, committed>>,
               UNCHANGED <<user_data, fault, held, calls>>
        PROVE  PointerInv'
    <3>1. data' \in [Thread -> AnyData]
      BY <2>2 DEF Typed, AnyData
    <3>2. Typed'
      BY <2>2, <3>1 DEF Typed, locals, Goto, PC
    <3>3. DataAttached' /\ NoNullData'
      BY <2>2 DEF Typed, locals, Goto, PC, DataAttached, NoNullData, HasData, HasSeen, Attached
    <3> QED BY <3>2, <3>3 DEF PointerInv
  <2> QED BY <1>7, <2>1, <2>2 DEF Map
<1>8. CASE CountRead(t)
  <2>1. Typed'
    BY <1>8, DataTyped DEF Typed, CountRead, shared, locals, client, Goto, PC, AnyData, DataAttached, HasData, HasSeen, Attached
  <2>2. (DataAttached /\ NoNullData)'
    BY <1>8, ThreadsAssumption DEF Typed, CountRead, shared, locals, client, Goto, PC, DataAttached, NoNullData, HasData, HasSeen, Attached
  <2> QED BY <2>1, <2>2 DEF PointerInv
<1>9. CASE CountWrite(t)
  <2>1. Typed'
    BY <1>9, DataTyped DEF Typed, CountWrite, shared, locals, client, Goto, PC, AnyData, DataAttached, HasData, HasSeen, Attached
  <2>2. (DataAttached /\ NoNullData)'
    BY <1>9, ThreadsAssumption DEF Typed, CountWrite, shared, locals, client, Goto, PC, DataAttached, NoNullData, HasData, HasSeen, Attached
  <2> QED BY <2>1, <2>2 DEF PointerInv
<1>10. CASE Mark(t)
  <2>1. Typed'
    BY <1>10, DataTyped DEF Typed, Mark, shared, locals, client, Goto, PC, Return, AnyData, DataAttached, HasData, HasSeen, Attached
  <2>2. (DataAttached /\ NoNullData)'
    BY <1>10, ThreadsAssumption DEF Typed, Mark, shared, locals, client, Goto, PC, Return, DataAttached, NoNullData, HasData, HasSeen, Attached
  <2> QED BY <2>1, <2>2 DEF PointerInv
<1>11. CASE UnlockUserData(t)
  <2>1. /\ user_data # NoData
        /\ Goto(t, "unlock", "was_mapped")
        /\ bo_data' = [bo_data EXCEPT ![t] = user_data]
        /\ UNCHANGED <<shared, seen, usage, count, client>>
    BY <1>11 DEF UnlockUserData, NullData, DataAttached, Attached, PC
  <2>2. Typed'
    BY <2>1, DataTyped DEF Typed, shared, locals, client, Goto, PC, DataAttached, HasData, HasSeen, Attached
  <2>3. DataAttached' /\ NoNullData'
    BY <2>1, ThreadsAssumption DEF Typed, shared, locals, client, Goto, PC, DataAttached, NoNullData, HasData, HasSeen, Attached
  <2> QED BY <2>2, <2>3 DEF PointerInv
<1>12. CASE WasMapped(t)
  <2>1. Typed'
    BY <1>12, DataTyped DEF Typed, WasMapped, shared, locals, client, Goto, PC, AnyData, DataAttached, HasData, HasSeen, Attached
  <2>2. (DataAttached /\ NoNullData)'
    BY <1>12, ThreadsAssumption DEF Typed, WasMapped, shared, locals, client, Goto, PC, DataAttached, NoNullData, HasData, HasSeen, Attached
  <2> QED BY <2>1, <2>2 DEF PointerInv
<1>13. CASE StillLocked(t)
  <2>1. CASE Return(t, "0", data, user_data) /\ UNCHANGED <<shared, ptr, held, calls>>
    BY <1>13, <2>1, Returned DEF StillLocked, shared, Attached, PC
  <2>2. CASE /\ Goto(t, "still_locked", IF usage[t] # {} THEN "unmap" ELSE "dec_read")
             /\ UNCHANGED <<shared, locals, client>>
    <3>1. Typed'
      BY <2>2, DataTyped DEF Typed, shared, locals, client, Goto, PC, DataAttached, HasData, HasSeen, Attached
    <3>2. DataAttached' /\ NoNullData'
      BY <2>2, ThreadsAssumption DEF Typed, shared, locals, client, Goto, PC, DataAttached, NoNullData, HasData, HasSeen, Attached
    <3> QED BY <3>1, <3>2 DEF PointerInv
  <2> QED BY <1>13, <2>1, <2>2 DEF StillLocked
<1>14. CASE Unmap(t)
  <2>1. /\ user_data # NoData
        /\ pc[t] = "unmap"
        /\ mapped' = mapped \ {data[user_data].map_data}
        /\ fault' \in {fault, "bad unmap"}
        /\ seen' = [seen EXCEPT ![t] = user_data]
        /\ Goto(t, "unmap", "clear")
        /\ UNCHANGED <<kind, user_data, data, bo_data, usage, count, client>>
    BY <1>14 DEF Unmap, NullData, DataAttached, Attached, PC
  <2>2. Typed'
    BY <2>1, DataTyped DEF Typed, shared, locals, client, Goto, PC, DataAttached, HasData, HasSeen, Attached
  <2>3. DataAttached' /\ NoNullData'
    BY <2>1, ThreadsAssumption DEF Typed, shared, locals, client, Goto, PC, DataAttached, NoNullData, HasData, HasSeen, Attached
  <2> QED BY <2>2, <2>3 DEF PointerInv
<1>15. CASE Clear(t)
  <2>1. Typed'
    BY <1>15, DataTyped DEF Typed, Clear, shared, locals, client, Goto, PC, AnyData, DataAttached, HasData, HasSeen, Attached
  <2>2. (DataAttached /\ NoNullData)'
    BY <1>15, ThreadsAssumption DEF Typed, Clear, shared, locals, client, Goto, PC, DataAttached, NoNullData, HasData, HasSeen, Attached
  <2> QED BY <2>1, <2>2 DEF PointerInv
<1>16. CASE DecRead(t)
  <2>1. Typed'
    BY <1>16, DataTyped DEF Typed, DecRead, shared, locals, client, Goto, PC, AnyData, DataAttached, HasData, HasSeen, Attached
  <2>2. (DataAttached /\ NoNullData)'
    BY <1>16, ThreadsAssumption DEF Typed, DecRead, shared, locals, client, Goto, PC, DataAttached, NoNullData, HasData, HasSeen, Attached
  <2> QED BY <2>1, <2>2 DEF PointerInv
<1>17. CASE DecWrite(t)
  <2>1. Typed'
    BY <1>17, DataTyped DEF Typed, DecWrite, shared, locals, client, Goto, PC, AnyData, DataAttached, HasData, HasSeen, Attached
  <2>2. (DataAttached /\ NoNullData)'
    BY <1>17, ThreadsAssumption DEF Typed, DecWrite, shared, locals, client, Goto, PC, DataAttached, NoNullData, HasData, HasSeen, Attached
  <2> QED BY <2>1, <2>2 DEF PointerInv
<1>18. CASE Reset(t)
  <2>1. Typed'
    BY <1>18, DataTyped DEF Typed, Reset, shared, locals, client, Goto, PC, Return, AnyData, DataAttached, HasData, HasSeen, Attached
  <2>2. (DataAttached /\ NoNullData)'
    BY <1>18, ThreadsAssumption DEF Typed, Reset, shared, locals, client, Goto, PC, Return, DataAttached, NoNullData, HasData, HasSeen, Attached
  <2> QED BY <2>1, <2>2 DEF PointerInv
<1> QED BY <1>1, <1>2, <1>3, <1>4, <1>5, <1>6, <1>7, <1>8, <1>9, <1>10, <1>11, <1>12, <1>13, <1>14, <1>15, <1>16, <1>17, <1>18 DEF Step

\* A lock begins with usage that the client makes.
LEMMA BeginLockStep ==
  ASSUME PointerInv, NEW t \in Thread, NEW u \in kind.usages, UNCHANGED kind, BeginLock(t, u)
  PROVE  PointerInv'
<1>1. u \in SUBSET SwBits
  BY ThreadsAssumption DEF PointerInv, Typed, ClientKind
<1>2. Typed'
  BY <1>1 DEF PointerInv, Typed, BeginLock, CanCall, Enter, shared, PC
<1>3. DataAttached' /\ NoNullData'
  BY DEF PointerInv, Typed, DataAttached, NoNullData, BeginLock, CanCall, Enter, shared, PC,
         HasData, HasSeen, Attached
<1> QED BY <1>2, <1>3 DEF PointerInv

\* An object that has a bo_data keeps it.
THEOREM PointersStay == Spec => []PointerInv
<1>1. PointerInv /\ [Next]_vars => PointerInv'
  <2> SUFFICES ASSUME PointerInv, [Next]_vars PROVE PointerInv'
    OBVIOUS
  <2>1. CASE Next
    <3> PICK t \in Thread : \/ \E u \in kind.usages : BeginLock(t, u)
                           \/ BeginUnlock(t) \/ Step(t)
      BY <2>1 DEF Next
    <3>1. UNCHANGED kind
      BY <2>1 DEF Next
    <3>2. CASE \E u \in kind.usages : BeginLock(t, u)
      BY <3>1, <3>2, BeginLockStep
    <3>3. CASE BeginUnlock(t) \/ Step(t)
      BY <3>1, <3>3, Steps DEF PointerInv
    <3> QED BY <3>2, <3>3
  <2>2. CASE UNCHANGED vars
    BY <2>2 DEF PointerInv, Typed, DataAttached, NoNullData, vars, shared, locals, client
  <2> QED BY <2>1, <2>2
<1> QED BY <1>1, PointerInit, PTL DEF Spec

\* However many threads race, and whatever they lose of the counts, no statement
\* of lock or unlock reads through a null bo_data.
THEOREM NeverNull == Spec => []NoNullData
<1>1. PointerInv => NoNullData
  BY DEF PointerInv
<1> QED BY <1>1, PointersStay, PTL

-----------------------------------------------------------------------------
(* A client that admits one thread at a time. *)

Fresh(d) == d.map_data = NoMapping /\ d.lock_count = 0 /\ d.locked_for = {}
Taken(d) == d.map_data \in mapped /\ d.lock_count = 1 /\ d.locked_for # {}

NoneHeld == \A t \in Thread : held[t] = 0
NoPointers == \A t \in Thread : ptr[t] = {}
OnlyPointer(t, m) == \A u \in Thread : ptr[u] = IF u = t THEN {m} ELSE {}

\* The object when a call begins, and as long as a lock has changed nothing of it.
Unlocked == NoneHeld /\ NoPointers /\ (user_data # NoData => Fresh(data[user_data]))
LockedBy(t) ==
  /\ user_data # NoData
  /\ Taken(data[user_data])
  /\ OnlyPointer(t, data[user_data].map_data)
  /\ \A u \in Thread : held[u] = IF u = t THEN 1 ELSE 0
Resting == Unlocked \/ \E t \in Thread : LockedBy(t)

\* committed is the object as the last call left it.
SameAsCommitted == committed = IF user_data = NoData THEN NoData ELSE data[user_data]
LockPending ==
  \/ SameAsCommitted
  \/ committed = NoData /\ Fresh(data[user_data])
Unused == committed = NoData \/ Fresh(committed)

\* Where the one thread inside a call is, and what the object is like then.
InLock(t) ==
  /\ usage[t] # {}
  /\ pc[t] = "get_data" => Resting /\ SameAsCommitted
  /\ pc[t] = "set_data" =>
       /\ user_data = NoData /\ bo_data[t] = t
       /\ NoneHeld /\ NoPointers /\ Fresh(data[t]) /\ committed = NoData
  /\ pc[t] \in {"check", "widen", "map_check"} =>
       Resting /\ bo_data[t] = user_data /\ LockPending
  /\ pc[t] = "map" => Unlocked /\ bo_data[t] = user_data /\ seen[t] = user_data /\ Unused
  /\ pc[t] \in {"count_read", "count_write", "mark"} =>
       /\ bo_data[t] = user_data /\ NoneHeld /\ Unused
       /\ OnlyPointer(t, data[user_data].map_data)
       /\ data[user_data].map_data \in mapped
       /\ data[user_data].locked_for = {}
       /\ data[user_data].lock_count = IF pc[t] = "mark" THEN 1 ELSE 0
  /\ pc[t] = "count_write" => count[t] = 0

InUnlock(t) ==
  /\ NoneHeld /\ NoPointers
  /\ committed # NoData /\ committed.lock_count = 1
  /\ committed.locked_for = data[user_data].locked_for /\ committed.locked_for # {}
  /\ pc[t] # "unlock" => bo_data[t] = user_data
  /\ pc[t] \in {"unlock", "was_mapped", "still_locked", "unmap"} => Taken(data[user_data])
  /\ pc[t] \in {"still_locked", "unmap"} => usage[t] # {}
  /\ pc[t] = "clear" => seen[t] = user_data /\ data[user_data].lock_count = 1
  /\ pc[t] \in {"dec_read", "dec_write", "reset"} =>
       /\ data[user_data].map_data = NoMapping
       /\ data[user_data].lock_count = IF pc[t] = "reset" THEN 0 ELSE 1
  /\ pc[t] = "dec_write" => count[t] = 1

LockPC == {"get_data", "set_data", "check", "widen", "map_check", "map", "count_read",
           "count_write", "mark"}

TurnInv ==
  /\ fault = "none"
  /\ \A t, u \in Thread : pc[t] # "idle" /\ pc[u] # "idle" => t = u
  /\ (\A t \in Thread : pc[t] = "idle") => Resting /\ SameAsCommitted
  /\ \A t \in Thread : pc[t] # "idle" => IF pc[t] \in LockPC THEN InLock(t) ELSE InUnlock(t)

SerialisedInv == kind.serialised => TurnInv

\* A step of the one thread that is inside moves that thread only.
LEMMA TurnStep ==
  ASSUME Typed, TurnInv, NEW t \in Thread, NEW p \in PC,
         \A u \in Thread : pc[u] # "idle" => u = t,
         pc' = [pc EXCEPT ![t] = p], fault' = fault,
         p = "idle" => Resting' /\ SameAsCommitted',
         p # "idle" => IF p \in LockPC THEN InLock(t)' ELSE InUnlock(t)'
  PROVE  TurnInv'
<1>1. pc'[t] = p /\ \A u \in Thread : u # t => pc'[u] = "idle"
  BY DEF Typed
<1>2. (\A u \in Thread : pc'[u] = "idle") => Resting' /\ SameAsCommitted'
  BY <1>1
<1>3. \A u \in Thread : pc'[u] # "idle" => IF pc'[u] \in LockPC THEN InLock(u)' ELSE InUnlock(u)'
  BY <1>1
<1> QED BY <1>1, <1>2, <1>3 DEF TurnInv

\* What the thread inside knows.
LEMMA Inside ==
  ASSUME TurnInv, NEW t \in Thread, pc[t] # "idle"
  PROVE  /\ \A u \in Thread : pc[u] # "idle" => u = t
         /\ pc[t] \in LockPC => InLock(t)
         /\ pc[t] \notin LockPC => InUnlock(t)
  BY DEF TurnInv

\* Steps that leave the object and what is held of it alone.
LEMMA ObjectFrame ==
  ASSUME UNCHANGED <<user_data, data, mapped, held, ptr>>
  PROVE  /\ Resting => Resting'
         /\ Unlocked => Unlocked'
         /\ NoneHeld => NoneHeld'
         /\ NoPointers => NoPointers'
         /\ committed' = committed /\ SameAsCommitted => SameAsCommitted'
         /\ committed' = committed /\ LockPending => LockPending'
  BY DEF Resting, Unlocked, LockedBy, NoneHeld, NoPointers, OnlyPointer, Taken, Fresh,
         SameAsCommitted, LockPending

\* When the client calls: a lock finds the object resting, an unlock locked.
LEMMA BeginTurn ==
  ASSUME PointerInv, TurnInv, kind.serialised, NEW t \in Thread, UNCHANGED kind,
         BeginUnlock(t) \/ \E u \in kind.usages : BeginLock(t, u)
  PROVE  TurnInv'
<1>1. /\ \A u \in Thread : pc[u] = "idle"
      /\ Resting /\ SameAsCommitted
  BY DEF BeginUnlock, BeginLock, Enter, CanCall, TurnInv
<1>2. ASSUME NEW u \in kind.usages, BeginLock(t, u) PROVE TurnInv'
  <2>1. u # {}
    <3>1. kind \in ClientKind
      BY ThreadsAssumption DEF PointerInv, Typed
    <3>2. kind.usages \in SUBSET ((SUBSET SwBits) \ {{}})
      BY <3>1 DEF ClientKind
    <3> QED BY <3>2
  <2>2. InLock(t)'
    <3>1. pc'[t] = "get_data" /\ usage'[t] = u
      BY <1>2 DEF BeginLock, Enter, CanCall, PointerInv, Typed
    <3>2. Resting' /\ SameAsCommitted'
      BY <1>1, <1>2, ObjectFrame DEF BeginLock, shared
    <3> QED BY <2>1, <3>1, <3>2 DEF InLock
  <2> QED BY <1>1, <1>2, <2>2, TurnStep DEF BeginLock, Enter, shared, PointerInv, PC, LockPC
<1>3. CASE BeginUnlock(t)
  <2>1. LockedBy(t)
    BY <1>1, <1>3 DEF BeginUnlock, Resting, Unlocked, NoneHeld, LockedBy
  <2>2. /\ held' = [held EXCEPT ![t] = 0]
        /\ ptr' = [ptr EXCEPT ![t] = {}]
        /\ UNCHANGED <<shared, committed>>
        /\ pc' = [pc EXCEPT ![t] = "unlock"]
    <3>1. held[t] = 1
      BY <2>1 DEF LockedBy
    <3>2. held' = [held EXCEPT ![t] = held[t] - 1]
      BY <1>3 DEF BeginUnlock
    <3>3. held' = [held EXCEPT ![t] = 0]
      BY <3>1, <3>2
    <3> QED BY <1>3, <3>1, <3>3 DEF BeginUnlock, Enter
  <2>3. NoneHeld' /\ NoPointers'
    BY <2>1, <2>2 DEF NoneHeld, NoPointers, LockedBy, OnlyPointer, PointerInv, Typed
  <2>4. user_data # NoData /\ committed = data[user_data] /\ user_data \in Thread
    BY <1>1, <2>1 DEF SameAsCommitted, LockedBy, PointerInv, Typed
  <2>5. committed # NoData
    BY <2>4, ThreadsAssumption DEF PointerInv, Typed, AnyData
  <2>6. InUnlock(t)'
    BY <2>1, <2>2, <2>3, <2>4, <2>5 DEF InUnlock, LockedBy, Taken, shared, PointerInv, Typed
  <2> QED BY <1>1, <2>2, <2>6, TurnStep DEF shared, PointerInv, PC, LockPC
<1> QED BY <1>2, <1>3

Frame == UNCHANGED <<user_data, data, mapped, fault, held, ptr, committed>>

\* The statements of lock, in turn, each from what InLock says where it is.
LEMMA LockTurn ==
  ASSUME PointerInv, TurnInv, NEW t \in Thread, UNCHANGED kind,
         \/ GetUserData(t) \/ SetUserData(t) \/ CheckCompatible(t) \/ Widen(t) \/ MapCheck(t)
         \/ Map(t) \/ CountRead(t) \/ CountWrite(t) \/ Mark(t)
  PROVE  TurnInv'
<1>1. pc[t] \in LockPC
  BY DEF GetUserData, SetUserData, CheckCompatible, Widen, MapCheck, Map, CountRead, CountWrite,
         Mark, Goto, LockPC
<1>2. InLock(t) /\ Typed /\ \A u \in Thread : pc[u] # "idle" => u = t
  BY <1>1, Inside DEF LockPC, PointerInv
<1>3. NoMapping \notin mapped
  BY <1>2, ThreadsAssumption DEF Typed

\* It goes on to p.
<1>4. ASSUME NEW p \in LockPC, pc' = [pc EXCEPT ![t] = p], fault' = fault, InLock(t)'
      PROVE  TurnInv'
  BY <1>2, <1>4, TurnStep DEF LockPC, PC

\* It returns.
<1>5. ASSUME pc' = [pc EXCEPT ![t] = "idle"], fault' = fault, Resting', SameAsCommitted'
      PROVE  TurnInv'
  BY <1>2, <1>5, TurnStep DEF PC
<1>6. CASE GetUserData(t)
  <2>1. Resting /\ SameAsCommitted /\ usage[t] # {} /\ pc[t] = "get_data"
    BY <1>2, <1>6 DEF InLock, GetUserData, Goto
  <2>2. CASE user_data = NoData
    <3>1. /\ pc' = [pc EXCEPT ![t] = "set_data"]
          /\ bo_data' = [bo_data EXCEPT ![t] = t]
          /\ data' = [data EXCEPT ![t] = NewData]
          /\ UNCHANGED <<user_data, mapped, fault, usage, committed, held, ptr>>
      BY <1>6, <2>2 DEF GetUserData, Goto, client
    <3>2. NoneHeld /\ NoPointers /\ committed = NoData
      BY <2>1, <2>2 DEF Resting, Unlocked, LockedBy, SameAsCommitted
    <3>3. Fresh(data'[t])
      BY <1>2, <3>1 DEF Typed, Fresh, NewData
    <3>4. InLock(t)'
      BY <1>2, <2>1, <2>2, <3>1, <3>2, <3>3 DEF InLock, Typed, NoneHeld, NoPointers, Fresh
    <3> QED BY <1>4, <3>1, <3>4 DEF LockPC
  <2>3. CASE user_data # NoData
    <3>1. /\ pc' = [pc EXCEPT ![t] = "check"]
          /\ bo_data' = [bo_data EXCEPT ![t] = user_data]
          /\ UNCHANGED usage /\ Frame
      BY <1>6, <2>3 DEF GetUserData, Goto, client, Frame
    <3>2. Resting' /\ LockPending'
      BY <2>1, <3>1, ObjectFrame DEF Frame, LockPending
    <3>3. InLock(t)'
      BY <1>2, <2>1, <3>1, <3>2 DEF InLock, Typed, Frame
    <3> QED BY <1>4, <3>1, <3>3 DEF LockPC, Frame
  <2> QED BY <2>2, <2>3
<1>7. CASE SetUserData(t)
  <2>1. /\ user_data = NoData /\ bo_data[t] = t
        /\ NoneHeld /\ NoPointers /\ Fresh(data[t]) /\ committed = NoData
        /\ usage[t] # {}
    BY <1>2, <1>7 DEF InLock, SetUserData, Goto
  <2>2. /\ pc' = [pc EXCEPT ![t] = "check"]
        /\ user_data' = t
        /\ UNCHANGED <<data, mapped, fault, bo_data, usage, committed, held, ptr>>
    BY <1>7, <2>1 DEF SetUserData, Goto, locals, client
  <2>3. Resting' /\ LockPending'
    BY <2>1, <2>2 DEF Resting, Unlocked, NoneHeld, NoPointers, LockPending, Fresh
  <2>4. InLock(t)'
    BY <1>2, <2>1, <2>2, <2>3 DEF InLock, Typed
  <2> QED BY <1>4, <2>2, <2>4 DEF LockPC
<1>8. CASE CheckCompatible(t)
  <2>1. Resting /\ bo_data[t] = user_data /\ LockPending /\ usage[t] # {} /\ user_data # NoData
    BY <1>2, <1>8 DEF InLock, CheckCompatible, PointerInv, DataAttached, Attached, PC
  <2>2. CASE /\ data[user_data].lock_count # 0
             /\ Return(t, "EINVAL", data, user_data)
    <3>1. committed' = data[user_data] /\ UNCHANGED <<user_data, data, mapped, held, ptr, fault>>
      BY <1>8, <2>1, <2>2 DEF CheckCompatible, Return, shared
    <3>2. Resting' /\ SameAsCommitted'
      BY <2>1, <3>1, ObjectFrame DEF SameAsCommitted
    <3> QED BY <1>5, <2>2, <3>1, <3>2 DEF Return
  <2>3. CASE Goto(t, "check", "widen") /\ UNCHANGED <<locals, ret, committed>>
    <3>1. Frame /\ UNCHANGED <<bo_data, usage>> /\ pc' = [pc EXCEPT ![t] = "widen"]
      BY <1>8, <2>3 DEF CheckCompatible, locals, shared, Frame, Goto
    <3>2. Resting' /\ LockPending'
      BY <2>1, <3>1, ObjectFrame DEF Frame
    <3>3. InLock(t)'
      BY <1>2, <2>1, <3>1, <3>2 DEF InLock, Typed, Frame
    <3> QED BY <1>4, <3>1, <3>3 DEF LockPC, Frame
  <2> QED BY <1>8, <2>1, <2>2, <2>3 DEF CheckCompatible
<1>9. CASE Widen(t)
  <2>1. Resting /\ bo_data[t] = user_data /\ LockPending /\ usage[t] # {}
    BY <1>2, <1>9 DEF InLock, Widen, Goto
  <2>2. /\ Frame /\ UNCHANGED bo_data /\ pc' = [pc EXCEPT ![t] = "map_check"]
        /\ usage' = [usage EXCEPT ![t] = @ \cup data[bo_data[t]].locked_for]
    BY <1>9 DEF Widen, shared, client, Frame, Goto
  <2>3. Resting' /\ LockPending'
    BY <2>1, <2>2, ObjectFrame DEF Frame
  <2>4. usage'[t] # {}
    BY <1>2, <2>1, <2>2 DEF Typed
  <2>5. InLock(t)'
    BY <1>2, <2>1, <2>2, <2>3, <2>4 DEF InLock, Typed, Frame
  <2> QED BY <1>4, <2>2, <2>5 DEF LockPC, Frame
<1>10. CASE MapCheck(t)
  <2>1. Resting /\ bo_data[t] = user_data /\ LockPending /\ usage[t] # {} /\ user_data # NoData
    BY <1>2, <1>10 DEF InLock, MapCheck, PointerInv, DataAttached, Attached, PC
  <2>2. CASE /\ data[user_data].map_data # NoMapping
             /\ Return(t, "EINVAL", data, user_data)
             /\ UNCHANGED <<shared, ptr, held, calls>>
    <3>1. committed' = data[user_data] /\ UNCHANGED <<user_data, data, mapped, held, ptr, fault>>
      BY <2>1, <2>2 DEF Return, shared
    <3>2. Resting' /\ SameAsCommitted'
      BY <2>1, <3>1, ObjectFrame DEF SameAsCommitted
    <3> QED BY <1>5, <2>2, <3>1, <3>2 DEF Return
  <2>3. CASE /\ data[user_data].map_data = NoMapping
             /\ Goto(t, "map_check", "map")
             /\ seen' = [seen EXCEPT ![t] = user_data]
             /\ UNCHANGED <<bo_data, usage, count, ret, committed>>
             /\ UNCHANGED <<shared, ptr, held, calls>>
    <3>1. Frame /\ UNCHANGED <<bo_data, usage>> /\ pc' = [pc EXCEPT ![t] = "map"]
          /\ seen' = [seen EXCEPT ![t] = user_data]
      BY <2>3 DEF shared, Frame, Goto
    <3>2. Unlocked
      BY <1>3, <2>1, <2>3 DEF Resting, LockedBy, Taken
    <3>3. Unused
      BY <2>1, <3>2 DEF Unused, LockPending, SameAsCommitted, Unlocked
    <3>4. Unlocked' /\ Unused'
      BY <3>1, <3>2, <3>3, ObjectFrame DEF Frame, Unused, Fresh
    <3>5. InLock(t)'
      BY <1>2, <2>1, <3>1, <3>4 DEF InLock, Typed, Frame
    <3> QED BY <1>4, <3>1, <3>5 DEF LockPC, Frame
  <2> QED BY <1>10, <2>1, <2>2, <2>3 DEF MapCheck, NullData
<1>11. CASE Map(t)
  <2>1. /\ Unlocked /\ bo_data[t] = user_data /\ seen[t] = user_data /\ Unused
        /\ usage[t] # {} /\ user_data # NoData /\ user_data \in Thread
    BY <1>2, <1>11 DEF InLock, Map, PointerInv, DataAttached, Attached, PC, Typed
  <2>2. CASE Return(t, "ENOMEM", data, user_data) /\ UNCHANGED <<mapped, data, ptr>>
    <3>1. committed' = data[user_data] /\ UNCHANGED <<user_data, data, mapped, held, ptr, fault>>
      BY <1>11, <2>1, <2>2 DEF Map, Return
    <3>2. Resting' /\ SameAsCommitted'
      BY <2>1, <3>1, ObjectFrame DEF SameAsCommitted, Resting
    <3> QED BY <1>5, <2>2, <3>1, <3>2 DEF Return
  <2>3. ASSUME NEW m \in Mapping \ mapped,
               Goto(t, "map", "count_read"),
               mapped' = mapped \cup {m},
               data' = [data EXCEPT ![seen[t]].map_data = m],
               ptr' = [ptr EXCEPT ![t] = @ \cup {m}],
               UNCHANGED <<locals, ret, committed>>
        PROVE  TurnInv'
    <3>1. UNCHANGED <<user_data, fault, held, bo_data, usage, committed>>
      BY <1>11, <2>3 DEF Map, locals
    <3>2. /\ data'[user_data].map_data = m
          /\ data'[user_data].locked_for = {}
          /\ data'[user_data].lock_count = 0
      BY <1>2, <2>1, <2>3 DEF Typed, AnyData, Unlocked, Fresh
    <3>3. OnlyPointer(t, m)'
      BY <1>2, <2>1, <2>3 DEF Typed, Unlocked, NoPointers, OnlyPointer
    <3>4. NoneHeld' /\ Unused'
      BY <2>1, <3>1 DEF Unlocked, NoneHeld, Unused, Fresh
    <3>5. pc'[t] = "count_read"
      BY <1>2, <2>3 DEF Typed, Goto
    <3>6. InLock(t)'
      BY <2>1, <2>3, <3>1, <3>2, <3>3, <3>4, <3>5 DEF InLock, OnlyPointer
    <3> QED BY <1>4, <2>3, <3>1, <3>6 DEF LockPC, Goto
  <2> QED BY <1>11, <2>2, <2>3 DEF Map
<1> DEFINE Mapped(n) ==
             /\ bo_data[t] = user_data /\ NoneHeld /\ Unused
             /\ OnlyPointer(t, data[user_data].map_data)
             /\ data[user_data].map_data \in mapped
             /\ data[user_data].locked_for = {}
             /\ data[user_data].lock_count = n
             /\ usage[t] # {} /\ user_data \in Thread
<1>12. CASE CountRead(t)
  <2>1. Mapped(0)
    BY <1>2, <1>12 DEF InLock, CountRead, Goto, PointerInv, DataAttached, Attached, PC, Typed
  <2>2. /\ Frame /\ UNCHANGED <<bo_data, usage>> /\ pc' = [pc EXCEPT ![t] = "count_write"]
        /\ count' = [count EXCEPT ![t] = 0]
    BY <1>12, <2>1 DEF CountRead, shared, client, Frame, Goto
  <2>3. InLock(t)'
    BY <1>2, <2>1, <2>2 DEF InLock, Typed, Frame, OnlyPointer, NoneHeld, Unused, Fresh
  <2> QED BY <1>4, <2>2, <2>3 DEF LockPC, Frame
<1>13. CASE CountWrite(t)
  <2>1. Mapped(0) /\ count[t] = 0
    BY <1>2, <1>13 DEF InLock, CountWrite, Goto, PointerInv, DataAttached, Attached, PC, Typed
  <2>2. /\ UNCHANGED <<user_data, mapped, fault, held, ptr, committed, bo_data, usage>>
        /\ pc' = [pc EXCEPT ![t] = "mark"]
        /\ data' = [data EXCEPT ![user_data].lock_count = 1]
    BY <1>13, <2>1 DEF CountWrite, locals, client, Goto
  <2>3. /\ data'[user_data].map_data = data[user_data].map_data
        /\ data'[user_data].locked_for = {}
        /\ data'[user_data].lock_count = 1
    BY <1>2, <2>1, <2>2 DEF Typed, AnyData
  <2>4. InLock(t)'
    BY <1>2, <2>1, <2>2, <2>3 DEF InLock, Typed, OnlyPointer, NoneHeld, Unused, Fresh
  <2> QED BY <1>4, <2>2, <2>4 DEF LockPC
<1>14. CASE Mark(t)
  <2>1. Mapped(1)
    BY <1>2, <1>14 DEF InLock, Mark, PointerInv, DataAttached, Attached, PC, Typed
  <2>2. /\ UNCHANGED <<user_data, mapped, fault, ptr>>
        /\ data' = [data EXCEPT ![user_data].locked_for = @ \cup usage[t]]
        /\ held' = [held EXCEPT ![t] = 1]
        /\ committed' = data'[user_data]
    <3>1. held[t] = 0 /\ user_data # NoData
      BY <2>1, ThreadsAssumption DEF NoneHeld
    <3> QED BY <1>14, <2>1, <3>1 DEF Mark, Return
  <2>3. /\ data'[user_data].map_data = data[user_data].map_data
        /\ data'[user_data].locked_for = usage[t]
        /\ data'[user_data].lock_count = 1
    BY <1>2, <2>1, <2>2 DEF Typed, AnyData
  <2>4. user_data' # NoData
    BY <2>1, <2>2, ThreadsAssumption
  <2>5. LockedBy(t)'
    BY <1>2, <2>1, <2>2, <2>3, <2>4 DEF Typed, LockedBy, Taken, OnlyPointer, NoneHeld
  <2>6. Resting' /\ SameAsCommitted'
    BY <2>2, <2>4, <2>5 DEF Resting, SameAsCommitted
  <2> QED BY <1>5, <1>14, <2>2, <2>6 DEF Mark, Return
<1> QED BY <1>6, <1>7, <1>8, <1>9, <1>10, <1>11, <1>12, <1>13, <1>14

\* The statements of unlock.
LEMMA UnlockTurn ==
  ASSUME PointerInv, TurnInv, NEW t \in Thread, UNCHANGED kind,
         \/ UnlockUserData(t) \/ WasMapped(t) \/ StillLocked(t) \/ Unmap(t) \/ Clear(t)
         \/ DecRead(t) \/ DecWrite(t) \/ Reset(t)
  PROVE  TurnInv'
<1> DEFINE UnlockPC == {"unlock", "was_mapped", "still_locked", "unmap", "clear", "dec_read",
                        "dec_write", "reset"}
<1>1. pc[t] \in UnlockPC
  BY DEF UnlockUserData, WasMapped, StillLocked, Unmap, Clear, DecRead, DecWrite, Reset, Goto
<1>2. /\ InUnlock(t) /\ Typed /\ \A u \in Thread : pc[u] # "idle" => u = t
      /\ user_data # NoData /\ user_data \in Thread
  BY <1>1, Inside DEF LockPC, PointerInv, DataAttached, Attached, PC, Typed
<1>3. NoMapping \notin mapped
  BY <1>2, ThreadsAssumption DEF Typed
<1>4. ASSUME NEW p \in UnlockPC, pc' = [pc EXCEPT ![t] = p], fault' = fault, InUnlock(t)'
      PROVE  TurnInv'
  BY <1>2, <1>4, TurnStep DEF LockPC, PC
<1> DEFINE Kept == UNCHANGED <<user_data, fault, held, ptr, committed>>
<1>5. Kept => NoneHeld' /\ NoPointers'
  BY <1>2 DEF InUnlock, NoneHeld, NoPointers
<1> HIDE DEF Kept
<1>6. CASE UnlockUserData(t)
  <2>1. Taken(data[user_data])
    BY <1>2, <1>6 DEF InUnlock, UnlockUserData
  <2>2. /\ Kept /\ UNCHANGED <<data, mapped>> /\ pc' = [pc EXCEPT ![t] = "was_mapped"]
        /\ bo_data' = [bo_data EXCEPT ![t] = user_data]
    BY <1>2, <1>6 DEF UnlockUserData, NullData, shared, client, Goto, Kept
  <2>3. InUnlock(t)'
    BY <1>2, <1>5, <2>1, <2>2 DEF InUnlock, Typed, Kept, Taken
  <2> QED BY <1>4, <2>2, <2>3 DEF Kept
<1>7. CASE WasMapped(t)
  <2>1. Taken(data[user_data]) /\ bo_data[t] = user_data
    BY <1>2, <1>7 DEF InUnlock, WasMapped, Goto
  <2>2. /\ Kept /\ UNCHANGED <<data, mapped, bo_data>> /\ pc' = [pc EXCEPT ![t] = "still_locked"]
        /\ usage' = [usage EXCEPT ![t] = data[bo_data[t]].locked_for \cap SwBits]
    BY <1>7 DEF WasMapped, shared, client, Goto, Kept
  <2>3. usage'[t] # {}
    BY <1>2, <2>1, <2>2 DEF Typed, AnyData, Taken
  <2>4. InUnlock(t)'
    BY <1>2, <1>5, <2>1, <2>2, <2>3 DEF InUnlock, Typed, Kept, Taken
  <2> QED BY <1>4, <2>2, <2>4 DEF Kept
<1>8. CASE StillLocked(t)
  <2>1. Taken(data[user_data]) /\ bo_data[t] = user_data /\ usage[t] # {}
    BY <1>2, <1>8 DEF InUnlock, StillLocked
  <2>2. /\ Kept /\ UNCHANGED <<data, mapped, bo_data, usage>> /\ pc' = [pc EXCEPT ![t] = "unmap"]
    BY <1>8, <2>1 DEF StillLocked, shared, locals, client, Goto, Kept, Taken
  <2>3. InUnlock(t)'
    BY <1>2, <1>5, <2>1, <2>2 DEF InUnlock, Typed, Kept, Taken
  <2> QED BY <1>4, <2>2, <2>3 DEF Kept
<1>9. CASE Unmap(t)
  <2>1. Taken(data[user_data]) /\ bo_data[t] = user_data
    BY <1>2, <1>9 DEF InUnlock, Unmap
  <2>2. /\ Kept /\ UNCHANGED <<data, bo_data>> /\ pc' = [pc EXCEPT ![t] = "clear"]
        /\ seen' = [seen EXCEPT ![t] = user_data]
    BY <1>2, <1>9, <2>1 DEF Unmap, NullData, client, Goto, Kept, Taken
  <2>3. InUnlock(t)'
    BY <1>2, <1>5, <2>1, <2>2 DEF InUnlock, Typed, Kept, Taken
  <2> QED BY <1>4, <2>2, <2>3 DEF Kept
<1>10. CASE Clear(t)
  <2>1. bo_data[t] = user_data /\ seen[t] = user_data /\ data[user_data].lock_count = 1
    BY <1>2, <1>10 DEF InUnlock, Clear, Goto
  <2>2. /\ Kept /\ UNCHANGED bo_data /\ pc' = [pc EXCEPT ![t] = "dec_read"]
        /\ data' = [data EXCEPT ![user_data].map_data = NoMapping]
    BY <1>10, <2>1 DEF Clear, locals, client, Goto, Kept
  <2>3. /\ data'[user_data].map_data = NoMapping
        /\ data'[user_data].locked_for = data[user_data].locked_for
        /\ data'[user_data].lock_count = 1
    BY <1>2, <2>1, <2>2 DEF Typed, AnyData
  <2>4. InUnlock(t)'
    BY <1>2, <1>5, <2>1, <2>2, <2>3 DEF InUnlock, Typed, Kept
  <2> QED BY <1>4, <2>2, <2>4 DEF Kept
<1>11. CASE DecRead(t)
  <2>1. /\ bo_data[t] = user_data /\ data[user_data].map_data = NoMapping
        /\ data[user_data].lock_count = 1
    BY <1>2, <1>11 DEF InUnlock, DecRead, Goto
  <2>2. /\ Kept /\ UNCHANGED <<bo_data, data>> /\ pc' = [pc EXCEPT ![t] = "dec_write"]
        /\ count' = [count EXCEPT ![t] = 1]
    BY <1>11, <2>1 DEF DecRead, shared, client, Goto, Kept
  <2>3. InUnlock(t)'
    BY <1>2, <1>5, <2>1, <2>2 DEF InUnlock, Typed, Kept
  <2> QED BY <1>4, <2>2, <2>3 DEF Kept
<1>12. CASE DecWrite(t)
  <2>1. /\ bo_data[t] = user_data /\ data[user_data].map_data = NoMapping /\ count[t] = 1
    BY <1>2, <1>12 DEF InUnlock, DecWrite, Goto
  <2>2. /\ Kept /\ UNCHANGED bo_data /\ pc' = [pc EXCEPT ![t] = "reset"]
        /\ data' = [data EXCEPT ![user_data].lock_count = 0]
    BY <1>12, <2>1 DEF DecWrite, locals, client, Goto, Kept
  <2>3. /\ data'[user_data].map_data = NoMapping
        /\ data'[user_data].locked_for = data[user_data].locked_for
        /\ data'[user_data].lock_count = 0
    BY <1>2, <2>1, <2>2 DEF Typed, AnyData
  <2>4. InUnlock(t)'
    BY <1>2, <1>5, <2>1, <2>2, <2>3 DEF InUnlock, Typed, Kept
  <2> QED BY <1>4, <2>2, <2>4 DEF Kept
<1>13. CASE Reset(t)
  <2>1. /\ bo_data[t] = user_data /\ data[user_data].map_data = NoMapping
        /\ data[user_data].lock_count = 0
    BY <1>2, <1>13 DEF InUnlock, Reset
  <2>2. /\ UNCHANGED <<user_data, fault, held, ptr>>
        /\ data' = [data EXCEPT ![user_data].locked_for = {}]
        /\ committed' = data'[user_data]
        /\ pc' = [pc EXCEPT ![t] = "idle"]
    BY <1>2, <1>13, <2>1 DEF Reset, Return
  <2>3. Fresh(data'[user_data])
    BY <1>2, <2>1, <2>2 DEF Typed, AnyData, Fresh
  <2>4. NoneHeld' /\ NoPointers'
    BY <1>2, <2>2 DEF InUnlock, NoneHeld, NoPointers
  <2>5. Resting' /\ SameAsCommitted'
    BY <1>2, <2>2, <2>3, <2>4 DEF Resting, Unlocked, SameAsCommitted, Fresh
  <2> QED BY <1>2, <2>2, <2>5, TurnStep DEF PC
<1> QED BY <1>6, <1>7, <1>8, <1>9, <1>10, <1>11, <1>12, <1>13

\* Such a client finds every call where the one before it left the object.
THEOREM TurnsTaken == Spec => []SerialisedInv
<1>1. Init => SerialisedInv
  BY DEF Init, SerialisedInv, TurnInv, Resting, Unlocked, NoneHeld, NoPointers, SameAsCommitted
<1>2. PointerInv /\ SerialisedInv /\ [Next]_vars => SerialisedInv'
  <2> SUFFICES ASSUME PointerInv, SerialisedInv, [Next]_vars, kind'.serialised PROVE TurnInv'
    BY DEF SerialisedInv
  <2>1. CASE Next
    <3> PICK t \in Thread : \/ \E u \in kind.usages : BeginLock(t, u)
                           \/ BeginUnlock(t) \/ Step(t)
      BY <2>1 DEF Next
    <3>1. UNCHANGED kind /\ kind.serialised /\ TurnInv
      BY <2>1 DEF Next, SerialisedInv
    <3>2. CASE BeginUnlock(t) \/ \E u \in kind.usages : BeginLock(t, u)
      BY <3>1, <3>2, BeginTurn
    <3>3. CASE Step(t)
      BY <3>1, <3>3, LockTurn, UnlockTurn DEF Step
    <3> QED BY <3>2, <3>3
  <2>2. CASE UNCHANGED vars
    <3>1. UNCHANGED <<pc, fault, usage, bo_data, seen, count, user_data, data, mapped, held, ptr,
                      committed, kind>>
      BY <2>2 DEF vars, shared, locals, client
    <3>2. TurnInv
      BY <3>1 DEF SerialisedInv
    <3>3. ASSUME NEW t \in Thread, InLock(t) PROVE InLock(t)'
      BY <3>1, <3>3, ObjectFrame DEF InLock, OnlyPointer, Unused, Fresh
    <3>4. ASSUME NEW t \in Thread, InUnlock(t) PROVE InUnlock(t)'
      BY <3>1, <3>4, ObjectFrame DEF InUnlock, Taken
    <3> QED BY <3>1, <3>2, <3>3, <3>4, ObjectFrame DEF TurnInv
  <2> QED BY <2>1, <2>2
<1>3. Spec => []PointerInv
  BY PointersStay
<1> QED BY <1>1, <1>2, <1>3, PTL DEF Spec

\* A client that takes turns keeps what its locks gave it until it unlocks.
THEOREM TurnsKeepMappings == Spec => []SerialisedStayMapped
<1>1. PointerInv /\ SerialisedInv => SerialisedStayMapped
  <2> SUFFICES ASSUME PointerInv, SerialisedInv, kind.serialised, NEW t \in Thread,
                      held[t] > 0, pc[t] = "idle"
               PROVE  ptr[t] \subseteq mapped
    BY DEF SerialisedStayMapped, PointersStayMapped
  <2>1. TurnInv
    BY DEF SerialisedInv
  <2>2. CASE Resting
    BY <2>2 DEF Resting, Unlocked, NoneHeld, LockedBy, OnlyPointer, Taken
  <2>3. CASE ~Resting
    <3>1. PICK u \in Thread : pc[u] # "idle"
      BY <2>1, <2>3 DEF TurnInv
    <3>2. InLock(u) \/ InUnlock(u)
      BY <2>1, <3>1 DEF TurnInv
    <3>3. ~NoneHeld
      BY DEF NoneHeld
    <3>4. pc[u] \in LockPC /\ InLock(u)
      BY <2>1, <3>1, <3>3 DEF TurnInv, InUnlock
    <3> QED BY <2>3, <3>3, <3>4 DEF InLock, Unlocked, LockPC
  <2> QED BY <2>2, <2>3
<1> QED BY <1>1, PointersStay, TurnsTaken, PTL

\* Nor does it make the library unmap what is not mapped.
THEOREM TurnsUnmapOnce == Spec => []NoBadUnmap
<1>1. SerialisedInv => NoBadUnmap
  BY DEF SerialisedInv, TurnInv, NoBadUnmap
<1> QED BY <1>1, TurnsTaken, PTL

-----------------------------------------------------------------------------
(* Taking turns, a call is one step of GrallocGbm. *)

\* How GrallocGbm sees a bo_data.
Seen(d) == [map_data |-> IF d.map_data = NoMapping THEN "none"
                         ELSE IF d.locked_for \cap WriteBits # {} THEN "rw" ELSE "r",
            lock_count |-> d.lock_count, locked_for |-> d.locked_for]

\* That is what the instance puts for user_data, and it is no null pointer.
LEMMA SeenOK ==
  ASSUME NEW d \in AnyData
  PROVE  /\ Seen(d) = [d EXCEPT !.map_data = IF @ = NoMapping THEN "none"
                         ELSE IF d.locked_for \cap WriteBits # {} THEN "rw" ELSE "r"]
         /\ Seen(d) # NoData /\ d # NoData
  BY ThreadsAssumption DEF Seen, AnyData

\* A call that leaves a bo_data is, in GrallocGbm, one that sets it.
LEMMA Commits ==
  ASSUME fault = "none", fault' = "none", committed' \in AnyData,
         NEW d, d = Seen(committed')
  PROVE  Gralloc!SetData("bo", d)
<1> DEFINE view(x) == [x EXCEPT !.map_data = IF @ = NoMapping THEN "none"
                         ELSE IF x.locked_for \cap WriteBits # {} THEN "rw" ELSE "r"]
<1>1. d = view(committed') /\ committed' # NoData
  BY SeenOK
<1>2. [b \in {"bo"} |-> IF committed' = NoData THEN NoData ELSE view(committed')]
        = [[b \in {"bo"} |-> IF committed = NoData THEN NoData ELSE view(committed)] EXCEPT !["bo"] = d]
  BY <1>1
<1> QED BY <1>2 DEF Gralloc!SetData

\* A first lock that cannot map leaves a new bo_data.
LEMMA LockFails ==
  ASSUME fault = "none", fault' = "none",
         committed \in AnyData \cup {NoData}, Unused,
         committed' \in AnyData, Fresh(committed'), NEW u \in SUBSET SwBits, u # {}
  PROVE  Gralloc!Lock
<1> DEFINE hnd == [prime_fd |-> 0, format |-> "format", usage |-> u]
           new == [map_data |-> "none", lock_count |-> 0, locked_for |-> {}]
<1>1. hnd \in Gralloc!HandleInfo
  BY DEF Gralloc!HandleInfo, Gralloc!UsageBit, SwBits
<1>2. Gralloc!DataOf("bo") = new
  BY SeenOK DEF Gralloc!DataOf, Gralloc!NewData, Unused, Fresh, Seen
<1>3. Gralloc!SetData("bo", new)
  <2>1. new = Seen(committed')
    BY DEF Fresh, Seen
  <2> QED BY <2>1, Commits
<1>4. Gralloc!gralloc_gbm_bo_lock("handle", hnd, u, "ENOMEM")
  BY <1>2, <1>3 DEF Gralloc!gralloc_gbm_bo_lock, Gralloc!UsageAccepted, Gralloc!Compatible,
     Gralloc!TakeLock, Gralloc!SwBits, SwBits
<1> QED BY <1>1, <1>4 DEF Gralloc!Lock, Gralloc!UsageBit, Gralloc!ErrCode, SwBits

\* One that can leaves it mapped, for the usage asked.
LEMMA LockSucceeds ==
  ASSUME fault = "none", fault' = "none", MaxCalls > 0, MaxCalls \in Nat,
         committed \in AnyData \cup {NoData}, Unused,
         committed' \in AnyData, committed'.map_data # NoMapping, committed'.lock_count = 1,
         committed'.locked_for # {}
  PROVE  Gralloc!Lock
<1> DEFINE u == committed'.locked_for
           hnd == [prime_fd |-> 0, format |-> "format", usage |-> u]
           new == [map_data |-> "none", lock_count |-> 0, locked_for |-> {}]
           locked == [map_data |-> IF u \cap WriteBits # {} THEN "rw" ELSE "r", lock_count |-> 1,
                      locked_for |-> u]
<1>0. u \in SUBSET SwBits
  BY DEF AnyData
<1>1. hnd \in Gralloc!HandleInfo
  BY <1>0 DEF Gralloc!HandleInfo, Gralloc!UsageBit, SwBits
<1>2. Gralloc!DataOf("bo") = new
  BY SeenOK DEF Gralloc!DataOf, Gralloc!NewData, Unused, Fresh, Seen
<1>3. Gralloc!SetData("bo", locked)
  <2>1. locked = Seen(committed')
    BY DEF Seen
  <2> QED BY <2>1, Commits
<1>4. Gralloc!TakeLock("bo", new, u, "0")
  <2>1. [map_data |-> Gralloc!MapAccess(u), lock_count |-> new.lock_count + 1,
         locked_for |-> new.locked_for \cup u] = locked
    BY DEF Gralloc!MapAccess
  <2> QED BY <1>0, <1>3, <2>1 DEF Gralloc!TakeLock, Gralloc!SwBits, Gralloc!OK, SwBits
<1>5. u \cup new.locked_for = u
  OBVIOUS
<1>6. Gralloc!gralloc_gbm_bo_lock("handle", hnd, u, "0")
  BY <1>2, <1>4, <1>5 DEF Gralloc!gralloc_gbm_bo_lock, Gralloc!UsageAccepted, Gralloc!Compatible
<1> QED BY <1>0, <1>1, <1>6 DEF Gralloc!Lock, Gralloc!UsageBit, Gralloc!ErrCode, Gralloc!OK, SwBits

\* The last unlock leaves it as new.
LEMMA UnlockSucceeds ==
  ASSUME fault = "none", fault' = "none",
         committed \in AnyData, committed.lock_count = 1, committed.locked_for # {},
         committed' \in AnyData, Fresh(committed')
  PROVE  Gralloc!Unlock
<1> DEFINE d == Seen(committed)
           new == [map_data |-> "none", lock_count |-> 0, locked_for |-> {}]
<1>1. Gralloc!Unlocked(d) = new
  <2>1. d.lock_count = 1 /\ d.locked_for \cap SwBits # {}
    BY DEF Seen, AnyData
  <2> QED BY <2>1 DEF Gralloc!Unlocked, Gralloc!SwBits, SwBits
<1>2. Gralloc!SetData("bo", new)
  <2>1. new = Seen(committed')
    BY DEF Fresh, Seen
  <2> QED BY <2>1, Commits
<1>3. Gralloc!gralloc_gbm_bo_unlock("handle", "0")
  <2>1. [b \in {"bo"} |-> IF committed = NoData THEN NoData
          ELSE [committed EXCEPT !.map_data =
                 IF @ = NoMapping THEN "none"
                 ELSE IF committed.locked_for \cap WriteBits # {} THEN "rw" ELSE "r"]]["bo"] = d
    BY SeenOK
  <2>2. d # NoData
    BY SeenOK
  <2>3. d.lock_count # 0
    BY DEF Seen
  <2>4. [h \in {"handle"} |-> "bo"]["handle"] = "bo" /\ "bo" # "no bo" /\ "bo" \in {"bo"}
    OBVIOUS
  <2> HIDE DEF d, new
  <2> QED BY <1>1, <1>2, <2>1, <2>2, <2>3, <2>4 DEF Gralloc!gralloc_gbm_bo_unlock, Gralloc!OK
<1> QED BY <1>3 DEF Gralloc!Unlock, Gralloc!ErrCode, Gralloc!OK

\* A thread inside a call has made one, within the bound.
CallsCounted == calls \in [Thread -> Nat] /\ \A t \in Thread : pc[t] # "idle" => MaxCalls > 0

\* Calls are counted before anything else is done of them.
LEMMA CallsKept == Spec => [](PointerInv /\ CallsCounted)
<1>1. Init => CallsCounted
  BY DEF Init, CallsCounted
<1>2. PointerInv /\ CallsCounted /\ [Next]_vars => CallsCounted'
  <2> SUFFICES ASSUME PointerInv, CallsCounted, [Next]_vars PROVE CallsCounted'
    OBVIOUS
  <2>1. CASE UNCHANGED vars
    BY <2>1 DEF vars, client, CallsCounted
  <2>2. ASSUME NEW t \in Thread, NEW at, Enter(t, at) PROVE CallsCounted'
    <3>1. kind.calls \in 0..MaxCalls
      BY ThreadsAssumption DEF PointerInv, Typed, ClientKind
    <3>2. calls[t] < kind.calls /\ calls[t] \in Nat
      BY <2>2 DEF Enter, CanCall, CallsCounted
    <3>3. MaxCalls > 0
      BY <3>1, <3>2, ThreadsAssumption
    <3> QED BY <2>2, <3>2, <3>3 DEF Enter, CallsCounted
  <2>3. ASSUME NEW t \in Thread, Step(t) PROVE CallsCounted'
    <3>1. UNCHANGED calls
      BY <2>3 DEF Step, GetUserData, SetUserData, CheckCompatible, Widen, MapCheck, Map, CountRead,
         CountWrite, Mark, UnlockUserData, WasMapped, StillLocked, Unmap, Clear, DecRead, DecWrite,
         Reset, NullData, client
    <3>2. pc[t] # "idle" /\ \E p : pc' = [pc EXCEPT ![t] = p]
      BY <2>3 DEF Step, GetUserData, SetUserData, CheckCompatible, Widen, MapCheck, Map, CountRead,
         CountWrite, Mark, UnlockUserData, WasMapped, StillLocked, Unmap, Clear, DecRead, DecWrite,
         Reset, NullData, Goto, Return
    <3> QED BY <3>1, <3>2 DEF CallsCounted
  <2> QED BY <2>1, <2>2, <2>3 DEF Next, BeginLock, BeginUnlock
<1> QED BY <1>1, <1>2, PointersStay, PTL DEF Spec

\* A statement of a call that takes its turn leaves what the last call committed,
\* or returns from a call that GrallocGbm makes in one step.
LEMMA CommitsOnce ==
  ASSUME PointerInv, TurnInv, PointerInv', TurnInv', CallsCounted, NEW t \in Thread, Step(t)
  PROVE  committed' = committed \/ Gralloc!Lock \/ Gralloc!Unlock
<1>1. fault = "none" /\ fault' = "none" /\ Typed /\ Typed' /\ (pc[t] # "idle" => MaxCalls > 0)
  BY DEF TurnInv, PointerInv, CallsCounted
<1>2. committed \in AnyData \cup {NoData} /\ committed' \in AnyData \cup {NoData}
  BY <1>1 DEF Typed
<1>3. CASE CheckCompatible(t) \/ MapCheck(t)
  <2>1. /\ Resting /\ bo_data[t] = user_data /\ LockPending /\ user_data # NoData
        /\ NoMapping \notin mapped
    BY <1>3, Inside, ThreadsAssumption DEF InLock, CheckCompatible, MapCheck, LockPC, PointerInv,
       Typed, DataAttached, Attached, PC
  <2>2. CASE Fresh(data[user_data])
    BY <1>1, <1>3, <2>1, <2>2 DEF CheckCompatible, MapCheck, Goto, NullData, client, Fresh
  <2>3. CASE SameAsCommitted
    BY <1>3, <2>1, <2>3 DEF CheckCompatible, MapCheck, Return, NullData, client, SameAsCommitted
  <2> QED BY <2>1, <2>2, <2>3 DEF LockPending
<1>4. CASE Map(t)
  <2>1. /\ Unlocked /\ Unused /\ usage[t] # {} /\ usage[t] \in SUBSET SwBits
        /\ user_data # NoData /\ user_data \in Thread
    BY <1>1, <1>4, Inside DEF InLock, Map, LockPC, PointerInv, Typed, DataAttached, Attached, PC
  <2>2. CASE committed' # committed
    <3>1. committed' = data[user_data]
      BY <1>4, <2>1, <2>2 DEF Map, Return
    <3>2. Fresh(committed') /\ committed' \in AnyData
      BY <1>1, <2>1, <3>1 DEF Unlocked, Typed
    <3> QED BY <1>1, <1>2, <2>1, <3>2, LockFails
  <2> QED BY <2>2
<1>5. CASE Mark(t)
  <2>1. /\ Unused /\ usage[t] # {} /\ user_data # NoData /\ user_data \in Thread
        /\ bo_data[t] = user_data
        /\ data[user_data].map_data \in mapped /\ data[user_data].lock_count = 1
        /\ pc[t] # "idle" /\ NoMapping \notin mapped
    BY <1>1, <1>5, Inside, ThreadsAssumption DEF InLock, Mark, LockPC, PointerInv, Typed,
       DataAttached, Attached, PC
  <2>2. data' = [data EXCEPT ![user_data].locked_for = @ \cup usage[t]]
        /\ committed' = data'[user_data]
    BY <1>5, <2>1 DEF Mark, Return
  <2>3. /\ committed'.map_data # NoMapping /\ committed'.lock_count = 1
        /\ committed'.locked_for # {} /\ committed' \in AnyData
    BY <1>1, <2>1, <2>2 DEF Typed, AnyData
  <2> QED BY <1>1, <1>2, <2>1, <2>3, LockSucceeds, ThreadsAssumption
<1>6. CASE StillLocked(t)
  BY <1>6, Inside DEF InUnlock, StillLocked, Taken, LockPC, client
<1>7. CASE Reset(t)
  <2>1. /\ bo_data[t] = user_data /\ user_data # NoData /\ user_data \in Thread
        /\ data[user_data].map_data = NoMapping /\ data[user_data].lock_count = 0
        /\ committed # NoData /\ committed.lock_count = 1 /\ committed.locked_for # {}
    BY <1>1, <1>7, Inside DEF InUnlock, Reset, LockPC, PointerInv, Typed, DataAttached, Attached, PC
  <2>2. data' = [data EXCEPT ![user_data].locked_for = {}] /\ committed' = data'[user_data]
    BY <1>7, <2>1 DEF Reset, Return
  <2>3. Fresh(committed') /\ committed' \in AnyData
    BY <1>1, <2>1, <2>2 DEF Typed, AnyData, Fresh
  <2> QED BY <1>1, <1>2, <2>1, <2>3, UnlockSucceeds
<1>8. CASE \/ GetUserData(t) \/ SetUserData(t) \/ Widen(t) \/ CountRead(t) \/ CountWrite(t)
           \/ UnlockUserData(t) \/ WasMapped(t) \/ Unmap(t) \/ Clear(t) \/ DecRead(t) \/ DecWrite(t)
  BY <1>8 DEF GetUserData, SetUserData, Widen, CountRead, CountWrite, UnlockUserData, WasMapped,
     Unmap, Clear, DecRead, DecWrite, NullData, client
<1> QED BY <1>3, <1>4, <1>5, <1>6, <1>7, <1>8 DEF Step

\* To a client that admits one thread at a time, a lock or an unlock is one step
\* of GrallocGbm, however its statements interleave with those around it.
THEOREM CallsAtomic == Spec => CallsAreAtomic
<1> DEFINE Inv == PointerInv /\ SerialisedInv /\ CallsCounted
<1>1. Inv /\ Inv' /\ [Next]_vars => [kind.serialised => Gralloc!Lock \/ Gralloc!Unlock]_(Gralloc!libVars)
  <2> SUFFICES ASSUME Inv, Inv', [Next]_vars, kind.serialised
               PROVE  Gralloc!Lock \/ Gralloc!Unlock \/ UNCHANGED Gralloc!libVars
    OBVIOUS
  <2>1. UNCHANGED kind
    BY DEF Next, vars
  <2>2. TurnInv /\ TurnInv' /\ fault = "none" /\ fault' = "none"
    BY <2>1 DEF SerialisedInv, TurnInv
  <2>3. UNCHANGED committed => UNCHANGED Gralloc!libVars
    BY <2>2 DEF Gralloc!libVars
  <2>4. ASSUME NEW t \in Thread, Step(t) PROVE committed' = committed \/ Gralloc!Lock \/ Gralloc!Unlock
    BY <2>2, <2>4, CommitsOnce
  <2>5. CASE UNCHANGED vars
    BY <2>3, <2>5 DEF vars, client
  <2>6. ASSUME NEW t \in Thread, BeginUnlock(t) \/ \E u \in kind.usages : BeginLock(t, u)
        PROVE  UNCHANGED committed
    BY <2>6 DEF BeginUnlock, BeginLock
  <2> QED BY <2>3, <2>4, <2>5, <2>6 DEF Next
<1> QED BY <1>1, TurnsTaken, CallsKept, PTL DEF Spec, CallsAreAtomic

-----------------------------------------------------------------------------
(* The counters.  Updates of lock_count are lost when threads race, so that  *)
(* it says nothing of the locks held, but a call writes it once at most, one *)
(* away from what it read: it never goes further from 0 than the number of   *)
(* calls that have got past their write.                                     *)

Answers == {"0", "EINVAL", "ENOMEM"}
Faults == {"none", "null data", "bad unmap"}

\* The calls and the locks of a thread stay in the client's bounds; a thread
\* inside lock has not been given the lock yet.
CallInv ==
  /\ calls \in [Thread -> 0..kind.calls]
  /\ held \in [Thread -> 0..kind.held]
  /\ \A t \in Thread : pc[t] # "idle" => calls[t] > 0
  /\ \A t \in Thread : pc[t] \in LockPC => held[t] < kind.held

\* What a statement that ends the process leaves.
LEMMA NullStep ==
  ASSUME NEW t, NEW p, NullData(t, p)
  PROVE  /\ pc' = [pc EXCEPT ![t] = "idle"]
         /\ UNCHANGED <<user_data, data, bo_data, seen, usage, count, ret, held, calls, committed>>
BY DEF NullData, locals, client

\* gralloc_gbm_unmap changes no counter.
LEMMA UnmapStep ==
  ASSUME NEW t, Unmap(t)
  PROVE  /\ pc[t] = "unmap"
         /\ \E p \in {"idle", "clear"} : pc' = [pc EXCEPT ![t] = p]
         /\ UNCHANGED <<user_data, data, bo_data, count, ret, held, calls, committed>>
<1>1. CASE NullData(t, user_data)
  BY <1>1, NullStep DEF Unmap
<1>2. CASE ~NullData(t, user_data)
  BY <1>2 DEF Unmap, Goto, client
<1> QED
  BY <1>1, <1>2

\* The library answers 0, EINVAL or ENOMEM, and goes wrong in two ways.
LEMMA StepAnswers ==
  ASSUME NEW t \in Thread, Step(t), ret \in [Thread -> Answers], fault \in Faults
  PROVE  ret' \in [Thread -> Answers] /\ fault' \in Faults
<1>1. ret' = ret \/ \E r \in Answers : ret' = [ret EXCEPT ![t] = r]
  BY Zenon DEF Step, GetUserData, SetUserData, CheckCompatible, Widen, MapCheck, Map, CountRead,
     CountWrite, Mark, UnlockUserData, WasMapped, StillLocked, Unmap, Clear, DecRead, DecWrite,
     Reset, NullData, Return, client, Answers
<1>2. fault' = fault \/ fault' \in Faults
  BY Zenon DEF Step, GetUserData, SetUserData, CheckCompatible, Widen, MapCheck, Map, CountRead,
     CountWrite, Mark, UnlockUserData, WasMapped, StillLocked, Unmap, Clear, DecRead, DecWrite,
     Reset, NullData, shared, Faults
<1> QED
  BY <1>1, <1>2

\* What a statement does to the client's side.
LEMMA StepClient ==
  ASSUME NEW t \in Thread, Step(t), pc \in [Thread -> PC]
  PROVE  /\ calls' = calls
         /\ held' = held \/ (pc[t] = "mark" /\ held' = [held EXCEPT ![t] = @ + 1])
         /\ pc[t] # "idle"
         /\ \A u \in Thread : u # t => pc'[u] = pc[u]
         /\ pc'[t] \in LockPC => pc[t] \in LockPC /\ held' = held
<1>1. CASE \/ GetUserData(t) \/ SetUserData(t) \/ Widen(t) \/ CountRead(t) \/ CountWrite(t)
           \/ WasMapped(t) \/ Clear(t) \/ DecRead(t) \/ DecWrite(t)
  BY <1>1 DEF GetUserData, SetUserData, Widen, CountRead, CountWrite, WasMapped, Clear, DecRead,
     DecWrite, Goto, client, LockPC
<1>2. CASE CheckCompatible(t) \/ Map(t) \/ StillLocked(t) \/ Reset(t)
  BY <1>2 DEF CheckCompatible, Map, StillLocked, Reset, Return, Goto, client, LockPC
<1>3. CASE Mark(t)
  BY <1>3 DEF Mark, Return, LockPC
<1>4. CASE MapCheck(t) \/ UnlockUserData(t)
  BY <1>4, NullStep DEF MapCheck, UnlockUserData, Return, Goto, client, LockPC
<1>5. CASE Unmap(t)
  BY <1>5, UnmapStep DEF LockPC
<1> QED
  BY <1>1, <1>2, <1>3, <1>4, <1>5 DEF Step

\* The client's bounds are kept.
LEMMA CallsInBounds == Spec => []CallInv
<1>1. Init => CallInv
  BY ThreadsAssumption DEF Init, CallInv, ClientKind, LockPC
<1>2. PointerInv /\ CallInv /\ [Next]_vars => CallInv'
  <2> SUFFICES ASSUME PointerInv, CallInv, [Next]_vars
               PROVE  CallInv'
    OBVIOUS
  <2>1. /\ kind' = kind /\ kind.calls \in Nat /\ kind.held \in Nat
        /\ pc \in [Thread -> PC]
    BY ThreadsAssumption DEF Next, vars, PointerInv, Typed, ClientKind
  <2>2. ASSUME NEW t \in Thread, NEW u \in kind.usages, BeginLock(t, u)
        PROVE  CallInv'
    BY <2>1, <2>2 DEF CallInv, BeginLock, Enter, LockPC, CanCall
  <2>3. ASSUME NEW t \in Thread, BeginUnlock(t)
        PROVE  CallInv'
    BY <2>1, <2>3 DEF CallInv, BeginUnlock, Enter, LockPC, CanCall
  <2>4. ASSUME NEW t \in Thread, Step(t)
        PROVE  CallInv'
    <3>1. pc[t] = "mark" => held[t] < kind.held
      BY DEF CallInv, LockPC
    <3>2. /\ calls' = calls
          /\ held' = held \/ (pc[t] = "mark" /\ held' = [held EXCEPT ![t] = @ + 1])
          /\ pc[t] # "idle"
          /\ \A u \in Thread : u # t => pc'[u] = pc[u]
          /\ pc'[t] \in LockPC => pc[t] \in LockPC /\ held' = held
      BY <2>1, <2>4, StepClient
    <3>3. held' \in [Thread -> 0..kind.held]
      BY <2>1, <3>1, <3>2 DEF CallInv
    <3>4. \A u \in Thread : pc'[u] \in LockPC => held'[u] < kind.held
      BY <2>1, <3>2 DEF CallInv
    <3>5. \A u \in Thread : pc'[u] # "idle" => calls[u] > 0
      BY <3>2 DEF CallInv
    <3> QED
      BY <2>1, <3>2, <3>3, <3>4, <3>5 DEF CallInv
  <2>5. CASE UNCHANGED vars
    BY <2>5 DEF vars, client, CallInv
  <2> QED
    BY <2>2, <2>3, <2>4, <2>5 DEF Next
<1> QED
  BY <1>1, <1>2, PointersStay, PTL DEF Spec

\* No other answer is returned.
LEMMA AnswersHold == Spec => [](ret \in [Thread -> Answers] /\ fault \in Faults)
<1> DEFINE Inv == ret \in [Thread -> Answers] /\ fault \in Faults
<1>1. Init => Inv
  BY DEF Init, Answers, Faults
<1>2. Inv /\ [Next]_vars => Inv'
  <2> SUFFICES ASSUME Inv, [Next]_vars
               PROVE  Inv'
    OBVIOUS
  <2>1. ASSUME NEW t \in Thread, BeginUnlock(t) \/ \E u \in kind.usages : BeginLock(t, u)
        PROVE  UNCHANGED <<ret, fault>>
    BY <2>1 DEF BeginUnlock, BeginLock, shared
  <2>2. ASSUME NEW t \in Thread, Step(t)
        PROVE  Inv'
    BY <2>2, StepAnswers
  <2>3. CASE UNCHANGED vars
    BY <2>3 DEF vars, shared, client
  <2> QED
    BY <2>1, <2>2, <2>3 DEF Next
<1> QED
  BY <1>1, <1>2, PTL DEF Spec

\* Every value of a counter, in the object, in a bo_data that lost the race to
\* be attached, in a local and as committed, is in R.
CountersIn(R) ==
  /\ \A t \in Thread : data[t].lock_count \in R /\ count[t] \in R
  /\ committed # NoData => committed.lock_count \in R

Writes(t) == CountWrite(t) \/ DecWrite(t)

\* Statements other than those two copy counters.
LEMMA CountersCopied ==
  ASSUME PointerInv, NEW R \in SUBSET Int, 0 \in R, CountersIn(R),
         NEW t \in Thread, Step(t), ~Writes(t)
  PROVE  CountersIn(R)'
<1>1. /\ data \in [Thread -> AnyData] /\ count \in [Thread -> Int]
      /\ user_data \in Thread \cup {NoData}
  BY DEF PointerInv, Typed
<1>2. ASSUME NEW err, Return(t, err, data', user_data), UNCHANGED user_data,
             \A u \in Thread : data'[u].lock_count \in R
      PROVE  CountersIn(R)'
  BY <1>1, <1>2 DEF Return, CountersIn
<1>3. CASE GetUserData(t)
  BY <1>1, <1>3 DEF GetUserData, CountersIn, NewData, client
<1>4. CASE SetUserData(t) \/ Widen(t) \/ WasMapped(t)
  BY <1>4 DEF SetUserData, Widen, WasMapped, CountersIn, shared, locals, client
<1>5. CASE CheckCompatible(t) \/ StillLocked(t)
  <2>1. UNCHANGED <<user_data, data>>
    BY <1>5 DEF CheckCompatible, StillLocked, shared
  <2>2. \/ Return(t, "EINVAL", data', user_data) \/ Return(t, "0", data', user_data)
        \/ UNCHANGED <<count, committed>>
    BY <1>5, <2>1 DEF CheckCompatible, StillLocked, locals, client
  <2> QED
    BY <1>2, <2>1, <2>2 DEF CountersIn
<1>6. CASE MapCheck(t)
  <2>1. UNCHANGED <<user_data, data>>
    BY <1>6, NullStep DEF MapCheck, shared
  <2>2. Return(t, "EINVAL", data', user_data) \/ UNCHANGED <<count, committed>>
    BY <1>6, <2>1, NullStep DEF MapCheck
  <2> QED
    BY <1>2, <2>1, <2>2 DEF CountersIn
<1>7. CASE Map(t)
  <2>1. seen[t] \in Thread /\ UNCHANGED user_data
    BY <1>7, ThreadsAssumption DEF Map, PointerInv, Typed, DataAttached, HasSeen
  <2>2. data' = data \/ \E m \in Mapping : data' = [data EXCEPT ![seen[t]].map_data = m]
    BY <1>7 DEF Map
  <2>3. ASSUME NEW m \in Mapping, data' = [data EXCEPT ![seen[t]].map_data = m]
        PROVE  \A u \in Thread : data'[u].lock_count = data[u].lock_count
    BY <1>1, <2>1, <2>3 DEF AnyData
  <2>4. Return(t, "ENOMEM", data', user_data) \/ UNCHANGED <<count, committed>>
    BY <1>7 DEF Map, locals
  <2> QED
    BY <1>2, <2>1, <2>2, <2>3, <2>4 DEF CountersIn
<1>8. CASE CountRead(t) \/ DecRead(t)
  <2>1. bo_data[t] \in Thread
    BY <1>8, ThreadsAssumption DEF CountRead, DecRead, Goto, PointerInv, Typed, DataAttached, HasData,
       PC
  <2>2. count' = [count EXCEPT ![t] = data[bo_data[t]].lock_count] /\ UNCHANGED <<data, committed>>
    BY <1>8 DEF CountRead, DecRead, shared, client
  <2> QED
    BY <1>1, <2>1, <2>2 DEF CountersIn
<1>9. CASE Mark(t) \/ Reset(t)
  <2>1. bo_data[t] \in Thread /\ UNCHANGED user_data
    BY <1>9, ThreadsAssumption DEF Mark, Reset, PointerInv, Typed, DataAttached, HasData, PC
  <2>2. data' = data \/ \E s : data' = [data EXCEPT ![bo_data[t]].locked_for = s]
    BY <1>9 DEF Mark, Reset
  <2>3. \A u \in Thread : data'[u].lock_count = data[u].lock_count
    BY <1>1, <2>1, <2>2 DEF AnyData
  <2>4. Return(t, "0", data', user_data)
    BY <1>9 DEF Mark, Reset
  <2> QED
    BY <1>2, <2>1, <2>3, <2>4 DEF CountersIn
<1>10. CASE UnlockUserData(t)
  BY <1>10, NullStep DEF UnlockUserData, CountersIn, shared, client
<1>11. CASE Unmap(t)
  BY <1>11, UnmapStep DEF CountersIn
<1>12. CASE Clear(t)
  <2>1. seen[t] \in Thread /\ data' = [data EXCEPT ![seen[t]].map_data = NoMapping]
        /\ UNCHANGED <<count, committed>>
    BY <1>12, ThreadsAssumption DEF Clear, Goto, PointerInv, Typed, DataAttached, HasSeen, locals, client
  <2>2. \A u \in Thread : data'[u].lock_count = data[u].lock_count
    BY <1>1, <2>1 DEF AnyData
  <2> QED
    BY <2>1, <2>2 DEF CountersIn
<1> QED
  BY <1>3, <1>4, <1>5, <1>6, <1>7, <1>8, <1>9, <1>10, <1>11, <1>12 DEF Step, Writes

\* The two store a value one away from the one their thread read.
LEMMA CounterWritten ==
  ASSUME PointerInv, NEW R \in SUBSET Int, CountersIn(R), NEW t \in Thread, Writes(t),
         NEW Q \in SUBSET Int, R \subseteq Q,
         CountWrite(t) => count[t] + 1 \in Q,
         DecWrite(t) => count[t] - 1 \in Q
  PROVE  CountersIn(Q)'
<1>1. /\ data \in [Thread -> AnyData] /\ bo_data[t] \in Thread
  BY ThreadsAssumption DEF PointerInv, Typed, DataAttached, HasData, PC, Writes, CountWrite, DecWrite, Goto
<1>2. PICK n \in Q : data' = [data EXCEPT ![bo_data[t]].lock_count = n]
  BY DEF Writes, CountWrite, DecWrite
<1>3. \A u \in Thread : data'[u].lock_count = IF u = bo_data[t] THEN n ELSE data[u].lock_count
  BY <1>1, <1>2 DEF AnyData
<1>4. UNCHANGED <<count, committed>>
  BY DEF Writes, CountWrite, DecWrite, locals, client
<1> QED
  BY <1>3, <1>4 DEF CountersIn

\* A call that begins touches no counter.
LEMMA CountersRest ==
  ASSUME NEW R, CountersIn(R),
         \/ \E t \in Thread : BeginUnlock(t) \/ \E u \in kind.usages : BeginLock(t, u)
         \/ UNCHANGED vars
  PROVE  CountersIn(R)'
BY DEF BeginUnlock, BeginLock, vars, shared, locals, client, CountersIn

\* Where the client admits one thread at a time a buffer is locked once or not.
CountsOnce == kind.serialised => CountersIn(0..1)

\* Taking turns, every call finds the counter it left: see SerialisedInv.
LEMMA CountedOnce == Spec => []CountsOnce
<1>1. Init => CountsOnce
  BY DEF Init, CountsOnce, CountersIn, NewData
<1>2. PointerInv /\ SerialisedInv /\ CountsOnce /\ [Next]_vars => CountsOnce'
  <2> SUFFICES ASSUME PointerInv, SerialisedInv, CountsOnce, [Next]_vars, kind'.serialised
               PROVE  CountersIn(0..1)'
    BY DEF CountsOnce
  <2>1. kind.serialised
    BY DEF Next, vars
  <2>2. TurnInv /\ CountersIn(0..1)
    BY <2>1 DEF SerialisedInv, CountsOnce
  <2>3. ASSUME NEW t \in Thread, Step(t)
        PROVE  CountersIn(0..1)'
    <3>1. 0..1 \in SUBSET Int /\ 0 \in 0..1 /\ 1 \in 0..1
      OBVIOUS
    <3>2. CASE ~Writes(t)
      BY <2>2, <2>3, <3>1, <3>2, CountersCopied
    <3>3. CASE Writes(t)
      <4>1. pc[t] \in {"count_write", "dec_write"}
        BY <3>3 DEF Writes, CountWrite, DecWrite, Goto
      <4>2. CountWrite(t) => count[t] = 0
        BY <2>2, <4>1, Inside DEF CountWrite, Goto, InLock, LockPC
      <4>3. DecWrite(t) => count[t] = 1
        BY <2>2, <4>1, Inside DEF DecWrite, Goto, InUnlock, LockPC
      <4>4. /\ CountWrite(t) => count[t] + 1 \in 0..1
            /\ DecWrite(t) => count[t] - 1 \in 0..1
        BY <4>2, <4>3
      <4> QED
        BY <2>2, <3>1, <3>3, <4>4, CounterWritten
    <3> QED
      BY <3>2, <3>3
  <2> QED
    BY <2>2, <2>3, CountersRest DEF Next
<1> QED
  BY <1>1, <1>2, PointersStay, TurnsTaken, PTL DEF Spec

\* The calls past their write, each named by its thread and its number.
Unwritten == PC \ {"idle", "mark", "reset"}
Finished(t) == IF pc[t] \in Unwritten THEN calls[t] - 1 ELSE calls[t]
Done == {c \in Thread \X (1..MaxCalls) : c[2] <= Finished(c[1])}

\* There are no more of them than threads times calls.
LEMMA DoneBound ==
  /\ IsFiniteSet(Done) /\ Cardinality(Done) \in Nat
  /\ Cardinality(Thread) * MaxCalls \in Nat
  /\ Cardinality(Done) <= Cardinality(Thread) * MaxCalls
<1>1. IsFiniteSet(Thread) /\ MaxCalls \in Nat /\ Cardinality(Thread) \in Nat
  BY ThreadsAssumption, FS_CardinalityType
<1>2. IsFiniteSet(1..MaxCalls) /\ Cardinality(1..MaxCalls) = MaxCalls
  BY <1>1, FS_Interval
<1>3. /\ IsFiniteSet(Thread \X (1..MaxCalls))
      /\ Cardinality(Thread \X (1..MaxCalls)) = Cardinality(Thread) * MaxCalls
  BY <1>1, <1>2, FS_Product
<1>4. Done \in SUBSET (Thread \X (1..MaxCalls))
  BY DEF Done
<1>5. IsFiniteSet(Done) /\ Cardinality(Done) <= Cardinality(Thread \X (1..MaxCalls))
  BY <1>3, <1>4, FS_Subset
<1> QED
  BY <1>1, <1>3, <1>5, FS_CardinalityType

\* Counters stay within the number of those calls.
CountsWithin == CountersIn(-Cardinality(Done)..Cardinality(Done))

\* A wider range holds what a narrower one does.
LEMMA CountersWiden ==
  ASSUME NEW R, NEW Q, R \subseteq Q, CountersIn(R)
  PROVE  CountersIn(Q)
BY DEF CountersIn

\* No call is unfinished again.
LEMMA DoneGrows ==
  ASSUME PointerInv, CallInv, [Next]_vars
  PROVE  Done \subseteq Done'
<1>1. /\ pc \in [Thread -> PC] /\ calls \in [Thread -> 0..kind.calls]
      /\ kind' = kind /\ kind.calls \in Nat
  BY ThreadsAssumption DEF PointerInv, Typed, CallInv, ClientKind, Next, vars
<1>2. \A t \in Thread : Finished(t)' \in Int /\ Finished(t) \in Int /\ Finished(t) <= Finished(t)'
  <2>1. ASSUME NEW t \in Thread, NEW at \in Unwritten, Enter(t, at)
        PROVE  \A u \in Thread : Finished(u)' = Finished(u) /\ Finished(u) \in Int
    <3>1. pc[t] = "idle" /\ pc' = [pc EXCEPT ![t] = at] /\ calls' = [calls EXCEPT ![t] = @ + 1]
      BY <2>1 DEF Enter, CanCall
    <3> QED
      BY <1>1, <2>1, <3>1 DEF Finished, Unwritten
  <2>2. ASSUME NEW t \in Thread, Step(t)
        PROVE  \A u \in Thread : Finished(u)' \in Int /\ Finished(u) \in Int /\ Finished(u) <= Finished(u)'
    <3>1. /\ calls' = calls /\ \A u \in Thread : u # t => pc'[u] = pc[u]
      BY <1>1, <2>2, StepClient
    <3>2. pc'[t] \in Unwritten => pc[t] \in Unwritten
      <4>1. pc[t] \in {"mark", "reset"} => pc'[t] = "idle"
        BY <1>1, <2>2 DEF Step, GetUserData, SetUserData, CheckCompatible, Widen, MapCheck, Map,
           CountRead, CountWrite, Mark, UnlockUserData, WasMapped, StillLocked, Unmap, Clear,
           DecRead, DecWrite, Reset, Return, Goto
      <4>2. pc[t] # "idle"
        BY <1>1, <2>2, StepClient
      <4> QED
        BY <1>1, <4>1, <4>2 DEF Unwritten
    <3> QED
      BY <1>1, <3>1, <3>2 DEF Finished
  <2>3. "get_data" \in Unwritten /\ "unlock" \in Unwritten
    BY DEF Unwritten, PC
  <2>4. CASE UNCHANGED vars
    BY <1>1, <2>4 DEF vars, client, Finished
  <2> QED
    BY <2>1, <2>2, <2>3, <2>4 DEF Next, BeginLock, BeginUnlock
<1>3. UNCHANGED <<Thread, MaxCalls>>
  OBVIOUS
<1> QED
  BY <1>2 DEF Done

\* A call that gets past its write is one more.
LEMMA DoneCounts ==
  ASSUME PointerInv, CallInv, NEW t \in Thread, Step(t), Writes(t), UNCHANGED kind
  PROVE  \E c \in Done' : c \notin Done
<1>1. /\ pc \in [Thread -> PC] /\ calls \in [Thread -> 0..kind.calls]
      /\ kind.calls \in 0..MaxCalls /\ MaxCalls \in Nat
  BY ThreadsAssumption DEF PointerInv, Typed, CallInv, ClientKind
<1>2. /\ pc[t] \in {"count_write", "dec_write"} /\ pc'[t] \in {"mark", "reset"}
      /\ calls' = calls /\ calls[t] > 0
  BY <1>1, StepClient DEF Writes, CountWrite, DecWrite, Goto, CallInv
<1>3. calls[t] \in 1..MaxCalls
  BY <1>1, <1>2
<1>4. Finished(t) = calls[t] - 1 /\ Finished(t)' = calls[t]
  BY <1>2 DEF Finished, Unwritten, PC
<1>5. <<t, calls[t]>> \in Done' /\ <<t, calls[t]>> \notin Done
  BY <1>2, <1>3, <1>4 DEF Done
<1> QED
  BY <1>5

\* Racing, the counters stay within the writes that have been made.
LEMMA CountedWithin == Spec => [](PointerInv /\ CallInv /\ CountsWithin)
<1>1. Init => CountsWithin
  <2> SUFFICES ASSUME Init
               PROVE  CountsWithin
    OBVIOUS
  <2>1. 0 \in -Cardinality(Done)..Cardinality(Done)
    BY DoneBound
  <2> QED
    BY <2>1 DEF Init, CountsWithin, CountersIn, NewData
<1>2. PointerInv /\ CallInv /\ CountsWithin /\ [Next]_vars => CountsWithin'
  <2> SUFFICES ASSUME PointerInv, CallInv, CountsWithin, [Next]_vars
               PROVE  CountsWithin'
    OBVIOUS
  <2>1. PICK n \in Nat : n = Cardinality(Done) /\ CountersIn(-n..n) /\ IsFiniteSet(Done)
    BY DoneBound DEF CountsWithin
  <2>2. PICK m \in Nat : m = Cardinality(Done') /\ IsFiniteSet(Done')
    <3>1. (IsFiniteSet(Done) /\ Cardinality(Done) \in Nat)'
      BY DoneBound, PTL
    <3> QED
      BY <3>1
  <2>3. n <= m /\ Done \subseteq Done'
    BY <2>1, <2>2, DoneGrows, FS_Subset
  <2>4. /\ -n..n \in SUBSET Int /\ -m..m \in SUBSET Int /\ 0 \in -n..n /\ -n..n \subseteq -m..m
    BY <2>3
  <2>5. CountersIn(-n..n)' => CountersIn(-m..m)'
    BY <2>4 DEF CountersIn
  <2>6. ASSUME NEW t \in Thread, Step(t), UNCHANGED kind
        PROVE  CountersIn(-m..m)'
    <3>1. CASE ~Writes(t)
      BY <2>1, <2>4, <2>5, <2>6, <3>1, CountersCopied
    <3>2. CASE Writes(t)
      <4>1. PICK c \in Done' : c \notin Done
        BY <2>6, <3>2, DoneCounts
      <4>2. Cardinality(Done \cup {c}) = n + 1
        BY <2>1, <4>1, FS_AddElement
      <4>3. n + 1 <= m
        BY <2>2, <2>3, <4>1, <4>2, FS_Subset
      <4>4. count[t] \in -n..n
        BY <2>1 DEF CountersIn
      <4>5. count[t] + 1 \in -m..m /\ count[t] - 1 \in -m..m
        BY <4>3, <4>4
      <4> QED
        BY <2>1, <2>4, <3>2, <4>5, CounterWritten
    <3> QED
      BY <3>1, <3>2
  <2>7. CountersIn(-m..m)'
    BY <2>1, <2>5, <2>6, CountersRest DEF Next
  <2> QED
    BY <2>2, <2>7 DEF CountsWithin
<1> QED
  BY <1>1, <1>2, PointersStay, CallsInBounds, PTL DEF Spec

\* ThreadsTypeOK: whatever the threads race for, lock_count stays within the
\* calls made, and where they take turns it is 0 or 1; nothing is returned, held
\* or called beyond what gralloc_gbm_bo_lock and the client allow.
THEOREM ThreadsTypesHold == Spec => []ThreadsTypeOK
<1>1. /\ PointerInv /\ CallInv /\ CountsWithin /\ CountsOnce
      /\ ret \in [Thread -> Answers] /\ fault \in Faults
      => ThreadsTypeOK
  <2> SUFFICES ASSUME PointerInv, CallInv, CountsWithin, CountsOnce,
                      ret \in [Thread -> Answers], fault \in Faults
               PROVE  ThreadsTypeOK
    OBVIOUS
  <2>1. CountersIn(CountRange)
    <3>1. CASE kind.serialised
      BY <3>1 DEF CountsOnce, CountRange
    <3>2. CASE ~kind.serialised
      <4>1. -Cardinality(Done)..Cardinality(Done)
              \subseteq -Cardinality(Thread) * MaxCalls..Cardinality(Thread) * MaxCalls
        BY DoneBound
      <4> QED
        BY <3>2, <4>1, CountersWiden DEF CountRange, CountsWithin
    <3> QED
      BY <3>1, <3>2
  <2>2. \A d \in AnyData : d.lock_count \in CountRange => d \in BoData
    BY DEF AnyData, BoData
  <2>3. data \in [Thread -> BoData]
    BY <2>1, <2>2 DEF PointerInv, Typed, CountersIn
  <2>4. count \in [Thread -> CountRange]
    BY <2>1 DEF PointerInv, Typed, CountersIn
  <2>5. committed \in BoData \cup {NoData}
    BY <2>1, <2>2 DEF PointerInv, Typed, CountersIn
  <2>6. ret \in [Thread -> {"0", "EINVAL", "ENOMEM"}] /\ fault \in {"none", "null data", "bad unmap"}
    BY Zenon DEF Answers, Faults
  <2> HIDE DEF CountRange, BoData
  <2> QED
    BY Zenon, <2>3, <2>4, <2>5, <2>6 DEF ThreadsTypeOK, PointerInv, Typed, CallInv
<1> QED
  BY <1>1, CountedWithin, CountedOnce, AnswersHold, PTL


=============================================================================
