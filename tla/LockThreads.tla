----------------------------- MODULE LockThreads -----------------------------
(***************************************************************************)
(* gralloc_gbm_bo_lock and gralloc_gbm_bo_unlock of one imported buffer,   *)
(* called by several threads: the mutexes of gralloc_gbm_mesa.cpp are      *)
(* commented out, so that the accesses of the threads interleave.  A step  *)
(* is one statement that reads or writes bo_data; the increment and the    *)
(* decrement of lock_count are a read and a write.  The buffer is          *)
(* registered throughout, and its usage permits every lock.                *)
(***************************************************************************)
EXTENDS Integers, FiniteSets

CONSTANTS
  Thread,
  Client,     \* the clients considered, see ClientKind
  ReadBits, WriteBits,
  Mapping,    \* mappings gbm_bo_map() can make
  NoMapping,  \* the null map_data
  NoData,     \* the null bo_data_t *
  MaxCalls    \* bound on the calls a thread makes

SwBits == ReadBits \cup WriteBits

\* What threads do: let one thread at a time into the library or race, the usages
\* they lock with, and bounds on the locks a thread holds and the calls it makes.
ClientKind ==
  [serialised : BOOLEAN, usages : SUBSET ((SUBSET SwBits) \ {{}}), held : 0..MaxCalls,
   calls : 0..MaxCalls]

ASSUME ThreadsAssumption ==
  /\ NoData \notin Thread
  /\ NoData \notin [map_data : Mapping \cup {NoMapping, "none", "r", "rw"}, lock_count : Int,
                   locked_for : SUBSET SwBits]
  /\ NoMapping \notin Mapping
  /\ MaxCalls \in Nat
  /\ IsFiniteSet(Thread)
  /\ Client \subseteq ClientKind

VARIABLES
  kind,      \* the client that runs
  user_data, \* gbm_bo_get_user_data(): which thread's allocation, or NoData
  data,      \* the bo_data each thread has allocated
  mapped,    \* the mappings that exist
  fault,     \* what went wrong in the process, if anything
  pc,        \* the next statement of each thread
  bo_data,   \* its local of that name
  seen,      \* the bo_data local of gralloc_gbm_map and gralloc_gbm_unmap
  usage,     \* its parameter or local usage, resp. mapped in unlock
  count,     \* the value of lock_count it has read
  ret,       \* what its last call returned
  ptr,       \* the mappings it was given and still uses
  held,      \* the locks it holds
  calls,     \* the calls it has made
  committed  \* bo_data as the last call that returned left it

shared == <<user_data, data, mapped, fault>>
locals == <<bo_data, seen, usage, count>>
client == <<ret, ptr, held, calls, committed>>
vars == <<kind, shared, pc, locals, client>>

NewData == [map_data |-> NoMapping, lock_count |-> 0, locked_for |-> {}]

\* Locks for software access exclude each other, unless updates of lock_count
\* are lost; then the calls made are the only bound.
CountRange ==
  IF kind.serialised THEN 0..1
  ELSE -Cardinality(Thread) * MaxCalls..Cardinality(Thread) * MaxCalls

PC == {"idle", "get_data", "set_data", "check", "widen", "map_check", "map", "count_read",
       "count_write", "mark", "unlock", "was_mapped", "still_locked", "unmap", "clear",
       "dec_read", "dec_write", "reset"}

Init ==
  /\ kind \in Client
  /\ user_data = NoData
  /\ data = [t \in Thread |-> NewData]
  /\ mapped = {}
  /\ fault = "none"
  /\ pc = [t \in Thread |-> "idle"]
  /\ bo_data = [t \in Thread |-> NoData]
  /\ seen = [t \in Thread |-> NoData]
  /\ usage = [t \in Thread |-> {}]
  /\ count = [t \in Thread |-> 0]
  /\ ret = [t \in Thread |-> "0"]
  /\ ptr = [t \in Thread |-> {}]
  /\ held = [t \in Thread |-> 0]
  /\ calls = [t \in Thread |-> 0]
  /\ committed = NoData

Goto(t, from, to) == pc[t] = from /\ pc' = [pc EXCEPT ![t] = to]

\* A statement that reads through the null pointer p ends the process.
NullData(t, p) ==
  /\ p = NoData
  /\ fault' = "null data"
  /\ pc' = [pc EXCEPT ![t] = "idle"]
  /\ UNCHANGED <<user_data, data, mapped, locals, client>>

\* The call of thread t returns err and leaves the process with data d.
Return(t, err, d, ud) ==
  /\ pc' = [pc EXCEPT ![t] = "idle"]
  /\ bo_data' = [bo_data EXCEPT ![t] = NoData]
  /\ seen' = [seen EXCEPT ![t] = NoData]
  /\ usage' = [usage EXCEPT ![t] = {}]
  /\ count' = [count EXCEPT ![t] = 0]
  /\ ret' = [ret EXCEPT ![t] = err]
  /\ committed' = IF ud = NoData THEN NoData ELSE d[ud]

-----------------------------------------------------------------------------
(* gralloc_gbm_bo_lock *)

CanCall(t) ==
  /\ pc[t] = "idle"
  /\ fault = "none"
  /\ calls[t] < kind.calls
  /\ kind.serialised => \A u \in Thread : pc[u] = "idle"

Enter(t, at) ==
  /\ CanCall(t)
  /\ pc' = [pc EXCEPT ![t] = at]
  /\ calls' = [calls EXCEPT ![t] = @ + 1]

BeginLock(t, u) ==
  /\ held[t] < kind.held
  /\ Enter(t, "get_data")
  /\ usage' = [usage EXCEPT ![t] = u]
  /\ UNCHANGED <<shared, bo_data, seen, count, ret, ptr, held, committed>>

GetUserData(t) ==
  /\ IF user_data = NoData
     THEN /\ Goto(t, "get_data", "set_data")
          /\ bo_data' = [bo_data EXCEPT ![t] = t]
          /\ data' = [data EXCEPT ![t] = NewData]
     ELSE /\ Goto(t, "get_data", "check")
          /\ bo_data' = [bo_data EXCEPT ![t] = user_data]
          /\ UNCHANGED data
  /\ UNCHANGED <<user_data, mapped, fault, seen, usage, count, client>>

\* Fault: the new bo_data is not attached to the buffer object.
LoseUserData(t) ==
  /\ Goto(t, "set_data", "check")
  /\ UNCHANGED <<shared, locals, client>>

SetUserData(t) ==
  /\ Goto(t, "set_data", "check")
  /\ user_data' = bo_data[t]
  /\ UNCHANGED <<data, mapped, fault, locals, client>>

CheckCompatible(t) ==
  /\ pc[t] = "check"
  /\ LET d == data[bo_data[t]] IN
     IF d.lock_count # 0 /\ ~(usage[t] \subseteq d.locked_for)
     THEN Return(t, "EINVAL", data, user_data)
     ELSE Goto(t, "check", "widen") /\ UNCHANGED <<locals, ret, committed>>
  /\ UNCHANGED <<shared, ptr, held, calls>>

Widen(t) ==
  /\ Goto(t, "widen", "map_check")
  /\ usage' = [usage EXCEPT ![t] = @ \cup data[bo_data[t]].locked_for]
  /\ UNCHANGED <<shared, bo_data, seen, count, client>>

\* Fault: gralloc_gbm_map waits until the object is not mapped.
MapWaits(t) ==
  /\ user_data # NoData
  /\ data[user_data].map_data = NoMapping
  /\ Goto(t, "map_check", "map")
  /\ seen' = [seen EXCEPT ![t] = user_data]
  /\ UNCHANGED <<shared, bo_data, usage, count, client>>

\* Fault: gralloc_gbm_map maps an object that is mapped.
MapsAgain(t) ==
  /\ user_data # NoData
  /\ Goto(t, "map_check", "map")
  /\ seen' = [seen EXCEPT ![t] = user_data]
  /\ UNCHANGED <<shared, bo_data, usage, count, client>>

\* gralloc_gbm_map reads the user data again.
MapCheck(t) ==
  /\ pc[t] = "map_check"
  /\ \/ NullData(t, user_data)
     \/ /\ user_data # NoData
        /\ IF data[user_data].map_data # NoMapping
           THEN Return(t, "EINVAL", data, user_data)
           ELSE /\ Goto(t, "map_check", "map")
                /\ seen' = [seen EXCEPT ![t] = user_data]
                /\ UNCHANGED <<bo_data, usage, count, ret, committed>>
        /\ UNCHANGED <<shared, ptr, held, calls>>

Map(t) ==
  /\ pc[t] = "map"
  /\ \/ \E m \in Mapping \ mapped :
          /\ Goto(t, "map", "count_read")
          /\ mapped' = mapped \cup {m}
          /\ data' = [data EXCEPT ![seen[t]].map_data = m]
          /\ ptr' = [ptr EXCEPT ![t] = @ \cup {m}]
          /\ UNCHANGED <<locals, ret, committed>>
     \/ /\ Return(t, "ENOMEM", data, user_data)
        /\ UNCHANGED <<mapped, data, ptr>>
  /\ UNCHANGED <<user_data, fault, held, calls>>

CountRead(t) ==
  /\ Goto(t, "count_read", "count_write")
  /\ count' = [count EXCEPT ![t] = data[bo_data[t]].lock_count]
  /\ UNCHANGED <<shared, bo_data, seen, usage, client>>

CountWrite(t) ==
  /\ Goto(t, "count_write", "mark")
  /\ data' = [data EXCEPT ![bo_data[t]].lock_count = count[t] + 1]
  /\ UNCHANGED <<user_data, mapped, fault, locals, client>>

Mark(t) ==
  /\ pc[t] = "mark"
  /\ data' = [data EXCEPT ![bo_data[t]].locked_for = @ \cup usage[t]]
  /\ held' = [held EXCEPT ![t] = @ + 1]
  /\ Return(t, "0", data', user_data)
  /\ UNCHANGED <<user_data, mapped, fault, ptr, calls>>

-----------------------------------------------------------------------------
(* gralloc_gbm_bo_unlock *)

\* The client has stopped using the pointer when it calls unlock.
BeginUnlock(t) ==
  /\ held[t] > 0
  /\ Enter(t, "unlock")
  /\ held' = [held EXCEPT ![t] = @ - 1]
  /\ ptr' = IF held[t] = 1 THEN [ptr EXCEPT ![t] = {}] ELSE ptr
  /\ UNCHANGED <<shared, locals, ret, committed>>

UnlockUserData(t) ==
  /\ pc[t] = "unlock"
  /\ \/ NullData(t, user_data)
     \/ /\ user_data # NoData
        /\ Goto(t, "unlock", "was_mapped")
        /\ bo_data' = [bo_data EXCEPT ![t] = user_data]
        /\ UNCHANGED <<shared, seen, usage, count, client>>

\* usage stands for the local mapped.
WasMapped(t) ==
  /\ Goto(t, "was_mapped", "still_locked")
  /\ usage' = [usage EXCEPT ![t] = data[bo_data[t]].locked_for \cap SwBits]
  /\ UNCHANGED <<shared, bo_data, seen, count, client>>

StillLocked(t) ==
  /\ pc[t] = "still_locked"
  /\ \/ /\ data[bo_data[t]].lock_count = 0
        /\ Return(t, "0", data, user_data)
        /\ UNCHANGED <<shared, ptr, held, calls>>
     \/ /\ data[bo_data[t]].lock_count # 0
        /\ Goto(t, "still_locked", IF usage[t] # {} THEN "unmap" ELSE "dec_read")
        /\ UNCHANGED <<shared, locals, client>>

\* gralloc_gbm_unmap reads the user data again; gbm_bo_unmap() must be given
\* a mapping that exists.
Unmap(t) ==
  /\ pc[t] = "unmap"
  /\ \/ NullData(t, user_data)
     \/ /\ user_data # NoData
        /\ LET m == data[user_data].map_data IN
           /\ mapped' = mapped \ {m}
           /\ fault' = IF m \in mapped THEN fault ELSE "bad unmap"
        /\ seen' = [seen EXCEPT ![t] = user_data]
        /\ Goto(t, "unmap", "clear")
        /\ UNCHANGED <<user_data, data, bo_data, usage, count, client>>

Clear(t) ==
  /\ Goto(t, "clear", "dec_read")
  /\ data' = [data EXCEPT ![seen[t]].map_data = NoMapping]
  /\ UNCHANGED <<user_data, mapped, fault, locals, client>>

DecRead(t) ==
  /\ Goto(t, "dec_read", "dec_write")
  /\ count' = [count EXCEPT ![t] = data[bo_data[t]].lock_count]
  /\ UNCHANGED <<shared, bo_data, seen, usage, client>>

\* Fault: the lock is not taken off the count.
CountKept(t) ==
  /\ Goto(t, "dec_write", "reset")
  /\ UNCHANGED <<shared, locals, client>>

DecWrite(t) ==
  /\ Goto(t, "dec_write", "reset")
  /\ data' = [data EXCEPT ![bo_data[t]].lock_count = count[t] - 1]
  /\ UNCHANGED <<user_data, mapped, fault, locals, client>>

\* Fault: locked_for survives the last unlock.
UsageKept(t) ==
  /\ pc[t] = "reset"
  /\ Return(t, "0", data, user_data)
  /\ UNCHANGED <<shared, ptr, held, calls>>

Reset(t) ==
  /\ pc[t] = "reset"
  /\ data' = IF data[bo_data[t]].lock_count = 0
             THEN [data EXCEPT ![bo_data[t]].locked_for = {}] ELSE data
  /\ Return(t, "0", data', user_data)
  /\ UNCHANGED <<user_data, mapped, fault, ptr, held, calls>>

-----------------------------------------------------------------------------

\* The statements of a call that has begun.
Step(t) ==
  /\ fault = "none"
  /\ \/ GetUserData(t) \/ SetUserData(t) \/ CheckCompatible(t) \/ Widen(t)
     \/ MapCheck(t) \/ Map(t) \/ CountRead(t) \/ CountWrite(t) \/ Mark(t)
     \/ UnlockUserData(t) \/ WasMapped(t) \/ StillLocked(t) \/ Unmap(t) \/ Clear(t)
     \/ DecRead(t) \/ DecWrite(t) \/ Reset(t)

Next ==
  /\ UNCHANGED kind
  /\ \E t \in Thread :
       \/ \E u \in kind.usages : BeginLock(t, u)
       \/ BeginUnlock(t)
       \/ Step(t)

\* The scheduler lets every thread that is inside a call run.
Spec == Init /\ [][Next]_vars /\ \A t \in Thread : WF_vars(UNCHANGED kind /\ Step(t))

-----------------------------------------------------------------------------
(* Properties. *)

BoData ==
  [map_data : Mapping \cup {NoMapping}, lock_count : CountRange, locked_for : SUBSET SwBits]

ThreadsTypeOK ==
  /\ kind \in Client
  /\ user_data \in Thread \cup {NoData}
  /\ data \in [Thread -> BoData]
  /\ mapped \in SUBSET Mapping
  /\ fault \in {"none", "null data", "bad unmap"}
  /\ pc \in [Thread -> PC]
  /\ bo_data \in [Thread -> Thread \cup {NoData}]
  /\ seen \in [Thread -> Thread \cup {NoData}]
  /\ usage \in [Thread -> SUBSET SwBits]
  /\ count \in [Thread -> CountRange]
  /\ ret \in [Thread -> {"0", "EINVAL", "ENOMEM"}]
  /\ ptr \in [Thread -> SUBSET Mapping]
  /\ held \in [Thread -> 0..kind.held]
  /\ calls \in [Thread -> 0..kind.calls]
  /\ committed \in BoData \cup {NoData}

\* Two first locks may each allocate a bo_data and only one stays attached;
\* still no statement of either finds the pointer null.
NoNullData == fault # "null data"

\* Where the client admits one thread at a time, gbm_bo_unmap() is never given
\* a mapping that is gone.
NoBadUnmap == kind.serialised => fault # "bad unmap"

\* IMapper.h: locking may not block the client indefinitely.
CallsReturn == \A t \in Thread : fault = "none" /\ pc[t] # "idle" ~> fault # "none" \/ pc[t] = "idle"

\* The pointers a thread was given stay mapped until it unlocks.
PointersStayMapped == \A t \in Thread : held[t] > 0 /\ pc[t] = "idle" => ptr[t] \subseteq mapped

\* So they do where the client admits one thread at a time.
SerialisedStayMapped == kind.serialised => PointersStayMapped

\* Where the client admits one thread at a time: seen from between the calls, a call is one step of GrallocGbm.
Gralloc == INSTANCE GrallocGbm WITH
  Handle <- {"handle"}, Bo <- {"bo"}, NoBo <- "no bo", Fd <- {0}, NoFd <- -1,
  Format <- {"format"}, KnownFormat <- {"format"}, YuvFormat <- {}, HwBits <- {}, LaxHw <- {},
  StaleErrno <- {"0"}, MaxLocks <- MaxCalls,
  gbm_dev <- TRUE, gbm_bo_handle_map <- [h \in {"handle"} |-> "bo"], bos <- {"bo"},
  crashed <- fault # "none",
  user_data <- [b \in {"bo"} |->
    IF committed = NoData THEN NoData
    ELSE [committed EXCEPT !.map_data =
            IF @ = NoMapping THEN "none"
            ELSE IF committed.locked_for \cap WriteBits # {} THEN "rw" ELSE "r"]]

CallsAreAtomic == [][kind.serialised => Gralloc!Lock \/ Gralloc!Unlock]_(Gralloc!libVars)

=============================================================================
