-------------------------- MODULE AllocatorService --------------------------
(***************************************************************************)
(* The AIDL allocator (src/src/aidl/Allocator.cpp, Main.cpp): binder       *)
(* threads that run doAllocate on top of GrallocGbm in one process.  A     *)
(* library call is one step; between two steps of a thread the others run. *)
(* Native handle addresses and descriptor numbers are reused as soon as    *)
(* they are given back.                                                    *)
(***************************************************************************)
EXTENDS GrallocGbm, Sequences

CONSTANTS
  Thread,       \* binder threads
  Buffer,       \* dma-bufs
  MaxCount,     \* bound on the count of a call
  Counts,       \* the values of count callers ask for
  Descriptor,   \* buffer descriptors
  ZeroSized,    \* those with width or height 0
  Layered,      \* those with layerCount > 1
  NoFile, NoHandle

Status == {"OK", "NO_RESOURCES", "BAD_DESCRIPTOR", "UNSUPPORTED"}

ASSUME ServiceAssumption ==
  /\ MaxCount \in Nat
  /\ Counts \subseteq 0..MaxCount
  /\ ZeroSized \cup Layered \subseteq Descriptor
  /\ NoFile \notin Buffer
  /\ NoHandle \notin [prime_fd : Fd \cup {NoFd}, buffer : Buffer]

VARIABLES
  _gbmDevFd,  \* TRUE once the allocator holds the device's descriptor
  native,     \* [Handle -> [prime_fd, buffer] or NoHandle]
  fds,        \* the process's descriptors
  pc,         \* what each thread does next
  count,      \* the count of its call
  handles,    \* the elements of doAllocate's vector it still has to release
  out,        \* outResult->buffers: a descriptor each
  status      \* the status it will return

threadVars == <<pc, count, handles, out, status>>
serviceVars == <<libVars, _gbmDevFd, native, fds, threadVars>>

NativeHandle == [prime_fd : Fd \cup {NoFd}, buffer : Buffer]

ServiceTypeOK ==
  /\ TypeOK
  /\ _gbmDevFd \in BOOLEAN
  /\ native \in [Handle -> NativeHandle \cup {NoHandle}]
  /\ fds \in [Fd -> Buffer \cup {NoFile}]
  /\ pc \in [Thread -> {"idle", "allocate", "dup", "free", "close", "reply"}]
  /\ count \in [Thread -> Counts \cup {0}]
  /\ \A t \in Thread :
       /\ handles[t] \in Seq(Handle) /\ Len(handles[t]) <= count[t]
       /\ out[t] \in Seq(Fd \cup {NoFd}) /\ Len(out[t]) <= count[t]
  /\ status \in [Thread -> Status]

ServiceInit ==
  /\ Init
  /\ _gbmDevFd = FALSE
  /\ native = [h \in Handle |-> NoHandle]
  /\ fds = [f \in Fd |-> NoFile]
  /\ pc = [t \in Thread |-> "idle"]
  /\ count = [t \in Thread |-> 0]
  /\ handles = [t \in Thread |-> <<>>]
  /\ out = [t \in Thread |-> <<>>]
  /\ status = [t \in Thread |-> "OK"]

\* main() exits when init() fails, and starts the threads when it succeeds.
StartService ==
  /\ ~_gbmDevFd
  /\ gralloc_gbm_device_init(OK)
  /\ _gbmDevFd' = TRUE
  /\ UNCHANGED <<native, fds, threadVars>>

-----------------------------------------------------------------------------
(* The checks before anything is allocated. *)

convertToGBMDesc(d) ==
  IF d \in ZeroSized THEN "BAD_DESCRIPTOR" ELSE IF d \in Layered THEN "UNSUPPORTED" ELSE "OK"

Goto(t, to) == pc' = [pc EXCEPT ![t] = to]

\* allocate2(d, n), or allocate() with a descriptor that decodes to d: that one
\* reports every conversion error as UNSUPPORTED.
Begin(t, d, n) ==
  /\ pc[t] = "idle"
  /\ _gbmDevFd
  /\ count' = [count EXCEPT ![t] = n]
  /\ \/ status' = [status EXCEPT ![t] = convertToGBMDesc(d)]
     \/ status' = [status EXCEPT ![t] = IF convertToGBMDesc(d) = "OK" THEN "OK" ELSE "UNSUPPORTED"]
  /\ Goto(t, IF convertToGBMDesc(d) = "OK" THEN "allocate" ELSE "reply")
  /\ UNCHANGED <<libVars, _gbmDevFd, native, fds, handles, out>>

\* allocate() with a descriptor that does not decode.
BeginUndecodable(t) ==
  /\ pc[t] = "idle"
  /\ _gbmDevFd
  /\ status' = [status EXCEPT ![t] = "BAD_DESCRIPTOR"]
  /\ Goto(t, "reply")
  /\ UNCHANGED <<libVars, _gbmDevFd, native, fds, count, handles, out>>

-----------------------------------------------------------------------------
(* doAllocate *)

\* Fault: the loop runs once too often.
MadeOneMore(t) == Len(handles[t]) = count[t]

MadeAll(t) == Len(handles[t]) + 1 = count[t]

\* native_handle_create() returned h, gbm_bo_create() a new dma-buf, and
\* gbm_bo_get_fd() a descriptor f for it or -1, which nobody checks.
Allocated(t, h, f, buf) ==
  /\ native[h] = NoHandle
  /\ f # NoFd => fds[f] = NoFile
  /\ \A g \in Fd : fds[g] # buf
  /\ \A k \in Handle : native[k] # NoHandle => native[k].buffer # buf
  /\ native' = [native EXCEPT ![h] = [prime_fd |-> f, buffer |-> buf]]
  /\ fds' = IF f = NoFd THEN fds ELSE [fds EXCEPT ![f] = buf]
  /\ handles' = [handles EXCEPT ![t] = Append(@, h)]
  /\ Goto(t, IF MadeAll(t) THEN "dup" ELSE "allocate")
  /\ UNCHANGED status

\* Fault: the failure is tried again.
TryAgain(t) == UNCHANGED <<native, fds, handles, pc, status>>

\* Fault: a failure returns with the buffers made so far.
KeepAllocated(t) ==
  /\ status' = [status EXCEPT ![t] = "NO_RESOURCES"]
  /\ Goto(t, "reply")
  /\ UNCHANGED <<native, fds, handles>>

\* Fault: the buffers made so far are closed without being freed.
CloseAllocated(t) ==
  /\ status' = [status EXCEPT ![t] = "NO_RESOURCES"]
  /\ Goto(t, IF handles[t] = <<>> THEN "reply" ELSE "close")
  /\ UNCHANGED <<native, fds, handles>>

\* The first failure ends the loop; the buffers made so far are released.
AllocationFailed(t) ==
  /\ status' = [status EXCEPT ![t] = "NO_RESOURCES"]
  /\ Goto(t, IF handles[t] = <<>> THEN "reply" ELSE "free")
  /\ UNCHANGED <<native, fds, handles>>

\* gralloc_is_desc_support() refuses nothing: its limit is UINT32_MAX.
gbmAllocateBuffer(t) ==
  /\ pc[t] = "allocate"
  /\ count[t] > 0
  /\ \E h \in Handle, b \in Bo, err \in ErrCode :
       /\ gralloc_allocate(h, b, err)
       /\ \/ err = OK /\ \E f \in Fd \cup {NoFd}, buf \in Buffer : Allocated(t, h, f, buf)
          \/ err # OK /\ AllocationFailed(t)
  /\ UNCHANGED <<_gbmDevFd, count, out>>

AllocateNothing(t) ==
  /\ pc[t] = "allocate"
  /\ count[t] = 0
  /\ Goto(t, "reply")
  /\ UNCHANGED <<libVars, _gbmDevFd, native, fds, count, handles, out, status>>

\* Fault: makeToAidl(), the result takes over the handle's own descriptor.
MakeToAidl(t) ==
  /\ pc[t] = "dup"
  /\ out' = [out EXCEPT ![t] = Append(@, native[Head(handles[t])].prime_fd)]
  /\ Goto(t, "free")
  /\ UNCHANGED <<libVars, _gbmDevFd, native, fds, count, handles, status>>

\* dupToAidl(): the handle's descriptor is duplicated into the result; there is
\* none to duplicate if gbm_bo_get_fd() failed, and dup() may fail as well.
DupToAidl(t) ==
  LET p == native[Head(handles[t])].prime_fd IN
  /\ pc[t] = "dup"
  /\ \/ /\ out' = [out EXCEPT ![t] = Append(@, NoFd)]
        /\ UNCHANGED fds
     \/ /\ p # NoFd
        /\ \E f \in Fd :
             /\ fds[f] = NoFile
             /\ fds' = [fds EXCEPT ![f] = fds[p]]
             /\ out' = [out EXCEPT ![t] = Append(@, f)]
  /\ Goto(t, "free")
  /\ UNCHANGED <<libVars, _gbmDevFd, native, count, handles, status>>

FreeBuffer(t) ==
  /\ pc[t] = "free"
  /\ \E errno \in StaleErrno, err \in ErrCode : gralloc_gm_buffer_free(Head(handles[t]), errno, err)
  /\ Goto(t, "close")
  /\ UNCHANGED <<_gbmDevFd, native, fds, count, handles, out, status>>

\* native_handle_close() and native_handle_delete(), then the next handle.
CloseAndDelete(t) ==
  LET h == Head(handles[t])
      p == native[h].prime_fd
  IN
  /\ pc[t] = "close"
  /\ fds' = IF p = NoFd THEN fds ELSE [fds EXCEPT ![p] = NoFile]
  /\ native' = [native EXCEPT ![h] = NoHandle]
  /\ handles' = [handles EXCEPT ![t] = Tail(@)]
  /\ Goto(t, IF Len(handles[t]) = 1 THEN "reply"
             ELSE IF status[t] = "OK" THEN "dup" ELSE "free")
  /\ UNCHANGED <<libVars, _gbmDevFd, count, out, status>>

\* Binder sends the reply and closes the descriptors of the result.
Reply(t) ==
  /\ pc[t] = "reply"
  /\ fds' = [f \in Fd |-> IF \E i \in DOMAIN out[t] : out[t][i] = f THEN NoFile ELSE fds[f]]
  /\ out' = [out EXCEPT ![t] = <<>>]
  /\ status' = [status EXCEPT ![t] = "OK"]
  /\ count' = [count EXCEPT ![t] = 0]
  /\ Goto(t, "idle")
  /\ UNCHANGED <<libVars, _gbmDevFd, native, handles>>

\* The steps of a call that has begun.
CallStep(t) ==
  \/ gbmAllocateBuffer(t)
  \/ AllocateNothing(t)
  \/ DupToAidl(t)
  \/ FreeBuffer(t)
  \/ CloseAndDelete(t)
  \/ Reply(t)

ServiceNext ==
  \/ StartService
  \/ \E t \in Thread :
       \/ \E d \in Descriptor, n \in Counts : Begin(t, d, n)
       \/ BeginUndecodable(t)
       \/ CallStep(t)

\* The scheduler runs every binder thread that has a call to finish.
ServiceSpec ==
  ServiceInit /\ [][ServiceNext]_serviceVars /\ \A t \in Thread : WF_serviceVars(CallStep(t))

-----------------------------------------------------------------------------
(* Properties. *)

Releases(t, h) == \E i \in DOMAIN handles[t] : handles[t][i] = h
Results == {r \in Thread \X (1..MaxCount) : r[2] \in DOMAIN out[r[1]]}
ResultFd(r) == out[r[1]][r[2]]

\* Whatever other threads do meanwhile, and though addresses and descriptor
\* numbers are reused: a native handle is waiting to be released by exactly one
\* thread, until then it is registered (but for the moment between
\* gralloc_gm_buffer_free and native_handle_close), and a descriptor is open
\* exactly while it belongs to one handle or one result.
NothingLeaks ==
  /\ \A h \in Handle :
       /\ native[h] # NoHandle <=> \E t \in Thread : Releases(t, h)
       /\ \A t, u \in Thread : Releases(t, h) /\ Releases(u, h) => t = u
       /\ gbm_bo_handle_map[h] # NoBo <=>
            /\ native[h] # NoHandle
            /\ \A t \in Thread : pc[t] = "close" => Head(handles[t]) # h
  /\ \A f \in Fd : fds[f] # NoFile <=>
       \/ \E h \in Handle : native[h] # NoHandle /\ native[h].prime_fd = f
       \/ \E r \in Results : ResultFd(r) = f

\* A result is a descriptor of its own, open on a buffer no other result is on.
ResultsDistinct ==
  \A r, s \in Results :
    ResultFd(r) # NoFd =>
      /\ fds[ResultFd(r)] \in Buffer
      /\ r # s /\ ResultFd(s) # NoFd => fds[ResultFd(r)] # fds[ResultFd(s)]

\* All or nothing: a call that succeeds returns as many buffers as were asked
\* for, one that fails none, and neither keeps a handle.
AllOrNothing ==
  \A t \in Thread : pc[t] = "reply" =>
    /\ handles[t] = <<>>
    /\ Len(out[t]) = IF status[t] = "OK" THEN count[t] ELSE 0

\* Every call is answered.
CallsAreAnswered == \A t \in Thread : pc[t] # "idle" ~> pc[t] = "idle"

=============================================================================
