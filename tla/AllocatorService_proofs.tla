----------------------- MODULE AllocatorService_proofs -----------------------
(***************************************************************************)
(* Theorems about AllocatorService for any binder threads, handles, buffer *)
(* objects, descriptors and counts.                                        *)
(***************************************************************************)
EXTENDS AllocatorService, GrallocGbm_proofs, SequenceTheorems

\* Where thread t is in its call, and what of it is made, returned and released.
Progress(t) ==
  /\ pc[t] = "idle" => handles[t] = <<>> /\ out[t] = <<>>
  /\ pc[t] = "allocate" =>
       /\ status[t] = "OK" /\ out[t] = <<>>
       /\ handles[t] # <<>> => Len(handles[t]) < count[t]
  /\ pc[t] = "dup" =>
       status[t] = "OK" /\ handles[t] # <<>> /\ Len(out[t]) + Len(handles[t]) = count[t]
  /\ pc[t] \in {"free", "close"} =>
       /\ handles[t] # <<>>
       /\ IF status[t] = "OK" THEN Len(out[t]) + Len(handles[t]) = count[t] + 1 ELSE out[t] = <<>>
  /\ pc[t] = "reply" =>
       handles[t] = <<>> /\ Len(out[t]) = IF status[t] = "OK" THEN count[t] ELSE 0

\* The service starts no thread without a device.
DeviceHeld ==
  /\ crashed = FALSE
  /\ _gbmDevFd => gbm_dev
  /\ \A t \in Thread : pc[t] # "idle" => _gbmDevFd

CallInv ==
  /\ ServiceTypeOK
  /\ handles \in [Thread -> Seq(Handle)] /\ out \in [Thread -> Seq(Fd \cup {NoFd})]
  /\ DeviceHeld
  /\ \A t \in Thread : Progress(t)

-----------------------------------------------------------------------------

\* A count is a natural number.
LEMMA CountOK ==
  ASSUME CallInv, NEW t \in Thread
  PROVE  count[t] \in Nat
<1>1. count[t] \in Counts \cup {0}
  BY DEF CallInv, ServiceTypeOK
<1>2. Counts \subseteq Nat
  BY ServiceAssumption
<1>3. \A n \in Counts \cup {0} : n \in Nat
  BY <1>2
<1> QED BY <1>1, <1>3

\* What taking the first handle off a vector leaves.
LEMMA Taking ==
  ASSUME NEW S, NEW s \in Seq(S), s # <<>>
  PROVE  /\ Head(s) \in S /\ Head(s) = s[1]
         /\ Tail(s) \in Seq(S) /\ Len(Tail(s)) = Len(s) - 1
         /\ Len(s) \in Nat \ {0}
         /\ \A i \in 1..Len(s) - 1 : Tail(s)[i] = s[i + 1]
BY HeadTailProperties, EmptySeq

\* A step of thread t that leaves the other threads' calls alone.
LEMMA OneCall ==
  ASSUME CallInv, NEW t \in Thread, NEW p \in {"idle", "allocate", "dup", "free", "close", "reply"},
         NEW n \in Counts \cup {0}, NEW hs \in Seq(Handle), NEW o \in Seq(Fd \cup {NoFd}),
         NEW s \in Status,
         pc' = [pc EXCEPT ![t] = p], count' = [count EXCEPT ![t] = n],
         handles' = [handles EXCEPT ![t] = hs], out' = [out EXCEPT ![t] = o],
         status' = [status EXCEPT ![t] = s],
         TypeOK', DeviceHeld',
         native' \in [Handle -> NativeHandle \cup {NoHandle}],
         fds' \in [Fd -> Buffer \cup {NoFile}], UNCHANGED _gbmDevFd,
         Len(hs) <= n, Len(o) <= n, Progress(t)'
  PROVE  CallInv'
<1>1. /\ pc \in [Thread -> {"idle", "allocate", "dup", "free", "close", "reply"}]
      /\ count \in [Thread -> Counts \cup {0}] /\ status \in [Thread -> Status]
      /\ handles \in [Thread -> Seq(Handle)] /\ out \in [Thread -> Seq(Fd \cup {NoFd})]
      /\ _gbmDevFd \in BOOLEAN
  BY DEF CallInv, ServiceTypeOK
<1>2. \A u \in Thread : u # t =>
        /\ pc'[u] = pc[u] /\ count'[u] = count[u] /\ status'[u] = status[u]
        /\ handles'[u] = handles[u] /\ out'[u] = out[u]
  BY <1>1
<1>3. handles'[t] = hs /\ out'[t] = o /\ count'[t] = n
  BY <1>1
<1>4. \A u \in Thread : Progress(u)'
  <2> TAKE u \in Thread
  <2>1. CASE u # t
    BY <1>2, <2>1 DEF CallInv, Progress
  <2> QED BY <2>1
<1>5. \A u \in Thread : /\ handles'[u] \in Seq(Handle) /\ Len(handles'[u]) <= count'[u]
                        /\ out'[u] \in Seq(Fd \cup {NoFd}) /\ Len(out'[u]) <= count'[u]
  <2> TAKE u \in Thread
  <2>1. CASE u # t
    BY <1>2, <2>1 DEF CallInv, ServiceTypeOK
  <2> QED BY <1>3, <2>1
<1>6. /\ pc' \in [Thread -> {"idle", "allocate", "dup", "free", "close", "reply"}]
      /\ count' \in [Thread -> Counts \cup {0}] /\ status' \in [Thread -> Status]
      /\ handles' \in [Thread -> Seq(Handle)] /\ out' \in [Thread -> Seq(Fd \cup {NoFd})]
  BY <1>1
<1>7. ServiceTypeOK'
  BY <1>1, <1>5, <1>6 DEF ServiceTypeOK
<1> QED BY <1>4, <1>6, <1>7 DEF CallInv

\* A call begins with a descriptor that converts, or replies at once.
LEMMA BeginInv ==
  ASSUME CallInv, NEW t \in Thread,
         BeginUndecodable(t) \/ \E d \in Descriptor, n \in Counts : Begin(t, d, n)
  PROVE  CallInv'
<1>1. /\ pc[t] = "idle" /\ _gbmDevFd
      /\ UNCHANGED <<libVars, _gbmDevFd, native, fds, handles, out>>
      /\ \E n \in Counts \cup {0} : count' = [count EXCEPT ![t] = n]
      /\ \/ /\ status' = [status EXCEPT ![t] = "OK"] /\ pc' = [pc EXCEPT ![t] = "allocate"]
         \/ /\ \E s \in Status \ {"OK"} : status' = [status EXCEPT ![t] = s]
            /\ pc' = [pc EXCEPT ![t] = "reply"]
  <2>1. CASE BeginUndecodable(t)
    <3>1. count' = [count EXCEPT ![t] = count[t]] /\ count[t] \in Counts \cup {0}
      BY <2>1 DEF BeginUndecodable, CallInv, ServiceTypeOK
    <3> QED BY <2>1, <3>1 DEF BeginUndecodable, Goto, Status
  <2>2. ASSUME NEW d \in Descriptor, NEW n \in Counts, Begin(t, d, n)
        PROVE  /\ count' = [count EXCEPT ![t] = n]
               /\ \/ /\ status' = [status EXCEPT ![t] = "OK"] /\ pc' = [pc EXCEPT ![t] = "allocate"]
                  \/ /\ \E s \in Status \ {"OK"} : status' = [status EXCEPT ![t] = s]
                     /\ pc' = [pc EXCEPT ![t] = "reply"]
               /\ pc[t] = "idle" /\ _gbmDevFd
               /\ UNCHANGED <<libVars, _gbmDevFd, native, fds, handles, out>>
    <3>1. convertToGBMDesc(d) \in Status
      BY DEF convertToGBMDesc, Status
    <3> QED BY <2>2, <3>1 DEF Begin, Goto, Status
  <2> QED BY <2>1, <2>2
<1>2. handles[t] = <<>> /\ out[t] = <<>>
  BY <1>1 DEF CallInv, Progress
<1>3. PICK n \in Counts \cup {0} : count' = [count EXCEPT ![t] = n]
  BY <1>1
<1>4. n \in Nat
  BY ServiceAssumption
<1>5. PICK s \in Status, p \in {"allocate", "reply"} :
        /\ status' = [status EXCEPT ![t] = s] /\ pc' = [pc EXCEPT ![t] = p]
        /\ p = "allocate" <=> s = "OK"
  BY <1>1 DEF Status
<1>6. /\ handles' = [handles EXCEPT ![t] = handles[t]] /\ out' = [out EXCEPT ![t] = out[t]]
      /\ handles[t] \in Seq(Handle) /\ out[t] \in Seq(Fd \cup {NoFd})
  BY <1>1 DEF CallInv
<1>7. TypeOK' /\ native' \in [Handle -> NativeHandle \cup {NoHandle}] /\ fds' \in [Fd -> Buffer \cup {NoFile}]
  BY <1>1 DEF CallInv, ServiceTypeOK, TypeOK, libVars
<1>8. DeviceHeld'
  BY <1>1 DEF CallInv, DeviceHeld, libVars
<1>9. Progress(t)'
  <2>1. pc'[t] = p /\ status'[t] = s /\ handles'[t] = <<>> /\ out'[t] = <<>> /\ Len(<<>>) = 0
    BY <1>1, <1>2, <1>5 DEF CallInv, ServiceTypeOK
  <2> QED BY <1>5, <2>1 DEF Progress
<1>10. Len(handles[t]) <= n /\ Len(out[t]) <= n
  BY <1>2, <1>4
<1> QED BY <1>1, <1>3, <1>5, <1>6, <1>7, <1>8, <1>9, <1>10, OneCall

\* gbm_bo_create() with a device makes an object or fails.
LEMMA AllocateCases ==
  ASSUME CallInv, NEW t \in Thread, gbmAllocateBuffer(t)
  PROVE  /\ pc[t] = "allocate" /\ count[t] > 0 /\ UNCHANGED <<_gbmDevFd, count, out>>
         /\ \/ \E h \in Handle, b \in Bo, f \in Fd \cup {NoFd}, buf \in Buffer :
                  NewBo(h, b) /\ Allocated(t, h, f, buf)
            \/ UNCHANGED libVars /\ AllocationFailed(t)
<1>1. gbm_dev
  BY DEF gbmAllocateBuffer, CallInv, DeviceHeld
<1> QED BY <1>1 DEF gbmAllocateBuffer, gralloc_allocate, OK

\* A buffer more, the last of the loop or not, or the end of the loop.
LEMMA AllocateInv ==
  ASSUME CallInv, NEW t \in Thread, gbmAllocateBuffer(t)
  PROVE  CallInv'
<1>1. /\ pc[t] = "allocate" /\ count[t] > 0 /\ count[t] \in Nat /\ UNCHANGED <<_gbmDevFd, count, out>>
      /\ status[t] = "OK" /\ out[t] = <<>> /\ handles[t] \in Seq(Handle)
      /\ handles[t] # <<>> => Len(handles[t]) < count[t]
  BY AllocateCases, CountOK DEF CallInv, Progress
<1>2. /\ count' = [count EXCEPT ![t] = count[t]] /\ count[t] \in Counts \cup {0}
      /\ out' = [out EXCEPT ![t] = out[t]] /\ out[t] \in Seq(Fd \cup {NoFd})
  BY <1>1 DEF CallInv, ServiceTypeOK
<1>3. Len(handles[t]) < count[t] /\ Len(handles[t]) \in Nat /\ Len(out[t]) = 0
  BY <1>1
<1>4. /\ native \in [Handle -> NativeHandle \cup {NoHandle}] /\ fds \in [Fd -> Buffer \cup {NoFile}]
      /\ handles \in [Thread -> Seq(Handle)] /\ status \in [Thread -> Status]
      /\ pc \in [Thread -> {"idle", "allocate", "dup", "free", "close", "reply"}]
      /\ TypeOK
  BY DEF CallInv, ServiceTypeOK
<1>5. ASSUME NEW h \in Handle, NEW b \in Bo, NEW f \in Fd \cup {NoFd}, NEW buf \in Buffer,
             NewBo(h, b), Allocated(t, h, f, buf)
      PROVE  CallInv'
  <2> DEFINE hs == Append(handles[t], h)
             p == IF MadeAll(t) THEN "dup" ELSE "allocate"
  <2>1. hs \in Seq(Handle) /\ Len(hs) = Len(handles[t]) + 1 /\ hs # <<>>
    BY <1>1, AppendProperties
  <2>2. /\ handles' = [handles EXCEPT ![t] = hs] /\ pc' = [pc EXCEPT ![t] = p]
        /\ status' = [status EXCEPT ![t] = "OK"]
    BY <1>1, <1>4, <1>5 DEF Allocated, Goto
  <2> HIDE DEF hs
  <2>3. TypeOK'
    BY <1>4, <1>5 DEF NewBo, Emplace, TypeOK
  <2>4. DeviceHeld'
    BY <1>1, <1>4, <1>5, <2>2 DEF NewBo, CallInv, DeviceHeld
  <2>5. /\ native' \in [Handle -> NativeHandle \cup {NoHandle}] /\ fds' \in [Fd -> Buffer \cup {NoFile}]
    BY <1>4, <1>5 DEF Allocated, NativeHandle
  <2>6. Progress(t)'
    <3>1. pc'[t] = p /\ handles'[t] = hs /\ status'[t] = "OK" /\ out'[t] = <<>> /\ count'[t] = count[t]
      BY <1>1, <1>4, <2>2
    <3>2. p = "dup" => Len(hs) = count[t]
      BY <1>3, <2>1 DEF MadeAll
    <3>3. p = "allocate" => Len(hs) < count[t]
      BY <1>1, <1>3, <2>1 DEF MadeAll
    <3> QED BY <1>1, <1>3, <2>1, <3>1, <3>2, <3>3 DEF Progress
  <2>7. Len(hs) <= count[t] /\ Len(out[t]) <= count[t]
    BY <1>1, <1>3, <2>1
  <2>8. p \in {"allocate", "dup"} /\ "OK" \in Status
    BY DEF Status
  <2> HIDE DEF p
  <2> QED BY <1>1, <1>2, <2>1, <2>2, <2>3, <2>4, <2>5, <2>6, <2>7, <2>8, OneCall
<1>6. CASE UNCHANGED libVars /\ AllocationFailed(t)
  <2> DEFINE p == IF handles[t] = <<>> THEN "reply" ELSE "free"
  <2>1. /\ status' = [status EXCEPT ![t] = "NO_RESOURCES"] /\ pc' = [pc EXCEPT ![t] = p]
        /\ handles' = [handles EXCEPT ![t] = handles[t]] /\ UNCHANGED <<native, fds>>
    BY <1>4, <1>6 DEF AllocationFailed, Goto
  <2>2. TypeOK' /\ DeviceHeld'
    BY <1>1, <1>4, <1>6, <2>1 DEF TypeOK, CallInv, DeviceHeld, libVars
  <2>3. Progress(t)'
    <3>1. /\ pc'[t] = p /\ handles'[t] = handles[t] /\ status'[t] = "NO_RESOURCES"
          /\ out'[t] = <<>> /\ Len(<<>>) = 0
      BY <1>1, <1>4, <2>1
    <3> QED BY <3>1 DEF Progress
  <2>4. p \in {"reply", "free"} /\ "NO_RESOURCES" \in Status
    BY DEF Status
  <2>5. native' \in [Handle -> NativeHandle \cup {NoHandle}] /\ fds' \in [Fd -> Buffer \cup {NoFile}]
    BY <1>4, <2>1
  <2>6. Len(handles[t]) <= count[t] /\ Len(out[t]) <= count[t]
    BY <1>1, <1>3
  <2> HIDE DEF p
  <2> QED BY <1>1, <1>2, <2>1, <2>2, <2>3, <2>4, <2>5, <2>6, OneCall
<1> QED BY <1>5, <1>6, AllocateCases

\* What the types and the progress of a call say of its next handle.
LEMMA NextHandle ==
  ASSUME CallInv, NEW t \in Thread, pc[t] \in {"dup", "free", "close"}
  PROVE  /\ handles[t] \in Seq(Handle) /\ handles[t] # <<>> /\ Head(handles[t]) \in Handle
         /\ Len(handles[t]) \in Nat /\ Len(handles[t]) > 0
         /\ Tail(handles[t]) \in Seq(Handle) /\ Len(Tail(handles[t])) = Len(handles[t]) - 1
         /\ out[t] \in Seq(Fd \cup {NoFd}) /\ Len(out[t]) \in Nat
         /\ Len(handles[t]) <= count[t] /\ Len(out[t]) <= count[t] /\ count[t] \in Nat
         /\ count[t] \in Counts \cup {0} /\ status[t] \in Status
<1>1. handles[t] \in Seq(Handle) /\ handles[t] # <<>> /\ out[t] \in Seq(Fd \cup {NoFd})
  BY DEF CallInv, Progress
<1>2. Len(out[t]) \in Nat
  BY <1>1
<1>3. /\ Len(handles[t]) <= count[t] /\ Len(out[t]) <= count[t]
      /\ count[t] \in Counts \cup {0} /\ status[t] \in Status
  BY DEF CallInv, ServiceTypeOK
<1> QED BY <1>1, <1>2, <1>3, CountOK, Taking

\* The vectors of all threads hold the native handles, each of them once.
HandleInv ==
  /\ \A h \in Handle : native[h] # NoHandle <=> \E t \in Thread : Releases(t, h)
  /\ \A h \in Handle, t, u \in Thread : Releases(t, h) /\ Releases(u, h) => t = u
  /\ \A t \in Thread : \A i, j \in DOMAIN handles[t] : handles[t][i] = handles[t][j] => i = j

\* The handle a thread works on is its own.
LEMMA HeadOwned ==
  ASSUME CallInv, HandleInv, NEW t \in Thread, pc[t] \in {"dup", "free", "close"}
  PROVE  native[Head(handles[t])] # NoHandle /\ Releases(t, Head(handles[t]))
<1> DEFINE s == handles[t]
<1>1. s \in Seq(Handle) /\ s # <<>> /\ Head(s) \in Handle
  BY NextHandle
<1>2. 1 \in DOMAIN s /\ Head(s) = s[1]
  BY <1>1, Taking
<1>3. Releases(t, Head(s))
  BY <1>2 DEF Releases
<1> QED BY <1>1, <1>3 DEF HandleInv

\* A vector that grows by a handle that is new.
LEMMA HandleAdded ==
  ASSUME CallInv, HandleInv, NEW t \in Thread, NEW h \in Handle, NEW x, native[h] = NoHandle,
         x # NoHandle, native' = [native EXCEPT ![h] = x],
         handles' = [handles EXCEPT ![t] = Append(@, h)]
  PROVE  HandleInv' /\ \A u \in Thread, k \in Handle : Releases(u, k)' <=> Releases(u, k) \/ (u = t /\ k = h)
<1> DEFINE s == handles[t]
<1>1. /\ s \in Seq(Handle) /\ Len(s) \in Nat /\ DOMAIN s = 1..Len(s)
      /\ \A u \in Thread : u # t => handles'[u] = handles[u]
      /\ handles'[t] = Append(s, h)
      /\ native' \in [Handle -> NativeHandle \cup {NoHandle, x}]
      /\ \A k \in Handle : native'[k] = IF k = h THEN x ELSE native[k]
  BY LenProperties DEF CallInv, ServiceTypeOK
<1>2. /\ DOMAIN Append(s, h) = 1..Len(s) + 1
      /\ \A i \in 1..Len(s) : Append(s, h)[i] = s[i]
      /\ Append(s, h)[Len(s) + 1] = h
  BY <1>1, AppendProperties
<1>3. \A u \in Thread : ~Releases(u, h)
  BY DEF HandleInv
<1>4. \A u \in Thread, k \in Handle : Releases(u, k)' <=> Releases(u, k) \/ (u = t /\ k = h)
  <2> TAKE u \in Thread, k \in Handle
  <2>1. CASE u # t
    BY <1>1, <2>1 DEF Releases
  <2>2. CASE u = t
    <3>1. Releases(t, k)' <=> \E i \in 1..Len(s) + 1 : Append(s, h)[i] = k
      BY <1>1, <1>2 DEF Releases
    <3>2. Releases(t, k) <=> \E i \in 1..Len(s) : s[i] = k
      BY <1>1 DEF Releases
    <3>3. Len(s) + 1 \in 1..Len(s) + 1
      BY <1>1
    <3>4. \A i \in 1..Len(s) + 1 : i \in 1..Len(s) \/ i = Len(s) + 1
      BY <1>1
    <3>5. \A i \in 1..Len(s) : i \in 1..Len(s) + 1
      BY <1>1
    <3> QED BY <1>2, <2>2, <3>1, <3>2, <3>3, <3>4, <3>5
  <2> QED BY <2>1, <2>2
<1>5. \A u \in Thread : \A i, j \in DOMAIN handles'[u] : handles'[u][i] = handles'[u][j] => i = j
  <2> TAKE u \in Thread
  <2>1. CASE u # t
    BY <1>1, <2>1 DEF HandleInv
  <2>2. CASE u = t
    <3>1. \A i \in 1..Len(s) : s[i] # h
      BY <1>1, <1>3 DEF Releases
    <3> QED BY <1>1, <1>2, <2>2, <3>1 DEF HandleInv
  <2> QED BY <2>1, <2>2
<1>6. \A k \in Handle : native'[k] # NoHandle <=> \E u \in Thread : Releases(u, k)'
  BY <1>1, <1>4 DEF HandleInv
<1>7. \A k \in Handle, u, v \in Thread : Releases(u, k)' /\ Releases(v, k)' => u = v
  BY <1>3, <1>4 DEF HandleInv
<1> QED BY <1>4, <1>5, <1>6, <1>7 DEF HandleInv

\* A vector that loses its first handle, which goes.
LEMMA HandleTaken ==
  ASSUME CallInv, HandleInv, NEW t \in Thread, pc[t] = "close",
         native' = [native EXCEPT ![Head(handles[t])] = NoHandle],
         handles' = [handles EXCEPT ![t] = Tail(@)]
  PROVE  HandleInv' /\ \A u \in Thread, k \in Handle :
                        Releases(u, k)' <=> Releases(u, k) /\ k # Head(handles[t])
<1> DEFINE s == handles[t]
           h == Head(s)
<1>1. /\ s \in Seq(Handle) /\ s # <<>> /\ h \in Handle /\ Releases(t, h)
      /\ \A u \in Thread : u # t => handles'[u] = handles[u]
      /\ handles'[t] = Tail(s)
      /\ \A k \in Handle : native'[k] = IF k = h THEN NoHandle ELSE native[k]
  BY NextHandle, HeadOwned DEF CallInv, ServiceTypeOK
<1>2. /\ Len(s) \in Nat \ {0} /\ DOMAIN s = 1..Len(s) /\ h = s[1]
      /\ DOMAIN Tail(s) = 1..Len(s) - 1
      /\ \A i \in 1..Len(s) - 1 : Tail(s)[i] = s[i + 1]
  BY <1>1, Taking, LenProperties
<1>3. \A i \in DOMAIN s : s[i] = h => i = 1
  BY <1>2 DEF HandleInv
<1>4. \A u \in Thread, k \in Handle : Releases(u, k)' <=> Releases(u, k) /\ k # h
  <2> TAKE u \in Thread, k \in Handle
  <2>1. CASE u # t
    BY <1>1, <2>1 DEF Releases, HandleInv
  <2>2. CASE u = t
    <3>1. ASSUME Releases(t, k)' PROVE Releases(t, k) /\ k # h
      <4>0. PICK i \in DOMAIN Tail(s) : Tail(s)[i] = k
        BY <1>1, <3>1 DEF Releases
      <4>1. i \in 1..Len(s) - 1 /\ s[i + 1] = k
        BY <1>2, <4>0
      <4>2. i + 1 \in DOMAIN s /\ i + 1 # 1
        BY <1>2, <4>1
      <4> QED BY <1>3, <4>1, <4>2 DEF Releases
    <3>2. ASSUME Releases(t, k), k # h PROVE Releases(t, k)'
      <4>1. PICK i \in 1..Len(s) : s[i] = k
        BY <1>2, <3>2 DEF Releases
      <4>2. i - 1 \in 1..Len(s) - 1 /\ Tail(s)[i - 1] = k
        <5>1. i # 1
          BY <1>2, <3>2, <4>1
        <5>2. i - 1 \in 1..Len(s) - 1 /\ (i - 1) + 1 = i
          BY <1>2, <5>1
        <5> QED BY <1>2, <4>1, <5>2
      <4> QED BY <1>1, <1>2, <4>2 DEF Releases
    <3> QED BY <2>2, <3>1, <3>2
  <2> QED BY <2>1, <2>2
<1>5. \A u \in Thread : \A i, j \in DOMAIN handles'[u] : handles'[u][i] = handles'[u][j] => i = j
  <2> TAKE u \in Thread
  <2>1. CASE u # t
    BY <1>1, <2>1 DEF HandleInv
  <2>2. CASE u = t
    <3>0. DOMAIN handles'[u] = 1..Len(s) - 1 /\ \A i \in 1..Len(s) - 1 : handles'[u][i] = s[i + 1]
      BY <1>1, <1>2, <2>2
    <3>1. ASSUME NEW i \in 1..Len(s) - 1, NEW j \in 1..Len(s) - 1, s[i + 1] = s[j + 1]
          PROVE  i = j
      <4>1. i + 1 \in DOMAIN s /\ j + 1 \in DOMAIN s
        BY <1>2
      <4>2. i + 1 = j + 1
        BY <3>1, <4>1 DEF HandleInv
      <4> QED BY <4>2
    <3> DEFINE tl == handles'[t]
    <3>2. DOMAIN tl = 1..Len(s) - 1 /\ \A i \in DOMAIN tl : tl[i] = s[i + 1]
      BY <2>2, <3>0
    <3> HIDE DEF s, tl
    <3>3. \A i, j \in DOMAIN tl : tl[i] = tl[j] => i = j
      BY <3>1, <3>2
    <3> QED BY <2>2, <3>3 DEF tl
  <2> QED BY <2>1, <2>2
<1>6. \A k \in Handle : native'[k] # NoHandle <=> \E u \in Thread : Releases(u, k)'
  BY <1>1, <1>4 DEF HandleInv
<1>7. \A k \in Handle, u, v \in Thread : Releases(u, k)' /\ Releases(v, k)' => u = v
  BY <1>4 DEF HandleInv
<1> QED BY <1>4, <1>5, <1>6, <1>7 DEF HandleInv

\* A result more, and still within the count.
LEMMA OneMore ==
  \A a, b, c \in Nat : a + b = c /\ b > 0 => (a + 1) + b = c + 1 /\ a + 1 <= c /\ b <= c
OBVIOUS

\* dupToAidl() adds one result for the handle that is released next.
LEMMA DupInv ==
  ASSUME CallInv, HandleInv, NEW t \in Thread, DupToAidl(t)
  PROVE  CallInv'
<1> DEFINE p == native[Head(handles[t])].prime_fd
<1>1. /\ pc[t] = "dup" /\ pc' = [pc EXCEPT ![t] = "free"]
      /\ UNCHANGED <<libVars, _gbmDevFd, native, count, handles, status>>
  BY DEF DupToAidl, Goto
<1>2. /\ handles[t] \in Seq(Handle) /\ handles[t] # <<>> /\ Len(handles[t]) > 0
      /\ Len(handles[t]) <= count[t] /\ Len(handles[t]) \in Nat /\ Len(out[t]) \in Nat
      /\ out[t] \in Seq(Fd \cup {NoFd}) /\ count[t] \in Nat
  BY <1>1, NextHandle
<1>14. count[t] \in Counts \cup {0} /\ status[t] \in Status
  BY <1>1, NextHandle
<1>3. status[t] = "OK" /\ Len(out[t]) + Len(handles[t]) = count[t]
  BY <1>1 DEF CallInv, Progress
<1>4. /\ native \in [Handle -> NativeHandle \cup {NoHandle}] /\ fds \in [Fd -> Buffer \cup {NoFile}]
      /\ TypeOK /\ out \in [Thread -> Seq(Fd \cup {NoFd})]
      /\ count \in [Thread -> Counts \cup {0}] /\ status \in [Thread -> Status]
      /\ handles \in [Thread -> Seq(Handle)]
      /\ pc \in [Thread -> {"idle", "allocate", "dup", "free", "close", "reply"}]
  BY DEF CallInv, ServiceTypeOK
<1>5. PICK g \in Fd \cup {NoFd} : out' = [out EXCEPT ![t] = Append(@, g)]
  BY DEF DupToAidl
<1>6. fds' \in [Fd -> Buffer \cup {NoFile}]
  <2>1. CASE UNCHANGED fds
    BY <1>4, <2>1
  <2>2. ASSUME NEW f \in Fd, p # NoFd, fds' = [fds EXCEPT ![f] = fds[p]]
        PROVE  fds' \in [Fd -> Buffer \cup {NoFile}]
    <3>1. native[Head(handles[t])] \in NativeHandle
      BY <1>1, <1>4, NextHandle, HeadOwned
    <3>2. p \in Fd
      BY <2>2, <3>1 DEF NativeHandle
    <3> QED BY <1>4, <2>2, <3>2
  <2> QED BY <2>1, <2>2 DEF DupToAidl
<1>7. TypeOK' /\ DeviceHeld'
  BY <1>1, <1>4 DEF TypeOK, CallInv, DeviceHeld, libVars
<1>8. /\ count' = [count EXCEPT ![t] = count[t]] /\ status' = [status EXCEPT ![t] = status[t]]
      /\ handles' = [handles EXCEPT ![t] = handles[t]]
  BY <1>1, <1>4
<1> DEFINE o == Append(out[t], g)
<1>9. o \in Seq(Fd \cup {NoFd}) /\ Len(o) = Len(out[t]) + 1
  BY <1>2, AppendProperties
<1>10. out' = [out EXCEPT ![t] = o] /\ out'[t] = o
  BY <1>4, <1>5
<1> HIDE DEF o, p
<1>15. /\ Len(handles[t]) \in Nat /\ Len(out[t]) \in Nat /\ count[t] \in Nat /\ Len(handles[t]) > 0
       /\ Len(out[t]) + Len(handles[t]) = count[t] /\ Len(o) = Len(out[t]) + 1
  BY <1>2, <1>3, <1>9
<1>11. Progress(t)'
  <2>1. pc'[t] = "free" /\ handles'[t] = handles[t] /\ status'[t] = "OK" /\ count'[t] = count[t]
    BY <1>1, <1>3, <1>4
  <2>2. Len(out'[t]) + Len(handles'[t]) = count'[t] + 1
    <3>1. (Len(out[t]) + 1) + Len(handles[t]) = count[t] + 1
      BY <1>15, OneMore
    <3>2. Len(out'[t]) = Len(out[t]) + 1 /\ handles'[t] = handles[t] /\ count'[t] = count[t]
      BY <1>10, <1>15, <2>1
    <3> QED BY <3>1, <3>2, Zenon
  <2> QED BY <1>2, <2>1, <2>2 DEF Progress
<1>12. Len(handles[t]) <= count[t] /\ Len(o) <= count[t]
  BY <1>15, OneMore
<1>13. native' \in [Handle -> NativeHandle \cup {NoHandle}]
  BY <1>1, <1>4
<1> QED BY <1>1, <1>2, <1>6, <1>7, <1>8, <1>9, <1>10, <1>11, <1>12, <1>13, <1>14, OneCall

\* Steps of a call that change its program counter only.
LEMMA SameCall ==
  ASSUME CallInv, NEW t \in Thread, pc[t] # "idle",
         NEW p \in {"idle", "allocate", "dup", "free", "close", "reply"},
         pc' = [pc EXCEPT ![t] = p], UNCHANGED <<_gbmDevFd, native, fds, count, handles, out, status>>,
         TypeOK', crashed' = FALSE, gbm_dev' = gbm_dev, Progress(t)'
  PROVE  CallInv'
<1>1. /\ count \in [Thread -> Counts \cup {0}] /\ status \in [Thread -> Status]
      /\ handles \in [Thread -> Seq(Handle)] /\ out \in [Thread -> Seq(Fd \cup {NoFd})]
      /\ Len(handles[t]) <= count[t] /\ Len(out[t]) <= count[t]
      /\ native \in [Handle -> NativeHandle \cup {NoHandle}] /\ fds \in [Fd -> Buffer \cup {NoFile}]
  BY DEF CallInv, ServiceTypeOK
<1>2. /\ count' = [count EXCEPT ![t] = count[t]] /\ status' = [status EXCEPT ![t] = status[t]]
      /\ handles' = [handles EXCEPT ![t] = handles[t]] /\ out' = [out EXCEPT ![t] = out[t]]
  BY <1>1
<1>3. DeviceHeld'
  BY DEF CallInv, ServiceTypeOK, DeviceHeld
<1>4. /\ count[t] \in Counts \cup {0} /\ status[t] \in Status
      /\ handles[t] \in Seq(Handle) /\ out[t] \in Seq(Fd \cup {NoFd})
  BY <1>1
<1> QED BY <1>1, <1>2, <1>3, <1>4, OneCall

\* A call for no buffer at all replies.
LEMMA NothingInv ==
  ASSUME CallInv, NEW t \in Thread, AllocateNothing(t)
  PROVE  CallInv'
<1>1. /\ pc[t] = "allocate" /\ count[t] = 0 /\ pc' = [pc EXCEPT ![t] = "reply"]
      /\ UNCHANGED <<libVars, _gbmDevFd, native, fds, count, handles, out, status>>
  BY DEF AllocateNothing, Goto
<1>2. /\ status[t] = "OK" /\ out[t] = <<>> /\ handles[t] \in Seq(Handle)
      /\ handles[t] # <<>> => Len(handles[t]) < count[t]
  BY <1>1 DEF CallInv, Progress
<1>3. handles[t] = <<>>
  BY <1>1, <1>2, EmptySeq
<1>4. Progress(t)'
  <2>1. pc'[t] = "reply"
    BY <1>1 DEF CallInv, ServiceTypeOK
  <2>2. Len(<<>>) = 0
    OBVIOUS
  <2> QED BY <1>1, <1>2, <1>3, <2>1, <2>2 DEF Progress
<1>5. TypeOK' /\ crashed' = FALSE
  BY <1>1 DEF CallInv, ServiceTypeOK, TypeOK, libVars, DeviceHeld
<1> QED BY <1>1, <1>4, <1>5, SameCall DEF libVars

\* The buffer object goes before the handle.
LEMMA FreeInv ==
  ASSUME CallInv, NEW t \in Thread, FreeBuffer(t)
  PROVE  CallInv'
<1>1. /\ pc[t] = "free" /\ pc' = [pc EXCEPT ![t] = "close"]
      /\ UNCHANGED <<_gbmDevFd, native, fds, count, handles, out, status>>
  BY DEF FreeBuffer, Goto
<1>2. TypeOK' /\ crashed' = FALSE /\ gbm_dev' = gbm_dev
  <2>1. TypeOK /\ crashed = FALSE
    BY DEF CallInv, ServiceTypeOK, DeviceHeld
  <2> QED BY <2>1 DEF FreeBuffer, gralloc_gm_buffer_free, libVars, TypeOK
<1>3. Progress(t)'
  <2>1. pc'[t] = "close"
    BY <1>1 DEF CallInv, ServiceTypeOK
  <2> QED BY <1>1, <2>1 DEF CallInv, Progress
<1> QED BY <1>1, <1>2, <1>3, SameCall

\* A handle less: the next is duplicated or freed, or the call replies.
LEMMA CloseInv ==
  ASSUME CallInv, HandleInv, NEW t \in Thread, CloseAndDelete(t)
  PROVE  CallInv'
<1> DEFINE h == Head(handles[t])
           fd == native[h].prime_fd
           hs == Tail(handles[t])
           p == IF Len(handles[t]) = 1 THEN "reply" ELSE IF status[t] = "OK" THEN "dup" ELSE "free"
<1>1. /\ pc[t] = "close" /\ pc' = [pc EXCEPT ![t] = p]
      /\ fds' = IF fd = NoFd THEN fds ELSE [fds EXCEPT ![fd] = NoFile]
      /\ native' = [native EXCEPT ![h] = NoHandle]
      /\ handles' = [handles EXCEPT ![t] = hs]
      /\ UNCHANGED <<libVars, _gbmDevFd, count, out, status>>
  BY DEF CloseAndDelete, Goto
<1>2. /\ handles[t] # <<>> /\ hs \in Seq(Handle) /\ Len(hs) = Len(handles[t]) - 1
      /\ Len(handles[t]) \in Nat /\ Len(handles[t]) > 0 /\ Len(handles[t]) <= count[t]
      /\ Len(out[t]) \in Nat /\ Len(out[t]) <= count[t] /\ count[t] \in Nat
      /\ out[t] \in Seq(Fd \cup {NoFd})
  BY <1>1, NextHandle
<1>3. count[t] \in Counts \cup {0} /\ status[t] \in Status
  BY <1>1, NextHandle
<1>4. IF status[t] = "OK" THEN Len(out[t]) + Len(handles[t]) = count[t] + 1 ELSE out[t] = <<>>
  BY <1>1 DEF CallInv, Progress
<1>5. /\ count \in [Thread -> Counts \cup {0}] /\ status \in [Thread -> Status]
      /\ handles \in [Thread -> Seq(Handle)] /\ out \in [Thread -> Seq(Fd \cup {NoFd})]
      /\ native \in [Handle -> NativeHandle \cup {NoHandle}] /\ fds \in [Fd -> Buffer \cup {NoFile}]
      /\ pc \in [Thread -> {"idle", "allocate", "dup", "free", "close", "reply"}]
      /\ TypeOK
  BY DEF CallInv, ServiceTypeOK
<1>6. p \in {"reply", "dup", "free"}
  OBVIOUS
<1>7. TypeOK' /\ DeviceHeld'
  BY <1>1, <1>5 DEF TypeOK, CallInv, DeviceHeld, libVars
<1>8. native' \in [Handle -> NativeHandle \cup {NoHandle}] /\ fds' \in [Fd -> Buffer \cup {NoFile}]
  BY <1>1, <1>5
<1>9. /\ count' = [count EXCEPT ![t] = count[t]] /\ status' = [status EXCEPT ![t] = status[t]]
      /\ out' = [out EXCEPT ![t] = out[t]]
  BY <1>1, <1>5
<1> HIDE DEF hs, fd, h
<1>15. hs \in Seq(Handle) /\ Len(hs) \in Nat /\ Len(hs) = Len(handles[t]) - 1
  BY <1>2
<1>16. /\ Len(hs) <= count[t]
       /\ Len(handles[t]) = 1 <=> Len(hs) = 0
       /\ Len(out[t]) + Len(handles[t]) = count[t] + 1 => Len(out[t]) + Len(hs) = count[t]
       /\ Len(handles[t]) = 1 => (Len(out[t]) + Len(handles[t]) = count[t] + 1 => Len(out[t]) = count[t])
  <2>1. PICK l \in Nat \ {0}, m, o, c \in Nat :
          l = Len(handles[t]) /\ m = Len(hs) /\ o = Len(out[t]) /\ c = count[t]
    <3>1. Len(handles[t]) \in Nat \ {0} /\ Len(out[t]) \in Nat /\ count[t] \in Nat /\ Len(hs) \in Nat
      BY <1>2, <1>15
    <3> QED BY <3>1, Zenon
  <2>2. m = l - 1 /\ l <= c
    BY <1>2, <1>15, <2>1, Zenon
  <2>3. /\ m <= c
        /\ l = 1 <=> m = 0
        /\ o + l = c + 1 => o + m = c
        /\ l = 1 => (o + l = c + 1 => o = c)
    BY <2>2
  <2> QED BY <2>1, <2>3, Zenon
<1>10. /\ Len(handles[t]) = 1 => hs = <<>>
       /\ Len(handles[t]) # 1 => hs # <<>>
       /\ Len(hs) <= count[t]
  BY <1>15, <1>16, EmptySeq
<1>11. status[t] = "OK" => Len(out[t]) + Len(hs) = count[t]
  BY <1>4, <1>16, Zenon
<1>12. status[t] = "OK" /\ Len(handles[t]) = 1 => Len(out[t]) = count[t]
  BY <1>4, <1>16, Zenon
<1>13. status[t] # "OK" => Len(out[t]) = 0 /\ out[t] = <<>>
  BY <1>4
<1>14. Progress(t)'
  <2>1. /\ pc'[t] = p /\ handles'[t] = hs /\ out'[t] = out[t] /\ status'[t] = status[t]
        /\ count'[t] = count[t]
    BY <1>1, <1>5
  <2>2. CASE Len(handles[t]) = 1
    BY <1>10, <1>12, <1>13, <2>1, <2>2 DEF Progress
  <2>3. CASE Len(handles[t]) # 1 /\ status[t] = "OK"
    BY <1>10, <1>11, <2>1, <2>3 DEF Progress
  <2>4. CASE Len(handles[t]) # 1 /\ status[t] # "OK"
    BY <1>10, <1>13, <2>1, <2>4 DEF Progress
  <2> QED BY <2>2, <2>3, <2>4
<1> HIDE DEF p
<1>17. pc' = [pc EXCEPT ![t] = p] /\ handles' = [handles EXCEPT ![t] = hs] /\ UNCHANGED _gbmDevFd
  BY <1>1
<1>18. Len(out[t]) <= count[t] /\ out[t] \in Seq(Fd \cup {NoFd}) /\ Len(hs) <= count[t]
  BY <1>2, <1>10
<1> QED BY <1>3, <1>6, <1>7, <1>8, <1>9, <1>14, <1>15, <1>17, <1>18, OneCall

\* The reply leaves the thread as it found it.
LEMMA ReplyInv ==
  ASSUME CallInv, NEW t \in Thread, Reply(t)
  PROVE  CallInv'
<1>1. /\ pc[t] = "reply" /\ pc' = [pc EXCEPT ![t] = "idle"]
      /\ out' = [out EXCEPT ![t] = <<>>] /\ status' = [status EXCEPT ![t] = "OK"]
      /\ count' = [count EXCEPT ![t] = 0]
      /\ UNCHANGED <<libVars, _gbmDevFd, native, handles>>
  BY DEF Reply, Goto
<1>2. handles[t] = <<>> /\ Len(<<>>) = 0 /\ <<>> \in Seq(Handle) /\ <<>> \in Seq(Fd \cup {NoFd})
  BY <1>1, EmptySeq DEF CallInv, Progress
<1>3. /\ native \in [Handle -> NativeHandle \cup {NoHandle}] /\ fds \in [Fd -> Buffer \cup {NoFile}]
      /\ handles \in [Thread -> Seq(Handle)] /\ TypeOK
  BY DEF CallInv, ServiceTypeOK
<1>4. TypeOK' /\ DeviceHeld'
  BY <1>1, <1>3 DEF TypeOK, CallInv, DeviceHeld, libVars, ServiceTypeOK
<1>5. fds' \in [Fd -> Buffer \cup {NoFile}]
  BY <1>3 DEF Reply
<1>6. Progress(t)'
  <2>1. pc'[t] = "idle" /\ handles'[t] = <<>> /\ out'[t] = <<>>
    BY <1>1, <1>2 DEF CallInv, ServiceTypeOK
  <2> QED BY <2>1 DEF Progress
<1>7. handles' = [handles EXCEPT ![t] = <<>>]
  BY <1>1, <1>2, <1>3
<1>8. "OK" \in Status /\ 0 \in Counts \cup {0} /\ Len(<<>>) <= 0
  BY <1>2 DEF Status
<1>9. UNCHANGED _gbmDevFd /\ native' \in [Handle -> NativeHandle \cup {NoHandle}]
  BY <1>1, <1>3
<1> QED BY <1>1, <1>2, <1>4, <1>5, <1>6, <1>7, <1>8, <1>9, OneCall

\* main() opens the device before it starts a thread.
LEMMA StartInv ==
  ASSUME CallInv, StartService
  PROVE  CallInv'
<1>1. /\ gbm_dev' = TRUE /\ UNCHANGED <<gbm_bo_handle_map, bos, user_data, crashed>>
      /\ _gbmDevFd' = TRUE /\ UNCHANGED <<native, fds, pc, count, handles, out, status>>
  BY DEF StartService, gralloc_gbm_device_init, threadVars, OK
<1>2. ServiceTypeOK'
  BY <1>1 DEF CallInv, ServiceTypeOK, TypeOK
<1>3. DeviceHeld' /\ \A t \in Thread : Progress(t)'
  BY <1>1 DEF CallInv, DeviceHeld, Progress
<1> QED BY <1>1, <1>2, <1>3 DEF CallInv

-----------------------------------------------------------------------------
(* Who holds a descriptor, and which buffer is behind it. *)

\* Native handle h holds descriptor f.
Owns(h, f) == native[h] # NoHandle /\ native[h].prime_fd = f

\* Descriptor f is in the result of thread t.
Returns(t, f) == \E i \in DOMAIN out[t] : out[t][i] = f

\* An open descriptor has one holder: a native handle or a place in a result.
FdInv ==
  /\ \A f \in Fd : fds[f] # NoFile <=>
       (\E h \in Handle : Owns(h, f)) \/ (\E t \in Thread : Returns(t, f))
  /\ \A f \in Fd : \A h, k \in Handle : Owns(h, f) /\ Owns(k, f) => h = k
  /\ \A f \in Fd : \A h \in Handle, t \in Thread : ~(Owns(h, f) /\ Returns(t, f))
  /\ \A f \in Fd : \A t, u \in Thread : Returns(t, f) /\ Returns(u, f) => t = u
  /\ \A t \in Thread : \A i, j \in DOMAIN out[t] : out[t][i] = out[t][j] => i = j \/ out[t][i] = NoFd

\* A handle's descriptor is open on its buffer, which no other handle has; a
\* result is on the buffer of a handle only while its thread releases that one.
BufferInv ==
  /\ \A f \in Fd : \A h \in Handle : Owns(h, f) => fds[f] = native[h].buffer
  /\ \A h, k \in Handle :
       native[h] # NoHandle /\ native[k] # NoHandle /\ native[h].buffer = native[k].buffer => h = k
  /\ \A f, g \in Fd : \A t, u \in Thread : Returns(t, f) /\ Returns(u, g) /\ fds[f] = fds[g] => f = g
  /\ \A f \in Fd : \A t \in Thread, h \in Handle :
       Returns(t, f) /\ native[h] # NoHandle /\ native[h].buffer = fds[f] =>
         pc[t] \in {"free", "close"} /\ Head(handles[t]) = h

\* A handle is registered until its thread has freed its buffer object.
EntryInv ==
  \A h \in Handle : gbm_bo_handle_map[h] # NoBo <=>
    native[h] # NoHandle /\ \A t \in Thread : pc[t] = "close" => Head(handles[t]) # h

HolderInv == FdInv /\ BufferInv /\ EntryInv

\* Steps of a call that has returned nothing yet, and releases nothing.
LEMMA QuietInv ==
  ASSUME CallInv, HandleInv, HolderInv, NEW t \in Thread, pc[t] \in {"idle", "allocate"},
         NEW p, p # "close", pc' = [pc EXCEPT ![t] = p],
         UNCHANGED <<gbm_bo_handle_map, native, fds, handles, out>>
  PROVE  HandleInv' /\ HolderInv'
<1>1. /\ \A u \in Thread : pc'[u] = IF u = t THEN p ELSE pc[u]
      /\ out[t] = <<>>
  BY DEF CallInv, ServiceTypeOK, Progress
<1>2. \A f \in Fd : ~Returns(t, f)
  BY <1>1 DEF Returns
<1>3. \A u \in Thread, f \in Fd : Returns(u, f)' <=> Returns(u, f)
  BY DEF Returns
<1>4. \A h \in Handle, f \in Fd : Owns(h, f)' <=> Owns(h, f)
  BY DEF Owns
<1>5. FdInv'
  BY <1>3, <1>4 DEF HolderInv, FdInv
<1>6. BufferInv'
  BY <1>1, <1>2, <1>3, <1>4 DEF HolderInv, BufferInv
<1>7. EntryInv'
  BY <1>1 DEF HolderInv, EntryInv
<1>8. HandleInv'
  BY DEF HandleInv, Releases
<1> QED BY <1>5, <1>6, <1>7, <1>8 DEF HolderInv

\* gbm_bo_create() made a buffer and its handle: both are new, and so is the
\* descriptor.
LEMMA AllocatedHolders ==
  ASSUME CallInv, HandleInv, HolderInv, NEW t \in Thread, pc[t] = "allocate", UNCHANGED out,
         NEW h \in Handle, NEW b \in Bo, NEW f \in Fd \cup {NoFd}, NEW buf \in Buffer,
         NewBo(h, b), Allocated(t, h, f, buf)
  PROVE  HandleInv' /\ HolderInv'
<1> DEFINE x == [prime_fd |-> f, buffer |-> buf]
           p == IF MadeAll(t) THEN "dup" ELSE "allocate"
<1>1. x # NoHandle /\ x.prime_fd = f /\ x.buffer = buf /\ buf # NoFile /\ b # NoBo
  BY ServiceAssumption, GrallocAssumption
<1>2. /\ native[h] = NoHandle /\ native' = [native EXCEPT ![h] = x]
      /\ handles' = [handles EXCEPT ![t] = Append(@, h)]
      /\ pc' = [pc EXCEPT ![t] = p] /\ p # "close" /\ p # "free"
      /\ f # NoFd => fds[f] = NoFile
      /\ fds' = IF f = NoFd THEN fds ELSE [fds EXCEPT ![f] = buf]
      /\ \A g \in Fd : fds[g] # buf
      /\ \A k \in Handle : native[k] # NoHandle => native[k].buffer # buf
  BY DEF Allocated, Goto
<1> HIDE DEF x, p
<1>3. /\ \A k \in Handle : native'[k] = IF k = h THEN x ELSE native[k]
      /\ \A u \in Thread : pc'[u] = IF u = t THEN p ELSE pc[u]
      /\ \A u \in Thread : u # t => handles'[u] = handles[u]
      /\ \A g \in Fd : fds'[g] = IF g = f THEN buf ELSE fds[g]
      /\ out[t] = <<>> /\ NoFd \notin Fd
  BY <1>2, GrallocAssumption DEF CallInv, ServiceTypeOK, Progress
<1>4. HandleInv'
  BY <1>1, <1>2, HandleAdded
<1>5. \A k \in Handle, g \in Fd : Owns(k, g)' <=> IF k = h THEN g = f ELSE Owns(k, g)
  BY <1>1, <1>3 DEF Owns
<1>6. \A u \in Thread, g \in Fd : (Returns(u, g)' <=> Returns(u, g)) /\ ~Returns(t, g)
  BY <1>3 DEF Returns
<1>7. f \in Fd => (\A k \in Handle : ~Owns(k, f)) /\ \A u \in Thread : ~Returns(u, f)
  BY <1>2, <1>3 DEF HolderInv, FdInv
<1>8. \A g \in Fd : ~Owns(h, g)
  BY <1>2 DEF Owns
<1>9. FdInv'
  <2>1. \A g \in Fd : fds'[g] # NoFile <=>
          (\E k \in Handle : Owns(k, g)') \/ (\E u \in Thread : Returns(u, g)')
    <3> TAKE g \in Fd
    <3>1. CASE g = f
      BY <1>1, <1>3, <1>5, <3>1
    <3>2. CASE g # f
      BY <1>3, <1>5, <1>6, <1>8, <3>2 DEF HolderInv, FdInv
    <3> QED BY <3>1, <3>2
  <2>2. \A g \in Fd : \A k, l \in Handle : Owns(k, g)' /\ Owns(l, g)' => k = l
    BY <1>5, <1>7 DEF HolderInv, FdInv
  <2>3. \A g \in Fd : \A k \in Handle, u \in Thread : ~(Owns(k, g)' /\ Returns(u, g)')
    BY <1>5, <1>6, <1>7 DEF HolderInv, FdInv
  <2>4. \A g \in Fd : \A u, v \in Thread : Returns(u, g)' /\ Returns(v, g)' => u = v
    BY <1>6 DEF HolderInv, FdInv
  <2> QED BY <2>1, <2>2, <2>3, <2>4 DEF HolderInv, FdInv
<1>10. BufferInv'
  <2>1. \A g \in Fd : \A k \in Handle : Owns(k, g)' => fds'[g] = native'[k].buffer
    BY <1>1, <1>3, <1>5, <1>7 DEF HolderInv, BufferInv
  <2>2. \A k, l \in Handle :
          native'[k] # NoHandle /\ native'[l] # NoHandle /\ native'[k].buffer = native'[l].buffer => k = l
    BY <1>1, <1>2, <1>3 DEF HolderInv, BufferInv
  <2>3. \A u \in Thread, g \in Fd : Returns(u, g)' => fds'[g] = fds[g] /\ u # t
    BY <1>3, <1>6, <1>7
  <2>4. \A e, g \in Fd : \A u, v \in Thread :
          Returns(u, e)' /\ Returns(v, g)' /\ fds'[e] = fds'[g] => e = g
    BY <1>6, <2>3 DEF HolderInv, BufferInv
  <2>5. \A g \in Fd : \A u \in Thread, k \in Handle :
          Returns(u, g)' /\ native'[k] # NoHandle /\ native'[k].buffer = fds'[g] =>
            pc'[u] \in {"free", "close"} /\ Head(handles'[u]) = k
    BY <1>1, <1>2, <1>3, <1>6, <2>3 DEF HolderInv, BufferInv
  <2> QED BY <2>1, <2>2, <2>4, <2>5 DEF BufferInv
<1>11. EntryInv'
  <2>1. \A k \in Handle : gbm_bo_handle_map'[k] = IF k = h THEN b ELSE gbm_bo_handle_map[k]
    BY <1>2 DEF HolderInv, EntryInv, NewBo, Emplace, CallInv, ServiceTypeOK, TypeOK
  <2>2. \A u \in Thread : pc'[u] = "close" => pc[u] = "close" /\ handles'[u] = handles[u] /\ Head(handles[u]) # h
    BY <1>2, <1>3, HeadOwned
  <2>3. \A u \in Thread : pc[u] = "close" => pc'[u] = "close" /\ handles'[u] = handles[u]
    BY <1>3
  <2> QED BY <1>1, <1>3, <2>1, <2>2, <2>3 DEF HolderInv, EntryInv
<1> QED BY <1>4, <1>9, <1>10, <1>11 DEF HolderInv

\* A result more at the end of a thread's.
LEMMA ResultAdded ==
  ASSUME CallInv, NEW t \in Thread, NEW g \in Fd \cup {NoFd},
         out' = [out EXCEPT ![t] = Append(@, g)], \A u \in Thread : g \in Fd => ~Returns(u, g),
         \A i, j \in DOMAIN out[t] : out[t][i] = out[t][j] => i = j \/ out[t][i] = NoFd
  PROVE  /\ \A u \in Thread, f \in Fd : Returns(u, f)' <=> Returns(u, f) \/ (u = t /\ f = g)
         /\ \A u \in Thread : u # t => out'[u] = out[u]
         /\ \A i, j \in DOMAIN out'[t] : out'[t][i] = out'[t][j] => i = j \/ out'[t][i] = NoFd
<1> DEFINE s == out[t]
           n == Append(s, g)
<1>1. /\ s \in Seq(Fd \cup {NoFd}) /\ Len(s) \in Nat /\ DOMAIN s = 1..Len(s)
      /\ \A u \in Thread : u # t => out'[u] = out[u]
      /\ out'[t] = n
  BY LenProperties DEF CallInv
<1>2. /\ DOMAIN n = 1..Len(s) + 1
      /\ \A i \in 1..Len(s) : n[i] = s[i]
      /\ n[Len(s) + 1] = g
  BY <1>1, AppendProperties
<1>3. \A f \in Fd : Returns(t, f) <=> \E i \in 1..Len(s) : s[i] = f
  BY <1>1 DEF Returns
<1>4. \A f \in Fd : Returns(t, f)' <=> \E i \in 1..Len(s) + 1 : n[i] = f
  BY <1>1, <1>2 DEF Returns
<1>5. \A f \in Fd : Returns(t, f)' <=> Returns(t, f) \/ f = g
  <2>1. Len(s) + 1 \in 1..Len(s) + 1
    BY <1>1
  <2>2. \A i \in 1..Len(s) + 1 : i \in 1..Len(s) \/ i = Len(s) + 1
    BY <1>1
  <2>3. \A i \in 1..Len(s) : i \in 1..Len(s) + 1
    BY <1>1
  <2> QED BY <1>2, <1>3, <1>4, <2>1, <2>2, <2>3
<1>6. \A u \in Thread, f \in Fd : u # t => (Returns(u, f)' <=> Returns(u, f))
  BY <1>1 DEF Returns
<1>7. \A i \in 1..Len(s) : s[i] = g => g = NoFd
  BY <1>3
<1>8. ASSUME NEW i \in 1..Len(s) + 1, NEW j \in 1..Len(s) + 1, n[i] = n[j], n[i] # NoFd
      PROVE  i = j
  <2>1. CASE i \in 1..Len(s) /\ j \in 1..Len(s)
    <3>1. s[i] = s[j] /\ s[i] # NoFd /\ i \in DOMAIN s /\ j \in DOMAIN s
      BY <1>1, <1>2, <1>8, <2>1
    <3> QED BY <3>1
  <2>2. CASE i \in 1..Len(s) /\ j = Len(s) + 1
    BY <1>2, <1>7, <1>8, <2>2
  <2>3. CASE j \in 1..Len(s) /\ i = Len(s) + 1
    BY <1>2, <1>7, <1>8, <2>3
  <2>4. \A k \in 1..Len(s) + 1 : k \in 1..Len(s) \/ k = Len(s) + 1
    BY <1>1
  <2> QED BY <1>8, <2>1, <2>2, <2>3, <2>4
<1> HIDE DEF n
<1>9. \A i, j \in DOMAIN n : n[i] = n[j] => i = j \/ n[i] = NoFd
  BY <1>2, <1>8
<1> QED BY <1>1, <1>5, <1>6, <1>9

\* The result is on the buffer of the handle it is made from, which its thread
\* frees next.
LEMMA DupHolders ==
  ASSUME CallInv, HandleInv, HolderInv, NEW t \in Thread, DupToAidl(t)
  PROVE  HandleInv' /\ HolderInv'
<1> DEFINE h == Head(handles[t])
           e == native[h].prime_fd
<1>1. /\ pc[t] = "dup" /\ pc' = [pc EXCEPT ![t] = "free"]
      /\ UNCHANGED <<gbm_bo_handle_map, native, handles>>
  BY DEF DupToAidl, Goto, libVars
<1>2. /\ h \in Handle /\ native[h] # NoHandle /\ Releases(t, h) /\ NoFd \notin Fd
      /\ \A u \in Thread : pc'[u] = IF u = t THEN "free" ELSE pc[u]
  BY <1>1, NextHandle, HeadOwned, GrallocAssumption DEF CallInv, ServiceTypeOK
<1>3. HandleInv'
  BY <1>1 DEF HandleInv, Releases
<1>4. EntryInv'
  BY <1>1, <1>2 DEF HolderInv, EntryInv
<1>5. \A k \in Handle, f \in Fd : Owns(k, f)' <=> Owns(k, f)
  BY <1>1 DEF Owns
<1>6. CASE UNCHANGED fds /\ out' = [out EXCEPT ![t] = Append(@, NoFd)]
  <2>0. \A i, j \in DOMAIN out[t] : out[t][i] = out[t][j] => i = j \/ out[t][i] = NoFd
    BY DEF HolderInv, FdInv
  <2>1. /\ \A u \in Thread, f \in Fd : Returns(u, f)' <=> Returns(u, f)
        /\ \A u \in Thread : u # t => out'[u] = out[u]
        /\ \A i, j \in DOMAIN out'[t] : out'[t][i] = out'[t][j] => i = j \/ out'[t][i] = NoFd
    BY <1>2, <1>6, <2>0, ResultAdded
  <2>2. FdInv'
    BY <1>5, <1>6, <2>1 DEF HolderInv, FdInv
  <2>3. BufferInv'
    BY <1>1, <1>2, <1>5, <1>6, <2>1 DEF HolderInv, BufferInv
  <2> QED BY <1>3, <1>4, <2>2, <2>3 DEF HolderInv
<1>7. ASSUME NEW f \in Fd, e # NoFd, fds[f] = NoFile, fds' = [fds EXCEPT ![f] = fds[e]],
             out' = [out EXCEPT ![t] = Append(@, f)]
      PROVE  HandleInv' /\ HolderInv'
  <2>0. /\ \A u \in Thread : ~Returns(u, f)
        /\ \A k \in Handle : ~Owns(k, f)
        /\ \A i, j \in DOMAIN out[t] : out[t][i] = out[t][j] => i = j \/ out[t][i] = NoFd
    BY <1>7 DEF HolderInv, FdInv
  <2>1. /\ \A u \in Thread, g \in Fd : Returns(u, g)' <=> Returns(u, g) \/ (u = t /\ g = f)
        /\ \A u \in Thread : u # t => out'[u] = out[u]
        /\ \A i, j \in DOMAIN out'[t] : out'[t][i] = out'[t][j] => i = j \/ out'[t][i] = NoFd
    BY <1>7, <2>0, ResultAdded
  <2>2. e \in Fd /\ Owns(h, e)
    <3>1. native[h] \in NativeHandle
      BY <1>2 DEF CallInv, ServiceTypeOK
    <3> QED BY <1>2, <1>7, <3>1 DEF NativeHandle, Owns
  <2>3. fds[e] # NoFile /\ fds[e] = native[h].buffer
    BY <1>2, <2>2 DEF HolderInv, FdInv, BufferInv
  <2>4. \A g \in Fd : fds'[g] = IF g = f THEN fds[e] ELSE fds[g]
    BY <1>7 DEF CallInv, ServiceTypeOK
  <2>5. \A u \in Thread, g \in Fd : Returns(u, g) => fds[g] # fds[e] /\ g # f
    <3> SUFFICES ASSUME NEW u \in Thread, NEW g \in Fd, Returns(u, g), fds[g] = fds[e] PROVE FALSE
      BY <2>0
    <3>1. pc[u] \in {"free", "close"} /\ Head(handles[u]) = h
      BY <1>2, <2>3 DEF HolderInv, BufferInv
    <3>2. Releases(u, h)
      BY <3>1, HeadOwned
    <3>3. u = t
      BY <1>2, <3>2 DEF HandleInv
    <3> QED BY <1>1, <3>1, <3>3
  <2> HIDE DEF h, e
  <2>6. FdInv'
    <3>1. \A g \in Fd : fds'[g] # NoFile <=>
            (\E k \in Handle : Owns(k, g)') \/ (\E u \in Thread : Returns(u, g)')
      BY <1>5, <2>1, <2>3, <2>4 DEF HolderInv, FdInv
    <3>2. \A g \in Fd : \A k, l \in Handle : Owns(k, g)' /\ Owns(l, g)' => k = l
      BY <1>5 DEF HolderInv, FdInv
    <3>3. \A g \in Fd : \A k \in Handle, u \in Thread : ~(Owns(k, g)' /\ Returns(u, g)')
      BY <1>5, <2>0, <2>1 DEF HolderInv, FdInv
    <3>4. \A g \in Fd : \A u, v \in Thread : Returns(u, g)' /\ Returns(v, g)' => u = v
      BY <2>0, <2>1 DEF HolderInv, FdInv
    <3> QED BY <2>1, <3>1, <3>2, <3>3, <3>4 DEF HolderInv, FdInv
  <2>7. BufferInv'
    <3>1. \A g \in Fd : \A k \in Handle : Owns(k, g)' => fds'[g] = native'[k].buffer
      BY <1>1, <1>5, <2>0, <2>4 DEF HolderInv, BufferInv
    <3>2. \A k, l \in Handle :
            native'[k] # NoHandle /\ native'[l] # NoHandle /\ native'[k].buffer = native'[l].buffer => k = l
      BY <1>1 DEF HolderInv, BufferInv
    <3>3. \A c, g \in Fd : \A u, v \in Thread :
            Returns(u, c)' /\ Returns(v, g)' /\ fds'[c] = fds'[g] => c = g
      BY <2>1, <2>4, <2>5 DEF HolderInv, BufferInv
    <3>4. \A g \in Fd : \A u \in Thread, k \in Handle :
            Returns(u, g)' /\ native'[k] # NoHandle /\ native'[k].buffer = fds'[g] =>
              pc'[u] \in {"free", "close"} /\ Head(handles'[u]) = k
      <4> TAKE g \in Fd
      <4> TAKE u \in Thread, k \in Handle
      <4> HAVE Returns(u, g)' /\ native'[k] # NoHandle /\ native'[k].buffer = fds'[g]
      <4>1. CASE g = f
        <5>1. u = t
          BY <2>0, <2>1, <4>1
        <5>2. k = h
          BY <1>1, <1>2, <2>3, <2>4, <4>1 DEF HolderInv, BufferInv
        <5> QED BY <1>1, <1>2, <5>1, <5>2 DEF h
      <4>2. CASE g # f
        <5>1. Returns(u, g) /\ fds'[g] = fds[g]
          BY <2>1, <2>4, <4>2
        <5>2. pc[u] \in {"free", "close"} /\ Head(handles[u]) = k
          BY <1>1, <5>1 DEF HolderInv, BufferInv
        <5> QED BY <1>1, <1>2, <5>2
      <4> QED BY <4>1, <4>2
    <3> QED BY <3>1, <3>2, <3>3, <3>4 DEF BufferInv
  <2> QED BY <1>3, <1>4, <2>6, <2>7 DEF HolderInv
<1> QED BY <1>6, <1>7 DEF DupToAidl

\* gralloc_gm_buffer_free() takes the handle out of the map.
LEMMA FreeHolders ==
  ASSUME CallInv, HandleInv, HolderInv, NEW t \in Thread, FreeBuffer(t)
  PROVE  HandleInv' /\ HolderInv'
<1> DEFINE h == Head(handles[t])
<1>1. /\ pc[t] = "free" /\ pc' = [pc EXCEPT ![t] = "close"]
      /\ UNCHANGED <<native, fds, handles, out>>
  BY DEF FreeBuffer, Goto
<1>2. /\ h \in Handle
      /\ \A u \in Thread : pc'[u] = IF u = t THEN "close" ELSE pc[u]
  BY <1>1, NextHandle DEF CallInv, ServiceTypeOK
<1>3. \A k \in Handle : gbm_bo_handle_map'[k] = IF k = h THEN NoBo ELSE gbm_bo_handle_map[k]
  BY <1>2 DEF FreeBuffer, gralloc_gm_buffer_free, libVars, CallInv, ServiceTypeOK, TypeOK
<1>4. HandleInv'
  BY <1>1 DEF HandleInv, Releases
<1>5. \A k \in Handle, f \in Fd : Owns(k, f)' <=> Owns(k, f)
  BY <1>1 DEF Owns
<1>6. \A u \in Thread, f \in Fd : Returns(u, f)' <=> Returns(u, f)
  BY <1>1 DEF Returns
<1>7. FdInv'
  BY <1>1, <1>5, <1>6 DEF HolderInv, FdInv
<1>8. BufferInv'
  BY <1>1, <1>2, <1>5, <1>6 DEF HolderInv, BufferInv
<1>9. EntryInv'
  BY <1>1, <1>2, <1>3 DEF HolderInv, EntryInv
<1> QED BY <1>4, <1>7, <1>8, <1>9 DEF HolderInv

\* native_handle_close() closes what the handle alone holds.
LEMMA CloseHolders ==
  ASSUME CallInv, HandleInv, HolderInv, NEW t \in Thread, CloseAndDelete(t)
  PROVE  HandleInv' /\ HolderInv'
<1> DEFINE h == Head(handles[t])
           e == native[h].prime_fd
<1>1. /\ pc[t] = "close" /\ native' = [native EXCEPT ![h] = NoHandle]
      /\ handles' = [handles EXCEPT ![t] = Tail(@)]
      /\ fds' = IF e = NoFd THEN fds ELSE [fds EXCEPT ![e] = NoFile]
      /\ UNCHANGED <<gbm_bo_handle_map, out>>
      /\ \E p \in {"reply", "dup", "free"} : pc' = [pc EXCEPT ![t] = p]
  BY DEF CloseAndDelete, Goto, libVars
<1>2. /\ h \in Handle /\ native[h] # NoHandle /\ Releases(t, h) /\ NoFd \notin Fd
      /\ \A k \in Handle : native'[k] = IF k = h THEN NoHandle ELSE native[k]
      /\ \A u \in Thread : u # t => handles'[u] = handles[u] /\ pc'[u] = pc[u]
      /\ pc'[t] # "close"
  BY <1>1, NextHandle, HeadOwned, GrallocAssumption DEF CallInv, ServiceTypeOK
<1>3. HandleInv'
  BY <1>1, HandleTaken
<1>4. \A f \in Fd : fds'[f] = IF f = e THEN NoFile ELSE fds[f]
  BY <1>1, <1>2 DEF CallInv, ServiceTypeOK
<1>5. \A k \in Handle, f \in Fd : Owns(k, f)' <=> Owns(k, f) /\ k # h
  BY <1>2 DEF Owns
<1>6. \A u \in Thread, f \in Fd : Returns(u, f)' <=> Returns(u, f)
  BY <1>1 DEF Returns
<1>7. \A f \in Fd : Owns(h, f) <=> f = e
  BY <1>2 DEF Owns
<1>8. \A u \in Thread, f \in Fd : Returns(u, f) => f # e
  BY <1>2, <1>7 DEF HolderInv, FdInv
<1> HIDE DEF e
<1>9. FdInv'
  <2>1. \A f \in Fd : fds'[f] # NoFile <=>
          (\E k \in Handle : Owns(k, f)') \/ (\E u \in Thread : Returns(u, f)')
    <3> TAKE f \in Fd
    <3>1. CASE f = e
      BY <1>2, <1>4, <1>5, <1>6, <1>7, <1>8, <3>1 DEF HolderInv, FdInv
    <3>2. CASE f # e
      BY <1>4, <1>5, <1>6, <1>7, <3>2 DEF HolderInv, FdInv
    <3> QED BY <3>1, <3>2
  <2> QED BY <1>1, <1>5, <1>6, <2>1 DEF HolderInv, FdInv
<1>10. BufferInv'
  <2>1. \A f \in Fd : \A k \in Handle : Owns(k, f)' => fds'[f] = native'[k].buffer
    BY <1>2, <1>4, <1>5, <1>7 DEF HolderInv, FdInv, BufferInv
  <2>2. \A k, l \in Handle :
          native'[k] # NoHandle /\ native'[l] # NoHandle /\ native'[k].buffer = native'[l].buffer => k = l
    BY <1>2 DEF HolderInv, BufferInv
  <2>3. \A u \in Thread, f \in Fd : Returns(u, f)' => Returns(u, f) /\ fds'[f] = fds[f]
    BY <1>4, <1>6, <1>8
  <2>4. \A f, g \in Fd : \A u, v \in Thread :
          Returns(u, f)' /\ Returns(v, g)' /\ fds'[f] = fds'[g] => f = g
    BY <2>3 DEF HolderInv, BufferInv
  <2>5. \A f \in Fd : \A u \in Thread, k \in Handle :
          Returns(u, f)' /\ native'[k] # NoHandle /\ native'[k].buffer = fds'[f] =>
            pc'[u] \in {"free", "close"} /\ Head(handles'[u]) = k
    BY <1>2, <2>3 DEF HolderInv, BufferInv
  <2> QED BY <2>1, <2>2, <2>4, <2>5 DEF BufferInv
<1>11. EntryInv'
  BY <1>1, <1>2 DEF HolderInv, EntryInv
<1> QED BY <1>3, <1>9, <1>10, <1>11 DEF HolderInv

\* The reply closes the result's descriptors, which nobody else holds.
LEMMA ReplyHolders ==
  ASSUME CallInv, HandleInv, HolderInv, NEW t \in Thread, Reply(t)
  PROVE  HandleInv' /\ HolderInv'
<1>1. /\ pc[t] = "reply" /\ pc' = [pc EXCEPT ![t] = "idle"]
      /\ fds' = [f \in Fd |-> IF Returns(t, f) THEN NoFile ELSE fds[f]]
      /\ out' = [out EXCEPT ![t] = <<>>]
      /\ UNCHANGED <<gbm_bo_handle_map, native, handles>>
  BY DEF Reply, Goto, libVars, Returns
<1>2. /\ \A f \in Fd : fds'[f] = IF Returns(t, f) THEN NoFile ELSE fds[f]
      /\ \A u \in Thread : pc'[u] = IF u = t THEN "idle" ELSE pc[u]
      /\ \A u \in Thread : out'[u] = IF u = t THEN <<>> ELSE out[u]
  BY <1>1 DEF CallInv, ServiceTypeOK
<1>3. HandleInv'
  BY <1>1 DEF HandleInv, Releases
<1>4. \A k \in Handle, f \in Fd : Owns(k, f)' <=> Owns(k, f)
  BY <1>1 DEF Owns
<1>5. \A u \in Thread, f \in Fd : Returns(u, f)' <=> Returns(u, f) /\ u # t
  BY <1>2 DEF Returns
<1>6. FdInv'
  <2>1. \A f \in Fd : fds'[f] # NoFile <=>
          (\E k \in Handle : Owns(k, f)') \/ (\E u \in Thread : Returns(u, f)')
    <3> TAKE f \in Fd
    <3>1. CASE Returns(t, f)
      BY <1>2, <1>4, <1>5, <3>1 DEF HolderInv, FdInv
    <3>2. CASE ~Returns(t, f)
      BY <1>2, <1>4, <1>5, <3>2 DEF HolderInv, FdInv
    <3> QED BY <3>1, <3>2
  <2>2. \A u \in Thread : \A i, j \in DOMAIN out'[u] :
          out'[u][i] = out'[u][j] => i = j \/ out'[u][i] = NoFd
    BY <1>2 DEF HolderInv, FdInv
  <2> QED BY <1>4, <1>5, <2>1, <2>2 DEF HolderInv, FdInv
<1>7. BufferInv'
  <2>1. \A f \in Fd : (\E k \in Handle : Owns(k, f)) \/ (\E u \in Thread : u # t /\ Returns(u, f)) =>
          fds'[f] = fds[f]
    BY <1>2 DEF HolderInv, FdInv
  <2> QED BY <1>1, <1>2, <1>4, <1>5, <2>1 DEF HolderInv, BufferInv
<1>8. EntryInv'
  BY <1>1, <1>2 DEF HolderInv, EntryInv
<1> QED BY <1>3, <1>6, <1>7, <1>8 DEF HolderInv

-----------------------------------------------------------------------------

ServiceInv == CallInv /\ HandleInv /\ HolderInv

\* Nothing is allocated when the service starts.
LEMMA InitServiceInv == ServiceInit => ServiceInv
<1> SUFFICES ASSUME ServiceInit PROVE ServiceInv
  OBVIOUS
<1>1. /\ native = [h \in Handle |-> NoHandle] /\ fds = [f \in Fd |-> NoFile]
      /\ pc = [t \in Thread |-> "idle"] /\ count = [t \in Thread |-> 0]
      /\ handles = [t \in Thread |-> <<>>] /\ out = [t \in Thread |-> <<>>]
      /\ status = [t \in Thread |-> "OK"] /\ _gbmDevFd = FALSE /\ crashed = FALSE
      /\ gbm_bo_handle_map = [h \in Handle |-> NoBo]
  BY DEF ServiceInit, Init
<1>2. Len(<<>>) = 0 /\ <<>> \in Seq(Handle) /\ <<>> \in Seq(Fd \cup {NoFd}) /\ DOMAIN <<>> = {}
  OBVIOUS
<1>3. ServiceTypeOK
  <2>1. TypeOK
    BY InitTypeOK DEF ServiceInit
  <2>2. "OK" \in Status
    BY DEF Status
  <2>3. \A t \in Thread : /\ handles[t] \in Seq(Handle) /\ Len(handles[t]) <= count[t]
                          /\ out[t] \in Seq(Fd \cup {NoFd}) /\ Len(out[t]) <= count[t]
    BY <1>1, <1>2
  <2> QED BY <1>1, <2>1, <2>2, <2>3 DEF ServiceTypeOK
<1>4. CallInv
  BY <1>1, <1>2, <1>3 DEF CallInv, DeviceHeld, Progress
<1>5. \A t \in Thread : DOMAIN handles[t] = {} /\ DOMAIN out[t] = {} /\ pc[t] = "idle"
  BY <1>1, <1>2
<1>6. \A h \in Handle : native[h] = NoHandle /\ gbm_bo_handle_map[h] = NoBo
  BY <1>1
<1>7. HandleInv
  BY <1>5, <1>6 DEF HandleInv, Releases
<1>8. HolderInv
  BY <1>1, <1>5, <1>6 DEF HolderInv, FdInv, BufferInv, EntryInv, Owns, Returns
<1> QED BY <1>4, <1>7, <1>8 DEF ServiceInv

\* Every step of the service keeps the calls' progress and the holders.
LEMMA NextServiceInv == ServiceInv /\ [ServiceNext]_serviceVars => ServiceInv'
<1> SUFFICES ASSUME ServiceInv, [ServiceNext]_serviceVars PROVE ServiceInv'
  OBVIOUS
<1>0. CallInv /\ HandleInv /\ HolderInv
  BY DEF ServiceInv
<1>1. CASE UNCHANGED serviceVars
  BY <1>0, <1>1 DEF ServiceInv, CallInv, HandleInv, HolderInv, serviceVars, threadVars, libVars,
     ServiceTypeOK, TypeOK, DeviceHeld, Progress, Releases, FdInv, BufferInv, EntryInv, Owns, Returns
<1>2. CASE StartService
  <2>1. CallInv'
    BY <1>0, <1>2, StartInv
  <2>2. UNCHANGED <<gbm_bo_handle_map, native, fds, pc, handles, out>>
    BY <1>2 DEF StartService, gralloc_gbm_device_init, threadVars
  <2>3. HandleInv' /\ HolderInv'
    BY <1>0, <2>2 DEF HandleInv, HolderInv, Releases, FdInv, BufferInv, EntryInv, Owns, Returns
  <2> QED BY <2>1, <2>3 DEF ServiceInv
<1>3. ASSUME NEW t \in Thread, BeginUndecodable(t) \/ \E d \in Descriptor, n \in Counts : Begin(t, d, n)
      PROVE  ServiceInv'
  <2>1. CallInv'
    BY <1>0, <1>3, BeginInv
  <2>2. /\ pc[t] = "idle" /\ UNCHANGED <<gbm_bo_handle_map, native, fds, handles, out>>
        /\ \E p \in {"allocate", "reply"} : pc' = [pc EXCEPT ![t] = p]
    BY <1>3 DEF BeginUndecodable, Begin, Goto, libVars
  <2> QED BY <1>0, <2>1, <2>2, QuietInv DEF ServiceInv
<1>4. ASSUME NEW t \in Thread, gbmAllocateBuffer(t)
      PROVE  ServiceInv'
  <2>1. CallInv'
    BY <1>0, <1>4, AllocateInv
  <2>2. pc[t] = "allocate" /\ UNCHANGED out
    BY <1>0, <1>4, AllocateCases
  <2>3. CASE \E h \in Handle, b \in Bo, f \in Fd \cup {NoFd}, buf \in Buffer :
               NewBo(h, b) /\ Allocated(t, h, f, buf)
    BY <1>0, <2>1, <2>2, <2>3, AllocatedHolders DEF ServiceInv
  <2>4. CASE UNCHANGED libVars /\ AllocationFailed(t)
    <3>1. /\ UNCHANGED <<gbm_bo_handle_map, native, fds, handles, out>>
          /\ \E p \in {"free", "reply"} : pc' = [pc EXCEPT ![t] = p]
      BY <2>2, <2>4 DEF AllocationFailed, Goto, libVars
    <3> QED BY <1>0, <2>1, <2>2, <3>1, QuietInv DEF ServiceInv
  <2> QED BY <1>0, <1>4, <2>3, <2>4, AllocateCases
<1>5. ASSUME NEW t \in Thread, AllocateNothing(t)
      PROVE  ServiceInv'
  <2>1. CallInv'
    BY <1>0, <1>5, NothingInv
  <2>2. /\ pc[t] = "allocate" /\ UNCHANGED <<gbm_bo_handle_map, native, fds, handles, out>>
        /\ pc' = [pc EXCEPT ![t] = "reply"]
    BY <1>5 DEF AllocateNothing, Goto, libVars
  <2> QED BY <1>0, <2>1, <2>2, QuietInv DEF ServiceInv
<1>6. ASSUME NEW t \in Thread, DupToAidl(t) PROVE ServiceInv'
  BY <1>0, <1>6, DupInv, DupHolders DEF ServiceInv
<1>7. ASSUME NEW t \in Thread, FreeBuffer(t) PROVE ServiceInv'
  BY <1>0, <1>7, FreeInv, FreeHolders DEF ServiceInv
<1>8. ASSUME NEW t \in Thread, CloseAndDelete(t) PROVE ServiceInv'
  BY <1>0, <1>8, CloseInv, CloseHolders DEF ServiceInv
<1>9. ASSUME NEW t \in Thread, Reply(t) PROVE ServiceInv'
  BY <1>0, <1>9, ReplyInv, ReplyHolders DEF ServiceInv
<1> QED BY <1>1, <1>2, <1>3, <1>4, <1>5, <1>6, <1>7, <1>8, <1>9 DEF ServiceNext, CallStep

\* The service keeps its types (ServiceTypeOK): no thread's vector or result
\* outgrows the count its caller asked for.
THEOREM ServiceTypeCorrect == ServiceSpec => []ServiceTypeOK
<1>1. ServiceInv => ServiceTypeOK
  BY DEF ServiceInv, CallInv
<1> QED BY <1>1, InitServiceInv, NextServiceInv, PTL DEF ServiceSpec

\* Allocator.cpp's doAllocate() returns every buffer it was asked for or none,
\* and keeps no handle (AllOrNothing).
THEOREM CallsAllOrNothing == ServiceSpec => []AllOrNothing
<1>1. ServiceInv => AllOrNothing
  BY DEF ServiceInv, CallInv, Progress, AllOrNothing
<1> QED BY <1>1, InitServiceInv, NextServiceInv, PTL DEF ServiceSpec

\* The places of a result are those of the sequences out holds.
LEMMA ResultPlaces ==
  ASSUME CallInv
  PROVE  /\ \A r \in Results : r[1] \in Thread /\ r[2] \in DOMAIN out[r[1]] /\ r = <<r[1], r[2]>>
                               /\ ResultFd(r) \in Fd \cup {NoFd}
                               /\ (ResultFd(r) # NoFd => Returns(r[1], ResultFd(r)))
         /\ \A f : (\E t \in Thread : Returns(t, f)) <=> \E r \in Results : ResultFd(r) = f
<1>1. \A r \in Results : r[1] \in Thread /\ r[2] \in DOMAIN out[r[1]] /\ r = <<r[1], r[2]>>
  BY DEF Results
<1>2. \A t \in Thread : out[t] \in Seq(Fd \cup {NoFd}) /\ DOMAIN out[t] = 1..Len(out[t])
                        /\ Len(out[t]) \in Nat /\ Len(out[t]) <= count[t]
  BY LenProperties DEF CallInv, ServiceTypeOK
<1>3. \A t \in Thread : \A i \in DOMAIN out[t] : out[t][i] \in Fd \cup {NoFd}
  BY <1>2, ElementOfSeq
<1>4. \A t \in Thread : count[t] \in Nat /\ count[t] <= MaxCount
  <2> TAKE t \in Thread
  <2>1. count[t] \in Counts \cup {0}
    BY DEF CallInv, ServiceTypeOK
  <2>2. \A n \in Counts \cup {0} : n \in Nat /\ n <= MaxCount
    BY ServiceAssumption
  <2> QED BY <2>1, <2>2
<1>5. \A t \in Thread : \A i \in DOMAIN out[t] : <<t, i>> \in Results
  <2> TAKE t \in Thread
  <2> TAKE i \in DOMAIN out[t]
  <2>1. PICK n, c \in Nat : n = Len(out[t]) /\ c = count[t]
    BY <1>2, <1>4, Zenon
  <2>2. n <= c /\ c <= MaxCount /\ MaxCount \in Nat /\ i \in 1..n
    BY <1>2, <1>4, <2>1, ServiceAssumption, Zenon
  <2>3. i \in 1..MaxCount
    BY <2>2
  <2> QED BY <2>3 DEF Results
<1>6. \A r \in Results : ResultFd(r) \in Fd \cup {NoFd} /\ Returns(r[1], ResultFd(r))
  BY <1>1, <1>3 DEF ResultFd, Returns
<1>7. ASSUME NEW f, NEW t \in Thread, Returns(t, f)
      PROVE  \E r \in Results : ResultFd(r) = f
  <2>1. PICK i \in DOMAIN out[t] : out[t][i] = f
    BY <1>7 DEF Returns
  <2>2. <<t, i>> \in Results /\ ResultFd(<<t, i>>) = f
    BY <1>5, <2>1 DEF ResultFd
  <2> QED BY <2>2
<1> QED BY <1>1, <1>6, <1>7

\* Whatever the other threads do, a native handle belongs to one thread, the
\* map holds it until it is freed, and a descriptor is open exactly while one
\* handle or one result holds it (NothingLeaks).
THEOREM NothingIsLost == ServiceSpec => []NothingLeaks
<1>1. ServiceInv => NothingLeaks
  <2> SUFFICES ASSUME ServiceInv PROVE NothingLeaks
    OBVIOUS
  <2>1. \A f \in Fd : fds[f] # NoFile <=>
          \/ \E h \in Handle : native[h] # NoHandle /\ native[h].prime_fd = f
          \/ \E r \in Results : ResultFd(r) = f
    BY ResultPlaces DEF ServiceInv, HolderInv, FdInv, Owns
  <2>2. \A h \in Handle :
          /\ native[h] # NoHandle <=> \E t \in Thread : Releases(t, h)
          /\ \A t, u \in Thread : Releases(t, h) /\ Releases(u, h) => t = u
    BY DEF ServiceInv, HandleInv
  <2>3. \A h \in Handle : gbm_bo_handle_map[h] # NoBo <=>
          native[h] # NoHandle /\ \A t \in Thread : pc[t] = "close" => Head(handles[t]) # h
    BY DEF ServiceInv, HolderInv, EntryInv
  <2> QED BY <2>1, <2>2, <2>3 DEF NothingLeaks
<1> QED BY <1>1, InitServiceInv, NextServiceInv, PTL DEF ServiceSpec

\* No two places of the results under way, of one call or of several, share a
\* descriptor or a buffer (ResultsDistinct).
THEOREM ResultsAreDistinct == ServiceSpec => []ResultsDistinct
<1>1. ServiceInv => ResultsDistinct
  <2> SUFFICES ASSUME ServiceInv, NEW r \in Results, NEW s \in Results, ResultFd(r) # NoFd
               PROVE  /\ fds[ResultFd(r)] \in Buffer
                      /\ r # s /\ ResultFd(s) # NoFd => fds[ResultFd(r)] # fds[ResultFd(s)]
    BY DEF ResultsDistinct
  <2>1. ResultFd(r) \in Fd /\ Returns(r[1], ResultFd(r)) /\ r[1] \in Thread
    BY ResultPlaces DEF ServiceInv
  <2>2. fds[ResultFd(r)] \in Buffer
    BY <2>1 DEF ServiceInv, CallInv, ServiceTypeOK, HolderInv, FdInv
  <2>3. ASSUME ResultFd(s) # NoFd, fds[ResultFd(r)] = fds[ResultFd(s)]
        PROVE  r = s
    <3>1. ResultFd(s) \in Fd /\ Returns(s[1], ResultFd(s)) /\ s[1] \in Thread
      BY <2>3, ResultPlaces DEF ServiceInv
    <3>2. ResultFd(r) = ResultFd(s)
      BY <2>1, <2>3, <3>1 DEF ServiceInv, HolderInv, BufferInv
    <3>3. r[1] = s[1]
      BY <2>1, <3>1, <3>2 DEF ServiceInv, HolderInv, FdInv
    <3>4. /\ r[2] \in DOMAIN out[r[1]] /\ s[2] \in DOMAIN out[r[1]] /\ out[r[1]][r[2]] = out[r[1]][s[2]]
          /\ out[r[1]][r[2]] # NoFd /\ r = <<r[1], r[2]>> /\ s = <<s[1], s[2]>>
      BY <3>2, <3>3, ResultPlaces DEF ServiceInv, ResultFd
    <3>5. r[2] = s[2]
      BY <2>1, <3>4 DEF ServiceInv, HolderInv, FdInv
    <3> QED BY <3>3, <3>4, <3>5
  <2> QED BY <2>2, <2>3
<1> QED BY <1>1, InitServiceInv, NextServiceInv, PTL DEF ServiceSpec

-----------------------------------------------------------------------------
(* The service is a client of the library that keeps the library's rules.  *)

\* A step of the service calls one entry point of the library or none, with an
\* allocated handle that is not in the map and never after a crash: doAllocate()
\* needs no lock of its own around gbm_bo_handle_map's contents.
LEMMA StepUsesLibrary == ServiceInv /\ [ServiceNext]_serviceVars => [Next]_libVars
<1> SUFFICES ASSUME ServiceInv, [ServiceNext]_serviceVars PROVE [Next]_libVars
  OBVIOUS
<1>0. CallInv /\ HandleInv /\ HolderInv /\ crashed = FALSE
  BY DEF ServiceInv, CallInv, DeviceHeld
<1>1. CASE UNCHANGED serviceVars
  BY <1>1 DEF serviceVars
<1>2. CASE StartService
  BY <1>0, <1>2 DEF StartService, InitDevice, Next, OK, ErrCode
<1>3. ASSUME NEW t \in Thread, gbmAllocateBuffer(t)
      PROVE  [Next]_libVars
  <2>1. ASSUME NEW h \in Handle, NEW b \in Bo, NewBo(h, b), native[h] = NoHandle
        PROVE  [Next]_libVars
    <3>1. gbm_bo_handle_map[h] = NoBo
      BY <1>0, <2>1 DEF HolderInv, EntryInv
    <3>2. gralloc_allocate(h, b, OK) /\ OK \in ErrCode
      BY <1>0, <1>3, <2>1 DEF gralloc_allocate, gbmAllocateBuffer, CallInv, DeviceHeld, ErrCode
    <3>3. Allocate
      BY <3>1, <3>2 DEF Allocate
    <3> QED BY <1>0, <3>3 DEF Next
  <2> QED BY <1>0, <1>3, <2>1, AllocateCases DEF Allocated
<1>4. ASSUME NEW t \in Thread, FreeBuffer(t)
      PROVE  [Next]_libVars
  <2>1. Head(handles[t]) \in Handle
    BY <1>0, <1>4, NextHandle DEF FreeBuffer
  <2>2. Free
    BY <1>4, <2>1 DEF FreeBuffer, Free
  <2> QED BY <1>0, <2>2 DEF Next
<1>5. ASSUME NEW t \in Thread,
             \/ \E d \in Descriptor, n \in Counts : Begin(t, d, n)
             \/ BeginUndecodable(t) \/ AllocateNothing(t) \/ DupToAidl(t)
             \/ CloseAndDelete(t) \/ Reply(t)
      PROVE  [Next]_libVars
  BY <1>5 DEF Begin, BeginUndecodable, AllocateNothing, DupToAidl, CloseAndDelete, Reply
<1> QED BY <1>1, <1>2, <1>3, <1>4, <1>5 DEF ServiceNext, CallStep

\* What the binder threads of Allocator.cpp do, interleaved call by call, is a
\* sequence of calls that libgralloc_gm's contract allows (GrallocGbm's Spec).
THEOREM ServiceUsesLibrary == ServiceSpec => Spec
<1>1. ServiceInit => Init
  BY DEF ServiceInit
<1> QED BY <1>1, InitServiceInv, NextServiceInv, StepUsesLibrary, PTL DEF ServiceSpec, Spec

\* So the map owns the buffer objects in the allocator's process as well: each
\* is in gbm_bo_handle_map under one handle, and none is left behind (RegistryInv).
THEOREM ServiceKeepsRegistry == ServiceSpec => []RegistryInv
BY ServiceUsesLibrary, RegistryCorrect


=============================================================================
