--------------------------- MODULE BufferContract ---------------------------
(***************************************************************************)
(* The contract this mapper's code keeps with its client about imported    *)
(* buffers, with no native handles, descriptors, buffer objects or maps.   *)
(* It is the code's own, and less than IMapper.h and its tests ask for, in *)
(* two clauses:                                                            *)
(*   - each imported handle has metadata of its own, which start at the    *)
(*     defaults and change only when set through that handle, whereas      *)
(*     IMapper makes them global to the buffer (IMapper.h:366, 376);       *)
(*   - a lock for software access excludes every other, whereas IMapper    *)
(*     permits simultaneous locks (IMapper.h:234) and the test             *)
(*     LockUnlockNested expects a second one to succeed.                   *)
(* Both disagreements are reported where they are violated: GlobalMetadata *)
(* of MapperV5, and SuitePasses of VtsSuite.                               *)
(***************************************************************************)
EXTENDS Integers

CONSTANTS Handle, Buffer, NoBuffer, Metadata, Default, Usage, SwUsage

VARIABLES buffer, metadata, lock_count, locked_for

contractVars == <<buffer, metadata, lock_count, locked_for>>

Init ==
  /\ buffer = [h \in Handle |-> NoBuffer]
  /\ metadata = [h \in Handle |-> Default]
  /\ lock_count = [h \in Handle |-> 0]
  /\ locked_for = [h \in Handle |-> {}]

Import(h, b) ==
  /\ buffer[h] = NoBuffer
  /\ buffer' = [buffer EXCEPT ![h] = b]
  /\ UNCHANGED <<metadata, lock_count, locked_for>>

Free(h) ==
  /\ buffer[h] # NoBuffer
  /\ lock_count[h] = 0
  /\ buffer' = [buffer EXCEPT ![h] = NoBuffer]
  /\ metadata' = [metadata EXCEPT ![h] = Default]
  /\ UNCHANGED <<lock_count, locked_for>>

\* Through this handle only: another import of the buffer keeps its own.
SetMetadata(h, md) ==
  /\ buffer[h] # NoBuffer
  /\ metadata' = [metadata EXCEPT ![h] = md]
  /\ UNCHANGED <<buffer, lock_count, locked_for>>

\* A locked buffer takes another lock only if the one it has is not for software
\* access and covers the new usage.
Lock(h, usage) ==
  /\ buffer[h] # NoBuffer
  /\ \/ lock_count[h] = 0
     \/ usage \subseteq locked_for[h] /\ locked_for[h] \cap SwUsage = {}
  /\ lock_count' = [lock_count EXCEPT ![h] = @ + 1]
  /\ locked_for' = [locked_for EXCEPT ![h] = @ \cup usage]
  /\ UNCHANGED <<buffer, metadata>>

Unlock(h) ==
  /\ lock_count[h] > 0
  /\ lock_count' = [lock_count EXCEPT ![h] = @ - 1]
  /\ locked_for' = [locked_for EXCEPT ![h] = IF lock_count[h] = 1 THEN {} ELSE @]
  /\ UNCHANGED <<buffer, metadata>>

Next ==
  \E h \in Handle :
    \/ \E b \in Buffer : Import(h, b)
    \/ Free(h)
    \/ \E md \in Metadata : SetMetadata(h, md)
    \/ \E usage \in SUBSET Usage : Lock(h, usage)
    \/ Unlock(h)

Spec == Init /\ [][Next]_contractVars

=============================================================================
