----------------------------- MODULE MCVtsSuite -----------------------------
(***************************************************************************)
(* VtsSuite for TLC: the handles of the allocator carry the usage of the   *)
(* descriptors, cut to 32 bits.                                            *)
(***************************************************************************)
EXTENDS VtsSuite

MCBuffer == DOMAIN Info
MCAllocated ==
  [b \in MCBuffer |-> [format |-> Info[b].format, usage |-> Info[b].usage \ HighBits]]
MCFormat == {Info[b].format : b \in MCBuffer}
MCKnownFormat == MCFormat \cap DOMAIN GbmFormatOf

=============================================================================
