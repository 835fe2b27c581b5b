----------------------------- MODULE MCMapperV5 -----------------------------
(***************************************************************************)
(* MapperV5 for TLC: two buffers, one readable and writable by the CPU and *)
(* one for the camera only.                                                     *)
(***************************************************************************)
EXTENDS MapperV5, TLC

CONSTANTS buf1, buf2, rgba, yv12, r, w, cam

MCAllocated ==
  (buf1 :> [format |-> rgba, usage |-> {r, w}]) @@ (buf2 :> [format |-> yv12, usage |-> {cam}])

Symmetry == Permutations(Handle) \cup Permutations(Bo) \cup Permutations(Fd)

=============================================================================
