---------------------------- MODULE MCGrallocHal ----------------------------
(***************************************************************************)
(* GrallocHal for TLC: an RGBA and a YV12 buffer the CPU may read.         *)
(***************************************************************************)
EXTENDS GrallocHal

CONSTANTS rgba, yv12, r, f1

MCInfo == [prime_fd : {f1}, format : {rgba, yv12}, usage : {{r}}]

=============================================================================
