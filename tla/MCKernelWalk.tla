---------------------------- MODULE MCKernelWalk -----------------------------
(***************************************************************************)
(* The small instances of MCZxdbFS, under a kernel that walks paths.        *)
(***************************************************************************)
EXTENDS KernelWalk, MCZxdbFS
=============================================================================
