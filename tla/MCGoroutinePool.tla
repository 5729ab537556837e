-------------------------- MODULE MCGoroutinePool ---------------------------
(***************************************************************************)
(* GoroutinePool with two workers, hence a channel of capacity two, four   *)
(* Submit calls (the third may find the channel full) and two concurrent   *)
(* calls of Wait or Close.                                                 *)
(***************************************************************************)
EXTENDS GoroutinePool

=============================================================================
