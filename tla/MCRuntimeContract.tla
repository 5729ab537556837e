-------------------------- MODULE MCRuntimeContract --------------------------
(***************************************************************************)
(* RuntimeContract with two connections and two cleanups.                  *)
(***************************************************************************)
EXTENDS RuntimeContract, TLC

==============================================================================
