------------------------- MODULE MCConnectionManager ------------------------
(***************************************************************************)
(* ConnectionManager with three connections, one ForceReconnect caller and *)
(* two concurrent Stop callers.  Back-off is counted in units: 1, 2, 3.    *)
(***************************************************************************)
EXTENDS ConnectionManager

=============================================================================
