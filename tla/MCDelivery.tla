----------------------------- MODULE MCDelivery -----------------------------
(***************************************************************************)
(* Two messages, one of them published by the plugin, two connections and  *)
(* two dispatch goroutines.                                                *)
(***************************************************************************)
EXTENDS Delivery, TLC

=============================================================================
