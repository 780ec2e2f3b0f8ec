------------------------ MODULE MCSettlementPipeline ------------------------
(***************************************************************************)
(* One maker and up to three takers: two fills of one order, so that a     *)
(* rollback of one can disturb the other, and a taker that cannot settle.  *)
(* The sets are model values given in the configurations.                  *)
(***************************************************************************)
EXTENDS SettlementPipeline
=============================================================================
