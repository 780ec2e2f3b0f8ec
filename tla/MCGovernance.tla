---------------------------- MODULE MCGovernance ----------------------------
(* A pausable vault, which the transfer ceremony also handles, the engine and   *)
(* the oracle, which a market needs, and the liquidation contract.              *)
EXTENDS Governance

MCTargets == <<"vault", "engine", "oracle", "liquidation">>
MCTransferTargets == <<"vault">>
MCCancellable == {Feed, Market, <<"transfer", "vault">>, <<"handover", "oracle">>}
=============================================================================
