---------------------------- MODULE MCContracts ----------------------------
(***************************************************************************)
(* The order gateway and the insurance fund, the two contracts whose state *)
(* outlives the transaction by design: order entries that are pruned and   *)
(* requests that outlive their epoch.  They share no state, so the check   *)
(* follows one at a time, the other at rest.                               *)
(*                                                                         *)
(* The gateway's time is in units of MaxOrderTtl / 2: its clock runs long  *)
(* enough for an order to be placed, cancelled, to expire, and for its     *)
(* state to be pruned while the clock still runs.  The fund has two        *)
(* stakers and amounts that do not divide each other, so that minting and  *)
(* redeeming round, and two epochs, so that a request can outlive its own. *)
(***************************************************************************)
EXTENDS OrderGateway, InsuranceFund, TLC

CONSTANTS alice, bob

VARIABLE focus      \* the contract that is followed

StakerSymmetry == Permutations(Stakers)

MkOrder(w, n, long, size, price, ro, expiry) ==
    [owner |-> w, nonce |-> n, market_id |-> 1, is_long |-> long, size |-> size,
     limit_price |-> price, reduce_only |-> ro, expiry_ts |-> expiry]

\* A long and a short that cross twice over, and a reduce-only exit.
TradeOrders ==
    { MkOrder(alice, 1, TRUE, 2, 2, FALSE, 2),
      MkOrder(bob, 1, FALSE, 2, 1, FALSE, 2),
      MkOrder(alice, 2, FALSE, 2, 1, TRUE, 3),
      MkOrder(bob, 2, TRUE, 2, 2, FALSE, 3) }

\* alice signs an order that expires after the tombstone of an early cancel.
FarExpiryOrders ==
    { MkOrder(alice, 1, TRUE, 1, 2, FALSE, 5),
      MkOrder(bob, 1, FALSE, 1, 1, FALSE, 5) }

contractVars == <<focus, vars, fundVars>>

ContractInit == focus \in {"gateway", "fund"} /\ Init /\ FundInit

ContractNext ==
    \/ focus = "gateway" /\ Next /\ UNCHANGED <<focus, fundVars>>
    \/ focus = "fund" /\ FundNext /\ UNCHANGED <<focus, vars>>

\* The gateway asked for orders that no API has looked at.
DirectContractSpec ==
    /\ focus = "gateway" /\ Init /\ FundInit
    /\ [][DirectNext /\ UNCHANGED <<focus, fundVars>>]_contractVars

ContractSpec == ContractInit /\ [][ContractNext]_contractVars
=============================================================================
