------------------------------ MODULE MCKeepers ------------------------------
(***************************************************************************)
(* The oracle keeper with the adapter, and what keeps the keepers and the  *)
(* contracts alive: the refill and the TTL keeper.  The two share no       *)
(* state, so the check follows one at a time, the other at rest.           *)
(*                                                                         *)
(* One market or one stablecoin.  Prices are in half percents of a dollar  *)
(* (two hundred is par), so that an average of two is a whole number: par, *)
(* and a price outside the venues' spread, Reflector's band and the peg's. *)
(* Two wallets, the second of which pays for the TTL of two entries.       *)
(***************************************************************************)
EXTENDS OracleFeed, KeeperUpkeep

CONSTANTS e1, e2

VARIABLE focus      \* the part that is followed

KeeperInit ==
    /\ focus \in {"oracle", "upkeep"}
    /\ Init /\ UpkeepInit
    /\ focus # "oracle" => listed = Markets /\ needs = {} /\ config = [a \in Assets |-> NoFeed]
    /\ focus # "upkeep" =>
          xlm = [k \in Keepers |-> Target] /\ ttl = [e \in Entries |-> ExtendTo]

KeeperNext ==
    \/ focus = "oracle" /\ Next /\ UNCHANGED <<focus, upkeepVars>>
    \/ focus = "upkeep" /\ UpkeepNext /\ UNCHANGED <<focus, vars>>

KeeperSpec == KeeperInit /\ [][KeeperNext]_<<focus, vars, upkeepVars>>
=============================================================================
