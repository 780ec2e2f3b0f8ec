--------------------------- MODULE MCClearingHouse --------------------------
(***************************************************************************)
(* Two traders, a price that halves and doubles, margins of a half and a   *)
(* quarter, so that one move makes an account liquidatable and a fill off  *)
(* the oracle's price can leave it insolvent.                              *)
(***************************************************************************)
EXTENDS ClearingHouse, TLC

TraderSymmetry == Permutations(Users)
=============================================================================
