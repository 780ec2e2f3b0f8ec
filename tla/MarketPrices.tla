---------------------------- MODULE MarketPrices ----------------------------
(***************************************************************************)
(* The mark prices on screen.  The market of the terminal takes its mark   *)
(* from the oracle, and from Binance when the oracle does not answer; the  *)
(* rows of the market switcher take theirs from one Binance ticker for all *)
(* markets.  Both polls write the same store, and go on running when the   *)
(* trader changes the market under them.  A price is abstracted to where   *)
(* it came from.                                                           *)
(***************************************************************************)
EXTENDS Integers

CONSTANT Listed     \* the active markets

ASSUME PriceConstants == Listed # {} /\ 0 \notin Listed

VARIABLES
    shown,      \* the market on screen
    mark,       \* markPrices: where the price of a market came from
    oraclePoll, \* the oracle poll in flight
    tickerPoll  \* the ticker poll in flight

priceVars == <<shown, mark, oraclePoll, tickerPoll>>

\* A poll belongs to the effect that started it; it is live until that is cleaned up.
NoPoll == [asks |-> "nobody", of |-> 0, live |-> FALSE]
Poll(source, m) == [asks |-> source, of |-> m, live |-> TRUE]

SetMarkPrice(m, source) == [mark EXCEPT ![m] = source]

PollOracle ==
    /\ oraclePoll = NoPoll
    /\ oraclePoll' = Poll("oracle", shown)
    /\ UNCHANGED <<shown, mark, tickerPoll>>

OracleAnswers ==
    /\ oraclePoll.asks = "oracle"
    /\ oraclePoll' = NoPoll
    /\ mark' = IF oraclePoll.live THEN SetMarkPrice(oraclePoll.of, "oracle") ELSE mark
    /\ UNCHANGED <<shown, tickerPoll>>

\* No price, a price of zero, or a read that fails: ask Binance.
OracleIsSilent ==
    /\ oraclePoll.asks = "oracle"
    /\ oraclePoll' = [oraclePoll EXCEPT !.asks = "binance"]
    /\ UNCHANGED <<shown, mark, tickerPoll>>

Binance24h ==
    /\ oraclePoll.asks = "binance"
    /\ oraclePoll' = NoPoll
    /\ \/ mark' = IF oraclePoll.live THEN SetMarkPrice(oraclePoll.of, "binance") ELSE mark
       \/ UNCHANGED mark
    /\ UNCHANGED <<shown, tickerPoll>>

PollAllTickers ==
    /\ tickerPoll = NoPoll
    /\ tickerPoll' = Poll("tickers", shown)
    /\ UNCHANGED <<shown, mark, oraclePoll>>

\* Mutant: a ticker that outlives its effect is stored.
MutantTickerCounts == TRUE

\* What arrives after the cleanup is dropped.
TickerCounts == tickerPoll.live

\* The rows of the other markets that the ticker knows; none if it fails.
AllTickers ==
    /\ tickerPoll # NoPoll
    /\ tickerPoll' = NoPoll
    /\ \E known \in SUBSET (Listed \ {tickerPoll.of}) :
          mark' = IF TickerCounts THEN [m \in Listed |-> IF m \in known THEN "ticker" ELSE mark[m]] ELSE mark
    /\ UNCHANGED <<shown, oraclePoll>>

\* The terminal goes to another market: the provider is kept, with its polls
\* still in flight, or replaced by one that starts its own.
ShowMarket(m) ==
    /\ m # shown
    /\ shown' = m
    /\ \/ /\ oraclePoll' = IF oraclePoll = NoPoll THEN Poll("oracle", m) ELSE [oraclePoll EXCEPT !.live = FALSE]
          /\ tickerPoll' = IF tickerPoll = NoPoll THEN Poll("tickers", m) ELSE [tickerPoll EXCEPT !.live = FALSE]
       \/ /\ oraclePoll' = Poll("oracle", m)
          /\ tickerPoll' = Poll("tickers", m)
    /\ UNCHANGED mark

PriceInit ==
    /\ shown \in Listed
    /\ mark = [m \in Listed |-> "none"]
    /\ oraclePoll = Poll("oracle", shown) /\ tickerPoll = Poll("tickers", shown)

PriceNext ==
    \/ PollOracle \/ OracleAnswers \/ OracleIsSilent \/ Binance24h
    \/ PollAllTickers \/ AllTickers
    \/ \E m \in Listed : ShowMarket(m)

PriceSpec == PriceInit /\ [][PriceNext]_priceVars

-----------------------------------------------------------------------------
\* The switcher's ticker "can never race the active market's oracle-backed mark
\* price with a Binance figure": while a market is on screen its mark comes from
\* its own poll, whichever ticker is still in flight from the market before.
TickerYieldsToOracle ==
    [][mark'[shown] # mark[shown] => mark'[shown] \in {"oracle", "binance"}]_priceVars
=============================================================================
