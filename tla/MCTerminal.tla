----------------------------- MODULE MCTerminal -----------------------------
(***************************************************************************)
(* The web client: the trader's orders, the book and the prices on screen, *)
(* and the collateral dialog.  The four share no state, so no behaviour of *)
(* one can disturb another: the check follows one of them at a time, the   *)
(* others at rest, instead of multiplying their states.                    *)
(***************************************************************************)
EXTENDS TradingClient, MarketStream, MarketPrices, CollateralDesk

VARIABLE focus      \* the part that is followed

terminalVars == <<focus, clientVars, streamVars, priceVars, deskVars>>

TerminalInit ==
    /\ focus \in {"orders", "book", "prices", "collateral"}
    /\ ClientInit /\ StreamInit /\ PriceInit /\ DeskInit
    /\ focus # "prices" => shown = Min(Listed)
    /\ focus # "collateral" => trustline /\ active /\ hasView

Follow(part, step, others) == focus = part /\ step /\ UNCHANGED <<focus, others>>

TerminalNext ==
    \/ Follow("orders", ClientNext, <<streamVars, priceVars, deskVars>>)
    \/ Follow("book", StreamNext, <<clientVars, priceVars, deskVars>>)
    \/ Follow("prices", PriceNext, <<clientVars, streamVars, deskVars>>)
    \/ Follow("collateral", DeskNext, <<clientVars, streamVars, priceVars>>)

\* Fairness and StreamFairness, each while its part is followed.
OrdersFairness ==
    \A t \in Tabs : WF_clientVars(focus = "orders" /\ Reconcile(t)) /\ WF_clientVars(focus = "orders" /\ CheckOrder(t))

BookFairness ==
    /\ WF_streamVars(focus = "book" /\ PollOrderBook) /\ SF_streamVars(focus = "book" /\ FetchAnswers)
    /\ WF_streamVars(focus = "book" /\ Reconnect)
    /\ \A s \in Sockets :
          /\ WF_streamVars(focus = "book" /\ OnOpen(s))
          /\ WF_streamVars(focus = "book" /\ socket[s] = "closing" /\ OnClose(s))
          /\ WF_streamVars(focus = "book" /\ HandleMessage(s))
          /\ \A m \in Markets : WF_streamVars(focus = "book" /\ m = market /\ BroadcastMarket(s, m))

TerminalSpec == TerminalInit /\ [][TerminalNext]_terminalVars /\ OrdersFairness /\ BookFairness
=============================================================================
