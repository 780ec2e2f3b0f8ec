---------------------------- MODULE MarketStream ----------------------------
(***************************************************************************)
(* The order book on screen.  The terminal shows one market; its book      *)
(* comes from the stream of the websocket server while the socket is       *)
(* believed open, and from polling the REST API while it is not.  The      *)
(* socket is a singleton of its module, but the sockets it replaced go on  *)
(* firing their callbacks: a close that arrives late clears the variable   *)
(* of the socket that took over.  A book is abstracted to the version of   *)
(* the rows it was read from.                                              *)
(***************************************************************************)
EXTENDS Integers, FiniteSets, FiniteSetsExt

CONSTANTS
    Markets,
    MaxSockets,     \* bound on the sockets alive at a time
    MaxVersion,     \* bound on the changes of a book
    MaxSwitches     \* bound on the market changes and page visits

ASSUME StreamConstants ==
    /\ Markets # {} /\ 0 \notin Markets
    /\ MaxSockets \in Nat \ {0} /\ MaxVersion \in Nat /\ MaxSwitches \in Nat

VARIABLES
    market,     \* the market on screen, or Nowhere
    visible,    \* the document is visible
    wsActive,   \* the provider believes in the socket
    ws,         \* the module's socket, or NoSocket
    timer,      \* a reconnect is scheduled
    socket,     \* the state of every socket
    subs,       \* the markets the server has a socket subscribed to
    wire,       \* the book on its way to a socket
    fetch,      \* the poll in flight
    version,    \* the rows behind the book of a market
    book,       \* the book the terminal last stored for a market
    switches    \* history: market changes and page visits so far

socketVars == <<ws, timer, socket, subs, wire>>
streamVars == <<market, visible, wsActive, socketVars, fetch, version, book, switches>>

Sockets == 1..MaxSockets
NoSocket == 0
Nowhere == 0
NoBook == -1
NoFrame == [market |-> Nowhere, version |-> NoBook]
NoFetch == [of |-> NoFrame, live |-> FALSE]

Mounted == market # Nowhere
Free == {s \in Sockets : socket[s] = "none"}

-----------------------------------------------------------------------------
(* Polling.  One poll runs at a time, whichever market started it.         *)

\* What the REST route and the stream's server read for a market.
RestBook(m) == [market |-> m, version |-> version[m]]
StreamBook(m) == [market |-> m, version |-> version[m]]

SetOrderBook(read) == [book EXCEPT ![read.market] = read.version]

\* pollOrderBook, called by a timer or by a handler.
Polled(running, active, shown, m) ==
    IF active \/ ~shown \/ running # NoFetch THEN running
    ELSE [of |-> RestBook(m), live |-> TRUE]

PollOrderBook ==
    /\ Mounted
    /\ fetch' = Polled(fetch, wsActive, visible, market)
    /\ UNCHANGED <<market, visible, wsActive, socketVars, version, book, switches>>

\* The answer is stored unless the market was left meanwhile; a failed request
\* stores nothing.
FetchAnswers ==
    /\ fetch # NoFetch
    /\ fetch' = NoFetch
    /\ book' = IF fetch.live THEN SetOrderBook(fetch.of) ELSE book
    /\ UNCHANGED <<market, visible, wsActive, socketVars, version, switches>>

FetchFails ==
    /\ fetch # NoFetch
    /\ fetch' = NoFetch
    /\ UNCHANGED <<market, visible, wsActive, socketVars, version, book, switches>>

OnVisibility ==
    /\ visible' = ~visible
    /\ fetch' = IF Mounted THEN Polled(fetch, wsActive, ~visible, market) ELSE fetch
    /\ UNCHANGED <<market, wsActive, socketVars, version, book, switches>>

-----------------------------------------------------------------------------
(* The client's socket.                                                    *)

\* What wsUnsubscribe and wsDisconnect leave of the sockets.
Disconnected == IF ws = NoSocket THEN socket ELSE [socket EXCEPT ![ws] = "closing"]
Unsubscribed == IF ws = NoSocket THEN subs ELSE [subs EXCEPT ![ws] = @ \ {market}]

\* The server's record of a socket's channels.
Subscribe(s, m) == [subs EXCEPT ![s] = @ \cup {m}]
UnsubscribeAll(s) == [subs EXCEPT ![s] = {}]

\* A new socket replaces whatever the module's variable holds.
NewSocket(sockets) ==
    LET s == Min({r \in Sockets : sockets[r] = "none"})
    IN  /\ socket' = [sockets EXCEPT ![s] = "connecting"]
        /\ ws' = s

\* The effect runs for a market: reset, handlers, subscribe, first poll.  A new
\* instance of the provider starts with its own references.
Mount(m) ==
    /\ ~Mounted /\ Free # {}
    /\ market' = m
    /\ wsActive' = FALSE
    /\ fetch' = Polled(NoFetch, FALSE, visible, m)
    /\ NewSocket(socket)
    /\ UNCHANGED <<visible, timer, subs, wire, version, book, switches>>

\* Its cleanup.
Unmount ==
    /\ Mounted /\ switches < MaxSwitches
    /\ switches' = switches + 1
    /\ market' = Nowhere
    /\ fetch' = NoFetch
    /\ socket' = Disconnected /\ subs' = Unsubscribed
    /\ ws' = NoSocket /\ timer' = FALSE
    /\ UNCHANGED <<visible, wsActive, wire, version, book>>

\* Cleanup and effect in one go, when the market changes: the provider is
\* either kept, with its belief in the socket and its running poll, or replaced.
SwitchMarket(m) ==
    /\ Mounted /\ m # market /\ Free # {} /\ switches < MaxSwitches
    /\ switches' = switches + 1
    /\ market' = m
    /\ \/ /\ UNCHANGED wsActive
          /\ fetch' = IF fetch = NoFetch THEN Polled(NoFetch, wsActive, visible, m) ELSE [fetch EXCEPT !.live = FALSE]
       \/ /\ wsActive' = FALSE
          /\ fetch' = Polled(NoFetch, FALSE, visible, m)
    /\ NewSocket(Disconnected) /\ subs' = Unsubscribed
    /\ timer' = FALSE
    /\ UNCHANGED <<visible, wire, version, book>>

Opened(s) == [socket EXCEPT ![s] = "open"]

\* Mutant: a reconnected socket is not subscribed again.
MutantSubscribed(s) == subs

\* The subscription goes out on the module's socket, if that one is open.
Subscribed(s) ==
    IF ws # NoSocket /\ Opened(s)[ws] = "open" /\ Mounted
    THEN Subscribe(ws, market) ELSE subs

OnOpen(s) ==
    /\ socket[s] = "connecting"
    /\ socket' = Opened(s)
    /\ wsActive' = Mounted
    /\ subs' = Subscribed(s)
    /\ UNCHANGED <<market, visible, ws, timer, wire, fetch, version, book, switches>>

\* The server goes, the network fails, or a closed socket reports its end.
OnClose(s) ==
    /\ socket[s] # "none"
    /\ socket' = [socket EXCEPT ![s] = "none"]
    /\ subs' = UnsubscribeAll(s) /\ wire' = [wire EXCEPT ![s] = NoFrame]
    /\ ws' = NoSocket
    /\ wsActive' = FALSE
    /\ fetch' = IF Mounted THEN Polled(fetch, FALSE, visible, market) ELSE fetch
    /\ timer' = Mounted
    /\ UNCHANGED <<market, visible, version, book, switches>>

\* The reconnect timer.
Reconnect ==
    /\ timer /\ Free # {}
    /\ timer' = FALSE
    /\ NewSocket(socket)
    /\ UNCHANGED <<market, visible, wsActive, subs, wire, fetch, version, book, switches>>

HandleMessage(s) ==
    /\ socket[s] = "open" /\ wire[s] # NoFrame
    /\ wire' = [wire EXCEPT ![s] = NoFrame]
    /\ book' = IF wire[s].market = market THEN SetOrderBook(wire[s]) ELSE book
    /\ UNCHANGED <<market, visible, wsActive, ws, timer, socket, subs, fetch, version, switches>>

-----------------------------------------------------------------------------
(* The server: every tick it reads the books somebody subscribed to.       *)

BroadcastMarket(s, m) ==
    /\ socket[s] = "open" /\ m \in subs[s] /\ wire[s] = NoFrame
    /\ wire' = [wire EXCEPT ![s] = StreamBook(m)]
    /\ UNCHANGED <<market, visible, wsActive, ws, timer, socket, subs, fetch, version, book, switches>>

\* Orders come, fill and go.
BookChanges(m) ==
    /\ version[m] < MaxVersion
    /\ version' = [version EXCEPT ![m] = @ + 1]
    /\ UNCHANGED <<market, visible, wsActive, socketVars, fetch, book, switches>>

-----------------------------------------------------------------------------
StreamInit ==
    /\ market = Nowhere /\ visible = TRUE /\ wsActive = FALSE
    /\ ws = NoSocket /\ timer = FALSE
    /\ socket = [s \in Sockets |-> "none"] /\ subs = [s \in Sockets |-> {}]
    /\ wire = [s \in Sockets |-> NoFrame]
    /\ fetch = NoFetch
    /\ version = [m \in Markets |-> 0] /\ book = [m \in Markets |-> NoBook]
    /\ switches = 0

StreamNext ==
    \/ PollOrderBook \/ FetchAnswers \/ FetchFails \/ OnVisibility
    \/ \E m \in Markets : Mount(m) \/ SwitchMarket(m) \/ BookChanges(m)
    \/ Unmount \/ Reconnect
    \/ \E s \in Sockets :
          \/ OnOpen(s) \/ OnClose(s) \/ HandleMessage(s)
          \/ \E m \in Markets : BroadcastMarket(s, m)

\* Timers fire, a socket that connects opens or closes, one that closes reports
\* it, a tick of the server reaches every subscriber; a poll that is repeated
\* is answered at last.
StreamFairness ==
    /\ WF_streamVars(PollOrderBook) /\ SF_streamVars(FetchAnswers)
    /\ WF_streamVars(Reconnect)
    /\ \A s \in Sockets :
          /\ WF_streamVars(OnOpen(s)) /\ WF_streamVars(socket[s] = "closing" /\ OnClose(s))
          /\ WF_streamVars(HandleMessage(s))
          /\ \A m \in Markets : WF_streamVars(m = market /\ BroadcastMarket(s, m))

-----------------------------------------------------------------------------
\* Once the book stops changing and the trader stays, the screen shows it: no
\* late close, leaked socket or switched market leaves the terminal believing in
\* a stream that brings nothing.
BookIsCurrent == Mounted /\ visible => book[market] = version[market]
ScreenCatchesUp == []<>BookIsCurrent
=============================================================================
