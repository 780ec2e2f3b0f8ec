--------------------------- MODULE GovernanceProofs ---------------------------
(***************************************************************************)
(* For every list of contracts, every delay and every number of faults:    *)
(* the governance contract and the operators' scripts implement the        *)
(* timelock, and a market is never registered without its feed.            *)
(*                                                                         *)
(* What the scripts can do to the chain is bounded by the transactions     *)
(* they send, so the invariant follows a transaction from the script's     *)
(* list of calls to the ledger.  For the second theorem it also says that  *)
(* in a list of calls a market comes after its feed, unless the feed is    *)
(* registered, and that a checkpoint of the feed means it is registered.   *)
(***************************************************************************)
EXTENDS Governance, SetTheorems, SequenceTheorems, TLAPS

Items == {"feed", "market", "code", "reward", "caps", "uncapped"}
ProposalStatuses == {"none", "queued", "executed", "cancelled"}
Scripts == OtherScripts \cup {"off", "nominate", "execute"}
Ops == {"none", "nominate", "queue", "execute", "put", "clear", "pause", "unpause", "upload"}

FeedSet == "feed" \in config[Oracle]

\* What registers the feed, and the market, when it is included.
SetsFeed(tx) ==
    \/ tx.op = "put" /\ tx.to = Oracle /\ tx.what = "feed"
    \/ tx.op = "execute" /\ tx.id = Feed
SetsMarket(tx) ==
    \/ tx.op = "put" /\ tx.to = Engine /\ tx.what = "market"
    \/ tx.op = "execute" /\ tx.id = Market

\* The transactions scripts send.  None takes a feed away.
Txs == {tx \in [op: Ops, to: TargetSet, id: Ids, what: Items \cup {"none"}] :
            /\ tx.op = "put" => tx.what \in Items
            /\ tx.op = "clear" => tx.what = "uncapped"}

\* A nomination is not the last call of its list: its proposal follows.
Paired(calls) == \A i \in DOMAIN calls : calls[i].op = "nominate" => i < Len(calls)

\* The calls of a script that registers a feed and a market by itself.
Registers(script, calls) ==
    CASE script = "add direct" ->
            \A i \in DOMAIN calls : calls[i].op = "put" /\ (calls[i].what = "feed" => calls[i].to = Oracle)
      [] script = "add execute" -> \A i \in DOMAIN calls : calls[i].op = "execute"
      [] OTHER -> \A i \in DOMAIN calls : ~SetsMarket(calls[i])

\* From call `at` on, a market comes after its feed.
InOrder(calls, at) ==
    \A i \in DOMAIN calls : (i >= at /\ SetsMarket(calls[i])) =>
        \E k \in DOMAIN calls : at <= k /\ k < i /\ SetsFeed(calls[k])

ChainPart ==
    /\ prop \in [Ids -> [status : ProposalStatuses, wait : 0..Delay]]
    /\ paused \in BOOLEAN
    /\ admin \in [TargetSet -> {"key", "gov"}]
    /\ pending \subseteq TargetSet /\ guardian \subseteq Pausable
    /\ config \in [TargetSet -> SUBSET Items]
    /\ "market" \in config[Engine] => FeedSet /\ "market" \in config[Vault]

CountPart == eta \in 0..Delay /\ others \in 0..MaxOthers /\ faults \in 0..MaxFaults

LivePart ==
    /\ live \in Txs
    /\ SetsMarket(live) => FeedSet
    /\ (run.sent = "sent" /\ live # NoTx) => live = Current

RunPart ==
    /\ run \in [script: Scripts, calls: Seq(Txs), at: Nat, sent: {"no", "sent", "ok", "failed"}]
    /\ 1 <= run.at /\ run.at <= Len(run.calls) + 1
    /\ run.sent # "no" => run.at <= Len(run.calls)
    /\ run.script = "off" => run.calls = <<>>
    /\ run.script = "nominate" => Paired(run.calls)
    /\ Registers(run.script, run.calls)
    /\ FeedSet \/ InOrder(run.calls, run.at)
    /\ (run.sent = "ok" /\ SetsFeed(Current)) => FeedSet

CheckpointPart == ({<<"direct", Feed>>, <<"executed", Feed>>} \cap ckpt # {}) => FeedSet

IInv == ChainPart /\ CountPart /\ LivePart /\ RunPart /\ CheckpointPart

-----------------------------------------------------------------------------
(* The scripts' lists of calls.                                            *)

\* The constants, the proposals and what they are for.
LEMMA Basics ==
  /\ Targets \in Seq(TargetSet) /\ TransferTargets \in Seq(TargetSet)
  /\ Oracle \in TargetSet /\ Engine \in TargetSet /\ Vault \in TargetSet /\ Liquidation \in TargetSet
  /\ Pausable \subseteq TargetSet /\ Delay \in Nat /\ MaxOthers \in Nat /\ MaxFaults \in Nat
  /\ Feed \in Ids /\ Market \in Ids /\ Feed # Market
  /\ TargetOf[Feed] = Oracle /\ TargetOf[Market] = Engine
  /\ Change[Feed] = "feed" /\ Change[Market] = "market"
  /\ Feed \notin AcceptIds /\ Market \notin AcceptIds
  /\ \A id \in Ids : id \notin AcceptIds => id \in {Feed, Market}
  /\ \A id \in Ids : TargetOf[id] \in TargetSet
  <1>1. Feed # Market /\ Feed \in Ids /\ Market \in Ids /\ Feed[2] = "feed" /\ Market[2] = "market"
    BY DEF Feed, Market, Ids
  <1>2. \A id \in AcceptIds : id[1] \in {"handover", "transfer"} /\ id[2] \in TargetSet
    <2>1. \A id \in HandoverIds : id[1] = "handover" /\ id[2] \in TargetSet
      BY DEF HandoverIds
    <2>2. \A t \in ToSet(TransferTargets) : t \in TargetSet
      BY GovernanceAssumption DEF ToSet
    <2>3. \A id \in TransferIds : id[1] = "transfer" /\ id[2] \in TargetSet
      BY <2>2 DEF TransferIds
    <2>4. QED
      BY <2>1, <2>3 DEF AcceptIds
  <1>3. Feed \notin AcceptIds /\ Market \notin AcceptIds
    BY <1>2 DEF Feed, Market
  <1>4. \A id \in Ids : id \notin AcceptIds => id \in {Feed, Market}
    BY DEF Ids, AcceptIds
  <1>5. TargetOf[Feed] = Oracle /\ TargetOf[Market] = Engine
    BY <1>1 DEF TargetOf
  <1>6. Change[Feed] = "feed" /\ Change[Market] = "market"
    BY <1>1, <1>3 DEF Change
  <1>7. \A id \in Ids : TargetOf[id] \in TargetSet
    <2> TAKE id \in Ids
    <2>1. CASE id \in {Feed, Market}
      BY <1>5, <2>1, GovernanceAssumption
    <2>2. CASE id \notin {Feed, Market}
      <3>1. id \in AcceptIds
        BY <1>4, <2>2
      <3>2. TargetOf[id] = id[2]
        BY <2>2 DEF TargetOf
      <3>3. QED
        BY <1>2, <3>1, <3>2
    <2>3. QED
      BY <2>1, <2>2
  <1>8. QED
    BY <1>1, <1>3, <1>4, <1>5, <1>6, <1>7, GovernanceAssumption

\* The transactions a script can build.
LEMMA Built ==
  /\ \A to \in TargetSet : \A op \in {"nominate", "pause", "unpause", "upload"} :
        Tx(op, to) \in Txs /\ ~SetsMarket(Tx(op, to)) /\ Tx(op, to).op = op
  /\ \A id \in Ids : \A op \in {"queue", "execute"} :
        /\ OfProposal(op, id) \in Txs /\ OfProposal(op, id).op = op /\ OfProposal(op, id).id = id
        /\ SetsMarket(OfProposal(op, id)) <=> op = "execute" /\ id = Market
  /\ \A to \in TargetSet, what \in Items :
        /\ Set("put", to, what) \in Txs /\ Set("put", to, what).op = "put"
        /\ Set("put", to, what).to = to /\ Set("put", to, what).what = what
  /\ \A to \in TargetSet : Set("clear", to, "uncapped") \in Txs /\ ~SetsMarket(Set("clear", to, "uncapped"))
  <1>0. Engine \in TargetSet /\ Feed \in Ids
    BY Basics
  <1> DEFINE Plain == [op: Ops, to: TargetSet, id: Ids, what: Items \cup {"none"}]
  <1>1. ASSUME NEW to \in TargetSet, NEW op \in {"nominate", "pause", "unpause", "upload"}
        PROVE  Tx(op, to) \in Txs /\ ~SetsMarket(Tx(op, to)) /\ Tx(op, to).op = op
    <2>1. PICK tx : tx = Tx(op, to)
      OBVIOUS
    <2>2. tx \in Plain /\ tx.op = op /\ tx.what = "none"
      BY <1>0, <2>1 DEF Tx, NoTx, Ops
    <2>3. QED
      BY <2>1, <2>2 DEF Txs, SetsMarket
  <1>2. ASSUME NEW id \in Ids, NEW op \in {"queue", "execute"}
        PROVE  /\ OfProposal(op, id) \in Txs /\ OfProposal(op, id).op = op /\ OfProposal(op, id).id = id
               /\ SetsMarket(OfProposal(op, id)) <=> op = "execute" /\ id = Market
    <2>1. PICK tx : tx = OfProposal(op, id)
      OBVIOUS
    <2>2. tx \in Plain /\ tx.op = op /\ tx.id = id /\ tx.what = "none"
      BY <1>0, <2>1 DEF OfProposal, NoTx, Ops
    <2>3. QED
      BY <2>1, <2>2 DEF Txs, SetsMarket
  <1>3. ASSUME NEW to \in TargetSet, NEW what \in Items
        PROVE  /\ Set("put", to, what) \in Txs /\ Set("put", to, what).op = "put"
               /\ Set("put", to, what).to = to /\ Set("put", to, what).what = what
    <2>1. PICK tx : tx = Set("put", to, what)
      OBVIOUS
    <2>2. tx \in Plain /\ tx.op = "put" /\ tx.to = to /\ tx.what = what
      BY <1>0, <2>1 DEF Set, NoTx, Ops
    <2>3. QED
      BY <2>1, <2>2 DEF Txs
  <1>4. ASSUME NEW to \in TargetSet
        PROVE  Set("clear", to, "uncapped") \in Txs /\ ~SetsMarket(Set("clear", to, "uncapped"))
    <2>1. PICK tx : tx = Set("clear", to, "uncapped")
      OBVIOUS
    <2>2. tx \in Plain /\ tx.op = "clear" /\ tx.what = "uncapped"
      BY <1>0, <2>1 DEF Set, NoTx, Ops, Items
    <2>3. QED
      BY <2>1, <2>2 DEF Txs, SetsMarket
  <1>5. QED
    BY <1>1, <1>2, <1>3, <1>4

\* Two calls, one after the other.
LEMMA TwoInARow == \A a, b : <<a>> \o <<b>> = <<a, b>>
  <1> TAKE a, b
  <1> DEFINE S == {a, b}
             s == <<a>>
             t == <<b>>
             u == <<a, b>>
  <1>1. s \in Seq(S) /\ t \in Seq(S) /\ u \in Seq(S)
    OBVIOUS
  <1>2. Len(s) = 1 /\ Len(t) = 1 /\ Len(u) = 2 /\ s[1] = a /\ t[1] = b /\ u[1] = a /\ u[2] = b
    OBVIOUS
  <1> HIDE DEF s, t, u
  <1>3. Len(s \o t) = 2 /\ (s \o t)[1] = a /\ (s \o t)[2] = b /\ s \o t \in Seq(S)
    BY <1>1, <1>2, ConcatProperties
  <1>4. s \o t = u
    BY <1>1, <1>2, <1>3, SeqEqual
  <1>5. QED
    BY <1>4 DEF s, t, u

\* add-market's plan: a feed that is not registered is part of it, and comes first.
LEMMA PlanInOrder ==
  ASSUME CheckpointPart, NEW misread
  PROVE  /\ Planned(misread) \in {<<>>, <<Feed>>, <<Market>>, <<Feed, Market>>}
         /\ FeedSet \/ Planned(misread) \in {<<Feed>>, <<Feed, Market>>}
  <1> DEFINE If(id) == IF (misread \/ ~Registered(id)) /\ <<"direct", id>> \notin ckpt THEN <<id>> ELSE <<>>
  <1>1. Planned(misread) = If(Feed) \o If(Market)
    BY DEF Planned
  <1>2. If(Feed) \in {<<>>, <<Feed>>} /\ If(Market) \in {<<>>, <<Market>>}
    OBVIOUS
  <1>3. FeedSet \/ If(Feed) = <<Feed>>
    BY Basics DEF Registered, FeedSet, CheckpointPart
  <1> HIDE DEF If
  <1>4. /\ <<>> \o <<>> = <<>> /\ <<>> \o <<Market>> = <<Market>>
        /\ <<Feed>> \o <<>> = <<Feed>> /\ <<Feed>> \o <<Market>> = <<Feed, Market>>
    <2>1. <<>> \o <<>> = <<>> /\ \A a : <<>> \o <<a>> = <<a>> /\ <<a>> \o <<>> = <<a>>
      OBVIOUS
    <2>2. QED
      BY <2>1, TwoInARow
  <1>5. QED
    BY <1>1, <1>2, <1>3, <1>4

\* Every script but add-market: its calls are transactions, none of them registers a
\* market, and a nomination is followed by its proposal.
LEMMA PlainCalls ==
  /\ \A c \in {Acceptances, TransferNominations, Transfers("queue"), Transfers("execute"), PauseDrill,
               Upgrades, RiskParams} : c \in Seq(Txs) /\ \A i \in DOMAIN c : ~SetsMarket(c[i])
  /\ /\ Nominations \in Seq(Txs) /\ Paired(Nominations)
     /\ \A i \in DOMAIN Nominations : ~SetsMarket(Nominations[i])
  <1> DEFINE Plain == {s \in Seq(Txs) : \A i \in DOMAIN s : ~SetsMarket(s[i])}
             Pairs == {s \in Plain : Paired(s)}
  <1>1. <<>> \in Plain /\ \A a, b \in Plain : a \o b \in Plain
    <2>1. <<>> \in Plain
      OBVIOUS
    <2>2. ASSUME NEW a \in Plain, NEW b \in Plain PROVE a \o b \in Plain
      <3>1. a \in Seq(Txs) /\ b \in Seq(Txs) /\ DOMAIN a = 1..Len(a) /\ DOMAIN b = 1..Len(b)
        OBVIOUS
      <3>2. /\ a \o b \in Seq(Txs) /\ Len(a \o b) = Len(a) + Len(b)
            /\ \A i \in 1..Len(a) + Len(b) : (a \o b)[i] = IF i <= Len(a) THEN a[i] ELSE b[i - Len(a)]
        BY <3>1, ConcatProperties
      <3>3. DOMAIN (a \o b) = 1..Len(a) + Len(b) /\ Len(a) \in Nat /\ Len(b) \in Nat
        BY <3>1, <3>2
      <3>4. ASSUME NEW i \in 1..Len(a) + Len(b) PROVE ~SetsMarket((a \o b)[i])
        <4>1. CASE i <= Len(a)
          <5>1. i \in DOMAIN a /\ (a \o b)[i] = a[i]
            BY <3>1, <3>2, <3>3, <4>1
          <5>2. QED
            BY <5>1
        <4>2. CASE ~(i <= Len(a))
          <5>1. i - Len(a) \in DOMAIN b /\ (a \o b)[i] = b[i - Len(a)]
            BY <3>1, <3>2, <3>3, <4>2
          <5>2. QED
            BY <5>1
        <4>3. QED
          BY <4>1, <4>2
      <3>5. QED
        BY <3>2, <3>3, <3>4
    <2>3. QED
      BY <2>1, <2>2
  <1>2. <<>> \in Pairs /\ \A a, b \in Pairs : a \o b \in Pairs
    <2>1. <<>> \in Pairs
      BY <1>1 DEF Paired
    <2>2. ASSUME NEW a \in Pairs, NEW b \in Pairs PROVE a \o b \in Pairs
      <3>1. /\ a \in Seq(Txs) /\ b \in Seq(Txs) /\ DOMAIN a = 1..Len(a) /\ DOMAIN b = 1..Len(b)
            /\ Paired(a) /\ Paired(b) /\ a \o b \in Plain
        BY <1>1
      <3>2. /\ a \o b \in Seq(Txs) /\ Len(a \o b) = Len(a) + Len(b)
            /\ \A i \in 1..Len(a) + Len(b) : (a \o b)[i] = IF i <= Len(a) THEN a[i] ELSE b[i - Len(a)]
        BY <3>1, ConcatProperties
      <3>3. DOMAIN (a \o b) = 1..Len(a) + Len(b) /\ Len(a) \in Nat /\ Len(b) \in Nat
        BY <3>1, <3>2
      <3>4. ASSUME NEW i \in 1..Len(a) + Len(b), (a \o b)[i].op = "nominate"
            PROVE  i < Len(a) + Len(b)
        <4>1. CASE i <= Len(a)
          <5>1. i \in DOMAIN a /\ a[i].op = "nominate"
            BY <3>1, <3>2, <3>3, <3>4, <4>1
          <5>2. QED
            BY <3>1, <3>3, <5>1 DEF Paired
        <4>2. CASE ~(i <= Len(a))
          <5>1. i - Len(a) \in DOMAIN b /\ b[i - Len(a)].op = "nominate"
            BY <3>1, <3>2, <3>3, <3>4, <4>2
          <5>2. i - Len(a) < Len(b)
            BY <3>1, <5>1 DEF Paired
          <5>3. QED
            BY <3>3, <5>2
        <4>3. QED
          BY <4>1, <4>2
      <3>5. Paired(a \o b)
        BY <3>2, <3>3, <3>4 DEF Paired
      <3>6. QED
        BY <3>1, <3>5
    <2>3. QED
      BY <2>1, <2>2
  <1>3. \A t \in TargetSet : <<"handover", t>> \in Ids /\ <<"handover", t>> # Market
    BY DEF Ids, HandoverIds, Market
  <1>4. \A i \in DOMAIN TransferTargets : <<"transfer", TransferTargets[i]>> \in Ids \ {Market}
    <2>1. \A i \in DOMAIN TransferTargets : TransferTargets[i] \in ToSet(TransferTargets)
      BY DEF ToSet
    <2>2. QED
      BY <2>1 DEF Ids, TransferIds, Market
  <1>5. ASSUME NEW tx \in Txs, ~SetsMarket(tx) PROVE <<tx>> \in Plain
    BY <1>5
  <1>6. ASSUME NEW u \in Txs, NEW v \in Txs, ~SetsMarket(u), ~SetsMarket(v) PROVE <<u, v>> \in Plain
    <2>1. <<u, v>> \in Seq(Txs) /\ DOMAIN <<u, v>> = 1..2 /\ <<u, v>>[1] = u /\ <<u, v>>[2] = v
      OBVIOUS
    <2>2. QED
      BY <1>6, <2>1
  <1>t. /\ Len(Targets) \in Nat /\ DOMAIN Targets = 1..Len(Targets)
        /\ \A i \in DOMAIN Targets : Targets[i] \in TargetSet
        /\ Len(TransferTargets) \in Nat /\ DOMAIN TransferTargets = 1..Len(TransferTargets)
        /\ \A i \in DOMAIN TransferTargets : TransferTargets[i] \in TargetSet
    BY GovernanceAssumption
  <1>7. Nominations \in Pairs
    <2> DEFINE two(t) == <<Tx("nominate", t), OfProposal("queue", <<"handover", t>>)>>
               ss == [i \in DOMAIN Targets |-> two(Targets[i])]
    <2>1. ASSUME NEW t \in TargetSet PROVE two(t) \in Pairs
      <3>1. two(t) \in Plain
        BY <1>3, <1>6, Built
      <3>2. /\ Len(two(t)) = 2 /\ DOMAIN two(t) = 1..2
            /\ two(t)[2].op = "queue"
        BY <1>3, Built
      <3>3. Paired(two(t))
        BY <3>2 DEF Paired
      <3>4. QED
        BY <3>1, <3>3
    <2>2. ss \in [1..Len(Targets) -> Pairs]
      <3> HIDE DEF two, Pairs
      <3>1. QED
        BY <1>t, <2>1
    <2>3. FlattenSeq(ss) \in Pairs
      <3> HIDE DEF ss, Pairs
      <3>1. QED
        BY <1>2, <1>t, <2>2, FlattenClosed
    <2>4. QED
      BY <2>3 DEF Nominations, ForEach
  <1>8. Acceptances \in Plain
    <2> DEFINE ss == [i \in DOMAIN Targets |-> <<OfProposal("execute", <<"handover", Targets[i]>>)>>]
    <2>1. ss \in [1..Len(Targets) -> Plain]
      <3> HIDE DEF Plain
      <3>1. QED
        BY <1>3, <1>5, <1>t, Built
    <2>2. FlattenSeq(ss) \in Plain
      <3> HIDE DEF ss, Plain
      <3>1. QED
        BY <1>1, <1>t, <2>1, FlattenClosed
    <2>3. QED
      BY <2>2 DEF Acceptances, ForEach
  <1>9. TransferNominations \in Plain /\ Transfers("queue") \in Plain /\ Transfers("execute") \in Plain
    <2>1. TransferNominations \in Plain
      <3> DEFINE ss == [i \in DOMAIN TransferTargets |-> <<Tx("nominate", TransferTargets[i])>>]
      <3>1. ss \in [1..Len(TransferTargets) -> Plain]
        <4> HIDE DEF Plain
        <4>1. QED
          BY <1>5, <1>t, Built
      <3>2. FlattenSeq(ss) \in Plain
        <4> HIDE DEF ss, Plain
        <4>1. QED
          BY <1>1, <1>t, <3>1, FlattenClosed
      <3>3. QED
        BY <3>2 DEF TransferNominations, ForEach
    <2>2. ASSUME NEW op \in {"queue", "execute"} PROVE Transfers(op) \in Plain
      <3> DEFINE ss == [i \in DOMAIN TransferTargets |->
                          <<OfProposal(op, <<"transfer", TransferTargets[i]>>)>>]
      <3>1. ss \in [1..Len(TransferTargets) -> Plain]
        <4> HIDE DEF Plain
        <4>1. QED
          BY <1>4, <1>5, <1>t, Built
      <3>2. FlattenSeq(ss) \in Plain
        <4> HIDE DEF ss, Plain
        <4>1. QED
          BY <1>1, <1>t, <3>1, FlattenClosed
      <3>3. QED
        BY <3>2 DEF Transfers, ForEach
    <2>3. QED
      BY <2>1, <2>2
  <1>10. PauseDrill \in Plain
    BY <1>6, Basics, Built DEF PauseDrill
  <1>11. Upgrades \in Plain
    <2> DEFINE some(t) == IF t \in Frozen THEN <<>> ELSE <<Tx("upload", t), Set("put", t, "code")>>
               ss == [i \in DOMAIN Targets |-> some(Targets[i])]
    <2>1. ASSUME NEW t \in TargetSet PROVE some(t) \in Plain
      <3>1. "code" \in Items
        BY DEF Items
      <3>2. Set("put", t, "code") \in Txs /\ ~SetsMarket(Set("put", t, "code"))
        BY <3>1, Built DEF SetsMarket
      <3>3. QED
        BY <1>1, <1>6, <3>2, Built
    <2>2. ss \in [1..Len(Targets) -> Plain]
      <3> HIDE DEF some, Plain
      <3>1. QED
        BY <1>t, <2>1
    <2>3. FlattenSeq(ss) \in Plain
      <3> HIDE DEF ss, Plain
      <3>1. QED
        BY <1>1, <1>t, <2>2, FlattenClosed
    <2>4. QED
      BY <2>3 DEF Upgrades, ForEach
  <1>12. RiskParams \in Plain
    <2>1. \A what \in {"reward", "uncapped", "caps"} : what \in Items
      BY DEF Items
    <2>2. \A t \in TargetSet, what \in {"reward", "uncapped", "caps"} :
             Set("put", t, what) \in Txs /\ ~SetsMarket(Set("put", t, what))
      BY <2>1, Built DEF SetsMarket
    <2>3. QED
      BY <2>2, Basics, Built DEF RiskParams
  <1>13. QED
    BY <1>7, <1>8, <1>9, <1>10, <1>11, <1>12

\* What a script is about to do when it starts.
LEMMA CallsLemma ==
  ASSUME CheckpointPart, NEW s \in Scripts \ {"off"}, NEW misread
  PROVE  /\ Calls(s, misread) \in Seq(Txs)
         /\ s = "nominate" => Paired(Calls(s, misread))
         /\ Registers(s, Calls(s, misread))
         /\ FeedSet \/ InOrder(Calls(s, misread), 1)
  <1> DEFINE c == Calls(s, misread)
  <1>1. CASE s \notin {"add direct", "add queue", "add execute"}
    <2>1. c \in Seq(Txs) /\ (s = "nominate" => Paired(c)) /\ \A i \in DOMAIN c : ~SetsMarket(c[i])
      BY <1>1, PlainCalls DEF Calls, Scripts, OtherScripts
    <2> HIDE DEF c
    <2>2. Registers(s, c) /\ InOrder(c, 1)
      BY <1>1, <2>1 DEF Registers, InOrder
    <2>3. QED
      BY <2>1, <2>2 DEF c
  <1>2. ASSUME NEW p, p = Planned(misread), s \in {"add direct", "add queue", "add execute"}
        PROVE  /\ c \in Seq(Txs) /\ Registers(s, c)
               /\ FeedSet \/ InOrder(c, 1)
    <2>1. p \in {<<>>, <<Feed>>, <<Market>>, <<Feed, Market>>} /\ (FeedSet \/ p \in {<<Feed>>, <<Feed, Market>>})
      BY <1>2, PlanInOrder
    <2>2. /\ p \in Seq(Ids) /\ DOMAIN p = 1..Len(p) /\ Len(p) \in Nat
          /\ \A i \in DOMAIN p : p[i] \in {Feed, Market}
      <3>1. Feed \in Ids /\ Market \in Ids
        BY Basics
      <3>2. CASE p = <<>>
        BY <3>2
      <3>3. ASSUME NEW a \in {Feed, Market}, p = <<a>> PROVE <2>2!:
        BY <3>1, <3>3
      <3>4. CASE p = <<Feed, Market>>
        <4> DEFINE q == <<Feed, Market>>
        <4>1. q \in Seq(Ids) /\ Len(q) = 2 /\ DOMAIN q = 1..2 /\ q[1] = Feed /\ q[2] = Market
          BY <3>1
        <4> HIDE DEF q
        <4>2. p = q
          BY <3>4 DEF q
        <4>3. QED
          <5>1. \A i \in 1..2 : q[i] \in {Feed, Market}
            BY <4>1
          <5>2. \A i \in DOMAIN q : q[i] \in {Feed, Market}
            BY <4>1, <5>1
          <5>3. DOMAIN q = 1..Len(q) /\ Len(q) \in Nat
            BY <4>1
          <5>4. QED
            BY <4>1, <4>2, <5>2, <5>3, Zenon
      <3>5. QED
        BY <2>1, <3>2, <3>3, <3>4
    <2>3. FeedSet \/ (1 \in DOMAIN p /\ p[1] = Feed)
      BY <2>1
    <2>4. Feed \in Ids /\ Market \in Ids /\ "feed" \in Items /\ "market" \in Items /\ "feed" # "market"
      BY Basics DEF Items
    <2>5. ASSUME s = "add direct" PROVE /\ c \in Seq(Txs) /\ Registers(s, c)
                                        /\ FeedSet \/ InOrder(c, 1)
      <3>1. c = [i \in DOMAIN p |-> Set("put", TargetOf[p[i]], Change[p[i]])]
        BY <1>2, <2>5 DEF Calls
      <3> HIDE DEF c
      <3>2. \A i \in DOMAIN p : /\ c[i] \in Txs /\ c[i].op = "put" /\ c[i].to = TargetOf[p[i]]
                                /\ c[i].what = Change[p[i]]
        <4> TAKE i \in DOMAIN p
        <4>1. p[i] \in {Feed, Market}
          BY <2>2
        <4>2. TargetOf[p[i]] \in TargetSet /\ Change[p[i]] \in Items
          BY <2>4, <4>1, Basics
        <4>3. c[i] = Set("put", TargetOf[p[i]], Change[p[i]])
          BY <3>1
        <4> HIDE DEF c
        <4>4. QED
          BY <4>2, <4>3, Built
      <3>3. DOMAIN c = DOMAIN p /\ c \in Seq(Txs)
        BY <2>2, <3>1, <3>2
      <3>4. Registers(s, c)
        BY <2>2, <2>4, <2>5, <3>2, <3>3, Basics DEF Registers
      <3>5. FeedSet \/ InOrder(c, 1)
        <4>1. SUFFICES ASSUME ~FeedSet, NEW i \in DOMAIN c, SetsMarket(c[i])
                       PROVE  \E k \in DOMAIN c : 1 <= k /\ k < i /\ SetsFeed(c[k])
          BY DEF InOrder
        <4>2. 1 \in DOMAIN c /\ p[1] = Feed /\ SetsFeed(c[1])
          BY <2>3, <3>2, <3>3, <4>1, Basics DEF SetsFeed
        <4>3. c[i].what = "market"
          BY <3>2, <3>3, <4>1 DEF SetsMarket
        <4>4. i # 1
          BY <2>4, <3>2, <3>3, <4>2, <4>3, Basics
        <4>5. QED
          BY <2>2, <3>3, <4>2, <4>4
      <3>6. QED
        BY <3>3, <3>4, <3>5
    <2>6. ASSUME s = "add queue" PROVE /\ c \in Seq(Txs) /\ Registers(s, c)
                                       /\ FeedSet \/ InOrder(c, 1)
      <3>1. c = [i \in DOMAIN p |-> OfProposal("queue", p[i])]
        BY <1>2, <2>6 DEF Calls
      <3> HIDE DEF c
      <3>2. \A i \in DOMAIN p : c[i] \in Txs /\ ~SetsMarket(c[i])
        BY <2>2, <3>1, Built
      <3>3. DOMAIN c = DOMAIN p /\ c \in Seq(Txs)
        BY <2>2, <3>1, <3>2
      <3>4. QED
        BY <2>6, <3>2, <3>3 DEF Registers, InOrder
    <2>7. ASSUME s = "add execute" PROVE /\ c \in Seq(Txs) /\ Registers(s, c)
                                         /\ FeedSet \/ InOrder(c, 1)
      <3>1. c = [i \in DOMAIN p |-> OfProposal("execute", p[i])]
        BY <1>2, <2>7 DEF Calls
      <3> HIDE DEF c
      <3>2. \A i \in DOMAIN p : c[i] \in Txs /\ c[i].op = "execute" /\ c[i].id = p[i]
        BY <2>2, <3>1, Built
      <3>3. DOMAIN c = DOMAIN p /\ c \in Seq(Txs)
        BY <2>2, <3>1, <3>2
      <3>4. Registers(s, c)
        BY <2>7, <3>2, <3>3 DEF Registers
      <3>5. FeedSet \/ InOrder(c, 1)
        <4>1. SUFFICES ASSUME ~FeedSet, NEW i \in DOMAIN c, SetsMarket(c[i])
                       PROVE  \E k \in DOMAIN c : 1 <= k /\ k < i /\ SetsFeed(c[k])
          BY DEF InOrder
        <4>2. 1 \in DOMAIN c /\ p[1] = Feed /\ SetsFeed(c[1])
          BY <2>3, <3>2, <3>3, <4>1 DEF SetsFeed
        <4>3. c[i].id = Market
          BY <3>2, <3>3, <4>1 DEF SetsMarket
        <4>4. i # 1
          BY <3>2, <3>3, <4>2, <4>3, Basics
        <4>5. QED
          BY <2>2, <3>3, <4>2, <4>4
      <3>6. QED
        BY <3>3, <3>4, <3>5
    <2>8. QED
      BY <1>2, <2>5, <2>6, <2>7
  <1>3. QED
    BY <1>1, <1>2

-----------------------------------------------------------------------------
(* What a step of the scripts does to the running script.                  *)

\* The empty transaction, and the call the script is at, are transactions.
LEMMA Pieces ==
  /\ NoTx \in Txs /\ ~SetsMarket(NoTx)
  /\ IInv /\ (Working \/ run.sent # "no") => Current \in Txs /\ run.at \in DOMAIN run.calls
  <1>1. NoTx \in Txs /\ ~SetsMarket(NoTx)
    BY Basics DEF NoTx, Txs, Ops, Items, SetsMarket
  <1>2. ASSUME IInv, Working \/ run.sent # "no" PROVE Current \in Txs /\ run.at \in DOMAIN run.calls
    <2>1. run.at \in Nat /\ 1 <= run.at /\ run.at <= Len(run.calls) /\ run.calls \in Seq(Txs)
      BY <1>2 DEF IInv, RunPart, Working
    <2>2. QED
      BY <2>1 DEF Current
  <1>3. QED
    BY <1>1, <1>2

\* A script that stops leaves nothing to send.
LEMMA StopRun ==
  ASSUME run' = Off
  PROVE  RunPart' /\ run'.sent = "no"
  <1>1. /\ run'.script = "off" /\ run'.calls = <<>> /\ run'.at = 1 /\ run'.sent = "no"
        /\ run' \in [script: Scripts, calls: Seq(Txs), at: Nat, sent: {"no", "sent", "ok", "failed"}]
    BY DEF Off, Scripts
  <1>2. Registers("off", <<>>) /\ InOrder(<<>>, 1)
    BY DEF Registers, InOrder
  <1>3. RunPart'
    BY <1>1, <1>2 DEF RunPart
  <1>4. QED
    BY <1>1, <1>3

\* A script that goes on passes a feed's call only once the feed is registered.
LEMMA AdvanceRun ==
  ASSUME IInv, UNCHANGED config, NEW n \in {1, 2}, Advance(n), run.at + n <= Len(run.calls) + 1,
         \/ \A i \in DOMAIN run.calls : ~SetsMarket(run.calls[i])
         \/ n = 1 /\ (SetsFeed(Current) => FeedSet)
  PROVE  RunPart' /\ run'.sent = "no"
  <1>1. run \in [script: Scripts, calls: Seq(Txs), at: Nat, sent: {"no", "sent", "ok", "failed"}] /\ RunPart
    BY DEF IInv, RunPart
  <1>2. /\ run' = [run EXCEPT !.at = run.at + n, !.sent = "no"]
        /\ run'.script = run.script /\ run'.calls = run.calls /\ run'.at = run.at + n /\ run'.sent = "no"
        /\ run' \in [script: Scripts, calls: Seq(Txs), at: Nat, sent: {"no", "sent", "ok", "failed"}]
    <2>1. run' = [run EXCEPT !.at = run.at + n, !.sent = "no"] /\ run.at + n \in Nat
      BY <1>1 DEF Advance
    <2>2. QED
      BY <1>1, <2>1
  <1>3. 1 <= run'.at
    BY <1>1, <1>2 DEF RunPart
  <1>4. FeedSet' <=> FeedSet
    BY DEF FeedSet
  <1>5. FeedSet \/ InOrder(run.calls, run.at + n)
    <2>1. CASE \A i \in DOMAIN run.calls : ~SetsMarket(run.calls[i])
      BY <2>1 DEF InOrder
    <2>2. CASE n = 1 /\ (SetsFeed(Current) => FeedSet)
      <3>1. SUFFICES ASSUME ~FeedSet, NEW i \in DOMAIN run.calls, i >= run.at + 1, SetsMarket(run.calls[i])
                     PROVE  \E k \in DOMAIN run.calls : run.at + 1 <= k /\ k < i /\ SetsFeed(run.calls[k])
        BY <2>2 DEF InOrder
      <3>2. run.at \in Nat /\ i \in Nat
        BY <1>1
      <3>3. PICK k \in DOMAIN run.calls : run.at <= k /\ k < i /\ SetsFeed(run.calls[k])
        BY <1>1, <3>1, <3>2 DEF RunPart, InOrder
      <3>4. k # run.at
        BY <2>2, <3>1, <3>3 DEF Current
      <3>5. k \in Nat
        BY <1>1
      <3>6. QED
        BY <3>2, <3>3, <3>4, <3>5
    <2>3. QED
      BY <2>1, <2>2
  <1>6. QED
    BY <1>1, <1>2, <1>3, <1>4, <1>5 DEF RunPart

\* At an error a script stops, or it is the transfer, which registers nothing.
LEMMA ThrowRun ==
  ASSUME IInv, UNCHANGED config, Working \/ run.sent # "no", Throw
  PROVE  RunPart' /\ run'.sent = "no"
  <1>1. CASE GoesOn
    <2>1. Advance(1)
      BY <1>1 DEF Throw
    <2>2. run.script = "transfer execute" /\ Registers(run.script, run.calls)
      BY <1>1 DEF GoesOn, IInv, RunPart
    <2>3. \A i \in DOMAIN run.calls : ~SetsMarket(run.calls[i])
      BY <2>2 DEF Registers
    <2>4. run.at \in Nat /\ run.calls \in Seq(Txs) /\ run.at + 1 <= Len(run.calls) + 1
      BY Pieces DEF IInv, RunPart
    <2>5. QED
      BY <2>1, <2>3, <2>4, AdvanceRun
  <1>2. CASE ~GoesOn
    BY <1>2, StopRun DEF Throw
  <1>3. QED
    BY <1>1, <1>2

\* The rest of the invariant, when the chain is left alone.
LEMMA QuietChain ==
  ASSUME IInv, UNCHANGED <<chainVars, ckpt>>
  PROVE  /\ ChainPart' /\ CheckpointPart'
         /\ live' \in {live, NoTx} /\ run'.sent = "no" => LivePart'
  <1>1. ChainPart' /\ CheckpointPart' /\ (FeedSet' <=> FeedSet)
    BY DEF IInv, ChainPart, CheckpointPart, FeedSet, chainVars
  <1>2. ASSUME live' \in {live, NoTx}, run'.sent = "no" PROVE LivePart'
    BY <1>1, <1>2, Pieces DEF IInv, LivePart
  <1>3. QED
    BY <1>1, <1>2

-----------------------------------------------------------------------------
(* Every action preserves the invariant.                                   *)

\* At first nothing is proposed, configured, sent or checkpointed.
LEMMA InitIInv == Init => IInv
  <1> SUFFICES ASSUME Init PROVE IInv
    OBVIOUS
  <1>1. ChainPart
    <2>1. /\ prop \in [Ids -> [status : ProposalStatuses, wait : 0..Delay]]
          /\ paused \in BOOLEAN /\ pending \subseteq TargetSet /\ guardian \subseteq Pausable
      <3>1. [status |-> "none", wait |-> 0] \in [status : ProposalStatuses, wait : 0..Delay]
        BY Basics DEF ProposalStatuses
      <3>2. prop \in [Ids -> [status : ProposalStatuses, wait : 0..Delay]]
        BY <3>1 DEF Init
      <3>3. QED
        BY <3>2 DEF Init
    <2>2. admin \in [TargetSet -> {"key", "gov"}] /\ config \in [TargetSet -> SUBSET Items]
      BY DEF Init
    <2>3. config[Engine] = {} /\ config[Vault] = {}
      BY Basics DEF Init
    <2>4. QED
      BY <2>1, <2>2, <2>3 DEF ChainPart
  <1>2. CountPart
    BY Basics DEF Init, CountPart
  <1>3. LivePart
    BY Pieces DEF Init, LivePart
  <1>4. RunPart
    <2>1. /\ run.script = "off" /\ run.calls = <<>> /\ run.at = 1 /\ run.sent = "no"
          /\ run \in [script: Scripts, calls: Seq(Txs), at: Nat, sent: {"no", "sent", "ok", "failed"}]
      BY DEF Init, Off, Scripts
    <2>2. Registers("off", <<>>) /\ InOrder(<<>>, 1)
      BY DEF Registers, InOrder
    <2>3. QED
      BY <2>1, <2>2 DEF RunPart
  <1>5. CheckpointPart
    BY DEF Init, CheckpointPart
  <1>6. QED
    BY <1>1, <1>2, <1>3, <1>4, <1>5 DEF IInv

\* A script begins with the calls of CallsLemma.
LEMMA BeginIInv ==
  ASSUME IInv, NEW s \in Scripts \ {"off"}, NEW misread, Begin(s, misread)
  PROVE  ChainPart' /\ LivePart' /\ RunPart' /\ CheckpointPart'
  <1>1. PICK c : c = Calls(s, misread)
    OBVIOUS
  <1>2. c \in Seq(Txs) /\ (s = "nominate" => Paired(c)) /\ Registers(s, c) /\ (FeedSet \/ InOrder(c, 1))
    BY <1>1, CallsLemma DEF IInv
  <1>3. run' = [Off EXCEPT !.script = s, !.calls = c]
    BY <1>1 DEF Begin
  <1>4. /\ run'.script = s /\ run'.calls = c /\ run'.at = 1 /\ run'.sent = "no"
        /\ run' \in [script: Scripts, calls: Seq(Txs), at: Nat, sent: {"no", "sent", "ok", "failed"}]
    BY <1>2, <1>3 DEF Off
  <1>5. (FeedSet' <=> FeedSet) /\ Len(c) \in Nat
    BY <1>2 DEF FeedSet, Begin, chainVars
  <1>6. RunPart'
    BY <1>2, <1>4, <1>5 DEF RunPart
  <1>7. UNCHANGED <<chainVars, ckpt>> /\ live' = live
    BY DEF Begin
  <1>8. QED
    BY <1>4, <1>6, <1>7, QuietChain

\* The scripts the operator starts.
LEMMA StartIInv ==
  ASSUME IInv, StartHandover \/ \E s \in OtherScripts : StartOther(s)
  PROVE  IInv'
  <1>1. CASE StartHandover
    <2>1. \E s \in {"nominate", "execute"} : Begin(s, FALSE)
      BY <1>1 DEF StartHandover
    <2>2. ChainPart' /\ LivePart' /\ RunPart' /\ CheckpointPart'
      BY <2>1, BeginIInv DEF Scripts
    <2>3. CountPart'
      BY <1>1 DEF StartHandover, Begin, IInv, CountPart
    <2>4. QED
      BY <2>2, <2>3 DEF IInv
  <1>2. ASSUME NEW s \in OtherScripts, StartOther(s) PROVE IInv'
    <2>1. PICK misread \in BOOLEAN : /\ Begin(s, misread) /\ (misread => faults < MaxFaults)
                                     /\ faults' = IF misread THEN faults + 1 ELSE faults
      BY <1>2 DEF StartOther
    <2>2. ChainPart' /\ LivePart' /\ RunPart' /\ CheckpointPart'
      BY <2>1, BeginIInv DEF Scripts, OtherScripts
    <2>3. others < MaxOthers /\ others' = others + 1 /\ eta' = eta
      BY <1>2, <2>1 DEF StartOther, Begin
    <2>4. CountPart'
      BY <2>1, <2>3, Basics DEF IInv, CountPart
    <2>5. QED
      BY <2>2, <2>4 DEF IInv
  <1>3. QED
    BY <1>1, <1>2

\* A skipped feed is registered: its checkpoint says so.
LEMMA SkipIInv ==
  ASSUME IInv, Skip
  PROVE  IInv'
  <1>1. /\ run.at \in Nat /\ run.calls \in Seq(Txs) /\ run.at \in DOMAIN run.calls /\ Current \in Txs
        /\ Len(run.calls) \in Nat /\ run.script \in Scripts /\ Registers(run.script, run.calls)
        /\ DOMAIN run.calls = 1..Len(run.calls) /\ run.at <= Len(run.calls)
    <2>1. run.at \in DOMAIN run.calls /\ Current \in Txs
      BY Pieces DEF Skip
    <2>2. QED
      BY <2>1 DEF IInv, RunPart, Skip, Working
  <1>2. RunPart' /\ run'.sent = "no"
    <2>1. CASE run.script = "nominate"
      <3>1. Advance(2) /\ Current.op = "nominate"
        BY <2>1 DEF Skip, Skipped
      <3>2. run.at + 2 <= Len(run.calls) + 1
        BY <1>1, <2>1, <3>1 DEF IInv, RunPart, Paired, Current
      <3>3. \A i \in DOMAIN run.calls : ~SetsMarket(run.calls[i])
        BY <1>1, <2>1 DEF Registers
      <3>4. UNCHANGED config
        BY DEF Skip, chainVars
      <3>5. QED
        BY <3>1, <3>2, <3>3, <3>4, AdvanceRun
    <2>2. CASE run.script # "nominate"
      <3>1. Advance(1) /\ UNCHANGED config /\ run.at + 1 <= Len(run.calls) + 1
        BY <1>1, <2>2 DEF Skip, chainVars
      <3>2. CASE run.script = "add execute"
        <4>1. <<"executed", Current.id>> \in ckpt /\ Current.op = "execute"
          BY <1>1, <3>2 DEF Skip, Skipped, MarkOf, Registers, Current
        <4>2. SetsFeed(Current) => FeedSet
          BY <4>1 DEF SetsFeed, IInv, CheckpointPart
        <4>3. QED
          BY <3>1, <4>2, AdvanceRun
      <3>3. CASE run.script # "add execute"
        <4>1. run.script # "add direct"
          BY <2>2, <3>3 DEF Skip, Skipped
        <4>2. \A i \in DOMAIN run.calls : ~SetsMarket(run.calls[i])
          BY <1>1, <3>3, <4>1 DEF Registers
        <4>3. QED
          BY <3>1, <4>2, AdvanceRun
      <3>4. QED
        BY <3>2, <3>3
    <2>3. QED
      BY <2>1, <2>2
  <1>3. ChainPart' /\ CheckpointPart' /\ LivePart'
    BY <1>2, QuietChain DEF Skip
  <1>4. CountPart'
    BY DEF Skip, IInv, CountPart
  <1>5. QED
    BY <1>2, <1>3, <1>4 DEF IInv

\* What a script sends is what it is at, and a market is sent only with its feed.
LEMMA SendIInv ==
  ASSUME IInv, Send
  PROVE  IInv'
  <1>1. /\ run \in [script: Scripts, calls: Seq(Txs), at: Nat, sent: {"no", "sent", "ok", "failed"}]
        /\ run.at \in DOMAIN run.calls /\ Current \in Txs /\ run.at \in Nat /\ run.at <= Len(run.calls)
    BY Pieces DEF Send, IInv, RunPart, Working
  <1>2. (FeedSet' <=> FeedSet) /\ UNCHANGED <<chainVars, ckpt>> /\ UNCHANGED config
    BY DEF Send, FeedSet, chainVars
  <1>3. CountPart'
    BY DEF Send, IInv, CountPart
  <1>4. ChainPart' /\ CheckpointPart'
    BY <1>2, QuietChain
  <1>5. CASE live' = Current /\ run' = [run EXCEPT !.sent = "sent"]
    <2>1. /\ run'.script = run.script /\ run'.calls = run.calls /\ run'.at = run.at /\ run'.sent = "sent"
          /\ run' \in [script: Scripts, calls: Seq(Txs), at: Nat, sent: {"no", "sent", "ok", "failed"}]
      BY <1>1, <1>5
    <2>2. RunPart'
      BY <1>1, <1>2, <2>1 DEF IInv, RunPart
    <2>3. SetsMarket(Current) => FeedSet
      BY <1>1 DEF IInv, RunPart, InOrder, Current
    <2>4. Current' = Current
      BY <2>1 DEF Current
    <2>5. PICK c : c = Current
      OBVIOUS
    <2>6. live' = c /\ Current' = c /\ c \in Txs /\ (SetsMarket(c) => FeedSet)
      BY <1>1, <1>5, <2>3, <2>4, <2>5
    <2>7. LivePart'
      BY <1>2, <2>6 DEF LivePart
    <2>8. QED
      BY <1>3, <1>4, <2>2, <2>7 DEF IInv
  <1>6. CASE Throw /\ UNCHANGED live
    <2>1. RunPart' /\ run'.sent = "no"
      BY <1>2, <1>6, ThrowRun DEF Send
    <2>2. QED
      BY <1>2, <1>3, <1>4, <1>6, <2>1, QuietChain DEF IInv
  <1>7. QED
    BY <1>5, <1>6 DEF Send

\* A call that is refused or fails.
LEMMA FailureIInv ==
  ASSUME IInv, SimulationFails \/ NotConfirmed
  PROVE  IInv'
  <1>1. /\ Working \/ run.sent # "no"
        /\ Throw /\ UNCHANGED <<chainVars, live, late, ckpt, eta, others, faults>>
    BY DEF SimulationFails, NotConfirmed
  <1>2. RunPart' /\ run'.sent = "no"
    BY <1>1, ThrowRun DEF chainVars
  <1>3. ChainPart' /\ CheckpointPart' /\ LivePart'
    BY <1>1, <1>2, QuietChain
  <1>4. CountPart'
    BY <1>1 DEF IInv, CountPart
  <1>5. QED
    BY <1>2, <1>3, <1>4 DEF IInv

\* A checkpoint is written after its call was confirmed.
LEMMA ConfirmedIInv ==
  ASSUME IInv, Confirmed
  PROVE  IInv'
  <1>1. /\ run.at \in DOMAIN run.calls /\ Current \in Txs /\ run.at \in Nat /\ run.at <= Len(run.calls)
        /\ run.calls \in Seq(Txs) /\ (SetsFeed(Current) => FeedSet) /\ Registers(run.script, run.calls)
    BY Pieces DEF Confirmed, IInv, RunPart
  <1>2. UNCHANGED config /\ UNCHANGED <<chainVars, live, late, eta, others, faults>>
    BY DEF Confirmed, chainVars
  <1>3. RunPart' /\ run'.sent = "no"
    BY <1>1, <1>2, AdvanceRun DEF Confirmed
  <1>4. (FeedSet' <=> FeedSet) /\ ChainPart' /\ CountPart'
    BY <1>2 DEF IInv, ChainPart, CountPart, FeedSet, chainVars
  <1>5. CheckpointPart'
    <2>1. CASE ~Marks
      BY <1>4, <2>1 DEF Confirmed, IInv, CheckpointPart
    <2>2. CASE Marks
      <3>1. PICK m : m = MarkOf(Current)
        OBVIOUS
      <3>2. ckpt' = ckpt \cup {m}
        BY <2>2, <3>1 DEF Confirmed
      <3>3. m \in {<<"direct", Feed>>, <<"executed", Feed>>} => SetsFeed(Current)
        <4>1. CASE run.script = "add direct"
          <5>1. m = <<"direct", <<"set", Current.what>>>>
            BY <3>1, <4>1 DEF MarkOf
          <5>2. Current.op = "put" /\ (Current.what = "feed" => Current.to = Oracle)
            BY <1>1, <4>1 DEF Registers, Current
          <5>3. QED
            BY <5>1, <5>2 DEF SetsFeed, Feed
        <4>2. CASE run.script = "add queue"
          BY <3>1, <4>2 DEF MarkOf
        <4>3. CASE run.script = "add execute"
          <5>1. m = <<"executed", Current.id>>
            BY <3>1, <4>3 DEF MarkOf
          <5>2. Current.op = "execute"
            BY <1>1, <4>3 DEF Registers, Current
          <5>3. QED
            BY <5>1, <5>2 DEF SetsFeed
        <4>4. QED
          BY <2>2, <4>1, <4>2, <4>3 DEF Marks
      <3>4. QED
        BY <1>1, <1>4, <3>2, <3>3 DEF IInv, CheckpointPart
    <2>3. QED
      BY <2>1, <2>2
  <1>6. LivePart'
    BY <1>2, <1>3, <1>4 DEF IInv, LivePart
  <1>7. QED
    BY <1>3, <1>4, <1>5, <1>6 DEF IInv

\* The end of a script.
LEMMA FinishIInv ==
  ASSUME IInv, Finish
  PROVE  IInv'
  <1>1. RunPart' /\ run'.sent = "no"
    BY StopRun DEF Finish
  <1>2. ChainPart' /\ CheckpointPart' /\ LivePart'
    BY <1>1, QuietChain DEF Finish
  <1>3. CountPart'
    <2>1. eta' \in {eta, Delay} /\ others' = others /\ faults' = faults
      BY DEF Finish
    <2>2. QED
      BY <2>1, Basics DEF IInv, CountPart
  <1>4. QED
    BY <1>1, <1>2, <1>3 DEF IInv

-----------------------------------------------------------------------------
(* The ledger includes a transaction.                                      *)

\* A setting is added on the contracts it reaches, and nothing else changes.
LEMMA WrittenAdds ==
  ASSUME config \in [TargetSet -> SUBSET Items], NEW t \in TargetSet, NEW what \in Items,
         config' = Written(t, what)
  PROVE  /\ config' \in [TargetSet -> SUBSET Items]
         /\ \A u \in TargetSet : config[u] \subseteq config'[u]
         /\ what \in config'[t]
         /\ (t = Engine /\ what = "market") => "market" \in config'[Vault]
         /\ \A u \in TargetSet : \A x \in config'[u] : x \in config[u] \/ (x = what /\ u \in Reach(t, what))
  <1>1. t \in Reach(t, what)
    BY DEF Reach
  <1>2. (t = Engine /\ what = "market") => Vault \in Reach(t, what)
    BY DEF Reach
  <1>3. PICK reach : reach = Reach(t, what)
    OBVIOUS
  <1>4. config' = [u \in TargetSet |-> IF u \in reach THEN config[u] \cup {what} ELSE config[u]]
    BY <1>3 DEF Written
  <1>5. QED
    BY <1>1, <1>2, <1>3, <1>4, Basics

\* The setting of a market comes with its feed and reaches the vault; any other
\* setting leaves the markets as they are.
LEMMA WrittenKeepsMarkets ==
  ASSUME ChainPart, NEW t \in TargetSet, NEW what \in Items, config' = Written(t, what),
         (t = Engine /\ what = "market") => FeedSet
  PROVE  /\ config' \in [TargetSet -> SUBSET Items]
         /\ FeedSet => FeedSet'
         /\ (t = Oracle /\ what = "feed") => FeedSet'
         /\ "market" \in config'[Engine] => FeedSet' /\ "market" \in config'[Vault]
  <1>1. config \in [TargetSet -> SUBSET Items]
    BY DEF ChainPart
  <1>2. /\ config' \in [TargetSet -> SUBSET Items]
        /\ \A u \in TargetSet : config[u] \subseteq config'[u]
        /\ what \in config'[t]
        /\ (t = Engine /\ what = "market") => "market" \in config'[Vault]
        /\ \A u \in TargetSet : \A x \in config'[u] : x \in config[u] \/ (x = what /\ u \in Reach(t, what))
    BY <1>1, WrittenAdds
  <1>3. FeedSet => FeedSet'
    BY <1>2, Basics DEF FeedSet
  <1>4. (t = Oracle /\ what = "feed") => FeedSet'
    BY <1>2 DEF FeedSet
  <1>5. ASSUME "market" \in config'[Engine] PROVE FeedSet' /\ "market" \in config'[Vault]
    <2>1. CASE "market" \in config[Engine]
      BY <1>2, <1>3, <2>1, Basics DEF ChainPart
    <2>2. CASE what = "market" /\ Engine \in Reach(t, what)
      <3>1. t = Engine
        BY <2>2 DEF Reach
      <3>2. QED
        BY <1>2, <1>3, <2>2, <3>1
    <2>3. QED
      BY <1>2, <1>5, <2>1, <2>2, Basics
  <1>6. QED
    BY <1>2, <1>3, <1>4, <1>5

\* What an included transaction leaves of the chain.
LEMMA IncludeChain ==
  ASSUME IInv, Include
  PROVE  /\ ChainPart'
         /\ FeedSet => FeedSet'
         /\ Applies(live) /\ SetsFeed(live) => FeedSet'
  <1>1. PICK tx : tx = live
    OBVIOUS
  <1>2. /\ tx \in Txs /\ tx.op \in Ops /\ tx.to \in TargetSet /\ tx.id \in Ids
        /\ (SetsMarket(tx) => FeedSet) /\ ChainPart
        /\ (tx.op = "put" => tx.what \in Items) /\ (tx.op = "clear" => tx.what = "uncapped")
    BY <1>1 DEF IInv, LivePart, Txs
  <1>3. IF Applies(tx) THEN Effect(tx) ELSE UNCHANGED chainVars
    BY <1>1 DEF Include
  <1> DEFINE Good == /\ ChainPart'
                     /\ FeedSet => FeedSet'
                     /\ SetsFeed(tx) => FeedSet'
  <1>4. CASE ~Applies(tx)
    <2>1. UNCHANGED chainVars
      BY <1>3, <1>4
    <2>2. QED
      BY <1>1, <1>2, <1>4, <2>1 DEF ChainPart, FeedSet, chainVars
  <1>5. ASSUME Applies(tx) PROVE Good
    <2>1. Effect(tx)
      BY <1>3, <1>5
    <2>2. CASE tx.op = "nominate"
      <3>1. Nominate(tx.to)
        BY <2>1, <2>2 DEF Effect
      <3>2. ~SetsFeed(tx)
        BY <2>2 DEF SetsFeed
      <3>3. QED
        BY <1>2, <3>1, <3>2 DEF Nominate, ChainPart, FeedSet
    <2>3. CASE tx.op = "queue"
      <3>1. Queue(tx.id)
        BY <2>1, <2>3 DEF Effect
      <3>2. ~SetsFeed(tx)
        BY <2>3 DEF SetsFeed
      <3>3. [status |-> "queued", wait |-> Delay] \in [status : ProposalStatuses, wait : 0..Delay]
        BY Basics DEF ProposalStatuses
      <3>4. prop' \in [Ids -> [status : ProposalStatuses, wait : 0..Delay]]
        BY <1>2, <3>1, <3>3 DEF Queue, ChainPart
      <3>5. QED
        BY <1>2, <3>1, <3>2, <3>4 DEF Queue, ChainPart, FeedSet
    <2>4. CASE tx.op = "execute"
      <3>1. Execute(tx.id)
        BY <2>1, <2>4 DEF Effect
      <3>2. PICK t \in TargetSet : t = TargetOf[tx.id]
        BY <1>2, Basics
      <3>3. prop' \in [Ids -> [status : ProposalStatuses, wait : 0..Delay]]
        <4>1. prop' = [prop EXCEPT ![tx.id].status = "executed"] /\ "executed" \in ProposalStatuses
          BY <3>1 DEF Execute, ProposalStatuses
        <4>2. QED
          BY <1>2, <4>1 DEF ChainPart
      <3>4. paused' = paused /\ guardian' = guardian
        BY <3>1 DEF Execute
      <3>5. CASE tx.id \in AcceptIds
        <4>1. /\ admin' = [admin EXCEPT ![t] = "gov"] /\ pending' = pending \ {t} /\ config' = config
          BY <3>1, <3>2, <3>5 DEF Execute
        <4>2. ~SetsFeed(tx)
          BY <2>4, <3>5, Basics DEF SetsFeed
        <4>3. QED
          BY <1>2, <3>3, <3>4, <4>1, <4>2 DEF ChainPart, FeedSet
      <3>6. CASE tx.id \notin AcceptIds
        <4>1. /\ admin' = admin /\ pending' = pending
              /\ config' = Written(t, Change[tx.id])
          BY <3>1, <3>2, <3>6 DEF Execute
        <4>2. \/ tx.id = Feed /\ t = Oracle /\ Change[tx.id] = "feed"
              \/ tx.id = Market /\ t = Engine /\ Change[tx.id] = "market" /\ SetsMarket(tx)
          BY <1>2, <2>4, <3>2, <3>6, Basics DEF SetsMarket
        <4>3. Change[tx.id] \in Items /\ "feed" # "market" /\ (FeedSet \/ Change[tx.id] = "feed")
          BY <1>2, <4>2 DEF Items
        <4>4. Change[tx.id] \in Items /\ ((t = Engine /\ Change[tx.id] = "market") => FeedSet)
          BY <4>2, <4>3 DEF Items
        <4>5. /\ config' \in [TargetSet -> SUBSET Items]
              /\ FeedSet => FeedSet'
              /\ (t = Oracle /\ Change[tx.id] = "feed") => FeedSet'
              /\ "market" \in config'[Engine] => FeedSet' /\ "market" \in config'[Vault]
          BY <1>2, <4>1, <4>4, WrittenKeepsMarkets
        <4>6. SetsFeed(tx) => FeedSet'
          BY <2>4, <4>2, <4>5, Basics DEF SetsFeed
        <4>7. QED
          BY <1>2, <3>3, <3>4, <4>1, <4>5, <4>6 DEF ChainPart
      <3>7. QED
        BY <3>5, <3>6
    <2>5. CASE tx.op = "put"
      <3>1. config' = Written(tx.to, tx.what) /\ UNCHANGED <<prop, paused, admin, pending, guardian>>
        BY <2>1, <2>5 DEF Effect, Configure
      <3>2. (tx.to = Engine /\ tx.what = "market") => FeedSet
        BY <1>2, <2>5 DEF SetsMarket
      <3>3. /\ config' \in [TargetSet -> SUBSET Items]
            /\ FeedSet => FeedSet'
            /\ (tx.to = Oracle /\ tx.what = "feed") => FeedSet'
            /\ "market" \in config'[Engine] => FeedSet' /\ "market" \in config'[Vault]
        BY <1>2, <2>5, <3>1, <3>2, WrittenKeepsMarkets
      <3>4. SetsFeed(tx) => FeedSet'
        BY <2>5, <3>3 DEF SetsFeed
      <3>5. QED
        BY <1>2, <3>1, <3>3, <3>4 DEF ChainPart
    <2>6. CASE tx.op = "clear"
      <3>1. Configure([config EXCEPT ![tx.to] = @ \ {tx.what}])
        BY <2>1, <2>6 DEF Effect
      <3>2. config' = [config EXCEPT ![tx.to] = config[tx.to] \ {"uncapped"}]
            /\ UNCHANGED <<prop, paused, admin, pending, guardian>>
        BY <1>2, <2>6, <3>1 DEF Configure
      <3>3. /\ config' \in [TargetSet -> SUBSET Items]
            /\ \A u \in TargetSet : config'[u] = IF u = tx.to THEN config[u] \ {"uncapped"} ELSE config[u]
        BY <1>2, <3>2 DEF ChainPart
      <3>4. FeedSet <=> FeedSet'
        BY <3>3, Basics DEF FeedSet
      <3>5. "market" \in config'[Engine] => FeedSet' /\ "market" \in config'[Vault]
        BY <1>2, <3>3, <3>4, Basics DEF ChainPart
      <3>6. ~SetsFeed(tx)
        BY <2>6 DEF SetsFeed
      <3>7. QED
        BY <1>2, <3>2, <3>3, <3>4, <3>5, <3>6 DEF ChainPart
    <2>7. CASE tx.op \in {"none", "pause", "unpause", "upload"}
      <3>1. UNCHANGED <<prop, admin, pending, guardian, config>> /\ paused' \in {paused, TRUE, FALSE}
        BY <2>1, <2>7 DEF Effect, EmergencyPause, chainVars
      <3>2. ~SetsFeed(tx)
        BY <2>7 DEF SetsFeed
      <3>3. paused' \in BOOLEAN
        BY <1>2, <3>1 DEF ChainPart
      <3>4. QED
        BY <1>2, <3>1, <3>2, <3>3 DEF ChainPart, FeedSet
    <2>8. QED
      BY <1>2, <2>2, <2>3, <2>4, <2>5, <2>6, <2>7 DEF Ops
  <1>6. QED
    BY <1>1, <1>4, <1>5

\* An included transaction registers a market only with its feed.
LEMMA IncludeIInv ==
  ASSUME IInv, Include
  PROVE  IInv'
  <1>1. ChainPart' /\ (FeedSet => FeedSet') /\ (Applies(live) /\ SetsFeed(live) => FeedSet')
    BY IncludeChain
  <1>2. CountPart'
    BY DEF Include, IInv, CountPart
  <1>3. CheckpointPart'
    BY <1>1 DEF Include, IInv, CheckpointPart
  <1>4. LivePart'
    BY Pieces DEF Include, LivePart
  <1>5. RunPart'
    <2>1. run \in [script: Scripts, calls: Seq(Txs), at: Nat, sent: {"no", "sent", "ok", "failed"}] /\ RunPart
      BY DEF IInv, RunPart
    <2>2. CASE run.sent = "sent"
      <3>1. PICK s \in {"ok", "failed"} : s = IF Applies(live) THEN "ok" ELSE "failed"
        OBVIOUS
      <3>2. run' = [run EXCEPT !.sent = s]
        BY <2>2, <3>1 DEF Include
      <3>3. /\ run'.script = run.script /\ run'.calls = run.calls /\ run'.at = run.at /\ run'.sent = s
            /\ run' \in [script: Scripts, calls: Seq(Txs), at: Nat, sent: {"no", "sent", "ok", "failed"}]
        BY <2>1, <3>2
      <3>4. Current' = Current /\ live = Current
        BY <2>2, <3>3 DEF Current, Include, IInv, LivePart
      <3>5. PICK c : c = Current
        OBVIOUS
      <3>6. Current' = c /\ live = c
        BY <3>4, <3>5
      <3>7. (s = "ok" /\ SetsFeed(c)) => FeedSet'
        BY <1>1, <3>1, <3>6
      <3>8. (run'.sent = "ok" /\ SetsFeed(Current)') => FeedSet'
        BY <3>3, <3>6, <3>7
      <3>9. run'.sent # "no" => run'.at <= Len(run'.calls)
        BY <2>1, <2>2, <3>3 DEF RunPart
      <3>10. (FeedSet' \/ InOrder(run'.calls, run'.at)) /\ Registers(run'.script, run'.calls)
        BY <1>1, <2>1, <3>3 DEF RunPart
      <3>11. QED
        BY <2>1, <3>3, <3>8, <3>9, <3>10 DEF RunPart
    <2>3. CASE run.sent # "sent"
      <3>1. run' = run
        BY <2>3 DEF Include
      <3>2. Current' = Current
        BY <3>1 DEF Current
      <3>3. PICK c : c = Current
        OBVIOUS
      <3>4. Current' = c /\ ((run.sent = "ok" /\ SetsFeed(c)) => FeedSet)
        BY <2>1, <3>2, <3>3 DEF RunPart
      <3>5. (run'.sent = "ok" /\ SetsFeed(Current)') => FeedSet'
        BY <1>1, <3>1, <3>4
      <3>6. FeedSet' \/ InOrder(run'.calls, run'.at)
        BY <1>1, <2>1, <3>1 DEF RunPart
      <3>7. QED
        BY <2>1, <3>1, <3>5, <3>6 DEF RunPart
    <2>4. QED
      BY <2>2, <2>3
  <1>6. QED
    BY <1>1, <1>2, <1>3, <1>4, <1>5 DEF IInv

-----------------------------------------------------------------------------
(* People, time and faults.                                                *)

\* A step that leaves the scripts and what is configured alone.
LEMMA QuietScripts ==
  ASSUME IInv, UNCHANGED <<config, run, live, ckpt>>
  PROVE  LivePart' /\ RunPart' /\ CheckpointPart'
  <1>1. FeedSet' <=> FeedSet
    BY DEF FeedSet
  <1>2. Current' = Current
    BY DEF Current
  <1>3. PICK c : c = Current
    OBVIOUS
  <1>4. Current' = c
    BY <1>2, <1>3
  <1>5. LivePart'
    BY <1>1, <1>3, <1>4 DEF IInv, LivePart
  <1>6. RunPart'
    BY <1>1, <1>3, <1>4 DEF IInv, RunPart
  <1>7. CheckpointPart'
    BY <1>1 DEF IInv, CheckpointPart
  <1>8. QED
    BY <1>5, <1>6, <1>7

\* The guardian, the governance admin and the clock register nothing.
LEMMA PeopleIInv ==
  ASSUME IInv,
         \/ \E t \in TargetSet : SetGuardian(t)
         \/ \E id \in Ids : Cancel(id)
         \/ GuardianPauses \/ GuardianUnpauses \/ Tick
  PROVE  IInv'
  <1>0. ChainPart /\ CountPart
    BY DEF IInv
  <1>1. ASSUME NEW t \in TargetSet, SetGuardian(t) PROVE IInv'
    <2>1. ChainPart' /\ CountPart'
      BY <1>0, <1>1 DEF SetGuardian, ChainPart, CountPart, FeedSet
    <2>2. LivePart' /\ RunPart' /\ CheckpointPart'
      BY <1>1, QuietScripts DEF SetGuardian
    <2>3. QED
      BY <2>1, <2>2 DEF IInv
  <1>2. ASSUME NEW id \in Ids, Cancel(id) PROVE IInv'
    <2>1. prop' \in [Ids -> [status : ProposalStatuses, wait : 0..Delay]]
      <3>1. prop' = [prop EXCEPT ![id].status = "cancelled"] /\ "cancelled" \in ProposalStatuses
        BY <1>2 DEF Cancel, ProposalStatuses
      <3>2. QED
        BY <1>0, <3>1 DEF ChainPart
    <2>2. ChainPart'
      BY <1>0, <1>2, <2>1 DEF Cancel, ChainPart, FeedSet
    <2>3. CountPart'
      BY <1>0, <1>2, Basics DEF Cancel, CountPart
    <2>4. LivePart' /\ RunPart' /\ CheckpointPart'
      BY <1>2, QuietScripts DEF Cancel
    <2>5. QED
      BY <2>2, <2>3, <2>4 DEF IInv
  <1>3. CASE GuardianPauses \/ GuardianUnpauses
    <2>1. /\ UNCHANGED <<prop, admin, pending, guardian, config, run, live, late, ckpt, eta, others>>
          /\ paused' \in BOOLEAN /\ (faults' = faults \/ (faults < MaxFaults /\ faults' = faults + 1))
      BY <1>3 DEF GuardianPauses, GuardianUnpauses, EmergencyPause
    <2>2. ChainPart'
      BY <1>0, <2>1 DEF ChainPart, FeedSet
    <2>3. CountPart'
      BY <1>0, <2>1, Basics DEF CountPart
    <2>4. LivePart' /\ RunPart' /\ CheckpointPart'
      BY <2>1, QuietScripts
    <2>5. QED
      BY <2>2, <2>3, <2>4 DEF IInv
  <1>4. CASE Tick
    <2>1. prop' \in [Ids -> [status : ProposalStatuses, wait : 0..Delay]]
      <3>1. ASSUME NEW id \in Ids
            PROVE  [prop[id] EXCEPT !.wait = IF @ > 0 THEN @ - 1 ELSE 0] \in [status : ProposalStatuses, wait : 0..Delay]
        <4>1. prop[id] \in [status : ProposalStatuses, wait : 0..Delay]
          BY <1>0 DEF ChainPart
        <4>2. PICK w \in 0..Delay : w = IF prop[id].wait > 0 THEN prop[id].wait - 1 ELSE 0
          BY <4>1, Basics
        <4>3. [prop[id] EXCEPT !.wait = w] \in [status : ProposalStatuses, wait : 0..Delay]
          BY <4>1
        <4>4. QED
          BY <4>2, <4>3
      <3>2. prop' = [id \in Ids |-> [prop[id] EXCEPT !.wait = IF @ > 0 THEN @ - 1 ELSE 0]]
        BY <1>4 DEF Tick
      <3>3. QED
        BY <3>1, <3>2
    <2>2. ChainPart'
      BY <1>0, <1>4, <2>1 DEF Tick, ChainPart, FeedSet
    <2>3. CountPart'
      BY <1>0, <1>4, Basics DEF Tick, CountPart
    <2>4. LivePart' /\ RunPart' /\ CheckpointPart'
      BY <1>4, QuietScripts DEF Tick
    <2>5. QED
      BY <2>2, <2>3, <2>4 DEF IInv
  <1>5. QED
    BY <1>1, <1>2, <1>3, <1>4

\* Faults stop a script, drop its transaction or make it pass a call that registers nothing.
LEMMA FaultIInv ==
  ASSUME IInv, Fault
  PROVE  IInv'
  <1>1. /\ UNCHANGED <<chainVars, ckpt, eta, others>> /\ UNCHANGED config
        /\ faults < MaxFaults /\ faults' = faults + 1
    BY DEF Fault, chainVars
  <1>2. CountPart'
    BY <1>1, Basics DEF IInv, CountPart
  <1>3. ChainPart' /\ CheckpointPart' /\ (live' \in {live, NoTx} /\ run'.sent = "no" => LivePart')
    BY <1>1, QuietChain
  <1>4. CASE UNCHANGED live /\ RunPart' /\ run'.sent = "no"
    BY <1>2, <1>3, <1>4 DEF IInv
  <1>5. CASE run' = Off /\ UNCHANGED live
    BY <1>4, <1>5, StopRun
  <1>6. CASE run.sent = "sent" /\ Throw /\ UNCHANGED live
    BY <1>1, <1>4, <1>6, ThrowRun
  <1>7. CASE UNCHANGED <<run, live>>
    BY <1>1, <1>2, <1>3, <1>7, QuietScripts DEF IInv
  <1>8. CASE live # NoTx /\ live' = NoTx /\ UNCHANGED run
    <2>1. LivePart'
      BY <1>8, Pieces DEF LivePart
    <2>2. Current' = Current
      BY <1>8 DEF Current
    <2>3. PICK c : c = Current
      OBVIOUS
    <2>4. Current' = c /\ (FeedSet' <=> FeedSet)
      BY <1>1, <2>2, <2>3 DEF FeedSet
    <2>5. RunPart'
      BY <1>8, <2>3, <2>4 DEF IInv, RunPart
    <2>6. QED
      BY <1>2, <1>3, <2>1, <2>5 DEF IInv
  <1>9. CASE Working /\ run.script = "execute" /\ Advance(1) /\ UNCHANGED live
    <2>1. /\ run.at \in Nat /\ run.calls \in Seq(Txs) /\ run.at + 1 <= Len(run.calls) + 1
          /\ Registers(run.script, run.calls)
      BY <1>9 DEF Working, IInv, RunPart
    <2>2. \A i \in DOMAIN run.calls : ~SetsMarket(run.calls[i])
      BY <1>9, <2>1 DEF Registers
    <2>3. RunPart' /\ run'.sent = "no"
      BY <1>1, <1>9, <2>1, <2>2, AdvanceRun
    <2>4. QED
      BY <1>4, <1>9, <2>3
  <1>10. QED
    BY <1>5, <1>6, <1>7, <1>8, <1>9 DEF Fault

\* One step of the specification.
LEMMA NextIInv == IInv /\ [Next]_vars => IInv'
  <1> SUFFICES ASSUME IInv, [Next]_vars PROVE IInv'
    OBVIOUS
  <1>1. CASE StartHandover \/ \E s \in OtherScripts : StartOther(s)
    BY <1>1, StartIInv
  <1>2. CASE ScriptStep
    BY <1>2, SkipIInv, SendIInv, FailureIInv, ConfirmedIInv, FinishIInv DEF ScriptStep
  <1>3. CASE Include
    BY <1>3, IncludeIInv
  <1>4. CASE \/ \E t \in TargetSet : SetGuardian(t)
             \/ \E id \in Ids : Cancel(id)
             \/ GuardianPauses \/ GuardianUnpauses \/ Tick
    BY <1>4, PeopleIInv
  <1>5. CASE Fault
    BY <1>5, FaultIInv
  <1>6. CASE UNCHANGED vars
    <2>1. UNCHANGED <<config, run, live, ckpt>> /\ ChainPart' /\ CountPart'
      BY <1>6 DEF vars, chainVars, IInv, ChainPart, CountPart, FeedSet
    <2>2. QED
      BY <2>1, QuietScripts DEF IInv
  <1>7. QED
    BY <1>1, <1>2, <1>3, <1>4, <1>5, <1>6 DEF Next

\* The inductive invariant: what scripts send, what may still be included, what the
\* checkpoint file says and what is registered agree.
THEOREM ScriptsAndChainAgree == Spec => []IInv
  BY InitIInv, NextIInv, PTL DEF Spec

\* A market is live only with the feed it is priced from: however many scripts, with the
\* key or through proposals, register them, are interrupted, repeated, delayed or misled
\* by a read that fails.
THEOREM MarketAlwaysHasFeed == Spec => []MarketHasFeed
  <1>1. IInv => MarketHasFeed
    <2> SUFFICES ASSUME IInv PROVE MarketHasFeed
      OBVIOUS
    <2>1. /\ run \in [script: Scripts, calls: Seq(Txs), at: Nat, sent: {"no", "sent", "ok", "failed"}]
          /\ 1 <= run.at /\ run.at <= Len(run.calls) + 1
      BY DEF IInv, RunPart
    <2>2. run.at \in 1..Len(run.calls) + 1 /\ run.sent \in {"no", "sent", "ok", "failed"}
      BY <2>1
    <2>3. QED
      BY <2>2 DEF IInv, ChainPart, CountPart, ProposalStatuses, Items, FeedSet, MarketHasFeed, TypeOK
  <1>2. QED
    BY <1>1, ScriptsAndChainAgree, PTL

-----------------------------------------------------------------------------
(* The contract and the scripts implement the timelock.                    *)

Governed == {t \in TargetSet : admin[t] = "gov"}

\* Every transaction the ledger includes is a step of the timelock, or nothing to it.
LEMMA IncludeIsTimelock ==
  ASSUME IInv, Include
  PROVE  TL!Next \/ UNCHANGED <<prop, paused, Governed, config>>
  <1>1. PICK tx : tx = live
    OBVIOUS
  <1>2. /\ tx \in Txs /\ tx.op \in Ops /\ tx.to \in TargetSet /\ tx.id \in Ids /\ ChainPart
    BY <1>1 DEF IInv, LivePart, Txs
  <1>3. IF Applies(tx) THEN Effect(tx) ELSE UNCHANGED chainVars
    BY <1>1 DEF Include
  <1>4. CASE ~Applies(tx)
    <2>1. UNCHANGED chainVars
      BY <1>3, <1>4
    <2>2. QED
      BY <2>1 DEF chainVars, Governed
  <1>5. ASSUME Applies(tx) PROVE TL!Next \/ UNCHANGED <<prop, paused, Governed, config>>
    <2>1. Effect(tx)
      BY <1>3, <1>5
    <2>2. CASE tx.op = "nominate"
      <3>1. Nominate(tx.to)
        BY <2>1, <2>2 DEF Effect
      <3>2. QED
        BY <3>1 DEF Nominate, Governed
    <2>3. CASE tx.op = "queue"
      <3>1. Queue(tx.id) /\ prop[tx.id].status = "none"
        BY <1>5, <2>1, <2>3 DEF Effect, Applies
      <3>2. TL!Announce(tx.id)
        BY <3>1 DEF Queue, TL!Announce
      <3>3. QED
        BY <1>2, <3>2 DEF TL!Next
    <2>4. CASE tx.op = "execute"
      <3>1. Execute(tx.id) /\ ~paused /\ prop[tx.id].status = "queued" /\ Matured(tx.id) /\ TargetAccepts(tx.id)
        BY <1>5, <2>1, <2>4 DEF Effect, Applies
      <3>2. prop[tx.id] = [status |-> "queued", wait |-> 0]
        BY <1>2, <3>1 DEF ChainPart, Matured
      <3>3. PICK t \in TargetSet : t = TargetOf[tx.id]
        BY <1>2, Basics
      <3>4. /\ prop' = [prop EXCEPT ![tx.id].status = "executed"] /\ paused' = paused
        BY <3>1 DEF Execute
      <3>5. CASE tx.id \in AcceptIds
        <4>1. admin' = [admin EXCEPT ![t] = "gov"] /\ config' = config
          BY <3>1, <3>3, <3>5 DEF Execute
        <4>2. Governed' = Governed \cup {t}
          BY <1>2, <4>1 DEF Governed, ChainPart
        <4>3. TL!Perform(tx.id)
          BY <3>1, <3>2, <3>3, <3>4, <3>5, <4>1, <4>2 DEF TL!Perform, Governed
        <4>4. QED
          BY <1>2, <4>3 DEF TL!Next
      <3>6. CASE tx.id \notin AcceptIds
        <4>1. admin' = admin /\ config' = Written(t, Change[tx.id]) /\ admin[t] = "gov"
          BY <3>1, <3>3, <3>6 DEF Execute, TargetAccepts
        <4>2. Governed' = Governed /\ t \in Governed
          BY <4>1 DEF Governed
        <4>5. config' = [u \in TargetSet |-> IF u \in Reach(TargetOf[tx.id], Change[tx.id])
                                            THEN config[u] \cup {Change[tx.id]} ELSE config[u]]
          BY <3>3, <4>1 DEF Written
        <4>3. TL!Perform(tx.id)
          BY <1>2, <3>1, <3>2, <3>3, <3>4, <3>6, <4>1, <4>2, <4>5 DEF TL!Perform, Governed
        <4>4. QED
          BY <1>2, <4>3 DEF TL!Next
      <3>7. QED
        BY <3>5, <3>6
    <2>5. CASE tx.op \in {"put", "clear"}
      <3>1. \A u \in Reach(tx.to, tx.what) : u \notin Governed
        BY <1>5, <2>5 DEF Applies, Governed
      <3>2. tx.to \notin Governed
        BY <3>1 DEF Reach
      <3>3. UNCHANGED <<prop, paused, admin, Governed>>
        BY <2>1, <2>5 DEF Effect, Configure, Governed
      <3>4. (\A u \in Governed : config'[u] = config[u]) /\ DOMAIN config' = TargetSet
        <4>1. Governed \subseteq TargetSet /\ config \in [TargetSet -> SUBSET Items]
          BY <1>2 DEF Governed, ChainPart
        <4>2. CASE tx.op = "put"
          <5>1. config' = Written(tx.to, tx.what)
            BY <2>1, <4>2 DEF Effect, Configure
          <5>2. QED
            BY <3>1, <4>1, <5>1 DEF Written
        <4>3. CASE tx.op = "clear"
          <5>1. config' = [config EXCEPT ![tx.to] = @ \ {tx.what}]
            BY <2>1, <4>3 DEF Effect, Configure
          <5>2. QED
            BY <3>2, <4>1, <5>1
        <4>4. QED
          BY <2>5, <4>2, <4>3
      <3>5. TL!ChangeFreely
        BY <3>3, <3>4 DEF TL!ChangeFreely, Governed
      <3>6. QED
        BY <3>5 DEF TL!Next
    <2>6. CASE tx.op \in {"none", "pause", "unpause", "upload"}
      <3>1. UNCHANGED <<prop, admin, config>> /\ paused' \in {paused, TRUE, FALSE}
        BY <2>1, <2>6 DEF Effect, EmergencyPause, chainVars
      <3>2. UNCHANGED Governed
        BY <3>1 DEF Governed
      <3>3. paused' = paused \/ paused' = ~paused
        BY <1>2, <3>1 DEF ChainPart
      <3>4. CASE paused' = paused
        BY <3>1, <3>2, <3>4
      <3>5. CASE paused' = ~paused
        BY <3>1, <3>2, <3>5 DEF TL!Next, TL!Veto, Governed
      <3>6. QED
        BY <3>3, <3>4, <3>5
    <2>7. QED
      BY <1>2, <2>2, <2>3, <2>4, <2>5, <2>6 DEF Ops
  <1>6. QED
    BY <1>4, <1>5

\* Every step is a step of the timelock, or nothing to it.
LEMMA NextIsTimelock ==
  ASSUME IInv, [Next]_vars
  PROVE  TL!Next \/ UNCHANGED <<prop, paused, Governed, config>>
  <1>1. CASE UNCHANGED chainVars
    BY <1>1 DEF chainVars, Governed
  <1>2. CASE StartHandover \/ \E s \in OtherScripts : StartOther(s)
    BY <1>1, <1>2 DEF StartHandover, StartOther, Begin
  <1>3. CASE ScriptStep
    BY <1>1, <1>3 DEF ScriptStep, Skip, Send, SimulationFails, Confirmed, NotConfirmed, Finish
  <1>4. CASE Include
    BY <1>4, IncludeIsTimelock
  <1>5. CASE \E t \in TargetSet : SetGuardian(t)
    BY <1>5 DEF SetGuardian, Governed
  <1>6. ASSUME NEW id \in Ids, Cancel(id) PROVE TL!Next
    <2>1. TL!Withdraw(id)
      BY <1>6 DEF Cancel, TL!Withdraw
    <2>2. QED
      BY <2>1 DEF TL!Next
  <1>7. CASE GuardianPauses \/ GuardianUnpauses
    <2>1. paused' = ~paused /\ UNCHANGED <<prop, admin, config>>
      BY <1>7 DEF GuardianPauses, GuardianUnpauses, EmergencyPause, IInv, ChainPart
    <2>2. TL!Veto
      BY <2>1 DEF TL!Veto
    <2>3. QED
      BY <2>2 DEF TL!Next
  <1>8. CASE Tick
    <2>1. TL!Pass
      BY <1>8 DEF Tick, TL!Pass
    <2>2. QED
      BY <2>1 DEF TL!Next
  <1>9. CASE Fault
    BY <1>1, <1>9 DEF Fault
  <1>10. CASE UNCHANGED vars
    BY <1>1, <1>10 DEF vars
  <1>11. QED
    BY <1>2, <1>3, <1>4, <1>5, <1>6, <1>7, <1>8, <1>9, <1>10 DEF Next

\* The governance contract and the scripts implement the timelock: whatever is run,
\* interrupted, lost or included late, a contract that was handed over changes only by a
\* proposal that waited out its delay, was not cancelled and is not vetoed.
THEOREM GovernanceImplementsTimelock == Spec => TimelockHolds
  <1>1. Init => TL!Init
    <2> SUFFICES ASSUME Init PROVE TL!Init
      OBVIOUS
    <2>1. {t \in TargetSet : admin[t] = "gov"} = {}
      BY DEF Init
    <2>2. QED
      BY <2>1 DEF Init, TL!Init, TL!NoNotice
  <1>2. IInv /\ [Next]_vars => [TL!Next]_<<prop, paused, {t \in TargetSet : admin[t] = "gov"}, config>>
    BY NextIsTimelock DEF Governed
  <1>3. QED
    BY <1>1, <1>2, ScriptsAndChainAgree, PTL DEF Spec, TimelockHolds, TL!Spec
=============================================================================
