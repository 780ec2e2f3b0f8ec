----------------------- MODULE SettlementPipelineProofs -----------------------
(***************************************************************************)
(* For every set of jobs, every bound on transactions and every number of  *)
(* crashes: the database never reports a settlement that did not happen,   *)
(* and at most one sign request of a job goes on to broadcast.             *)
(*                                                                         *)
(* The inductive invariant has one part per piece of state, and says what  *)
(* each process may believe: a hash that a process or a row holds is that  *)
(* of a transaction broadcast for its job, and a process about to report a *)
(* settlement has seen it succeed.  Transactions are never reused and a    *)
(* settlement is never undone, so a part whose own state a step leaves     *)
(* alone survives whatever the others do (Framed).                         *)
(***************************************************************************)
EXTENDS SettlementPipeline, SetTheorems, SequenceTheorems, TLAPS

RouteSteps == {"idle", "sign", "claim", "send", "store"}
TxStates == {"unused", "pending", "success", "failed", "expired"}

\* Transaction t was broadcast for job j.
Sent(t, j) == t \in TxIds /\ tx[t].state # "unused" /\ tx[t].job = j

ChainPart ==
    /\ tx \in [TxIds -> [job: Orders, state: TxStates]]
    /\ \A t \in TxIds : tx[t].state # "unused" => tx[t].job \in Jobs
    /\ settled \in [Jobs -> {0, 1}]
    /\ \A t \in TxIds : tx[t].state = "success" => settled[tx[t].job] = 1

FilledPart ==
    /\ filled \in [Orders -> Int]
    /\ \A o \in Orders : 0 <= filled[o] /\ filled[o] <= Size(o)

CancelledPart == cancelled \subseteq Orders

FillPart ==
    /\ fill \in [Jobs -> SUBSET {"pending", "linked"}]
    /\ \A j \in Jobs : "linked" \in fill[j] => settled[j] = 1

\* A row that names a transaction names one sent for its job; a CONFIRMED one
\* was settled.
TrueRow(row, j) ==
    /\ row \in JobRow
    /\ row.hash # NoTx => Sent(row.hash, j)
    /\ row.status = "CONFIRMED" => settled[j] = 1

JobPart ==
    /\ DOMAIN job = Jobs /\ job = [j \in Jobs |-> job[j]]
    /\ \A j \in Jobs : TrueRow(job[j], j)

\* A matcher that polls does so for the match it sent, and confirms it once settled.
MatcherPart ==
    /\ matcher \in [pc: MatcherSteps, todo: Seq(Jobs), tx: TxIds \cup {NoTx}]
    /\ matcher.pc # "idle" => matcher.todo # <<>>
    /\ matcher.pc \in {"poll", "confirm"} => Sent(matcher.tx, Current)
    /\ matcher.pc = "confirm" => settled[Current] = 1

\* A request about to store a hash sent that transaction for its job.
TrueRequest(q, j) ==
    /\ q \in [pc: RouteSteps, tx: TxIds \cup {NoTx}]
    /\ q.pc = "store" => Sent(q.tx, j)

RoutePart ==
    /\ DOMAIN route = Requests /\ route = [r \in Requests |-> route[r]]
    /\ \A j \in Jobs, p \in Parties : TrueRequest(route[<<j, p>>], j)

\* A reconciler at work is at work on a job, and holds only its transactions.
ReconcilerPart ==
    /\ reconciler \in [pc: ReconcilerSteps, row: JobRow, job: Orders, tx: TxIds \cup {NoTx}]
    /\ reconciler.pc # "idle" => reconciler.job \in Jobs
    /\ reconciler.pc = "check" => Sent(reconciler.row.hash, reconciler.job)
    /\ reconciler.pc \in {"store", "poll"} => Sent(reconciler.tx, reconciler.job)
    /\ reconciler.pc \in {"confirm", "link"} => settled[reconciler.job] = 1

Claimed(q) == q.pc \in {"send", "store"}

\* A request past the claim took its job out of QUEUED, and did so alone.
ClaimsPart ==
    \A j \in Jobs, p \in Parties : Claimed(route[<<j, p>>]) =>
        /\ job[j].status \notin {"absent", "QUEUED"}
        /\ \A q \in Parties : Claimed(route[<<j, q>>]) => q = p

CrashesPart == crashes \in Nat /\ crashes <= MaxCrashes

IInv ==
    /\ ChainPart /\ FilledPart /\ CancelledPart /\ FillPart /\ JobPart
    /\ MatcherPart /\ RoutePart /\ ReconcilerPart /\ ClaimsPart /\ CrashesPart

-----------------------------------------------------------------------------
(* What every step leaves true.                                            *)

\* A transaction, once sent, is for ever that job's; a settlement is for ever.
ChainGrows ==
    /\ \A t \in TxIds : tx[t].state # "unused" => tx'[t].state # "unused" /\ tx'[t].job = tx[t].job
    /\ \A j \in Jobs : settled[j] = 1 => settled'[j] = 1

\* Processes that do not touch the chain let it be.
LEMMA SameChain == UNCHANGED chainVars => ChainGrows
  BY DEF chainVars, ChainGrows

\* What was sent stays sent.
LEMMA SentForEver ==
  ASSUME ChainGrows, NEW t, NEW j, Sent(t, j)
  PROVE  Sent(t, j)'
  BY DEF ChainGrows, Sent

\* A row and a request that were true stay true.
LEMMA TrueForEver ==
  ASSUME ChainGrows, NEW j \in Jobs
  PROVE  /\ \A row : TrueRow(row, j) => TrueRow(row, j)'
         /\ \A q : TrueRequest(q, j) => TrueRequest(q, j)'
  BY SentForEver DEF ChainGrows, TrueRow, TrueRequest

\* A part whose own state is left alone survives a step of anybody else.
LEMMA Framed ==
  ASSUME IInv, ChainGrows
  PROVE  /\ UNCHANGED chainVars => ChainPart'
         /\ UNCHANGED filled => FilledPart'
         /\ UNCHANGED cancelled => CancelledPart'
         /\ UNCHANGED fill => FillPart'
         /\ UNCHANGED job => JobPart'
         /\ UNCHANGED matcher => MatcherPart'
         /\ UNCHANGED route => RoutePart'
         /\ UNCHANGED reconciler => ReconcilerPart'
         /\ UNCHANGED <<route, job>> => ClaimsPart'
         /\ UNCHANGED crashes => CrashesPart'
  <1>1. UNCHANGED chainVars => ChainPart'
    BY DEF IInv, ChainPart, chainVars
  <1>2. UNCHANGED filled => FilledPart'
    BY DEF IInv, FilledPart
  <1>3. UNCHANGED cancelled => CancelledPart'
    BY DEF IInv, CancelledPart
  <1>4. UNCHANGED fill => FillPart'
    BY DEF IInv, FillPart, ChainGrows
  <1>5. UNCHANGED job => JobPart'
    BY TrueForEver DEF IInv, JobPart
  <1>6. UNCHANGED matcher => MatcherPart'
    <2> SUFFICES ASSUME UNCHANGED matcher PROVE MatcherPart'
      OBVIOUS
    <2>1. matcher.pc \in {"poll", "confirm"} => Sent(matcher.tx, Current)'
      BY SentForEver DEF IInv, MatcherPart, Current
    <2>2. matcher.pc = "confirm" => settled'[Current] = 1
      <3>1. matcher.pc = "confirm" => Current \in Jobs /\ settled[Current] = 1
        BY DEF IInv, MatcherPart, ChainPart, Sent
      <3>2. QED
        BY <3>1 DEF ChainGrows
    <2>3. QED
      BY <2>1, <2>2 DEF IInv, MatcherPart, Current
  <1>7. UNCHANGED route => RoutePart'
    BY TrueForEver DEF IInv, RoutePart
  <1>8. UNCHANGED reconciler => ReconcilerPart'
    <2> SUFFICES ASSUME UNCHANGED reconciler PROVE ReconcilerPart'
      OBVIOUS
    <2>1. reconciler.pc = "check" => Sent(reconciler.row.hash, reconciler.job)'
      BY SentForEver DEF IInv, ReconcilerPart
    <2>2. reconciler.pc \in {"store", "poll"} => Sent(reconciler.tx, reconciler.job)'
      BY SentForEver DEF IInv, ReconcilerPart
    <2>3. reconciler.pc \in {"confirm", "link"} => settled'[reconciler.job] = 1
      BY DEF IInv, ReconcilerPart, ChainGrows
    <2>4. QED
      BY <2>1, <2>2, <2>3 DEF IInv, ReconcilerPart
  <1>9. UNCHANGED <<route, job>> => ClaimsPart'
    BY DEF IInv, ClaimsPart
  <1>10. UNCHANGED crashes => CrashesPart'
    BY DEF IInv, CrashesPart
  <1>11. QED
    BY <1>1, <1>2, <1>3, <1>4, <1>5, <1>6, <1>7, <1>8, <1>9, <1>10

\* The constants, and what the first and the last of a sequence of matches are.
LEMMA Basics ==
  /\ NoTx \notin TxIds /\ Maker \notin Jobs /\ Maker \in Orders /\ Jobs \subseteq Orders
  /\ MakerSize \in Nat /\ MakerSize > 0 /\ IsFiniteSet(Jobs)
  /\ \A s \in Seq(Jobs) : s # <<>> => /\ Head(s) \in Jobs /\ Tail(s) \in Seq(Jobs)
                                      /\ Len(s) # 1 => Tail(s) # <<>>
  <1>1. ASSUME NEW s \in Seq(Jobs), s # <<>>
        PROVE  Head(s) \in Jobs /\ Tail(s) \in Seq(Jobs) /\ (Len(s) # 1 => Tail(s) # <<>>)
    <2>1. Len(s) \in Nat /\ Len(s) # 0 /\ DOMAIN s = 1..Len(s) /\ \A i \in 1..Len(s) : s[i] \in Jobs
      BY <1>1
    <2>2. Head(s) \in Jobs
      BY <2>1
    <2>3. Tail(s) \in Seq(Jobs) /\ Len(Tail(s)) = Len(s) - 1
      BY <1>1
    <2>4. Len(s) # 1 => Tail(s) # <<>>
      <3>1. Len(<<>>) = 0
        OBVIOUS
      <3>2. Len(s) # 1 => Len(Tail(s)) # 0
        BY <2>1, <2>3
      <3>3. QED
        BY <3>1, <3>2
    <2>5. QED
      BY <2>2, <2>3, <2>4
  <1>2. QED
    BY <1>1, PipelineConstants DEF NoTx, TxIds, Orders

\* A broadcast takes a transaction that nobody used.
LEMMA FreshIsUnused ==
  ASSUME Unused # {}
  PROVE  FreshTx \in TxIds /\ tx[FreshTx].state = "unused"
  <1>1. Unused \subseteq Nat
    BY DEF Unused, TxIds
  <1>2. FreshTx \in Unused
    BY <1>1, MinOfNaturals DEF FreshTx
  <1>3. QED
    BY <1>2 DEF Unused

-----------------------------------------------------------------------------
(* The matcher.                                                            *)

\* The steps after which a matcher neither polls nor confirms.
Unsent == MatcherSteps \ {"poll", "confirm"}

\* A matcher that goes on with its match, is done with it, or forgets the tick.
LEMMA MatcherMoves ==
  ASSUME IInv
  PROVE  /\ \A step \in Unsent \ {"idle"} : matcher.pc # "idle" /\ MatcherGoes(step) => MatcherPart'
         /\ matcher.pc # "idle" /\ NextMatch => MatcherPart'
         /\ matcher' = [pc |-> "idle", todo |-> <<>>, tx |-> NoTx] => MatcherPart'
         /\ matcher.pc # "idle" => Current \in Jobs
  <1>1. /\ matcher \in [pc: MatcherSteps, todo: Seq(Jobs), tx: TxIds \cup {NoTx}]
        /\ matcher.pc # "idle" => matcher.todo # <<>>
    BY DEF IInv, MatcherPart
  <1>2. ASSUME NEW step \in Unsent \ {"idle"}, matcher.pc # "idle", MatcherGoes(step)
        PROVE  MatcherPart'
    <2>1. matcher' \in [pc: MatcherSteps, todo: Seq(Jobs), tx: TxIds \cup {NoTx}]
          /\ matcher'.pc = step /\ matcher'.todo = matcher.todo
      BY <1>1, <1>2 DEF MatcherGoes, Unsent
    <2>2. QED
      BY <1>1, <1>2, <2>1 DEF MatcherPart, Unsent
  <1>3. ASSUME matcher.pc # "idle", NextMatch
        PROVE  MatcherPart'
    <2>1. Tail(matcher.todo) \in Seq(Jobs) /\ (Len(matcher.todo) # 1 => Tail(matcher.todo) # <<>>)
      BY <1>1, <1>3, Basics
    <2> DEFINE step == IF Len(matcher.todo) = 1 THEN "idle" ELSE "insert"
               left == Tail(matcher.todo)
    <2>2. matcher' = [pc |-> step, todo |-> left, tx |-> NoTx]
      BY <1>3 DEF NextMatch
    <2>3. step \in {"idle", "insert"} /\ (step # "idle" => left # <<>>) /\ left \in Seq(Jobs)
      BY <2>1
    <2> HIDE DEF step, left
    <2>4. matcher' \in [pc: MatcherSteps, todo: Seq(Jobs), tx: TxIds \cup {NoTx}]
      BY <2>2, <2>3 DEF MatcherSteps
    <2>5. matcher'.pc = step /\ matcher'.todo = left
      BY <2>2
    <2>6. QED
      BY <2>3, <2>4, <2>5 DEF MatcherPart
  <1>4. matcher' = [pc |-> "idle", todo |-> <<>>, tx |-> NoTx] => MatcherPart'
    BY DEF MatcherPart, MatcherSteps
  <1>5. matcher.pc # "idle" => Current \in Jobs
    BY <1>1, Basics DEF Current
  <1>6. QED
    BY <1>2, <1>3, <1>4, <1>5

\* The two forms in which a job row is written.
LEMMA RowWritten ==
  ASSUME IInv, ChainGrows, NEW j \in Jobs, NEW row, job' = [job EXCEPT ![j] = row], TrueRow(row, j)
  PROVE  JobPart' /\ job'[j] = row /\ \A i \in Jobs \ {j} : job'[i] = job[i]
  <1>1. /\ DOMAIN job = Jobs /\ \A i \in Jobs : TrueRow(job[i], i)
    BY DEF IInv, JobPart
  <1>2. /\ DOMAIN job' = Jobs /\ job'[j] = row /\ job' = [i \in Jobs |-> job'[i]]
        /\ \A i \in Jobs \ {j} : job'[i] = job[i]
    BY <1>1
  <1>3. \A i \in Jobs : TrueRow(job[i], i)'
    <2> TAKE i \in Jobs
    <2>1. PICK r : r = job'[i]
      OBVIOUS
    <2>2. TrueRow(r, i)
      BY <1>1, <1>2, <2>1
    <2>3. TrueRow(r, i)'
      BY <2>2, TrueForEver
    <2>4. QED
      BY <2>1, <2>3
  <1>4. QED
    BY <1>2, <1>3 DEF JobPart

\* A job that leaves QUEUED, or stays where it is, keeps its request's claim.
LEMMA ClaimSurvives ==
  ASSUME IInv, NEW j \in Jobs, UNCHANGED route, \A i \in Jobs \ {j} : job'[i] = job[i],
         job'[j].status \in {job[j].status, "SUBMITTED", "CONFIRMED", "FAILED"}
  PROVE  ClaimsPart'
  BY DEF IInv, ClaimsPart

\* filledSize stays between nothing and the size, whether counted or returned.
LEMMA FilledMoves ==
  ASSUME IInv, NEW o \in Orders
  PROVE  /\ filled[o] + 1 <= Size(o) /\ filled' = [filled EXCEPT ![o] = @ + 1] => FilledPart'
         /\ filled' = Returned(o) => FilledPart'
  <1>1. /\ filled \in [Orders -> Int] /\ \A p \in Orders : 0 <= filled[p] /\ filled[p] <= Size(p)
    BY DEF IInv, FilledPart
  <1>2. \A p \in Orders : Size(p) \in Int
    BY Basics DEF Size
  <1>3. ASSUME filled[o] + 1 <= Size(o), filled' = [filled EXCEPT ![o] = @ + 1]
        PROVE  FilledPart'
    BY <1>1, <1>2, <1>3 DEF FilledPart
  <1>4. ASSUME filled' = Returned(o)
        PROVE  FilledPart'
    BY <1>1, <1>2, <1>4 DEF FilledPart, Returned
  <1>5. QED
    BY <1>3, <1>4

\* Tick: a tick's matches are a sequence of jobs, as many as the maker has left.
LEMMA TickKeeps ==
  ASSUME IInv, Tick
  PROVE  IInv'
  <1>1. ASSUME NEW s \in Matches
        PROVE  s \in Seq(Jobs)
    <2> DEFINE open == {j \in Jobs : Remaining(j) > 0}
               n == Min({Remaining(Maker), Cardinality(open)})
    <2>1. Cardinality(open) \in Nat
      <3>1. IsFiniteSet(open)
        BY Basics, FS_Subset
      <3>2. QED
        BY <3>1, FS_CardinalityType
    <2>2. Remaining(Maker) \in Nat
      BY Basics DEF Remaining, Size, IInv, FilledPart
    <2> HIDE DEF open
    <2>3. n \in Nat
      BY <2>1, <2>2, MinOfTwo
    <2>4. s \in UNION {[1..k -> open] : k \in {n}}
      BY DEF Matches, open
    <2> HIDE DEF n
    <2>5. s \in [1..n -> open]
      BY <2>4
    <2>6. QED
      BY <2>3, <2>5 DEF open
  <1>2. MatcherPart'
    <2>1. PICK s \in Matches : s # <<>> /\ matcher' = [pc |-> "insert", todo |-> s, tx |-> NoTx]
      BY DEF Tick
    <2>2. s \in Seq(Jobs)
      BY <1>1
    <2>3. QED
      BY <2>1, <2>2 DEF MatcherPart, MatcherSteps
  <1>3. UNCHANGED <<dbVars, route, reconciler, chainVars, crashes>>
    BY DEF Tick
  <1>4. QED
    BY <1>2, <1>3, SameChain, Framed DEF IInv, dbVars

\* The statements of persistFill: poison cancelled, fill inserted, sizes counted.
LEMMA PersistKeeps ==
  ASSUME IInv, CancelPoisonOrder \/ InsertFill \/ CountMaker \/ CountTaker
  PROVE  IInv'
  <1>1. ASSUME CancelPoisonOrder PROVE IInv'
    <2>1. /\ matcher.pc # "idle" /\ NextMatch /\ cancelled' = cancelled \cup {Current}
          /\ UNCHANGED <<filled, fill, job, route, reconciler, chainVars, crashes>>
      BY <1>1 DEF CancelPoisonOrder
    <2>2. CancelledPart'
      BY <2>1, MatcherMoves, Basics DEF IInv, CancelledPart
    <2>3. QED
      BY <2>1, <2>2, MatcherMoves, SameChain, Framed DEF IInv
  <1>2. ASSUME InsertFill PROVE IInv'
    <2>1. /\ matcher.pc # "idle" /\ (NextMatch \/ MatcherGoes("count_maker"))
          /\ fill' = [fill EXCEPT ![Current] = @ \cup {"pending"}]
          /\ UNCHANGED <<filled, cancelled, job, route, reconciler, chainVars, crashes>>
      BY <1>2 DEF InsertFill
    <2>2. Current \in Jobs /\ "count_maker" \in Unsent \ {"idle"}
      BY <2>1, MatcherMoves DEF Unsent, MatcherSteps
    <2>3. FillPart'
      BY <2>1, <2>2 DEF IInv, FillPart, chainVars
    <2>4. MatcherPart'
      BY <2>1, <2>2, MatcherMoves
    <2>5. QED
      BY <2>1, <2>3, <2>4, SameChain, Framed DEF IInv
  <1>3. ASSUME NEW o \in Orders, NEW next \in Unsent \ {"idle"}, matcher.pc # "idle", CountFill(o, next)
        PROVE  IInv'
    <2>1. UNCHANGED <<cancelled, fill, job, route, reconciler, chainVars, crashes>>
      BY <1>3 DEF CountFill
    <2>2. FilledPart'
      BY <1>3, <2>1, FilledMoves, SameChain, Framed DEF CountFill
    <2>3. MatcherPart'
      BY <1>3, MatcherMoves DEF CountFill
    <2>4. QED
      BY <2>1, <2>2, <2>3, SameChain, Framed DEF IInv
  <1>4. /\ "count_taker" \in Unsent \ {"idle"} /\ "settle" \in Unsent \ {"idle"} /\ Maker \in Orders
        /\ matcher.pc # "idle" => Current \in Orders
    BY MatcherMoves, Basics DEF Unsent, MatcherSteps
  <1>5. ASSUME CountMaker PROVE IInv'
    BY <1>3, <1>4, <1>5 DEF CountMaker
  <1>6. ASSUME CountTaker PROVE IInv'
    BY <1>3, <1>4, <1>6 DEF CountTaker
  <1>7. QED
    BY <1>1, <1>2, <1>5, <1>6

\* The statements of rollbackFill, and a settlement given up.
LEMMA RollbackKeeps ==
  ASSUME IInv, SettlementFails \/ SeeNoSuccess \/ UndoFill \/ UndoMaker \/ UndoTaker
  PROVE  IInv'
  <1>1. /\ {"record", "undo_maker", "undo_taker"} \subseteq Unsent \ {"idle"} /\ Maker \in Orders
        /\ matcher.pc # "idle" => Current \in Jobs /\ Current \in Orders
    BY MatcherMoves, Basics DEF Unsent, MatcherSteps
  <1>2. ASSUME SettlementFails \/ SeeNoSuccess PROVE IInv'
    <2>1. /\ matcher.pc # "idle" /\ MatcherGoes("record")
          /\ UNCHANGED <<dbVars, route, reconciler, chainVars, crashes>>
      BY <1>2 DEF SettlementFails, SeeNoSuccess
    <2>2. QED
      BY <1>1, <2>1, MatcherMoves, SameChain, Framed DEF IInv, dbVars
  <1>3. ASSUME UndoFill PROVE IInv'
    <2>1. /\ matcher.pc # "idle" /\ MatcherGoes("undo_maker") /\ fill' = Deleted(Current)
          /\ UNCHANGED <<filled, cancelled, job, route, reconciler, chainVars, crashes>>
      BY <1>3 DEF UndoFill
    <2>2. FillPart'
      BY <1>1, <2>1 DEF IInv, FillPart, Deleted, chainVars
    <2>3. QED
      BY <1>1, <2>1, <2>2, MatcherMoves, SameChain, Framed DEF IInv
  <1>4. ASSUME UndoMaker PROVE IInv'
    <2>1. /\ matcher.pc # "idle" /\ MatcherGoes("undo_taker") /\ filled' = Returned(Maker)
          /\ UNCHANGED <<cancelled, fill, job, route, reconciler, chainVars, crashes>>
      BY <1>4 DEF UndoMaker
    <2>2. QED
      BY <1>1, <2>1, MatcherMoves, FilledMoves, SameChain, Framed DEF IInv
  <1>5. ASSUME UndoTaker PROVE IInv'
    <2>1. /\ matcher.pc # "idle" /\ NextMatch /\ filled' = Returned(Current)
          /\ UNCHANGED <<cancelled, fill, job, route, reconciler, chainVars, crashes>>
      BY <1>5 DEF UndoTaker
    <2>2. QED
      BY <1>1, <2>1, MatcherMoves, FilledMoves, SameChain, Framed DEF IInv
  <1>6. QED
    BY <1>2, <1>3, <1>4, <1>5

\* A row of the store, whatever its status and the entries collected for it.
LEMMA StoredRow ==
  ASSUME IInv, NEW j \in Jobs
  PROVE  /\ job[j] \in JobRow /\ TrueRow(job[j], j)
         /\ \A status \in Statuses \ {"CONFIRMED"} : TrueRow([job[j] EXCEPT !.status = status], j)
         /\ \A signed \in SUBSET Parties : TrueRow([job[j] EXCEPT !.signed = signed], j)
  <1>1. TrueRow(job[j], j)
    BY DEF IInv, JobPart
  <1>2. QED
    BY <1>1 DEF TrueRow, JobRow

\* A row's status changes to anything but CONFIRMED.
LEMMA StatusWritten ==
  ASSUME IInv, ChainGrows, NEW j \in Jobs, NEW status \in Statuses \ {"CONFIRMED"},
         job' = [job EXCEPT ![j].status = status]
  PROVE  JobPart' /\ job'[j].status = status /\ \A i \in Jobs \ {j} : job'[i] = job[i]
  <1>1. PICK row : row = [job[j] EXCEPT !.status = status]
    OBVIOUS
  <1>2. TrueRow(row, j) /\ row.status = status
    BY <1>1, StoredRow DEF JobRow
  <1>3. job' = [job EXCEPT ![j] = row]
    BY <1>1, StoredRow DEF IInv, JobPart
  <1>4. QED
    BY <1>2, <1>3, RowWritten

\* A broadcast uses a transaction for the first time.
LEMMA BroadcastGrows ==
  ASSUME IInv, NEW j \in Jobs, Unused # {}, NEW t, t = FreshTx, Broadcast(t, j)
  PROVE  ChainGrows /\ ChainPart' /\ Sent(t, j)' /\ t \in TxIds
  <1>1. t \in TxIds /\ tx[t].state = "unused" /\ j \in Orders
    BY FreshIsUnused, Basics
  <1>2. tx' = [tx EXCEPT ![t] = [job |-> j, state |-> "pending"]] /\ settled' = settled
    BY DEF Broadcast
  <1>3. /\ tx \in [TxIds -> [job: Orders, state: TxStates]]
        /\ \A s \in TxIds : tx[s].state # "unused" => tx[s].job \in Jobs
        /\ settled \in [Jobs -> {0, 1}]
        /\ \A s \in TxIds : tx[s].state = "success" => settled[tx[s].job] = 1
    BY DEF IInv, ChainPart
  <1>4. /\ tx'[t].job = j /\ tx'[t].state = "pending"
        /\ \A s \in TxIds \ {t} : tx'[s] = tx[s]
    BY <1>1, <1>2, <1>3
  <1>5. tx' \in [TxIds -> [job: Orders, state: TxStates]]
    BY <1>1, <1>2, <1>3 DEF TxStates
  <1>6. ChainGrows
    BY <1>1, <1>2, <1>4 DEF ChainGrows
  <1>7. ChainPart'
    BY <1>1, <1>2, <1>3, <1>4, <1>5 DEF ChainPart
  <1>8. QED
    BY <1>1, <1>4, <1>6, <1>7 DEF Sent

\* submitSettleFillSigned: the transaction just sent is the match's own.
LEMMA SubmitSignedKeeps ==
  ASSUME IInv, SubmitSigned
  PROVE  IInv'
  <1>1. /\ matcher.pc = "settle" /\ Unused # {} /\ Broadcast(FreshTx, Current)
        /\ matcher' = [matcher EXCEPT !.pc = "poll", !.tx = FreshTx]
        /\ UNCHANGED <<dbVars, route, reconciler, crashes>>
    BY DEF SubmitSigned
  <1>2. Current \in Jobs
    BY <1>1, MatcherMoves
  <1>a. PICK j \in Jobs : j = Current
    BY <1>2
  <1>b. PICK t : t = FreshTx
    OBVIOUS
  <1>3. t = FreshTx /\ j = Current
    BY <1>a, <1>b
  <1>4. ChainGrows /\ ChainPart' /\ Sent(t, j)' /\ t \in TxIds
    BY <1>1, <1>3, BroadcastGrows
  <1>5. MatcherPart'
    <2>1. /\ matcher \in [pc: MatcherSteps, todo: Seq(Jobs), tx: TxIds \cup {NoTx}]
          /\ matcher.todo # <<>>
      BY <1>1 DEF IInv, MatcherPart
    <2>2. /\ matcher'.pc = "poll" /\ matcher'.todo = matcher.todo /\ matcher'.tx = t
          /\ matcher' \in [pc: MatcherSteps, todo: Seq(Jobs), tx: TxIds \cup {NoTx}]
      BY <1>1, <1>3, <1>4, <2>1 DEF MatcherSteps
    <2>3. Head(matcher'.todo) = j
      BY <1>3, <2>2 DEF Current
    <2>4. QED
      BY <1>4, <2>1, <2>2, <2>3 DEF MatcherPart, Current
  <1>6. QED
    BY <1>1, <1>4, <1>5, Framed DEF IInv, dbVars

\* simulateSettleFill and the job row: a new row is QUEUED, an old one loses the
\* entries collected for it.
LEMMA QueueKeeps ==
  ASSUME IInv, QueueForSigning
  PROVE  IInv'
  <1>1. /\ matcher.pc # "idle" /\ NextMatch
        /\ job' = [job EXCEPT ![Current] =
              IF @ = NoJob THEN [NoJob EXCEPT !.status = "QUEUED"] ELSE [@ EXCEPT !.signed = {}]]
        /\ UNCHANGED <<filled, cancelled, fill, route, reconciler, chainVars, crashes>>
    BY DEF QueueForSigning
  <1>2. Current \in Jobs /\ ChainGrows
    BY <1>1, MatcherMoves, SameChain
  <1>3. PICK row : row = IF job[Current] = NoJob THEN [NoJob EXCEPT !.status = "QUEUED"]
                         ELSE [job[Current] EXCEPT !.signed = {}]
    OBVIOUS
  <1>4. TrueRow(row, Current)
    BY <1>2, <1>3, StoredRow DEF TrueRow, JobRow, NoJob, Statuses
  <1>5. job' = [job EXCEPT ![Current] = row]
    BY <1>1, <1>3
  <1>6. PICK j \in Jobs : j = Current
    BY <1>2
  <1>7. JobPart' /\ job'[j] = row /\ \A i \in Jobs \ {j} : job'[i] = job[i]
    BY <1>2, <1>4, <1>5, <1>6, RowWritten
  <1>8. ClaimsPart'
    <2>1. \A p \in Parties : Claimed(route[<<j, p>>]) => job'[j].status = job[j].status
      BY <1>3, <1>6, <1>7, StoredRow DEF IInv, ClaimsPart, NoJob, JobRow
    <2>2. QED
      BY <1>1, <1>7, <2>1 DEF IInv, ClaimsPart
  <1>9. QED
    BY <1>1, <1>2, <1>7, <1>8, MatcherMoves, Framed DEF IInv

\* The matcher sees its transaction succeed.
LEMMA SeeSuccessKeeps ==
  ASSUME IInv, SeeSuccess
  PROVE  IInv'
  <1>1. /\ matcher.pc = "poll" /\ tx[matcher.tx].state = "success" /\ MatcherGoes("confirm")
        /\ UNCHANGED <<dbVars, route, reconciler, chainVars, crashes>>
    BY DEF SeeSuccess, PollConfirmed
  <1>2. Sent(matcher.tx, Current) /\ settled[Current] = 1
    BY <1>1 DEF IInv, MatcherPart, ChainPart, Sent
  <1>3. MatcherPart'
    <2>1. /\ matcher \in [pc: MatcherSteps, todo: Seq(Jobs), tx: TxIds \cup {NoTx}]
          /\ matcher.todo # <<>>
      BY <1>1 DEF IInv, MatcherPart
    <2>2. /\ matcher'.todo = matcher.todo /\ matcher'.tx = matcher.tx
          /\ matcher' \in [pc: MatcherSteps, todo: Seq(Jobs), tx: TxIds \cup {NoTx}]
      BY <1>1, <2>1 DEF MatcherGoes, MatcherSteps
    <2>3. Sent(matcher.tx, Current)' /\ settled'[Head(matcher'.todo)] = 1
      BY <1>1, <1>2, <2>2 DEF Sent, Current, chainVars
    <2>4. QED
      BY <2>1, <2>2, <2>3 DEF MatcherPart, Current
  <1>4. QED
    BY <1>1, <1>3, SameChain, Framed DEF IInv, dbVars

\* The matcher writes the confirmation, with the hash it polled, or the failure.
LEMMA RecordKeeps ==
  ASSUME IInv, RecordConfirmed \/ RecordFailure
  PROVE  IInv'
  <1>1. ASSUME RecordConfirmed PROVE IInv'
    <2>1. /\ matcher.pc = "confirm" /\ NextMatch
          /\ job' = [job EXCEPT ![Current].status = "CONFIRMED", ![Current].hash = matcher.tx]
          /\ UNCHANGED <<filled, cancelled, fill, route, reconciler, chainVars, crashes>>
      BY <1>1 DEF RecordConfirmed
    <2>2. Current \in Jobs /\ Sent(matcher.tx, Current) /\ settled[Current] = 1 /\ ChainGrows
      BY <2>1, MatcherMoves, SameChain DEF IInv, MatcherPart
    <2>3. PICK j \in Jobs : j = Current
      BY <2>2
    <2>r. PICK row : row = [job[j] EXCEPT !.status = "CONFIRMED", !.hash = matcher.tx]
      OBVIOUS
    <2>4. TrueRow(row, j) /\ row.status = "CONFIRMED"
      <3>1. job[j] \in JobRow /\ Sent(matcher.tx, j) /\ settled[j] = 1
        BY <2>2, <2>3, StoredRow
      <3>2. matcher.tx \in TxIds
        BY <3>1 DEF Sent
      <3>3. row \in JobRow /\ row.status = "CONFIRMED" /\ row.hash = matcher.tx
        BY <2>r, <3>1, <3>2 DEF JobRow, Statuses
      <3>4. QED
        BY <3>1, <3>3 DEF TrueRow
    <2>5. job' = [job EXCEPT ![j] = row]
      BY <2>1, <2>3, <2>r, StoredRow DEF IInv, JobPart
    <2>6. JobPart' /\ job'[j] = row /\ \A i \in Jobs \ {j} : job'[i] = job[i]
      BY <2>2, <2>4, <2>5, RowWritten
    <2>7. ClaimsPart'
      BY <2>1, <2>4, <2>6, ClaimSurvives
    <2>8. QED
      BY <2>1, <2>2, <2>6, <2>7, MatcherMoves, Framed DEF IInv
  <1>2. ASSUME RecordFailure PROVE IInv'
    <2>1. /\ matcher.pc # "idle" /\ MatcherGoes("undo_fill")
          /\ job' = [job EXCEPT ![Current].status = "FAILED"]
          /\ UNCHANGED <<filled, cancelled, fill, route, reconciler, chainVars, crashes>>
      BY <1>2 DEF RecordFailure
    <2>2. "undo_fill" \in Unsent \ {"idle"} /\ ChainGrows
      BY <2>1, SameChain DEF Unsent, MatcherSteps
    <2>3. PICK j \in Jobs : j = Current
      BY <2>1, MatcherMoves
    <2>4. JobPart' /\ job'[j].status = "FAILED" /\ \A i \in Jobs \ {j} : job'[i] = job[i]
      BY <2>1, <2>2, <2>3, StatusWritten DEF Statuses
    <2>5. ClaimsPart'
      BY <2>1, <2>4, ClaimSurvives
    <2>6. QED
      BY <2>1, <2>2, <2>4, <2>5, MatcherMoves, Framed DEF IInv
  <1>3. QED
    BY <1>1, <1>2

\* The matcher dies, or a statement of it errs.
LEMMA MatcherFaultsKeep ==
  ASSUME IInv, MatcherCrashes \/ MatcherStatementFails
  PROVE  IInv'
  <1>1. /\ crashes < MaxCrashes /\ crashes' = crashes + 1 /\ matcher.pc # "idle"
        /\ UNCHANGED <<dbVars, route, reconciler, chainVars>>
    BY DEF MatcherCrashes, MatcherStatementFails
  <1>2. CrashesPart'
    BY <1>1, PipelineConstants DEF IInv, CrashesPart
  <1>3. MatcherPart'
    <2>1. CASE MatcherCrashes
      BY <2>1, MatcherMoves DEF MatcherCrashes
    <2>2. CASE MatcherStatementFails
      <3>1. MatcherGoes("undo_fill") \/ MatcherGoes("record") \/ NextMatch
        BY <2>2 DEF MatcherStatementFails
      <3>2. "undo_fill" \in Unsent \ {"idle"} /\ "record" \in Unsent \ {"idle"}
        BY DEF Unsent, MatcherSteps
      <3>3. QED
        BY <1>1, <3>1, <3>2, MatcherMoves
    <2>3. QED
      BY <2>1, <2>2
  <1>4. QED
    BY <1>1, <1>2, <1>3, SameChain, Framed DEF IInv, dbVars

-----------------------------------------------------------------------------
(* The sign route.                                                         *)

\* A request that goes on to another step than storing a hash, or ends.
LEMMA RouteMoves ==
  ASSUME IInv, ChainGrows, NEW j \in Jobs, NEW p \in Parties, NEW q,
         route' = [route EXCEPT ![<<j, p>>] = q], TrueRequest(q, j) \/ TrueRequest(q, j)'
  PROVE  /\ RoutePart' /\ route'[<<j, p>>] = q
         /\ \A i \in Jobs, s \in Parties : <<i, s>> # <<j, p>> => route'[<<i, s>>] = route[<<i, s>>]
  <1>1. DOMAIN route = Requests /\ \A i \in Jobs, s \in Parties : TrueRequest(route[<<i, s>>], i)
    BY DEF IInv, RoutePart
  <1>2. <<j, p>> \in Requests /\ \A i \in Jobs, s \in Parties : <<i, s>> \in Requests
    BY DEF Requests
  <1>3. /\ DOMAIN route' = Requests /\ route' = [r \in Requests |-> route'[r]]
        /\ route'[<<j, p>>] = q
        /\ \A r \in Requests : r # <<j, p>> => route'[r] = route[r]
    BY <1>1, <1>2
  <1>4. \A i \in Jobs, s \in Parties : <<i, s>> # <<j, p>> => route'[<<i, s>>] = route[<<i, s>>]
    BY <1>2, <1>3
  <1>5. \A i \in Jobs, s \in Parties : TrueRequest(route[<<i, s>>], i)'
    <2> TAKE i \in Jobs, s \in Parties
    <2>1. PICK r : r = route'[<<i, s>>]
      OBVIOUS
    <2>2. TrueRequest(r, i)'
      <3>1. CASE <<i, s>> = <<j, p>>
        BY <1>3, <2>1, <3>1, TrueForEver
      <3>2. CASE <<i, s>> # <<j, p>>
        <4>1. TrueRequest(r, i)
          BY <1>1, <1>4, <2>1, <3>2
        <4>2. QED
          BY <4>1, TrueForEver
      <3>3. QED
        BY <3>1, <3>2
    <2>3. QED
      BY <2>1, <2>2
  <1>6. QED
    BY <1>3, <1>4, <1>5 DEF RoutePart

\* A request as it is stored, and as it goes on.
LEMMA StoredRequest ==
  ASSUME IInv, NEW j \in Jobs, NEW p \in Parties
  PROVE  /\ TrueRequest(route[<<j, p>>], j) /\ TrueRequest(Idle, j)
         /\ \A step \in RouteSteps \ {"store"} : TrueRequest([route[<<j, p>>] EXCEPT !.pc = step], j)
  <1>1. TrueRequest(route[<<j, p>>], j)
    BY DEF IInv, RoutePart
  <1>2. TrueRequest(Idle, j)
    BY DEF TrueRequest, Idle, RouteSteps
  <1>3. QED
    BY <1>1, <1>2 DEF TrueRequest, RouteSteps

\* Requests that are not past the claim afterwards do not disturb who is.
LEMMA ReleaseKeepsClaims ==
  ASSUME IInv, NEW j \in Jobs, NEW p \in Parties,
         \A i \in Jobs : job'[i].status \in {job[i].status, "SUBMITTED", "CONFIRMED", "FAILED"},
         ~Claimed(route'[<<j, p>>]) \/ Claimed(route[<<j, p>>]),
         \A i \in Jobs, s \in Parties : <<i, s>> # <<j, p>> => route'[<<i, s>>] = route[<<i, s>>]
  PROVE  ClaimsPart'
  <1>1. \A i \in Jobs, s \in Parties : Claimed(route'[<<i, s>>]) => Claimed(route[<<i, s>>])
    <2> TAKE i \in Jobs, s \in Parties
    <2>1. CASE i = j /\ s = p
      BY <2>1
    <2>2. CASE ~(i = j /\ s = p)
      BY <2>2
    <2>3. QED
      BY <2>1, <2>2
  <1>2. QED
    BY <1>1 DEF IInv, ClaimsPart, Claimed

\* The terminal's card, a request that dies, and one that is not signed: none of
\* them writes a row.
LEMMA CardKeeps ==
  ASSUME IInv, NEW j \in Jobs, NEW p \in Parties,
         SignSettlement(j, p) \/ SigningFails(j, p) \/ RequestDies(j, p)
  PROVE  IInv'
  <1>1. /\ UNCHANGED <<dbVars, matcher, reconciler, chainVars>>
        /\ crashes' = crashes \/ (crashes < MaxCrashes /\ crashes' = crashes + 1)
    BY DEF SignSettlement, SigningFails, RequestDies
  <1>2. CrashesPart' /\ ChainGrows /\ job' = job
    BY <1>1, SameChain, PipelineConstants DEF IInv, CrashesPart, dbVars
  <1>3. PICK q : /\ route' = [route EXCEPT ![<<j, p>>] = q]
                 /\ TrueRequest(q, j) /\ ~Claimed(q)
    <2>1. CASE RequestDies(j, p)
      <3>1. PICK q : q = Idle
        OBVIOUS
      <3>2. TrueRequest(q, j)
        BY <3>1, StoredRequest
      <3>3. ~Claimed(q)
        BY <3>1 DEF Idle, Claimed
      <3>4. route' = [route EXCEPT ![<<j, p>>] = q]
        BY <2>1, <3>1 DEF RequestDies
      <3>5. QED
        BY <3>2, <3>3, <3>4
    <2>2. ASSUME NEW step \in {"sign", "idle"}, RouteGoes(<<j, p>>, step)
          PROVE  \E q : /\ route' = [route EXCEPT ![<<j, p>>] = q]
                        /\ TrueRequest(q, j) /\ ~Claimed(q)
      <3>1. PICK q : q = [route[<<j, p>>] EXCEPT !.pc = step]
        OBVIOUS
      <3>2. TrueRequest(route[<<j, p>>], j) /\ TrueRequest(q, j)
        BY <3>1, StoredRequest DEF RouteSteps
      <3>3. q.pc = step
        BY <3>1, <3>2 DEF TrueRequest
      <3>4. route' = [route EXCEPT ![<<j, p>>] = q]
        BY <2>2, <3>1 DEF RouteGoes
      <3>5. QED
        BY <3>2, <3>3, <3>4 DEF Claimed
    <2>3. CASE SignSettlement(j, p) \/ SigningFails(j, p)
      BY <2>2, <2>3 DEF SignSettlement, SigningFails
    <2>4. QED
      BY <2>1, <2>3
  <1>4. /\ RoutePart' /\ route'[<<j, p>>] = q
        /\ \A i \in Jobs, s \in Parties : <<i, s>> # <<j, p>> => route'[<<i, s>>] = route[<<i, s>>]
    BY <1>2, <1>3, RouteMoves
  <1>5. ClaimsPart'
    BY <1>2, <1>3, <1>4, ReleaseKeepsClaims
  <1>6. QED
    BY <1>1, <1>2, <1>4, <1>5, Framed DEF IInv, dbVars

\* The merge of an auth entry into a QUEUED row.
LEMMA MergeKeeps ==
  ASSUME IInv, NEW j \in Jobs, NEW p \in Parties, MergeEntry(j, p)
  PROVE  IInv'
  <1> DEFINE signed == job[j].signed \cup {p}
  <1>1. /\ UNCHANGED <<filled, cancelled, fill, matcher, reconciler, chainVars, crashes>>
        /\ \/ /\ job[j].status = "QUEUED" /\ job' = [job EXCEPT ![j].signed = signed]
              /\ RouteGoes(<<j, p>>, "claim") \/ RouteGoes(<<j, p>>, "idle")
           \/ UNCHANGED job /\ RouteGoes(<<j, p>>, "idle")
    BY DEF MergeEntry
  <1>2. ChainGrows
    BY <1>1, SameChain
  <1>3. PICK step \in {"claim", "idle"} : RouteGoes(<<j, p>>, step)
    BY <1>1
  <1>4. PICK q : q = [route[<<j, p>>] EXCEPT !.pc = step]
    OBVIOUS
  <1>5. TrueRequest(q, j) /\ ~Claimed(q) /\ route' = [route EXCEPT ![<<j, p>>] = q]
    <2>1. TrueRequest(route[<<j, p>>], j) /\ TrueRequest(q, j)
      BY <1>4, StoredRequest DEF RouteSteps
    <2>2. q.pc = step
      BY <1>4, <2>1 DEF TrueRequest
    <2>3. QED
      BY <1>3, <1>4, <2>1, <2>2 DEF RouteGoes, Claimed
  <1>6. /\ RoutePart' /\ route'[<<j, p>>] = q
        /\ \A i \in Jobs, s \in Parties : <<i, s>> # <<j, p>> => route'[<<i, s>>] = route[<<i, s>>]
    BY <1>2, <1>5, RouteMoves
  <1>7. JobPart' /\ \A i \in Jobs : job'[i].status = job[i].status
    <2>1. CASE UNCHANGED job
      BY <1>2, <2>1, Framed
    <2>2. CASE job' = [job EXCEPT ![j].signed = signed]
      <3>1. PICK row : row = [job[j] EXCEPT !.signed = signed]
        OBVIOUS
      <3>2. signed \in SUBSET Parties
        BY StoredRow DEF JobRow
      <3>3. TrueRow(row, j) /\ row.status = job[j].status
        BY <3>1, <3>2, StoredRow DEF JobRow
      <3>4. job' = [job EXCEPT ![j] = row]
        BY <2>2, <3>1
      <3>5. QED
        BY <1>2, <3>3, <3>4, RowWritten
    <2>3. QED
      BY <1>1, <2>1, <2>2
  <1>8. ClaimsPart'
    <2>1. \A i \in Jobs, s \in Parties : Claimed(route'[<<i, s>>]) => Claimed(route[<<i, s>>])
      <3> TAKE i \in Jobs, s \in Parties
      <3>1. CASE i = j /\ s = p
        BY <1>5, <1>6, <3>1
      <3>2. CASE ~(i = j /\ s = p)
        BY <1>6, <3>2
      <3>3. QED
        BY <3>1, <3>2
    <2>2. QED
      BY <1>7, <2>1 DEF IInv, ClaimsPart
  <1>9. QED
    BY <1>1, <1>2, <1>6, <1>7, <1>8, Framed DEF IInv

\* The claim: of the requests of a job only the one that finds it QUEUED goes on.
LEMMA ClaimKeeps ==
  ASSUME IInv, NEW j \in Jobs, NEW p \in Parties, ClaimJob(j, p)
  PROVE  IInv'
  <1>1. /\ UNCHANGED <<filled, cancelled, fill, matcher, reconciler, chainVars, crashes>>
        /\ \/ /\ job[j].status = "QUEUED" /\ job' = [job EXCEPT ![j].status = "SUBMITTED"]
              /\ RouteGoes(<<j, p>>, "send")
           \/ UNCHANGED job /\ route' = [route EXCEPT ![<<j, p>>] = Idle]
    BY DEF ClaimJob, RouteClaims
  <1>2. ChainGrows
    BY <1>1, SameChain
  <1>3. CASE UNCHANGED job /\ route' = [route EXCEPT ![<<j, p>>] = Idle]
    <2>1. PICK q : q = Idle
      OBVIOUS
    <2>2. /\ RoutePart' /\ route'[<<j, p>>] = q
          /\ \A i \in Jobs, s \in Parties : <<i, s>> # <<j, p>> => route'[<<i, s>>] = route[<<i, s>>]
      BY <1>2, <1>3, <2>1, RouteMoves, StoredRequest
    <2>3. ClaimsPart'
      BY <1>3, <2>1, <2>2, ReleaseKeepsClaims DEF Idle, Claimed
    <2>4. QED
      BY <1>1, <1>2, <1>3, <2>2, <2>3, Framed DEF IInv
  <1>4. CASE /\ job[j].status = "QUEUED" /\ job' = [job EXCEPT ![j].status = "SUBMITTED"]
             /\ RouteGoes(<<j, p>>, "send")
    <2>1. PICK q : q = [route[<<j, p>>] EXCEPT !.pc = "send"]
      OBVIOUS
    <2>2. TrueRequest(q, j) /\ route' = [route EXCEPT ![<<j, p>>] = q]
      BY <1>4, <2>1, StoredRequest DEF RouteSteps, RouteGoes
    <2>3. /\ RoutePart' /\ route'[<<j, p>>] = q
          /\ \A i \in Jobs, s \in Parties : <<i, s>> # <<j, p>> => route'[<<i, s>>] = route[<<i, s>>]
      BY <1>2, <2>2, RouteMoves
    <2>4. JobPart' /\ job'[j].status = "SUBMITTED" /\ \A i \in Jobs \ {j} : job'[i] = job[i]
      BY <1>2, <1>4, StatusWritten DEF Statuses
    <2>5. \A s \in Parties : ~Claimed(route[<<j, s>>])
      BY <1>4 DEF IInv, ClaimsPart
    <2>6. ClaimsPart'
      <3> SUFFICES ASSUME NEW i \in Jobs, NEW s \in Parties, Claimed(route'[<<i, s>>])
                   PROVE  /\ job'[i].status \notin {"absent", "QUEUED"}
                          /\ \A t \in Parties : Claimed(route'[<<i, t>>]) => t = s
        BY DEF ClaimsPart, Claimed
      <3>1. CASE i = j
        <4>1. \A t \in Parties : t # p => ~Claimed(route'[<<j, t>>])
          BY <2>3, <2>5
        <4>2. QED
          BY <2>4, <3>1, <4>1
      <3>2. CASE i # j
        <4>1. \A t \in Parties : route'[<<i, t>>] = route[<<i, t>>]
          BY <2>3, <3>2
        <4>2. job'[i] = job[i]
          BY <2>4, <3>2
        <4>3. QED
          BY <4>1, <4>2 DEF IInv, ClaimsPart
      <3>3. QED
        BY <3>1, <3>2
    <2>7. QED
      BY <1>1, <1>2, <2>3, <2>4, <2>6, Framed DEF IInv
  <1>5. QED
    BY <1>1, <1>3, <1>4

\* The route rebuilds and sends, and will store the hash of what it sent.
LEMMA RouteSendsKeeps ==
  ASSUME IInv, NEW j \in Jobs, NEW p \in Parties, RouteSends(j, p)
  PROVE  IInv'
  <1>1. /\ route[<<j, p>>].pc = "send" /\ Unused # {} /\ Broadcast(FreshTx, j)
        /\ route' = [route EXCEPT ![<<j, p>>] = [pc |-> "store", tx |-> FreshTx]]
        /\ UNCHANGED <<dbVars, matcher, reconciler, crashes>>
    BY DEF RouteSends
  <1>2. PICK t : t = FreshTx
    OBVIOUS
  <1>3. ChainGrows /\ ChainPart' /\ Sent(t, j)' /\ t \in TxIds
    BY <1>1, <1>2, BroadcastGrows
  <1>4. PICK q : q = [pc |-> "store", tx |-> t]
    OBVIOUS
  <1>5. TrueRequest(q, j)'
    BY <1>3, <1>4 DEF TrueRequest, RouteSteps
  <1>a. route' = [route EXCEPT ![<<j, p>>] = q]
    BY <1>1, <1>2, <1>4
  <1>6. /\ RoutePart' /\ route'[<<j, p>>] = q
        /\ \A i \in Jobs, s \in Parties : <<i, s>> # <<j, p>> => route'[<<i, s>>] = route[<<i, s>>]
    BY <1>3, <1>a, <1>5, RouteMoves
  <1>7. ClaimsPart'
    BY <1>1, <1>6, ReleaseKeepsClaims DEF Claimed, dbVars
  <1>8. QED
    BY <1>1, <1>3, <1>6, <1>7, Framed DEF IInv, dbVars

\* The route stores the hash it sent, or marks the job failed, and is done.
LEMMA RouteEndsKeeps ==
  ASSUME IInv, NEW j \in Jobs, NEW p \in Parties, StoreHash(j, p) \/ RouteFails(j, p)
  PROVE  IInv'
  <1>1. /\ route' = [route EXCEPT ![<<j, p>>] = Idle]
        /\ UNCHANGED <<filled, cancelled, fill, matcher, reconciler, chainVars>>
        /\ crashes' = crashes \/ (crashes < MaxCrashes /\ crashes' = crashes + 1)
    BY DEF StoreHash, RouteFails
  <1>2. ChainGrows /\ CrashesPart'
    BY <1>1, SameChain, PipelineConstants DEF IInv, CrashesPart
  <1>3. PICK q : q = Idle
    OBVIOUS
  <1>4. /\ RoutePart' /\ route'[<<j, p>>] = q
        /\ \A i \in Jobs, s \in Parties : <<i, s>> # <<j, p>> => route'[<<i, s>>] = route[<<i, s>>]
    BY <1>1, <1>2, <1>3, RouteMoves, StoredRequest
  <1>5. /\ JobPart' /\ \A i \in Jobs \ {j} : job'[i] = job[i]
        /\ job'[j].status \in {job[j].status, "FAILED"}
    <2>1. CASE StoreHash(j, p)
      <3>1. PICK t : t = route[<<j, p>>].tx
        OBVIOUS
      <3>2. route[<<j, p>>].pc = "store" /\ job' = [job EXCEPT ![j].hash = t]
        BY <2>1, <3>1 DEF StoreHash
      <3>3. Sent(t, j) /\ t \in TxIds
        BY <3>1, <3>2, StoredRequest DEF TrueRequest, Sent
      <3>4. PICK row : row = [job[j] EXCEPT !.hash = t]
        OBVIOUS
      <3>5. TrueRow(row, j) /\ row.status = job[j].status
        BY <3>3, <3>4, StoredRow DEF TrueRow, JobRow
      <3>6. job' = [job EXCEPT ![j] = row]
        BY <3>2, <3>4, StoredRow DEF IInv, JobPart
      <3>7. QED
        BY <1>2, <3>5, <3>6, RowWritten
    <2>2. CASE RouteFails(j, p)
      <3>1. job' = [job EXCEPT ![j].status = "FAILED"]
        BY <2>2 DEF RouteFails
      <3>2. QED
        BY <1>2, <3>1, StatusWritten DEF Statuses
    <2>3. QED
      BY <2>1, <2>2
  <1>6. ClaimsPart'
    <2>1. ~Claimed(route'[<<j, p>>])
      BY <1>3, <1>4 DEF Idle, Claimed
    <2>2. \A i \in Jobs : job'[i].status \in {job[i].status, "SUBMITTED", "CONFIRMED", "FAILED"}
      BY <1>5
    <2>3. QED
      BY <1>4, <2>1, <2>2, ReleaseKeepsClaims
  <1>7. QED
    BY <1>1, <1>2, <1>4, <1>5, <1>6, Framed DEF IInv

-----------------------------------------------------------------------------
(* The reconciler.                                                         *)

\* The steps at which a reconciler holds no transaction of its own.
Unheld == ReconcilerSteps \ {"check", "store", "poll", "confirm", "link"}

\* A reconciler that goes on with its job, or is done with it.
LEMMA ReconcilerMoves ==
  ASSUME IInv
  PROVE  /\ \A step \in Unheld : reconciler.pc # "idle" /\ ReconcilerGoes(step) => ReconcilerPart'
         /\ reconciler' = Resting => ReconcilerPart'
         /\ reconciler.pc # "idle" => reconciler.job \in Jobs
  <1>1. /\ reconciler \in [pc: ReconcilerSteps, row: JobRow, job: Orders, tx: TxIds \cup {NoTx}]
        /\ reconciler.pc # "idle" => reconciler.job \in Jobs
    BY DEF IInv, ReconcilerPart
  <1>2. ASSUME NEW step \in Unheld, reconciler.pc # "idle", ReconcilerGoes(step)
        PROVE  ReconcilerPart'
    <2>1. /\ reconciler' \in [pc: ReconcilerSteps, row: JobRow, job: Orders, tx: TxIds \cup {NoTx}]
          /\ reconciler'.pc = step /\ reconciler'.job = reconciler.job
      BY <1>1, <1>2 DEF ReconcilerGoes, Unheld
    <2>2. QED
      BY <1>1, <1>2, <2>1 DEF ReconcilerPart, Unheld
  <1>3. ASSUME reconciler' = Resting
        PROVE  ReconcilerPart'
    <2>1. NoJob \in JobRow /\ Maker \in Orders /\ "idle" \in ReconcilerSteps
      BY Basics DEF NoJob, JobRow, Statuses, ReconcilerSteps
    <2>2. /\ reconciler' \in [pc: ReconcilerSteps, row: JobRow, job: Orders, tx: TxIds \cup {NoTx}]
          /\ reconciler'.pc = "idle"
      BY <1>3, <2>1 DEF Resting
    <2>3. QED
      BY <2>2 DEF ReconcilerPart
  <1>4. QED
    BY <1>1, <1>2, <1>3

\* A reconciler that has seen a transaction of its job succeed.
LEMMA ReconcilerSawSuccess ==
  ASSUME IInv, ChainGrows, NEW step \in {"confirm", "link"}, ReconcilerGoes(step),
         reconciler.pc # "idle", settled[reconciler.job] = 1
  PROVE  ReconcilerPart'
  <1>1. /\ reconciler \in [pc: ReconcilerSteps, row: JobRow, job: Orders, tx: TxIds \cup {NoTx}]
        /\ reconciler.job \in Jobs
    BY DEF IInv, ReconcilerPart
  <1>2. /\ reconciler' \in [pc: ReconcilerSteps, row: JobRow, job: Orders, tx: TxIds \cup {NoTx}]
        /\ reconciler'.pc = step /\ reconciler'.job = reconciler.job
    BY <1>1 DEF ReconcilerGoes, ReconcilerSteps
  <1>3. settled'[reconciler'.job] = 1
    BY <1>1, <1>2 DEF ChainGrows
  <1>4. QED
    BY <1>1, <1>2, <1>3 DEF ReconcilerPart

\* The selection of a row, as it is at that moment.
LEMMA SelectKeeps ==
  ASSUME IInv, NEW j \in Jobs, SelectSubmitted(j) \/ SelectReady(j) \/ SelectStale(j)
  PROVE  IInv'
  <1>1. PICK row : row = job[j]
    OBVIOUS
  <1>2. TrueRow(row, j) /\ row \in JobRow
    BY <1>1, StoredRow
  <1>3. PICK step \in {"check", "claim", "undo_fill"} :
          /\ step = "check" => row.hash # NoTx
          /\ reconciler' = [pc |-> step, row |-> row, job |-> j, tx |-> NoTx]
          /\ UNCHANGED <<dbVars, matcher, route, chainVars, crashes>>
    BY <1>1 DEF SelectSubmitted, SelectReady, SelectStale, Selects
  <1>4. ChainGrows
    BY <1>3, SameChain
  <1>5. ReconcilerPart'
    <2>1. /\ reconciler' \in [pc: ReconcilerSteps, row: JobRow, job: Orders, tx: TxIds \cup {NoTx}]
          /\ reconciler'.pc = step /\ reconciler'.job = j /\ reconciler'.row = row
      BY <1>2, <1>3, Basics DEF ReconcilerSteps
    <2>2. step = "check" => Sent(row.hash, j)'
      BY <1>2, <1>3, <1>4, SentForEver DEF TrueRow
    <2>3. QED
      BY <1>3, <2>1, <2>2 DEF ReconcilerPart
  <1>6. QED
    BY <1>3, <1>4, <1>5, Framed DEF IInv, dbVars

\* What the chain answers of the transaction a SUBMITTED row names.
LEMMA CheckKeeps ==
  ASSUME IInv, CheckSubmitted
  PROVE  IInv'
  <1>1. /\ reconciler.pc = "check" /\ UNCHANGED <<dbVars, matcher, route, chainVars, crashes>>
        /\ \/ Answer(reconciler.row.hash) = "SUCCESS" /\ ReconcilerGoes("confirm")
           \/ ReconcilerGoes("undo_fill") \/ ReconcilerGoes("claim") \/ reconciler' = Resting
    BY DEF CheckSubmitted
  <1>2. ChainGrows /\ "undo_fill" \in Unheld /\ "claim" \in Unheld
    BY <1>1, SameChain DEF Unheld, ReconcilerSteps
  <1>3. Answer(reconciler.row.hash) = "SUCCESS" => settled[reconciler.job] = 1
    <2>1. Sent(reconciler.row.hash, reconciler.job)
      BY <1>1 DEF IInv, ReconcilerPart
    <2>2. Answer(reconciler.row.hash) = "SUCCESS" => tx[reconciler.row.hash].state = "success"
      BY DEF Answer
    <2>3. QED
      BY <2>1, <2>2 DEF IInv, ChainPart, Sent
  <1>4. ReconcilerPart'
    BY <1>1, <1>2, <1>3, ReconcilerMoves, ReconcilerSawSuccess
  <1>5. QED
    BY <1>1, <1>2, <1>4, Framed DEF IInv, dbVars

\* A confirmation is written over SUBMITTED only, and the fill is linked.
LEMMA ConfirmKeeps ==
  ASSUME IInv, ConfirmSubmitted \/ LinkFill
  PROVE  IInv'
  <1>1. ASSUME ConfirmSubmitted PROVE IInv'
    <2>1. PICK j : j = reconciler.job
      OBVIOUS
    <2>2. /\ reconciler.pc = "confirm" /\ ReconcilerGoes("link")
          /\ job' = [job EXCEPT ![j].status = IF @ = "SUBMITTED" THEN "CONFIRMED" ELSE @]
          /\ UNCHANGED <<filled, cancelled, fill, matcher, route, chainVars, crashes>>
      BY <1>1, <2>1 DEF ConfirmSubmitted
    <2>3. ChainGrows /\ j \in Jobs /\ settled[j] = 1
      BY <2>1, <2>2, SameChain DEF IInv, ReconcilerPart
    <2>4. ReconcilerPart'
      BY <2>1, <2>2, <2>3, ReconcilerSawSuccess
    <2>5. PICK status : status = IF job[j].status = "SUBMITTED" THEN "CONFIRMED" ELSE job[j].status
      OBVIOUS
    <2>6. PICK row : row = [job[j] EXCEPT !.status = status]
      OBVIOUS
    <2>7. TrueRow(row, j) /\ row.status = status
      BY <2>3, <2>5, <2>6, StoredRow DEF TrueRow, JobRow, Statuses
    <2>8. job' = [job EXCEPT ![j] = row]
      BY <2>2, <2>3, <2>5, <2>6, StoredRow DEF IInv, JobPart
    <2>9. JobPart' /\ job'[j] = row /\ \A i \in Jobs \ {j} : job'[i] = job[i]
      BY <2>3, <2>7, <2>8, RowWritten
    <2>10. ClaimsPart'
      BY <2>2, <2>3, <2>5, <2>7, <2>9, ClaimSurvives
    <2>11. QED
      BY <2>2, <2>3, <2>4, <2>9, <2>10, Framed DEF IInv
  <1>2. ASSUME LinkFill PROVE IInv'
    <2>1. PICK j : j = reconciler.job
      OBVIOUS
    <2>2. /\ reconciler.pc = "link" /\ reconciler' = Resting
          /\ fill' = [fill EXCEPT ![j] = IF "pending" \in @ THEN {"linked"} ELSE @]
          /\ UNCHANGED <<filled, cancelled, job, matcher, route, chainVars, crashes>>
      BY <1>2, <2>1 DEF LinkFill
    <2>3. ChainGrows /\ j \in Jobs /\ settled[j] = 1 /\ settled' = settled
      BY <2>1, <2>2, SameChain DEF IInv, ReconcilerPart, chainVars
    <2>4. FillPart'
      BY <2>2, <2>3 DEF IInv, FillPart
    <2>5. QED
      BY <2>2, <2>3, <2>4, ReconcilerMoves, Framed DEF IInv
  <1>3. QED
    BY <1>1, <1>2

\* The reconciler's rollback, and the terminal status written only over the status
\* that was selected.
LEMMA ReconcilerUndoKeeps ==
  ASSUME IInv, ReconcilerUndoFill \/ ReconcilerUndoMaker \/ ReconcilerUndoTaker \/ FailRolledBack
  PROVE  IInv'
  <1>1. /\ {"undo_maker", "undo_taker", "fail"} \subseteq Unheld /\ Maker \in Orders
        /\ reconciler.pc # "idle" => reconciler.job \in Jobs /\ reconciler.job \in Orders
    BY ReconcilerMoves, Basics DEF Unheld, ReconcilerSteps
  <1>2. ASSUME ReconcilerUndoFill PROVE IInv'
    <2>1. /\ reconciler.pc # "idle" /\ ReconcilerGoes("undo_maker") /\ fill' = Deleted(reconciler.job)
          /\ UNCHANGED <<filled, cancelled, job, matcher, route, chainVars, crashes>>
      BY <1>2 DEF ReconcilerUndoFill
    <2>2. FillPart'
      BY <1>1, <2>1 DEF IInv, FillPart, Deleted, chainVars
    <2>3. QED
      BY <1>1, <2>1, <2>2, ReconcilerMoves, SameChain, Framed DEF IInv
  <1>3. ASSUME ReconcilerUndoMaker PROVE IInv'
    <2>1. /\ reconciler.pc # "idle" /\ ReconcilerGoes("undo_taker") /\ filled' = Returned(Maker)
          /\ UNCHANGED <<cancelled, fill, job, matcher, route, chainVars, crashes>>
      BY <1>3 DEF ReconcilerUndoMaker
    <2>2. QED
      BY <1>1, <2>1, ReconcilerMoves, FilledMoves, SameChain, Framed DEF IInv
  <1>4. ASSUME ReconcilerUndoTaker PROVE IInv'
    <2>1. /\ reconciler.pc # "idle" /\ ReconcilerGoes("fail") /\ filled' = Returned(reconciler.job)
          /\ UNCHANGED <<cancelled, fill, job, matcher, route, chainVars, crashes>>
      BY <1>4 DEF ReconcilerUndoTaker
    <2>2. QED
      BY <1>1, <2>1, ReconcilerMoves, FilledMoves, SameChain, Framed DEF IInv
  <1>5. ASSUME FailRolledBack PROVE IInv'
    <2>1. PICK j : j = reconciler.job
      OBVIOUS
    <2>2. /\ reconciler.pc = "fail" /\ reconciler' = Resting
          /\ job' = [job EXCEPT ![j].status = IF @ = reconciler.row.status THEN "FAILED" ELSE @]
          /\ UNCHANGED <<filled, cancelled, fill, matcher, route, chainVars, crashes>>
      BY <1>5, <2>1 DEF FailRolledBack
    <2>3. ChainGrows /\ j \in Jobs
      BY <1>1, <2>1, <2>2, SameChain
    <2>4. PICK status : /\ status = IF job[j].status = reconciler.row.status
                                    THEN "FAILED" ELSE job[j].status
      OBVIOUS
    <2>5. PICK row : row = [job[j] EXCEPT !.status = status]
      OBVIOUS
    <2>6. TrueRow(row, j) /\ row.status \in {"FAILED", job[j].status}
      BY <2>3, <2>4, <2>5, StoredRow DEF TrueRow, JobRow, Statuses
    <2>7. job' = [job EXCEPT ![j] = row]
      BY <2>2, <2>3, <2>4, <2>5, StoredRow DEF IInv, JobPart
    <2>8. JobPart' /\ job'[j] = row /\ \A i \in Jobs \ {j} : job'[i] = job[i]
      BY <2>3, <2>6, <2>7, RowWritten
    <2>9. ClaimsPart'
      BY <2>2, <2>3, <2>6, <2>8, ClaimSurvives
    <2>10. QED
      BY <2>2, <2>3, <2>8, <2>9, ReconcilerMoves, Framed DEF IInv
  <1>6. QED
    BY <1>2, <1>3, <1>4, <1>5

\* resubmitJob: the claim, the send, and the hash of what was sent.
LEMMA ResubmitKeeps ==
  ASSUME IInv, ClaimReady \/ ReconcilerSends \/ ReconcilerStores
  PROVE  IInv'
  <1>1. PICK j : j = reconciler.job
    OBVIOUS
  <1>2. reconciler.pc # "idle" => j \in Jobs
    BY <1>1, ReconcilerMoves
  <1>3. reconciler \in [pc: ReconcilerSteps, row: JobRow, job: Orders, tx: TxIds \cup {NoTx}]
    BY DEF IInv, ReconcilerPart
  <1>4. ASSUME ClaimReady PROVE IInv'
    <2>1. /\ reconciler.pc # "idle"
          /\ UNCHANGED <<filled, cancelled, fill, matcher, route, chainVars, crashes>>
          /\ \/ job' = [job EXCEPT ![j].status = "SUBMITTED"] /\ ReconcilerGoes("send")
             \/ UNCHANGED job /\ reconciler' = Resting
      BY <1>1, <1>4 DEF ClaimReady
    <2>2. ChainGrows /\ "send" \in Unheld
      BY <2>1, SameChain DEF Unheld, ReconcilerSteps
    <2>3. ReconcilerPart'
      BY <2>1, <2>2, ReconcilerMoves
    <2>4. JobPart' /\ ClaimsPart'
      <3>1. CASE UNCHANGED job
        BY <2>1, <2>2, <3>1, Framed
      <3>2. CASE job' = [job EXCEPT ![j].status = "SUBMITTED"]
        <4>1. JobPart' /\ job'[j].status = "SUBMITTED" /\ \A i \in Jobs \ {j} : job'[i] = job[i]
          BY <1>2, <2>1, <2>2, <3>2, StatusWritten DEF Statuses
        <4>2. ClaimsPart'
          BY <1>2, <2>1, <4>1, ClaimSurvives
        <4>3. QED
          BY <4>1, <4>2
      <3>3. QED
        BY <2>1, <3>1, <3>2
    <2>5. QED
      BY <2>1, <2>2, <2>3, <2>4, Framed DEF IInv
  <1>5. ASSUME ReconcilerSends PROVE IInv'
    <2>1. PICK t : t = FreshTx
      OBVIOUS
    <2>2. /\ reconciler.pc = "send" /\ Unused # {} /\ Broadcast(t, j)
          /\ reconciler' = [reconciler EXCEPT !.pc = "store", !.tx = t]
          /\ UNCHANGED <<dbVars, matcher, route, crashes>>
      BY <1>1, <1>5, <2>1 DEF ReconcilerSends
    <2>3. ChainGrows /\ ChainPart' /\ Sent(t, j)' /\ t \in TxIds
      BY <1>2, <2>1, <2>2, BroadcastGrows
    <2>4. /\ reconciler' \in [pc: ReconcilerSteps, row: JobRow, job: Orders, tx: TxIds \cup {NoTx}]
          /\ reconciler'.pc = "store" /\ reconciler'.job = j /\ reconciler'.tx = t
      BY <1>1, <1>3, <2>2, <2>3 DEF ReconcilerSteps
    <2>5. ReconcilerPart'
      BY <1>2, <2>2, <2>3, <2>4 DEF ReconcilerPart
    <2>6. QED
      BY <2>2, <2>3, <2>5, Framed DEF IInv, dbVars
  <1>6. ASSUME ReconcilerStores PROVE IInv'
    <2>1. PICK t : t = reconciler.tx
      OBVIOUS
    <2>2. /\ reconciler.pc = "store" /\ ReconcilerGoes("poll")
          /\ job' = [job EXCEPT ![j].hash = t]
          /\ UNCHANGED <<filled, cancelled, fill, matcher, route, chainVars, crashes>>
      BY <1>1, <1>6, <2>1 DEF ReconcilerStores
    <2>3. ChainGrows /\ j \in Jobs /\ Sent(t, j) /\ t \in TxIds
      BY <1>1, <1>2, <2>1, <2>2, SameChain DEF IInv, ReconcilerPart, Sent
    <2>4. Sent(t, j)'
      BY <2>3, SentForEver
    <2>5. /\ reconciler' \in [pc: ReconcilerSteps, row: JobRow, job: Orders, tx: TxIds \cup {NoTx}]
          /\ reconciler'.pc = "poll" /\ reconciler'.job = j /\ reconciler'.tx = t
      BY <1>1, <1>3, <2>1, <2>2 DEF ReconcilerGoes, ReconcilerSteps
    <2>6. ReconcilerPart'
      BY <2>3, <2>4, <2>5 DEF ReconcilerPart
    <2>7. PICK row : row = [job[j] EXCEPT !.hash = t]
      OBVIOUS
    <2>8. TrueRow(row, j) /\ row.status = job[j].status
      BY <2>3, <2>7, StoredRow DEF TrueRow, JobRow
    <2>9. job' = [job EXCEPT ![j] = row]
      BY <2>2, <2>3, <2>7, StoredRow DEF IInv, JobPart
    <2>10. JobPart' /\ job'[j] = row /\ \A i \in Jobs \ {j} : job'[i] = job[i]
      BY <2>3, <2>8, <2>9, RowWritten
    <2>11. ClaimsPart'
      BY <2>2, <2>3, <2>8, <2>10, ClaimSurvives
    <2>12. QED
      BY <2>2, <2>3, <2>6, <2>10, <2>11, Framed DEF IInv
  <1>7. QED
    BY <1>4, <1>5, <1>6

\* The polls of a resubmission, and a resubmission or a tick that is given up.
LEMMA ResubmitEndsKeeps ==
  ASSUME IInv, ReconcilerPolls \/ ResubmitThrows \/ ReconcilerCrashes
  PROVE  IInv'
  <1>1. PICK j : j = reconciler.job
    OBVIOUS
  <1>2. /\ UNCHANGED <<filled, cancelled, fill, matcher, route, chainVars>>
        /\ crashes' = crashes \/ (crashes < MaxCrashes /\ crashes' = crashes + 1)
        /\ \/ /\ reconciler.pc = "poll" /\ Answer(reconciler.tx) = "SUCCESS"
              /\ job' = [job EXCEPT ![j].status = "CONFIRMED"] /\ ReconcilerGoes("link")
           \/ /\ reconciler.pc # "idle" /\ job' = [job EXCEPT ![j].status = "FAILED"]
              /\ reconciler' = Resting
           \/ UNCHANGED job /\ reconciler' = Resting
    BY <1>1 DEF ReconcilerPolls, ResubmitThrows, ReconcilerCrashes, dbVars
  <1>3. ChainGrows /\ CrashesPart' /\ (reconciler.pc # "idle" => j \in Jobs)
    BY <1>1, <1>2, SameChain, ReconcilerMoves, PipelineConstants DEF IInv, CrashesPart
  <1>4. ReconcilerPart' /\ JobPart' /\ ClaimsPart'
    <2>1. CASE /\ reconciler.pc = "poll" /\ Answer(reconciler.tx) = "SUCCESS"
               /\ job' = [job EXCEPT ![j].status = "CONFIRMED"] /\ ReconcilerGoes("link")
      <3>1. Sent(reconciler.tx, j)
        BY <1>1, <2>1 DEF IInv, ReconcilerPart
      <3>2. tx[reconciler.tx].state = "success"
        BY <2>1 DEF Answer
      <3>3. settled[j] = 1
        BY <3>1, <3>2 DEF IInv, ChainPart, Sent
      <3>4. ReconcilerPart'
        BY <1>1, <1>3, <2>1, <3>3, ReconcilerSawSuccess
      <3>5. PICK row : row = [job[j] EXCEPT !.status = "CONFIRMED"]
        OBVIOUS
      <3>6. TrueRow(row, j) /\ row.status = "CONFIRMED"
        BY <1>3, <2>1, <3>3, <3>5, StoredRow DEF TrueRow, JobRow, Statuses
      <3>7. job' = [job EXCEPT ![j] = row]
        BY <1>3, <2>1, <3>5, StoredRow DEF IInv, JobPart
      <3>8. JobPart' /\ job'[j] = row /\ \A i \in Jobs \ {j} : job'[i] = job[i]
        BY <1>3, <2>1, <3>6, <3>7, RowWritten
      <3>9. ClaimsPart'
        BY <1>2, <1>3, <2>1, <3>6, <3>8, ClaimSurvives
      <3>10. QED
        BY <3>4, <3>8, <3>9
    <2>2. CASE /\ reconciler.pc # "idle" /\ job' = [job EXCEPT ![j].status = "FAILED"]
               /\ reconciler' = Resting
      <3>1. JobPart' /\ job'[j].status = "FAILED" /\ \A i \in Jobs \ {j} : job'[i] = job[i]
        BY <1>3, <2>2, StatusWritten DEF Statuses
      <3>2. ClaimsPart'
        BY <1>2, <1>3, <2>2, <3>1, ClaimSurvives
      <3>3. QED
        BY <2>2, <3>1, <3>2, ReconcilerMoves
    <2>3. CASE UNCHANGED job /\ reconciler' = Resting
      BY <1>2, <1>3, <2>3, ReconcilerMoves, Framed
    <2>4. QED
      BY <1>2, <2>1, <2>2, <2>3
  <1>5. QED
    BY <1>2, <1>3, <1>4, Framed DEF IInv

-----------------------------------------------------------------------------
(* The chain and the orders API.                                           *)

\* The gateway settles a fill, or a transaction ends without effect.
LEMMA ChainKeeps ==
  ASSUME IInv, NEW t \in TxIds, TxSucceeds(t) \/ TxFails(t) \/ TxExpires(t)
  PROVE  IInv'
  <1>1. PICK state \in {"success", "failed", "expired"} :
          /\ tx' = [tx EXCEPT ![t].state = state]
          /\ state = "success" => settled' = [settled EXCEPT ![tx[t].job] = @ + 1]
          /\ state = "success" => settled[tx[t].job] = 0
          /\ state # "success" => UNCHANGED settled
    BY DEF TxSucceeds, TxFails, TxExpires, Accepts
  <1>2. tx[t].state = "pending" /\ UNCHANGED <<dbVars, matcher, route, reconciler, crashes>>
    BY DEF TxSucceeds, TxFails, TxExpires
  <1>3. PICK j : j = tx[t].job
    OBVIOUS
  <1>4. /\ tx \in [TxIds -> [job: Orders, state: TxStates]]
        /\ \A s \in TxIds : tx[s].state # "unused" => tx[s].job \in Jobs
        /\ settled \in [Jobs -> {0, 1}]
        /\ \A s \in TxIds : tx[s].state = "success" => settled[tx[s].job] = 1
        /\ j \in Jobs
    BY <1>2, <1>3 DEF IInv, ChainPart
  <1>5. /\ tx' \in [TxIds -> [job: Orders, state: TxStates]]
        /\ tx'[t].job = j /\ tx'[t].state = state
        /\ \A s \in TxIds \ {t} : tx'[s] = tx[s]
    BY <1>1, <1>3, <1>4 DEF TxStates
  <1>6. /\ settled' \in [Jobs -> {0, 1}]
        /\ \A i \in Jobs : settled[i] = 1 => settled'[i] = 1
        /\ state = "success" => settled'[j] = 1
    <2>1. CASE state = "success"
      <3>1. settled' = [settled EXCEPT ![j] = settled[j] + 1] /\ settled[j] = 0
        BY <1>1, <1>3, <2>1
      <3>2. settled' = [settled EXCEPT ![j] = 1]
        BY <3>1
      <3>3. QED
        BY <1>4, <3>2
    <2>2. CASE state # "success"
      BY <1>1, <1>4, <2>2
    <2>3. QED
      BY <2>1, <2>2
  <1>7. ChainGrows
    BY <1>1, <1>3, <1>5, <1>6 DEF ChainGrows
  <1>8. ChainPart'
    <2>1. \A s \in TxIds : tx'[s].state # "unused" => tx'[s].job \in Jobs
      BY <1>4, <1>5
    <2>2. \A s \in TxIds : tx'[s].state = "success" => settled'[tx'[s].job] = 1
      BY <1>4, <1>5, <1>6
    <2>3. QED
      BY <1>5, <1>6, <2>1, <2>2 DEF ChainPart
  <1>9. QED
    BY <1>2, <1>7, <1>8, Framed DEF IInv, dbVars

\* A cancel flags an order and nothing else.
LEMMA CancelKeeps ==
  ASSUME IInv, NEW o \in Orders, CancelOrder(o)
  PROVE  IInv'
  <1>1. /\ cancelled' = cancelled \cup {o}
        /\ UNCHANGED <<filled, fill, job, matcher, route, reconciler, chainVars, crashes>>
    BY DEF CancelOrder
  <1>2. CancelledPart'
    BY <1>1 DEF IInv, CancelledPart
  <1>3. QED
    BY <1>1, <1>2, SameChain, Framed DEF IInv

-----------------------------------------------------------------------------
(* The invariant.                                                          *)

\* Nothing is persisted, sent or under way at first.
LEMMA InitIInv == Init => IInv
  <1> SUFFICES ASSUME Init PROVE IInv
    OBVIOUS
  <1>1. /\ Maker \in Orders /\ Jobs \subseteq Orders /\ NoJob \in JobRow /\ NoJob.hash = NoTx
        /\ NoJob.status = "absent" /\ \A o \in Orders : Size(o) \in Nat
    BY Basics DEF Size, NoJob, JobRow, Statuses
  <1>2. ChainPart
    BY <1>1 DEF Init, ChainPart, TxStates
  <1>3. FilledPart /\ CancelledPart /\ FillPart
    BY <1>1 DEF Init, FilledPart, CancelledPart, FillPart
  <1>4. JobPart
    <2>1. \A j \in Jobs : TrueRow(NoJob, j)
      BY <1>1 DEF TrueRow
    <2>2. QED
      BY <2>1 DEF Init, JobPart
  <1>5. MatcherPart
    BY DEF Init, MatcherPart, MatcherSteps
  <1>6. RoutePart /\ ClaimsPart
    <2>1. \A j \in Jobs : TrueRequest(Idle, j) /\ ~Claimed(Idle)
      BY DEF TrueRequest, Idle, RouteSteps, Claimed
    <2>2. \A j \in Jobs, p \in Parties : route[<<j, p>>] = Idle
      BY DEF Init, Requests
    <2>3. DOMAIN route = Requests /\ route = [r \in Requests |-> route[r]]
      BY DEF Init
    <2>4. QED
      BY <2>1, <2>2, <2>3 DEF RoutePart, ClaimsPart
  <1>7. ReconcilerPart
    BY <1>1 DEF Init, ReconcilerPart, Resting, ReconcilerSteps
  <1>8. CrashesPart
    BY PipelineConstants DEF Init, CrashesPart
  <1>9. QED
    BY <1>2, <1>3, <1>4, <1>5, <1>6, <1>7, <1>8 DEF IInv

\* Every step of every process, and a stutter, keeps the invariant.
LEMMA NextIInv == IInv /\ [Next]_vars => IInv'
  <1> SUFFICES ASSUME IInv, [Next]_vars PROVE IInv'
    OBVIOUS
  <1>1. CASE UNCHANGED vars
    BY <1>1, SameChain, Framed DEF IInv, vars, dbVars
  <1>2. CASE Tick
    BY <1>2, TickKeeps
  <1>3. CASE MatcherStep
    BY <1>3, PersistKeeps, RollbackKeeps, SubmitSignedKeeps, QueueKeeps, SeeSuccessKeeps, RecordKeeps
       DEF MatcherStep
  <1>4. CASE MatcherCrashes \/ MatcherStatementFails
    BY <1>4, MatcherFaultsKeep
  <1>5. CASE \E j \in Jobs, party \in Parties :
                \/ SignSettlement(j, party) \/ SigningFails(j, party) \/ MergeEntry(j, party)
                \/ RouteStep(j, party) \/ RequestDies(j, party)
    BY <1>5, CardKeeps, MergeKeeps, ClaimKeeps, RouteSendsKeeps, RouteEndsKeeps DEF RouteStep
  <1>6. CASE \E j \in Jobs : SelectSubmitted(j) \/ SelectReady(j) \/ SelectStale(j)
    BY <1>6, SelectKeeps
  <1>7. CASE ReconcilerStep \/ ReconcilerCrashes
    BY <1>7, CheckKeeps, ConfirmKeeps, ReconcilerUndoKeeps, ResubmitKeeps, ResubmitEndsKeeps
       DEF ReconcilerStep
  <1>8. CASE \E t \in TxIds : TxSucceeds(t) \/ TxFails(t) \/ TxExpires(t)
    BY <1>8, ChainKeeps
  <1>9. CASE \E o \in Orders : CancelOrder(o)
    BY <1>9, CancelKeeps
  <1>10. QED
    BY <1>1, <1>2, <1>3, <1>4, <1>5, <1>6, <1>7, <1>8, <1>9 DEF Next

\* No process is ever wrong about the chain, whatever crashes, races and lost
\* answers do to it: the inductive invariant holds in every behaviour.
THEOREM NobodyIsWrongAboutTheChain == Spec => []IInv
  BY InitIInv, NextIInv, PTL DEF Spec

\* The database never reports CONFIRMED, nor links a fill, for a trade the gateway
\* did not settle: the matcher and the reconciler write either only for a
\* transaction of that very job that they saw succeed.
THEOREM ConfirmedIsAlwaysSettled == Spec => []ConfirmedIsSettled
  <1>1. IInv => ConfirmedIsSettled
    BY DEF IInv, JobPart, TrueRow, FillPart, ConfirmedIsSettled
  <1>2. QED
    BY <1>1, NobodyIsWrongAboutTheChain, PTL

\* The rows are well formed, and of all the sign requests of a job at most one is
\* between the claim and the stored hash: the claim is the one statement that moves
\* a row out of QUEUED, and no statement ever moves it back.
THEOREM OneRequestAlwaysSubmits == Spec => []OneRequestSubmits
  <1>1. ASSUME IInv PROVE TypeOK
    <2>1. (\A o \in Orders : filled[o] \in 0..Size(o)) /\ cancelled \subseteq Orders
      BY <1>1, Basics DEF IInv, FilledPart, CancelledPart, Size
    <2>2. fill \in [Jobs -> SUBSET {"pending", "linked"}] /\ job \in [Jobs -> JobRow]
      BY <1>1 DEF IInv, FillPart, JobPart, TrueRow
    <2>3. /\ matcher.pc \in MatcherSteps /\ matcher.todo \in Seq(Jobs)
          /\ matcher.tx \in TxIds \cup {NoTx} /\ (matcher.pc # "idle" => matcher.todo # <<>>)
      BY <1>1 DEF IInv, MatcherPart
    <2>4. route \in [Requests -> [pc: {"idle", "sign", "claim", "send", "store"},
                                  tx: TxIds \cup {NoTx}]]
      <3>1. \A r \in Requests : \E j \in Jobs, p \in Parties : r = <<j, p>>
        BY DEF Requests
      <3>2. \A r \in Requests : route[r] \in [pc: RouteSteps, tx: TxIds \cup {NoTx}]
        BY <1>1, <3>1 DEF IInv, RoutePart, TrueRequest
      <3>3. route = [r \in Requests |-> route[r]]
        BY <1>1 DEF IInv, RoutePart
      <3>4. QED
        BY <3>2, <3>3 DEF RouteSteps
    <2>5. reconciler \in [pc: ReconcilerSteps, row: JobRow, job: Orders, tx: TxIds \cup {NoTx}]
      BY <1>1 DEF IInv, ReconcilerPart
    <2>6. /\ tx \in [TxIds -> [job: Orders,
                               state: {"unused", "pending", "success", "failed", "expired"}]]
          /\ settled \in [Jobs -> 0..1]
      <3>1. 0..1 = {0, 1}
        OBVIOUS
      <3>2. QED
        BY <1>1, <3>1 DEF IInv, ChainPart, TxStates
    <2>7. crashes \in 0..MaxCrashes
      BY <1>1, PipelineConstants DEF IInv, CrashesPart
    <2>8. QED
      BY <2>1, <2>2, <2>3, <2>4, <2>5, <2>6, <2>7 DEF TypeOK
  <1>2. ASSUME IInv, NEW j \in Jobs
        PROVE  Cardinality({p \in Parties : route[j, p].pc \in {"send", "store"}}) <= 1
    <2> DEFINE sending == {p \in Parties : route[<<j, p>>].pc \in {"send", "store"}}
    <2>1. \A p, q \in sending : p = q
      BY <1>2 DEF IInv, ClaimsPart, Claimed
    <2>2. sending = {} \/ \E p : sending = {p}
      BY <2>1
    <2> HIDE DEF sending
    <2>3. Cardinality(sending) <= 1
      <3>1. Cardinality({}) = 0
        BY FS_EmptySet
      <3>2. \A p : Cardinality({p}) = 1
        BY FS_Singleton
      <3>3. CASE sending = {}
        <4>1. Cardinality(sending) = 0
          BY <3>1, <3>3, Zenon
        <4>2. QED
          BY <4>1
      <3>4. CASE \E p : sending = {p}
        <4>1. Cardinality(sending) = 1
          BY <3>2, <3>4, Zenon
        <4>2. QED
          BY <4>1
      <3>5. QED
        BY <2>2, <3>3, <3>4
    <2>4. QED
      BY <2>3 DEF sending
  <1>3. IInv => OneRequestSubmits
    BY <1>1, <1>2 DEF OneRequestSubmits
  <1>4. QED
    BY <1>3, NobodyIsWrongAboutTheChain, PTL
=============================================================================
