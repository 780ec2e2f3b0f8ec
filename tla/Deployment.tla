----------------------------- MODULE Deployment -----------------------------
(* The deployment scripts: mainnet-deploy.ts and testnet-deploy.ts, which resume  *)
(* from a state file; redeploy-core.ts, redeploy-oracle.ts and                    *)
(* rewire-liquidation.ts, which start over each time; deploy-testnet-usdt0.ts     *)
(* and list-usdt0.ts, which issue and list a collateral; and the operator who     *)
(* points the clients at what was deployed.                                       *)
(*                                                                                *)
(* Every script signs with the admin's account, so at most one of its             *)
(* transactions can still be included.  What the chain holds is a set of facts    *)
(* <<field, contract, value>>; a contract is <<name, generation>>, generation 1   *)
(* being the one with the fixed salt.                                             *)
EXTENDS Integers, SequencesExt, FiniteSets, FiniteSetsExt

CONSTANTS MaxFaults,   \* bound on crashes, time-outs, dropped transactions
          MaxOthers,   \* bound on runs other than resuming the deployment
          MaxGen       \* bound on generations of redeployed contracts, assets and keys

ASSUME DeploymentAssumption == MaxFaults \in Nat /\ MaxOthers \in Nat /\ MaxGen \in Nat \ {0}

Order == <<"oracle", "vault", "risk", "engine", "gateway", "insurance", "liquidation", "governance">>
Core == <<"vault", "risk", "engine", "gateway">>
Files == {"v1", "v2"}
Gens == 1..MaxGen

\* Values of facts: a contract, an asset, or one of these.
Yes == <<"yes", 0>>
Admin == <<"admin", 0>>
FromEnv == <<"env", 0>>       \* the operator keys testnet takes from the environment
FromFile == <<"file", 0>>     \* stands for the key the state file names
Key(g) == <<"key", g>>        \* the keys minted by the g-th attempt

VARIABLES
    net,      \* the network
    env,      \* what the operator variables of the environment hold
    facts,    \* what is on chain
    live,     \* the transaction that may still be included
    file,     \* the state files: steps done, and the attempt whose keys they name
    secrets,  \* the attempt whose keys the secrets file holds, 0 when there is none
    minted,   \* attempts at minting keys
    gen,      \* the newest generation of redeployed contracts and of mock assets
    served,   \* the core the clients use, 0 before the first
    asset,    \* the USDT0 asset the environment names, 0 for none
    run, others, faults

deployVars == <<net, env, facts, live, file, secrets, minted, gen, served, asset, run, others, faults>>

Off == [script |-> "off", file |-> "v1", g |-> 0, core |-> 0, at |-> 1, tries |-> 1, sent |-> "no"]
NoTx == [kind |-> "none", id |-> Yes, puts |-> {}]

DeployInit ==
    /\ net \in {"mainnet", "testnet"}
    /\ env \in {FromEnv, Admin} /\ (net = "mainnet" => env = FromEnv)
    /\ facts = {} /\ live = NoTx
    /\ file = [f \in Files |-> [done |-> {}, ops |-> 0]] /\ secrets = 0
    /\ minted = 0 /\ gen = 1 /\ served = 0
    /\ asset = IF net = "mainnet" THEN 1 ELSE 0
    /\ run = Off /\ others = 0 /\ faults = 0

-----------------------------------------------------------------------------
(* The scripts' steps: a checkpoint, the kind of step, the contract and what it   *)
(* writes.  "upload" and "deploy" go through the stellar command line.            *)

Step(key, kind, id, puts) == [key |-> key, kind |-> kind, id |-> id, puts |-> puts]
Call(key, field, id, value) == Step(key, "call", id, {<<field, id, value>>})
ForEach(names, S(_)) == [i \in DOMAIN names |-> S(names[i])]

References(n, g) ==
    LET Ref(m) == <<m, <<n, g>>, <<m, g>>>>
        Oracle == <<"oracle", <<n, g>>, <<"oracle", 1>>>>
    IN  CASE n = "vault" -> {Oracle, <<"engine", <<n, g>>, Admin>>}
          [] n = "engine" -> {Oracle, Ref("vault")}
          [] n = "gateway" -> {Ref("engine")}
          [] n = "insurance" -> {Ref("liquidation")}
          [] n = "liquidation" -> {Ref("engine"), Ref("vault"), Ref("insurance")}
          [] n = "governance" -> {<<"guardian", <<n, g>>, FromFile>>}
          [] OTHER -> {}

Upload(n) == Step(<<"wasm", n>>, "upload", <<n, 0>>, {<<"code", <<n, 0>>, Yes>>})
Deploy(n, g) == Step(<<"contract", n>>, "deploy", <<n, g>>, {<<"instance", <<n, g>>, Yes>>})
Initialize(n, g) == Step(<<"init", n>>, "init", <<n, g>>, {<<"ready", <<n, g>>, Yes>>} \cup References(n, g))

Wire(n, field, g) == Call(<<"wire " \o n, field>>, field, <<n, g>>, <<field, g>>)
WireCore(g, operator) ==
    <<Wire("vault", "engine", g), Wire("engine", "gateway", g),
      Call(<<"wire gateway", "operator">>, "operator", <<"gateway", g>>, operator),
      Call(<<"wire gateway", "domain">>, "domain", <<"gateway", g>>, Yes),
      Call(<<"wire vault", "collateral">>, "usdc", <<"vault", g>>, Yes),
      Call(<<"wire engine", "insurance">>, "insurance", <<"engine", g>>, <<"insurance", 1>>)>>
WireRisk ==
    <<Wire("engine", "liquidation", 1), Wire("vault", "insurance", 1),
      Wire("vault", "liquidation", 1), Wire("insurance", "vault", 1)>>

PublisherOf == [XLM |-> "publisher XLM", USDC |-> "publisher USDC", USDT0 |-> "publisher USDT0"]

\* set_feed registers the publisher.
SetFeed(key, a, publisher, g) ==
    Step(key, "call", <<"oracle", g>>, {<<a, <<"oracle", g>>, Yes>>, <<PublisherOf[a], <<"oracle", g>>, publisher>>})
Market(n, g) == Call(<<"market", n>>, "market", <<n, g>>, Yes)
Guardian(n) == Call(<<"guardian", n>>, "guardian", <<n, 1>>, FromFile)
Cap == Call(<<"cap", "usdc">>, "usdc cap", <<"vault", 1>>, Yes)
Ttl(n) == Step(<<"ttl", n>>, "call", <<n, 1>>, {})
OpsAccounts == Step(<<"ops", "accounts">>, "accounts", Yes, {})
SeedMarkets == Step(<<"seed", "markets">>, "db", Yes, {<<"market rows", Yes, Yes>>})

Contracts == ForEach(Order, Upload) \o ForEach(Order, LAMBDA n : Deploy(n, 1))
             \o ForEach(Order, LAMBDA n : Initialize(n, 1))
Posture == <<Guardian("vault"), Guardian("gateway"), Cap>> \o ForEach(<<"oracle", "vault", "engine", "gateway">>, Ttl)

MainnetPlan ==
    <<OpsAccounts>> \o Contracts \o WireCore(1, FromFile) \o WireRisk
    \o <<SetFeed(<<"oracle", "feed">>, "XLM", FromFile, 1), Market("engine", 1), Market("vault", 1)>>
    \o Posture \o <<SeedMarkets>>

TestnetPlan ==
    <<OpsAccounts>> \o Contracts \o WireCore(1, FromEnv) \o WireRisk
    \o <<Call(<<"wire vault", "operator">>, "operator", <<"vault", 1>>, FromEnv),
         SetFeed(<<"oracle", "feed">>, "XLM", FromEnv, 1), SetFeed(<<"oracle", "feed">>, "USDC", FromEnv, 1),
         Market("engine", 1)>>
    \o Posture

\* redeploy-core keeps the first oracle and insurance fund; the matcher's key may
\* be missing from its environment, and then it is the admin's.
CorePlan == [g \in Gens |->
    ForEach(Core, LAMBDA n : Deploy(n, g)) \o ForEach(Core, LAMBDA n : Initialize(n, g))
    \o WireCore(g, Admin) \o <<Market("engine", g), Market("vault", g)>>]

\* redeploy-oracle ends reading a file that does not exist.
PatchFiles == Step(<<"patch", "files">>, "no such file", Yes, {})
OraclePlan == [g \in Gens |->
    <<Deploy("oracle", g), Initialize("oracle", g), SetFeed(<<"feed", "XLM">>, "XLM", Admin, g), PatchFiles>>]

\* rewire-liquidation: liquidation and insurance contracts g, deployed by hand,
\* and the served core c.
RewirePlan == [g \in Gens |-> [c \in Gens |->
    LET To(n, field) == Call(<<n, field>>, field, <<n, c>>, <<field, g>>)
        Enrol(n) == Step(<<"queue", n>>, "call", <<"governance", 1>>, {<<"queued", <<n, g>>, Yes>>})
    IN  <<Initialize("insurance", g), Call(<<"set", "vault">>, "vault", <<"insurance", g>>, <<"vault", c>>),
          Step(<<"init", "liquidation">>, "init", <<"liquidation", g>>,
               {<<"ready", <<"liquidation", g>>, Yes>>, <<"engine", <<"liquidation", g>>, <<"engine", c>>>>}),
          To("engine", "liquidation"), To("engine", "insurance"), To("vault", "liquidation"), To("vault", "insurance"),
          Call(<<"seed", "fund">>, "seeded", <<"insurance", g>>, Yes),
          Call(<<"nominate", "liquidation">>, "nominated", <<"liquidation", g>>, Yes), Enrol("liquidation"),
          Call(<<"nominate", "insurance">>, "nominated", <<"insurance", g>>, Yes), Enrol("insurance")>>]]
AllowFail(s) == run.script = "rewire" /\ (s.kind = "init" \/ s.key[1] = "queue")

\* deploy-testnet-usdt0: a new issuer, so a new asset, each time.
IssuePlan == [a \in Gens |->
    <<Step(<<"usdt0", "trustline">>, "classic", <<"usdt0", a>>, {<<"trustline", <<"usdt0", a>>, Yes>>}),
      Step(<<"usdt0", "supply">>, "classic", <<"usdt0", a>>, {<<"supply", <<"usdt0", a>>, Yes>>}),
      Step(<<"usdt0", "sac">>, "classic", <<"usdt0", a>>, {<<"instance", <<"usdt0", a>>, Yes>>})>>]

\* list-usdt0 lists asset a in the vault of core c.
ListPlan == [c \in Gens |-> [a \in Gens |->
    <<SetFeed(<<"usdt0", "feed">>, "USDT0", FromEnv, 1),
      Step(<<"usdt0", "seed">>, "seed price", <<"oracle", 1>>, {<<"USDT0 price", <<"oracle", 1>>, <<"fresh", 0>>>>}),
      Step(<<"usdt0", "gate">>, "gate", <<"oracle", 1>>, {}),
      Step(<<"usdt0", "cap">>, "call", <<"vault", c>>, {<<"USDT0 cap", <<"vault", c>>, <<"usdt0", a>>>>}),
      Step(<<"usdt0", "list">>, "call", <<"vault", c>>, {<<"USDT0 listed", <<"vault", c>>, <<"usdt0", a>>>>})>>]]

DeployPlan == [mainnet |-> MainnetPlan, testnet |-> TestnetPlan]
Plan == CASE run.script = "deploy" -> DeployPlan[net]
          [] run.script = "core" -> CorePlan[run.g]
          [] run.script = "oracle" -> OraclePlan[run.g]
          [] run.script = "rewire" -> RewirePlan[run.g][run.core]
          [] run.script = "issue" -> IssuePlan[run.g]
          [] run.script = "list" -> ListPlan[run.core][run.g]

-----------------------------------------------------------------------------
(* The ledger *)

Holds(field, id) == \E v \in facts : v[1] = field /\ v[2] = id

\* Caps and listings are per asset; every other field is overwritten.
Write(fs, puts) ==
    {v \in fs : v[1] \in {"USDT0 cap", "USDT0 listed"} \/ (\A p \in puts : <<p[1], p[2]>> # <<v[1], v[2]>>)} \cup puts

\* Redeployed contracts have random salts and their code is on chain already.
Applies(tx) ==
    CASE tx.kind = "deploy" -> tx.id[2] > 1 \/ (Holds("code", <<tx.id[1], 0>>) /\ ~Holds("instance", tx.id))
      [] tx.kind = "init" -> Holds("instance", tx.id) /\ ~Holds("ready", tx.id)
      [] tx.kind = "call" -> Holds("ready", tx.id)
      [] tx.kind = "seed price" -> Holds("USDT0", tx.id)
      [] tx.kind = "gate" -> \E v \in facts : v = <<"USDT0 price", tx.id, <<"fresh", 0>>>>
      [] tx.kind = "no such file" -> FALSE
      [] OTHER -> TRUE

Include ==
    /\ live # NoTx
    /\ facts' = IF Applies(live) THEN Write(facts, live.puts) ELSE facts
    /\ run' = IF run.sent = "sent" THEN [run EXCEPT !.sent = IF Applies(live) THEN "ok" ELSE "failed"] ELSE run
    /\ live' = NoTx
    /\ UNCHANGED <<net, env, file, secrets, minted, gen, served, asset, others, faults>>

-----------------------------------------------------------------------------
(* Running a script *)

Now == Plan[run.at]
Working == run.script # "off" /\ run.at <= Len(Plan)
Resumes == run.script = "deploy"
Done(f) == file[f].done

Advance == run' = [run EXCEPT !.at = @ + 1, !.tries = 1, !.sent = "no"]
Throw == run' = Off

\* A checkpoint is written after the last call made under it.
LastOfKey == \A i \in run.at + 1..Len(Plan) : Plan[i].key # Now.key
Mark ==
    /\ Advance
    /\ file' = IF Resumes /\ LastOfKey THEN [file EXCEPT ![run.file].done = @ \cup {Now.key}] ELSE file

Skip ==
    /\ Working /\ Resumes /\ run.sent = "no" /\ Now.key \in Done(run.file)
    /\ run' = [run EXCEPT !.at = Min({Len(Plan) + 1} \cup {i \in DOMAIN Plan : Plan[i].key \notin Done(run.file)})]
    /\ UNCHANGED <<net, env, facts, live, file, secrets, minted, gen, served, asset, others, faults>>

Due == Working /\ run.sent = "no" /\ (Resumes => Now.key \notin Done(run.file))
FromCli == Now.kind \in {"upload", "deploy"}

\* Mutant: code and instances are not looked up.
MutantOnChain(s) == FALSE

\* wasmOnChain and instanceOnChain: a step of an earlier attempt that landed.
OnChain(s) == Resumes /\ FromCli /\ \A p \in s.puts : p \in facts

Recognize ==
    /\ Due /\ run.tries = 1 /\ OnChain(Now)
    /\ Mark
    /\ UNCHANGED <<net, env, facts, live, secrets, minted, gen, served, asset, others, faults>>

\* Key separation: testnet checks the environment before it starts, mainnet the
\* state file before it wires.
Separated(f) == IF net = "testnet" THEN env # Admin ELSE file[f].ops # 0

Resolved(puts) ==
    {<<p[1], p[2], CASE p[3] = FromFile -> Key(file[run.file].ops) [] p[3] = FromEnv -> env [] OTHER -> p[3]>> : p \in puts}

Accepted == Applies(Now) /\ (Resumes /\ Now.key[1] = "wire vault" => Separated(run.file))

\* The call passes simulation and is sent: it replaces a transaction still
\* pending, or is refused because of it.
Send ==
    /\ Due /\ ~(run.tries = 1 /\ OnChain(Now))
    /\ Now.kind \notin {"accounts", "db", "gate"}
    /\ Accepted
    /\ \/ /\ live' = [kind |-> Now.kind, id |-> Now.id, puts |-> Resolved(Now.puts)]
          /\ run' = [run EXCEPT !.sent = "sent"]
       \/ live # NoTx /\ run' = [run EXCEPT !.sent = "refused"] /\ UNCHANGED live
    /\ UNCHANGED <<net, env, facts, file, secrets, minted, gen, served, asset, others, faults>>

\* The simulation, or the separation check before it, stops the call.
SimulationFails ==
    /\ Due /\ ~(run.tries = 1 /\ OnChain(Now)) /\ ~Accepted
    /\ run' = [run EXCEPT !.sent = "rejected"]
    /\ UNCHANGED <<net, env, facts, live, file, secrets, minted, gen, served, asset, others, faults>>

Confirmed ==
    /\ run.sent = "ok" /\ Now.kind # "accounts"
    /\ Mark
    /\ UNCHANGED <<net, env, facts, live, secrets, minted, gen, served, asset, others, faults>>

\* How often a step is tried, and on what.
Tries == CASE Resumes -> 3 [] run.script = "core" -> IF FromCli THEN 5 ELSE 2 [] run.script = "rewire" -> 4 [] OTHER -> 1
RetriedOn ==
    CASE Resumes -> IF FromCli THEN {"refused", "rejected", "failed", "timeout"} ELSE {"refused", "timeout"}
      [] run.script = "core" -> IF FromCli THEN {"refused", "timeout"} ELSE {"timeout"}
      [] run.script = "rewire" -> {"refused", "failed", "timeout"}
      [] OTHER -> {}

\* It was refused, failed, or the polls ran out: recognised, retried, ignored, or
\* the end of the run.
Outcome == IF run.sent = "sent" /\ live = NoTx THEN "timeout" ELSE run.sent
NotConfirmed ==
    /\ Outcome \in {"refused", "rejected", "failed", "timeout"} /\ Now.kind # "accounts"
    /\ IF OnChain(Now) THEN Mark
       ELSE /\ UNCHANGED file
            /\ IF Outcome \in RetriedOn /\ run.tries < Tries
               THEN run' = [run EXCEPT !.tries = @ + 1, !.sent = "no"]
               ELSE IF AllowFail(Now) THEN Advance ELSE Throw
    /\ UNCHANGED <<net, env, facts, live, secrets, minted, gen, served, asset, others, faults>>

\* The operator accounts: keys are minted, a transaction funds them, and only
\* its failure stops the script; then the secrets are written, and then the file.
MintKeys ==
    /\ Due /\ Now.kind = "accounts"
    /\ minted < MaxGen + MaxFaults
    /\ minted' = minted + 1
    /\ \/ /\ live' = [kind |-> "accounts", id |-> Key(minted'), puts |-> {<<"account", Key(minted'), Yes>>}]
          /\ run' = [run EXCEPT !.sent = "sent", !.g = minted']
       \/ live # NoTx /\ run' = [run EXCEPT !.sent = "refused", !.g = minted'] /\ UNCHANGED live
    /\ UNCHANGED <<net, env, facts, file, secrets, gen, served, asset, others, faults>>

\* Mutant: an existing secrets file is replaced.
MutantWriteSecretsOrRefuse ==
    /\ Working /\ Now.kind = "accounts" /\ Outcome \in {"ok", "refused", "timeout"}
    /\ secrets' = run.g /\ run' = [run EXCEPT !.sent = "written"]
    /\ UNCHANGED <<net, env, facts, live, file, minted, gen, served, asset, others, faults>>

WriteSecretsOrRefuse ==
    /\ Working /\ Now.kind = "accounts" /\ Outcome \in {"ok", "refused", "timeout"}
    /\ IF secrets = 0
       THEN secrets' = run.g /\ run' = [run EXCEPT !.sent = "written"]
       ELSE Throw /\ UNCHANGED secrets
    /\ UNCHANGED <<net, env, facts, live, file, minted, gen, served, asset, others, faults>>

RecordOps ==
    /\ Working /\ Now.kind = "accounts" /\ run.sent = "written"
    /\ Advance
    /\ file' = [file EXCEPT ![run.file] = [done |-> @.done \cup {Now.key}, ops |-> run.g]]
    /\ UNCHANGED <<net, env, facts, live, secrets, minted, gen, served, asset, others, faults>>

AccountsFail ==
    /\ Working /\ Now.kind = "accounts" /\ run.sent = "failed"
    /\ Throw
    /\ UNCHANGED <<net, env, facts, live, file, secrets, minted, gen, served, asset, others, faults>>

\* Steps that send nothing: seeding the database (skipped when none is
\* configured), and the price that must read back before USDT0 is listed.  The
\* seed price is skipped without the publisher's secret.
WithoutSending ==
    /\ Due
    /\ \/ Now.kind = "db" /\ Mark /\ facts' = facts \cup Now.puts
       \/ Now.kind = "db" /\ Advance /\ UNCHANGED <<file, facts>>
       \/ Now.kind = "gate" /\ Applies(Now) /\ Advance /\ UNCHANGED <<file, facts>>
       \/ Now.kind = "seed price" /\ Advance /\ UNCHANGED <<file, facts>>
    /\ UNCHANGED <<net, env, live, secrets, minted, gen, served, asset, others, faults>>

\* A finished script is followed by the operator's edit of the configuration
\* (redeploy-core's own patches find no address to replace).
Finish ==
    /\ run.script # "off" /\ ~Working
    /\ Throw
    /\ served' = CASE run.script = "core" -> run.g
                   [] Resumes /\ served = 0 -> 1
                   [] OTHER -> served
    /\ asset' = IF run.script = "issue" THEN run.g ELSE asset
    /\ UNCHANGED <<net, env, facts, live, file, secrets, minted, gen, others, faults>>

ScriptStep ==
    \/ Skip \/ Recognize \/ Send \/ SimulationFails \/ Confirmed \/ NotConfirmed
    \/ MintKeys \/ WriteSecretsOrRefuse \/ RecordOps \/ AccountsFail \/ WithoutSending \/ Finish

-----------------------------------------------------------------------------
(* Starting scripts; time and faults *)

Complete(f) == \A i \in DOMAIN DeployPlan[net] : DeployPlan[net][i].kind = "db" \/ DeployPlan[net][i].key \in Done(f)

\* No run can get a state file any further: the secrets file exists though the file
\* does not name its keys, or a contract is initialized though the file does not
\* say so (the scripts tolerate error #3, the contract answers #12).
Stuck(f) ==
    \/ net = "testnet" /\ env = Admin
    \/ secrets # 0 /\ OpsAccounts.key \notin Done(f)
    \/ \E n \in ToSet(Order) : Holds("ready", <<n, 1>>) /\ <<"init", n>> \notin Done(f)

Start(r) == run = Off /\ run' = r /\ UNCHANGED <<net, env, facts, live, file, secrets, minted, served, asset, faults>>

\* The first deployment is run until it is complete; mainnet-upgrade runs the same
\* script on a second state file.
Resume ==
    /\ ~Complete("v1") /\ ~Stuck("v1")
    /\ Start([Off EXCEPT !.script = "deploy"])
    /\ UNCHANGED <<gen, others>>

StartDeploy(f) ==
    /\ others < MaxOthers /\ others' = others + 1
    /\ net = "testnet" => Separated(f)
    /\ Start([Off EXCEPT !.script = "deploy", !.file = f])
    /\ UNCHANGED gen

StartFresh(s) ==
    /\ others < MaxOthers /\ others' = others + 1
    /\ gen < MaxGen /\ gen' = gen + 1
    /\ s \in {"core", "oracle", "issue"} => net = "testnet"
    /\ s \in {"core", "oracle"} => served # 0
    /\ Start([Off EXCEPT !.script = s, !.g = gen'])

\* The liquidation contracts named in the environment are new, or the ones in use.
StartRewire ==
    /\ others < MaxOthers /\ others' = others + 1
    /\ served # 0 /\ run = Off
    /\ \E g \in {1, gen + 1} \cap Gens :
           /\ gen' = IF g > gen THEN g ELSE gen
           /\ facts' = facts \cup {<<"instance", <<n, g>>, Yes>> : n \in {"liquidation", "insurance"}}
           /\ run' = [Off EXCEPT !.script = "rewire", !.g = g, !.core = served]
    /\ UNCHANGED <<net, env, live, file, secrets, minted, served, asset, faults>>

StartList ==
    /\ others < MaxOthers /\ others' = others + 1
    /\ served # 0 /\ asset # 0
    /\ Start([Off EXCEPT !.script = "list", !.g = asset, !.core = served])
    /\ UNCHANGED gen

\* The oracle keeper prices a registered feed; a price goes stale.
Price(v) ==
    /\ Holds("USDT0", <<"oracle", 1>>) /\ run.script = "list"
    /\ facts' = Write(facts, {<<"USDT0 price", <<"oracle", 1>>, v>>}) /\ facts' # facts
    /\ UNCHANGED <<net, env, live, file, secrets, minted, gen, served, asset, run, others, faults>>

Fault ==
    /\ faults < MaxFaults /\ faults' = faults + 1
    /\ \/ run # Off /\ run' = Off /\ UNCHANGED <<live, file>>                             \* the script dies
       \/ /\ Resumes /\ run.sent \in {"ok", "written"} /\ run' = Off                      \* while saving its file
          /\ file' = [file EXCEPT ![run.file] = [done |-> {}, ops |-> 0]]
          /\ UNCHANGED live
       \/ /\ run.sent = "sent" /\ run' = [run EXCEPT !.sent = IF Now.kind = "accounts" THEN "refused" ELSE "timeout"]
          /\ UNCHANGED <<live, file>>                                                     \* the polls run out early
       \/ live # NoTx /\ live' = NoTx /\ UNCHANGED <<run, file>>                          \* the transaction is dropped
       \/ /\ live # NoTx /\ run.sent = "sent"                                             \* or included and fails
          /\ live' = NoTx /\ run' = [run EXCEPT !.sent = "failed"] /\ UNCHANGED file
    /\ UNCHANGED <<net, env, facts, secrets, minted, gen, served, asset, others>>

DeployNext ==
    \/ Resume
    \/ \E f \in Files : StartDeploy(f)
    \/ \E s \in {"core", "oracle", "issue"} : StartFresh(s)
    \/ StartRewire \/ StartList
    \/ ScriptStep
    \/ Include
    \/ \E v \in {<<"fresh", 0>>, <<"stale", 0>>} : Price(v)
    \/ Fault

\* The operator resumes the deployment and lets scripts finish; the ledger
\* includes what is not dropped.
DeploySpec == DeployInit /\ [][DeployNext]_deployVars /\ WF_deployVars(Resume) /\ WF_deployVars(ScriptStep) /\ WF_deployVars(Include)

-----------------------------------------------------------------------------
DeployTypeOK ==
    /\ net \in {"mainnet", "testnet"} /\ env \in {FromEnv, Admin}
    /\ \A v \in facts : v[2][2] \in Nat /\ v[3][2] \in Nat
    /\ secrets \in 0..minted /\ gen \in Gens /\ served \in 0..gen
    /\ run.script = "off" \/ run.at \in 1..Len(Plan) + 1
    /\ run.sent \in {"no", "sent", "ok", "failed", "refused", "rejected", "timeout", "written"}
    /\ others \in 0..MaxOthers /\ faults \in 0..MaxFaults

\* Every role key wired by the deploy scripts is one whose secret is on file (or
\* comes from the environment), and never the admin's.
KeysAreKept ==
    \A v \in facts : v[1] \in {"operator", "guardian", "publisher XLM", "publisher USDC"} /\ v[2][2] = 1 =>
        v[3] \in {Key(secrets), env} \ {Admin}

\* A listed collateral has its cap, its feed and a price.
ListedIsPriced ==
    \A v \in facts : v[1] = "USDT0 listed" =>
        /\ <<"USDT0 cap", v[2], v[3]>> \in facts
        /\ Holds("USDT0", <<"oracle", 1>>) /\ Holds("USDT0 price", <<"oracle", 1>>)

\* The clients use contracts that know each other.
ServedIsWired ==
    served # 0 =>
        /\ \A r \in {<<"vault", "engine">>, <<"engine", "vault">>, <<"engine", "gateway">>, <<"gateway", "engine">>} :
               <<r[2], <<r[1], served>>, <<r[2], served>>>> \in facts
        /\ Holds("operator", <<"gateway", served>>) /\ Holds("market", <<"engine", served>>)

\* Whatever is interrupted, torn, replaced or run twice: no wired key is lost or
\* the admin's, no collateral is listed unpriced or uncapped, and the clients are
\* never pointed at half a deployment.
DeploymentIsSafe == DeployTypeOK /\ KeysAreKept /\ ListedIsPriced /\ ServedIsWired

\* An interrupted deployment, run again, completes, unless it was cut off at one of
\* the two points no run can pass.
DeployResumes == <>(Complete("v1") \/ (run = Off /\ Stuck("v1")))
=============================================================================
