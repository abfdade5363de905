# A verification project for ItchySats

ItchySats trades contracts for difference (CFDs) on Bitcoin: a maker and a
taker daemon lock money in a 2-of-2 output and exchange pre-signed
transactions: a *commit* transaction, *contract execution transactions* (CETs)
that an oracle's attestation unlocks, and a time-locked *refund*. This directory
models the daemons in TLA+, checks the models with TLC and proves theorems about
them with TLAPS.

## 1. Inventory

Paths are relative to `daemon/src/`.

| Component | State | Operations | What makes it correct |
|---|---|---|---|
| CFD state, `model/cfd.rs` | `CfdState` (14 variants; dlc, attestation, close) | `Cfd::handle` on 7 monitor events, `CommitTxSent`, `OracleAttestation`, `CetSent`, `ProposalSigned`; `commit_tx`, `cet`, `refund_tx` | moves only forward; final states stay; no event the state needs is refused |
| cfd actor, `cfd_actors.rs`, `maker_cfd.rs`, `taker_cfd.rs` | mailbox, set-up and roll-over state, proposals, current order | set-up completed, monitoring event, attestation, commit, settlement, roll-over, take/accept/reject order | the database says only what the chain confirms; handlers that fail half-way lose nothing |
| monitor actor, `monitor.rs` | watched CFDs, awaited script statuses | start monitoring, close, attestation, sync every 20 s, registration at start | every event a stored state waits for is awaited or on its way |
| oracle actor, `oracle.rs`, `fan_out.rs` | announcements, pending attestations | sync every 5 s, monitor attestation, downloads in parallel | an attestation reaches cfd actor and monitor, in whatever order, at least once |
| housekeeping, `housekeeping.rs`, `lib.rs` | none | clean-up, rebroadcast, wiring | a restart resumes what was started |
| wallet, `wallet.rs` | bdk wallet | broadcast, sign, build parameters | broadcasting twice is harmless |
| protocols, `setup_contract.rs` | keys, partial signatures | Msg0-Msg2 of set-up and roll-over, 60 s time-outs | both sides end with the same contract or neither can lock money |
| order taking, `maker_inc_connections.rs`, `connection.rs`, `send_to_socket.rs` | connections, order feed | new connection, broadcast order, send to taker | an order is taken at most once; the decision reaches the taker; feeds follow the maker |
| database, `db.rs` | orders, cfds, append-only cfd states | insert, append, load | the latest state is the one appended last |
| amounts, `model.rs`, `payout_curve.rs` | none | margin, profit, payout curve | every price has one CET; payouts are covered by the lock; what is shown is what is paid |
| feeds and routes, `to_sse_event.rs`, `routes*.rs` | none | offer actions, render, parse | the page offers nothing that spends the lock output twice |
| price feed, `bitmex_price_feed.rs` | latest quote | websocket | the quote used is the latest one received |
| wire, noise, seed, auth, logger, keypair | keys | encode, encrypt | message types are modelled, encoding is not |
| web front ends | none | render, post | not modelled; a user is any sequence of requests |

The actors run concurrently and talk through mailboxes: the monitor sends an
event and awaits the cfd actor's answer; the oracle fans an attestation out to
both without waiting; the cfd actor awaits the wallet inside its handlers. What
makes this hard: a handler is not atomic (append, broadcast, append), each part
can fail or be the last before a crash; the counterparty publishes transactions
on its own; attestation, time locks and confirmations come in any order and more
than once. `PROJECT.json` lists each hazard at its line.

## 2. What is modelled

| Module | Models |
|---|---|
| `CfdState` | `CfdState` as records of one shape and `Cfd::handle` as one operator per event, without variables |
| `CfdDaemon` | one daemon with one CFD from set-up to final state, its three actors, database, wallet, crash and restart, and the chain |
| `CfdLifecycle` | the promise of `CfdDaemon`: a short abstract life cycle that it refines |
| `OrderTaking` | one maker and several takers from publishing an order to the outcome of the set-up: both kinds of cfd actor, the maker's connection actor, TCP connections, restarts of every daemon |
| `OrderDecision` | the promise of `OrderTaking`: one taker gets an order, every taker is answered at most once |
| `ContractSetup` | maker and taker running the set-up protocol for the orders of one taker: Msg0-Msg2, their routing and checks, time-outs, a failing wallet, restarts |
| `RollOver` | maker and taker replacing the contract of an open CFD: the three-message protocol of each attempt, its routing, completion, commits of old and new contracts |
| `Updates` | proposals to settle or roll over one open CFD between the two users: tables of proposals, pages, answers, the close signature, restarts of both daemons |
| `Database` | the tables orders, cfds, cfd_states and the functions of `db.rs` |
| `CfdStore` | the promise of the database: one state for each order's CFD |
| `OracleEvents` | a daemon with several CFDs that share oracle events: `Database`, the oracle actor, and the cfd actor as far as announcements and attestations go; implements `CfdStore` |
| `Position` | what a CFD pays: margins, profit, the segments of the payout curve, settlement amounts, and the profit a page shows |
| `MCCfdDaemon`, `MCOrderTaking` | constants and symmetry for TLC |
| `CfdStateProofs`, `CfdDaemonProofs`, `OrderTakingProofs`, `ContractSetupProofs`, `UpdatesProofs`, `RollOverProofs`, `OracleEventsProofs`, `PositionProofs` | the theorems on the module of the same name, and their proofs |

The systems meet in `CfdState`, which `CfdDaemon`, `OracleEvents` and `Updates`
instantiate. In the order of a CFD's life: `OrderTaking` begins with an order and
knows of the set-up only how it ends; `ContractSetup` is that set-up; `CfdDaemon`
begins with its completion and follows one contract to its end. Beside it,
`Updates` has the proposals and knows a roll-over by its outcome, `RollOver` is
that roll-over, `OracleEvents` has several CFDs next to each other, and `Position`
says what the contract and a settlement pay.

The comment before each definition and the `map` in `PROJECT.json` name the code.

### CfdDaemon

**State.** `db` is the latest appended `CfdState`, the only thing that survives
a crash. `setup`, `proposal`, `job`, `cfdMail` are the cfd actor's: `job` is the
rest of a handler that awaits the wallet (`publishLock`, `recordCommit`, ...), so
other actors, the chain and a crash can move in between, while no other handler
of the same actor can. `watching`, `awaiting`, `reached`, `blocked`, `monMail` are the
monitor's: a sync takes the reached targets out of `awaiting` (as `update_state`
does before it sends) and delivers them one by one, each answered before the
next. `pending` and `fetches` are the oracle's. The chain is `tx` (unseen,
mempool or confirmed for each transaction) and `age`, the confirmations of the
commit transaction: `Acceptable` is the spending conflict and time-lock rules.

**Actions.** One per handler or per part of a handler between two awaits.
`Restart` is housekeeping followed by the constructors of the actors. The
counterparty (`CounterpartyPublishes`) can publish any transaction it has our
signature for, from the moment our last set-up message left (`signed`).

**Abstractions.** `awaiting` is a set where the code keeps a multiset: a target
registered twice is reported once (a repeated event is swallowed or refused by
`handle`, and `Attestation` events, where repetition matters, are repeated in the
model). A sync sees one consistent chain state. Reorganisations are left out
(`FINALITY_CONFIRMATIONS` is 1 and the code never goes back), and transactions
have no fees. Electrum and oracle downloads that fail are downloads that have
not happened yet. Keys and signatures appear only as who can publish what.

### OrderTaking

**State.** The maker's tables are `published`, `mState` and `who` (the taker id of
the request); its cfd actor has `current`, `mSetup` and `accepting`, the rest of
`handle_accept_order` while it waits for the connection actor. The connection
actor has a mailbox `connMail` and `greeting`, set while it waits for the cfd
actor in `handle_new_connection_impl`. A connection is a session of a taker and
is never used again, as the code makes up a taker id for each; `link` says what
each side knows of it, `up` and `down` are its messages. A taker has `known`,
`tState`, `feed` and `tSetup`.

**Actions.** A handler is one action except at the two awaits just named, where
another actor's progress can be seen. The set-up protocol is its outcome
(`MakerSetupEnds`, `TakerSetupEnds`, each ok or failed on its own), `oob` is a
quantity out of bounds, and with `AnnouncementsKnown` FALSE the taker's oracle may
lack the announcement.

**Abstractions.** The noise handshake and the amount taken are left out; a crash
in the middle of `handle_take_order` is not modelled (the other handlers append
once).

### RollOver

**State.** `dlcs[p]` is the stored `Dlc`: `revoked_commit` and then the current
contract, where a contract is the pair of key numbers (maker's, taker's) its
commit transaction is made of. A signature verifies if both sides built the same
pair; a revocation secret is the number of its key. `tasks[p][k]` is attempt `k`
of party `p`, the future spawned beside the cfd actor: what it waits for, the `Dlc`
it was given, the connection its messages go to and its unread messages.
`rolling` is `roll_over_state`, `offered` and `proposed` the pending proposals,
`watch` and `spy` what the monitor awaits. `revealed` and `overlapped` are history.

**Actions.** `AcceptRollOver` and `HandleRollOverAccepted` are the handlers with
the spawned future up to its first message. `ReceiveMsg0` to `ReceiveMsg2` are the
parts of `setup_contract::roll_over` between two waits; `LosesSender` is what
happens to an attempt whose sender was replaced or dropped: the channel ends
and `select_next_some` never gets another message. `RollOverCompleted` is the
message the future ends with. A completion with an error changes nothing, so
it is part of the step that fails.

**Abstractions.** Oracle events are left out, so the stale `oracle_event_id` after
a roll-over is not seen (hazard at `monitor.rs:112`). Amounts and payouts do not
change in a roll-over. A send that fails is a lost message and a wait given up.
All states from `OpenCommitted` on are `Committed`.

### ContractSetup

**State.** `cfd` and `dlc` are the two databases, `setup` is `setup_state`,
`tasks[p][o]` the future that party `p` spawned for order `o`: the message it waits
for, the key it got, unread messages. `terms` are the margins and the event of
each order: two orders may differ in either, in both or in none. A contract is
the lock transaction (both keys, the margins) and the event.

**Actions.** `AcceptOrder` and `HandleOrderAccepted` are the handlers;
`BuildPartyParams`, `ReadMsg0`, `ReadMsg1`, `ReadMsg2` are the parts of
`setup_contract::new` between its waits. `ReadWrong` is every check that fails,
`WalletFails` every call to the wallet or to `maia` that does, `GivesUp` the 60 s
and a sink whose connection is gone. `Routed` is `handle_inc_protocol_msg`: to the
active set-up, of whatever order.

**Abstractions.** The announcement is known on both sides. A taker that connects
again has a new taker id, so a lost connection is not replaced. The cfd actor
waiting for the connection actor is `OrderTaking`'s.

### Updates

**State.** `cfd` is the state in both databases, `pending` and `agreed` the tables
of proposals (`current_pending_proposals` of both, `current_agreed_proposals` of the
maker), `watched` the closes each monitor awaits. Proposals are numbered; the
number names the close transaction a settlement is paid by, or the contract a
roll-over ends in. `spent` is what was broadcast to spend the lock output.

**Actions.** `ProposeSettlement` and `ProposeRollOver` are guarded by
`AvailableActions`, which is `available_actions` of the page applied to `to_cfd_state`:
the taker's page is taken to be current. The maker's accepting and rejecting are
not: a page may be stale. Every message of the wire is handled in order,
per connection, also when the connection has been replaced. `TakerDiesSigning` is
the crash between sending the signature and recording the close.

**Abstractions.** A roll-over completes or fails on each side, once both began it
(`joined`). A maker with a stale page accepts a roll-over as a settlement only
while nothing else is on its way to the taker (a bound). `forgot` and `dropped` are
history: who lost a close it had signed, and which proposals got no answer.

### Database and OracleEvents

**State.** Rows are only added and ids count up, so tables are sequences. A row
of `cfd_states` is dropped when a newer one of its CFD is added, since no query
returns it. `insert_cfd` is two statements, and a daemon can stop in between.
The oracle actor has `announcements`, `pending`, downloads under way (`announcing`,
`fetching`) and requests in its mailbox (`asked`); the cfd actor `mail`, `setup` and
`attesting`, the rest of the loop over the CFDs of one event; the monitor `watched`,
the CFDs it follows. `now` counts hours: event `h` is attested once `now >= h`.

**Actions.** `CfdSetupCompleted` stores the contract first; if the lock is broadcast
it then tells the monitor and asks for the attestation, otherwise the handler ends
there. The maker has asked nowhere else, the taker when its order was accepted.
`ActorNew` and `MonitorNew` take up every stored contract at a restart. `Commit` is a
user's, `HandleMonitoringEvent` any event of the monitor about a CFD it follows
that moves the CFD's state.

**Abstractions.** The other side and the transactions are left open, and the
monitor's events come in any order the states take them: more than a chain can
report. (Which of them occur is `Reported`: all seven in one run, two in the other.)
Closes are left out (`CloseFinality` is always refused). An order may proceed
at any hour, as in the code, which never lets one expire.

### Position

One order, and the CFD its taker records, from `Open` on. `Coin` scales satoshis
down, `Grain` keeps prices rational, `fit` leaves the error of the spline open up to
`FitError` at each sample. `Payouts` is `payout_curve::calculate`: half segments at
both ends, rounding of bounds to whole dollars. `Payable` is what the code accepts
of that: `to_sats` refuses a payout below zero and `generate_payouts` an empty
range, and then there is no contract. `InversePrice` is exact where the code has 28
digits.

The life of the contract is kept as far as it tells what is shown and paid. `phase`,
`close` and `attested` are the record; `signed` are the closes the maker may publish;
`end` is the transaction that spent the contract. `ConcludeSettlement` signs and
records a close, `StopAfterSigning` is a stop between the two. `Attest` on an open record
drops the close, and so does `Commit`; `CloseConfirms` and `CetConfirms` are
the chain's, and close the record only if it holds the close or the attestation
(`forgot`: it has lost a close that was signed).

## 3. What is checked

### CfdDaemon

Instances of `MCCfdDaemon` with one contract and one attestation its CETs cover,
`CetTimelock` 2 and `RefundTimelock` 3. Those are the smallest depths that tell
"commit confirmed", "CET mature" and "refund mature" apart, and properties depend
on nothing but that order. `CHECK_DEADLOCK` is off because a closed CFD with
bounded crashes and proposals stops.

| Run | Bounds | Shows |
|---|---|---|
| `daemon_maker` | 1 crash, 1 failing broadcast, 2 overlapping downloads, 1 close, `FairSpec` | `TypeOK`; `RecordedOnChain`: what the record says is true of the chain; `EventsCovered`: every event the state waits for is awaited or on its way; `FinalStatesAreFinal`; `LifecycleRefined`; `NoRefundOverCetUndisturbed`: until a crash or a failed broadcast a ready CET is not traded for a refund; and what must happen in the end: `CommittedPaysOut`, `LockedIsNoticed`, `PublishedCetCloses`, `CloseIsNoticedUnlessAttested` |
| `daemon_taker` | 2 crashes, 1 failing broadcast, 2 closes | `EventsCovered` for the taker, whose signature leaves before anything is recorded; `RecordedOnChain` and `LifecycleRefined` are theorems for either role and any number of crashes |

Two crashes matter because the second can hit the state the first restart
reached; two downloads, because the second attestation finds another state; two
closes, because both can confirm. Three of the liveness properties say nothing once a
broadcast has failed, since it is repeated by a restart only.

**Fairness** (`Fairness` in `CfdDaemon`). Actors are tokio tasks and syncs are
timers: weak fairness for each step they take on their own. Handlers of the cfd
actor are strongly fair: user requests go through the same FIFO mailbox, so they
can delay a message but not overtake it for ever. Blocks are found and the
process is restarted. Nothing is assumed of users, the oracle's publication or the
counterparty.

### OrderTaking

| Run | Bounds | Shows |
|---|---|---|
| `order_faults` | 2 takers, 2 orders, 1 session each, 1 maker restart, announcements may be missing | `TypeOK`; `MakerSetupRuns`: `ContractSetup` and the active set-up go together; `VerdictsAgree`: maker and taker never hold opposite views; `FeedsAgree`: until a daemon stops all feeds end up with the order on offer; `DecisionRefined`: the system implements `OrderDecision` |
| `order_live` | 2 takers, 2 orders, 2 requests, 2 connections in all: two takers, or one that stops and connects again | `DecisionLearnt` under `AnswerSpec`; that the set-up which follows ends is `SetupEnds` of `ContractSetup` |

Two takers compete for an order; two orders let one replace, or be rejected
after, the other. Takers and
orders are symmetric in `order_faults`, where `MaxRequests` = 4 excludes nothing;
two requests are the least with which an answer meets another order's or another
taker's. A quiet system stops, so deadlock is not checked.

`DecisionLearnt` says that a request refused or accepted does not stay open at its
taker, with two exceptions. The two actors of the maker may wait for each other
for ever before the answer is out (`Stuck`, which is `order_accept_stuck`). And
a confirmation that finds the taker setting up another contract is dropped
(`SettingUpAnother`): the decided request then stays open until a restart. It is
checked for one taker and one order among two; they are interchangeable.

**Fairness.** `AnswerSpec` assumes `MessagesHandled` only: weak fairness of the
maker's connection actor and of the takers' actors for what is in their mailboxes,
and of the two handlers that wait for an answer. `FairSpec`, which
`order_accept_stuck` uses, adds that every request on the wire is read, that a
closed connection is noticed, and that a set-up ends, because each of its waits
has a 60 s time-out. Users, restarts and connections owe nothing.

### RollOver

`roll_over`: 2 attempts of each party, 1 restart of each daemon, 1 wait given
up, commits by either party at any time.

- `SameHistory`: the parties' contracts are one history and one is at most one
  ahead. It is the check of the revocation secret at the end that ensures it.
- `RevocationsHeld`: a party holds the other's secret for every contract it
  replaced.
- `RollOverAgreed`: if nothing failed, both hold the same contract and neither
  revoked it.

- `CommitIsOfItsHistory`: a commit transaction recorded as final is of a contract
  the party holds or held. Which one, the state does not say: a roll-over that
  completes after the old commit transaction was published leaves a CFD that is
  Open, then committed, with the new contract while the old one is on chain.

Two attempts are the least that let a roll-over begin from different contracts,
overlap with another, or receive messages of an earlier one. `SameHistory`,
`RollOverAgreed` and `CommitIsOfItsHistory` exclude attempts accepted before an
earlier one has ended (`overlapped`): the taker refuses those, the maker does not,
the messages name no attempt, and then a party can reveal the secret of the
contract it keeps.

### ContractSetup

`contract_setup`: 2 orders, each of 2 margins and 2 events, 1 wallet failure, the
connection lost or a daemon restarted at any time, under `FairSpec`.

- `ContractsMatch`: contracts on one lock transaction, or of one order, are the
  same contract. Messages of one set-up do reach another: it is the check of the
  CET signatures that keeps contracts of different events apart. And the two sides
  complete under different orders in one case only, the maker's set-up of the
  first order having failed before its Msg0.
- `LockIsBacked`: whoever signs a lock transaction was sent the other's signatures on
  commit, CETs and refund of exactly that contract.
- `SetupEnds`, `SetupSucceeds`: no set-up stays active; and unless something fails or
  a wait is given up while its message is on the way, both CFDs open.

Two orders are the least that can mix; terms are only compared, so the first
order's are fixed. The wallet must fail once for the crossing to happen.
**Fairness**: something that can go on does; as every set-up is finite, which goes
on first need not be said.

### Updates

`updates`: 2 proposals, 2 connections of the taker, 1 restart of the maker, a link
that drops, under `FairSpec`.

- `AwaitedIsSigned`: the maker records no close but one the taker signed, late
  signatures of older connections included.
- `CloseRemembered`: a published close is in both databases, except where an
  attestation, a commit, the end of a roll-over or a crash erased it (`forgot`).
- `OneClose`: the taker signs one close, unless it lost the first: the page offers
  no second proposal beside a pending one or a signed close.
- `TakerWaits`: a pending proposal is on its way, with the maker, or answered. The
  two ways to lose one (`dropped`) are named in its comment: the taker then waits
  for ever and is offered nothing, not even to commit.
- `AgreedGoesThrough`: an accepted settlement is signed and recorded, while the
  connection stays up.

Two proposals and two connections are the least that let a late message of one
meet the other. **Fairness**: each actor handles its messages; users owe no answer.

### OracleEvents

`oracle_events` and `oracle_live`: 2 CFDs, hours 0 to 2, an interval of 1 hour, 1
restart, either role. Two CFDs share an event or have one each, and a restart falls
before, at or after the event. In `oracle_events` the monitor reports any of its seven
events. `oracle_live` is under `FairSpec`; there it reports `LockFinality`, which can
erase an attestation, and `CetTimelockExpired`, which makes it `OpenCommitted`. Of the
others the time lock and the confirmation of a refund and of a CET end the wait, and
`CommitFinality` leads to an `OpenCommitted` that waits for the attestation as this one does.

- `NothingMissed` (`oracle_events`): the attestation a contract waits for is asked for,
  awaited, or on its way to it, whatever becomes of the other CFDs of the event. Two
  things break this until a restart. A lock that confirms after the attestation
  drops it (`erased`). And a lock that cannot be broadcast leaves a stored contract
  for which the maker has not asked, nor the taker if the event occurs before
  its set-up ends (`Requested` is the contracts that were asked for).
- `StoreRefined` (`oracle_events`): the tables implement `CfdStore`, insertions that
  break off included.
- `CfdAttested`, `OrderAnnounced` (`oracle_live`): every contract the monitor follows
  learns its attestation, with the first of those exceptions, and every order its announcement.
  The second needs the maker's interval within the taker's
  24 hours of look-ahead, which the code does not ensure.

**Fairness**: syncs and handlers are weakly fair; a download that is repeated
succeeds in the end (strong fairness). Nothing makes hours pass.

### Position

`position`: prices 10 and 13, quantities 1 and 40, 30 satoshis to a coin, 4 payouts,
a spline error of 1, quotes below the liquidation price, between, and above
twice the initial price, 2 closes. The numbers make every rounding go both ways and leave
some ranges empty; the code's own numbers would only make ranges longer. A second
close is what a record can show in place of the one that confirms.

- `EveryPriceOnce`: from 0 to twice the initial price every whole dollar is in one
  CET's range, above it in none.
- `LockCoversPayouts`: the two payouts of a range take no more than the two margins
  lock, and fall short of it by two satoshis at most.
- `ShownIsPaid`: of a CFD that is settled, attested or spent, the profit shown is what is
  paid, to the width of one range and the spline's error, whatever the order of quotes, closes,
  attestations, commits and stops. Three cases are excepted, each of which does
  break it: an attested price of 0; a CET that confirms before the attestation is learnt;
  and a close that confirms after an attestation, a commit or a stop took it from the
  record, so that the page goes on to show another price.

`CHECK_DEADLOCK` is off here and in the runs above that say so: a CFD that is
closed and attested, with no feed left, has nothing more to do.

### Runs that end in a counterexample

Each is about a sentence of the repository that the code does not keep (quoted
in `findings`).

| Run | What happens |
|---|---|
| `refund_noticed` | `RefundFinality` is refused in `PendingRefund`: the CFD never becomes `Refunded` |
| `order_accept_stuck` | the cfd actor waits for the connection actor in `handle_accept_order`, which waits for it to greet a new taker |

Seen in the models, with no run of its own:

- a crash after storing `Ready` and before publishing the CET is never made up for:
  the refund follows (`NoRefundOverCetUndisturbed` makes the exception);
- a broadcast of an order stops at the first connection that has ended; takers
  after it hear of no order;
- a roll-over that completes after a commit overwrites it, and one that completes
  after a settlement was signed erases that;
- a proposal the maker cannot take is never answered;
- a taker that forgot a close can sign another: the maker's record is replaced,
  and the first one's confirmation closes it with the second's payout;
- of two orders with equal terms the taker may open the first and the maker the
  second;
- an attestation in `PendingOpen` is dropped when the lock confirms, and asked for
  again only by a restart;
- a second commit request while `PendingCommit` publishes and then errors;
- of two signed closes the second replaces the first in the record, whichever confirms;
- an attestation or a commit during a close erases the close, and its confirmation is refused
  (`CloseIsNoticedUnlessAttested` makes the exception); the page then shows the attested price
  or the market's while the close has paid its own (`ShownIsPaid` makes the exception);
- a lock whose broadcast fails leaves a contract that nothing is monitored for and, at the maker,
  no attestation is asked for until a restart (`NothingMissed` makes the exception);
- a taker that crashes after sending its close signature, before it records it,
  never learns of the close;
- a set-up that fails after our last message: the counterparty can still lock the
  money (`CommittedPaysOut` makes the exception);
- a confirmation that overtakes the completion of another set-up is dropped, and
  the request stays open until a restart;
- a taker that restarts gets an order its table has, fails to insert it, and shows none;
- rejecting a request clears whatever order is on offer by then;
- a failed roll-over leaves `roll_over_state` active: the taker refuses every
  other until a restart.

## 4. What is proved

For all values of the constants, under the named `ASSUME`s of the modules (sets
are apart, bounds are numbers, time locks in order; TLC evaluates them in the
runs). Every bound on crashes, restarts, attempts, proposals or messages is thus
arbitrary. Each inductive invariant was checked by TLC before it was proved.

| Module | Theorems (property) |
|---|---|
| `CfdDaemonProofs` | `TypeCorrect`, `RecordsAreTrue` (`RecordedOnChain`), `FinalIsFinal` (`FinalStatesAreFinal`), `ImplementsLifecycle` (`LifecycleRefined`), `EventsAreCovered` (`EventsCovered`), `NotRefundedUndisturbed` (`NoRefundOverCetUndisturbed`) |
| `OrderTakingProofs` | `TypeCorrect`, `SetupRuns` (`MakerSetupRuns`), `ViewsAgree` (`VerdictsAgree`), `FeedsFollow` (`FeedsAgree`), `DecisionImplemented` (`DecisionRefined`) |
| `ContractSetupProofs` | `TypeCorrect`, `LocksBacked` (`LockIsBacked`), `ContractsAgree` (`ContractsMatch`) |
| `RollOverProofs` | `TypeCorrect`, `SecretsHeld` (`RevocationsHeld`), `HistoryShared` (`SameHistory`), `CommitKnown` (`CommitIsOfItsHistory`), `RollOversAgree` (`RollOverAgreed`) |
| `UpdatesProofs` | `TypeCorrect`, `AwaitedSigned` (`AwaitedIsSigned`), `CloseKept` (`CloseRemembered`), `SignsOnce` (`OneClose`), `Waiting` (`TakerWaits`) |
| `OracleEventsProofs` | `TypeCorrect`, `NoneMissed` (`NothingMissed`), `StoreImplemented` (`StoreRefined`) |
| `PositionProofs` | `PricesOnce` (`EveryPriceOnce`), `PayoutsCovered` (`LockCoversPayouts`), `ProfitIsPaid` (`ShownIsPaid`) |

### CfdDaemon

For either role and any set of settlements, with one contract and one
attestation (`OneContract`). `CfdStateProofs` holds the case analysis of
`CfdStates` and the lemmas on `handle`.

- `RecordedOnChain` is not inductive: a state is recorded because of a message
  that was true when sent. `Truth` adds `ChainRules` (parents are seen before
  children, confirmed spends exclude each other, time locks were respected) and
  `Justified`: every target in `reached` and every event in the mailbox has
  reached its status, an attestation in a mailbox was published, and the job in
  progress fits the state (`recordCet` only after the CET was seen). The chain
  only grows (`ChainStepGrows`), so what justified a message still holds when it
  is handled. `FinalStatesAreFinal` and the refinement of `CfdLifecycle` follow
  step by step.
- `EventsCovered` needs `Followed`: while the process runs, the monitor's events
  reach the cfd actor one at a time and in the order of the chain (`OneEvent`,
  `InOrder`), so that, for example, the refund time lock never meets
  `PendingCommit` while the commit confirmation is outstanding. What a state
  needs shrinks with every event handled, and an event that was handled is no
  longer needed (`StateFollowed`). An attestation in the cfd actor's mailbox comes
  with a `CetFinality` target that is awaited, reached or queued behind it, or with an
  attestation on its way to the monitor (`AttestationFollowed`). A close is broadcast by
  the maker, who then tells the monitor, or was recorded by the taker, who is
  followed from that moment (`CloseFollowed`).
- `NoRefundOverCetUndisturbed` follows from `Truth` and `PayoutTried`: undisturbed, a
  state that is `Ready` means the job is to publish the CET, or the CET or the refund
  was seen.

### OrderTaking

- `IInv` is about the maker. The acceptance is split in two, so it says what
  holds in between: the order being accepted is an incoming request
  (`AcceptPending`), a confirmation in the connection actor's mailbox is the one
  awaited (`ConfirmAwaited`), and every request has a taker (`WhoKnown`).
- `Answered` follows a request to its answer: an unanswered one waits in exactly
  one place, on the wire, with the maker, as the one answer in the connection
  actor's mailbox, or on the wire down, until the taker knows it. `VerdictsAgree` and
  the refinement of `OrderDecision` follow: a taker that starts is `Restart`, its request
  is `Take`, writing the answer is `Answer`, reading it is `Learn` or a stutter, and
  the end of its set-up is `Conclude`; every other step is a stutter.
- `Feeds` is about the line of orders a taker has still to be told of: those on the
  wire, then those in the mailbox, then the one on offer. Until a daemon stops, an
  order is news in one stretch of that line only, its last order is the one on
  offer, an order told again is told first and is the one shown unless the taker
  took an order, and a taker with nothing left to be told shows what is on offer.

### ContractSetup

`IInv`: what is delivered was sent (`Delivered`), how far a set-up has got says what was
sent and heard (`Progress`), a party signs only on its own terms (`Honest`), and a
contract in a database is signed by both (`Kept`). `LockIsBacked` follows. `ContractsMatch`
is harder, since messages of one set-up can reach another: `MakerBegins`, `OneKey`,
`FirstIsMsg0` and `NextIsMsg0` fix the order in which keys can arrive, and `Crossed` that
the taker takes the key of another order only when the maker's set-up of its own
ended without a word: the one case the property excepts.

### RollOver

`IInv`: attempts begin in order (`Counted`); a secret heard was revealed, and that of every
contract replaced is held (`Secrets`); a key or signature heard is that of an attempt
which sent it (`Signatures`); and, unless
attempts overlapped, a party has one attempt at a time (`Alone`), contracts are
added by completions only (`Histories`), keys and secrets arrive in the order of
the attempts (`KeysInOrder`, `SecretsInOrder`), and what the monitor awaits is a commit
transaction of the history (`Watched`). Every action is mapped to one of eight shapes
(`Quiet`, `Begins`, `TakesKey`, `TakesSignature`, `TakesSecret`, `FailsAt`, `Completes`, `StopsAll`)
and a step of the queues, and each conjunct is preserved by each shape. For
`OneHistory`, from which `SameHistory` follows, a completion that would fork the history
is impossible: it needs the secret of the contract replaced, and whoever revealed
that has the next contract in its own history or about to enter it.

`RollOverAgreed` needs a second invariant, `InStep`, of the states reached without
restart, time-out or overlap (`Calm`; a calm state comes of a calm one). It gives all
protocol messages of all attempts one order (`Rank`: three messages an attempt) and
each party two numbers, how many it has read and how many it has said (`HasRead`,
`HasSaid`). What is on the way to a party is then a `Stream`: messages the other said
and it has not read, in their order and, while it waits, none missing; so the first
message in an inbox is always the one its attempt waits for, and no attempt fails on a
message of another or on a lost sender. Neither reads ahead of the other or reveals
ahead of the exchange (`Counts`), and a proposal is in one place: on its way, with the maker,
rejected, or accepted by an attempt the taker has not begun (`Tokens`), which is why
the maker never begins twice for one proposal. Once nobody is in an attempt,
having read no more than the other said makes both numbers equal, and both are at
the same contract (`Numbered`), whose secret nobody has revealed.

### Updates

`IInv`: a proposal of the taker's present connection is on its way or with the maker,
never both (`OnePlace`); an answer that ends the matter is the last one (`Answers`); what
the maker agreed waits for the taker's signature (`Agreement`); a signature on any
connection, older ones too, is of a close the taker signed (`Signatures`,
`OlderConnections`); and unless the taker lost one it signed at most one (`OneSigned`),
which is the one published and recorded (`Published`, `TakerIsUnder`). `TakerWaits` follows
from `OnePlace` and `Answers`, `OneClose` from `OneSigned`.

### OracleEvents and Database

`IInv`: the shape of the tables (`Tables`: an order has one CFD, a CFD one latest state),
`SettingUp`, `Followed` (a watched CFD has had a contract), `Wanted` (an attestation under
way was wanted) and `NothingMissed`. `Early` carries the taker's first request to the end of its set-up: nothing
is downloaded before its event occurs, so what was asked when the order was accepted still
stands while the event is to come (`SetupAsked`). The proof
reads the joined tables as one row for each uuid (`Views`) and gives each database
function an effect on that view: `Kept`, `Wrote`, `Created` or `CleanedUp`. Both
`NothingMissed` and the refinement of `CfdStore` are about the view only; an insertion
that broke off leaves it as it was.

### Position

`IInv`: an accepted curve stays accepted and only the oracle's price is attested (`TermsOK`);
a proposal or a close pays what the curve pays at its price, and a signed one that
is not on record was forgotten (`ClosesOK`); what spent the contract is the close
on record, a forgotten one, or a CET of the attested price (`EndOK`). The rest
is about the operators, for every price, quantity, leverage, number of payouts and
spline error. The SMT backend does not decide products and quotients of variables,
so the lemmas replace every `\div` by the two products it lies between (`Quotient`,
`Between`, `SatsBounds`) and compare products by their common factors.

- `EveryPriceOnce`: the samples are in order and a range's end is rounded from the
  bound the next one begins at (`Ends`, `Ordered`), so ranges do not overlap; that they leave no gap
  is an induction over the segments, done as the least segment that would break it
  (`Least`, from the well-foundedness of < on the naturals; `SomeRange`, `NoneAbove`).
- `LockCoversPayouts`: the two margins add up to the pool the curve divides, to a
  satoshi (`LockIsPool`), and the payouts of a range to the pool, to another.
- `ShownIsPaid`: the profit formula is monotonic in the price, so the payout of a range, a
  sample in it up to rounding (`Around`), lies between its values at the two ends
  (`CurveFromAbove`, `CurveFromBelow`), between which the profit shown lies too. The lower end
  needs a price of at least two dollars: at one dollar the position is liquidated in every curve
  without an empty range (`DollarIsLiquidated`), and that is the
  only kind the code accepts.

### Only model-checked

- Liveness under fairness, which is out of the prover's reach: `CommittedPaysOut`,
  `LockedIsNoticed`, `PublishedCetCloses`, `CloseIsNoticedUnlessAttested`, `DecisionLearnt`,
  `SetupEnds`, `SetupSucceeds`, `AgreedGoesThrough`, `CfdAttested`, `OrderAnnounced`.

Every safety invariant and every action property that a passing run checks is proved.

## 5. Not modelled

- **The B-spline** (`payout_curve/`): floating-point numerics; `Position` bounds its
  error instead, and does not show that the bound holds.
- **Column mapping, migrations, HTTP parsing, formatting**: no state of their own.
- **Encryption, keys, seed, auth, logging**: the transport is taken to be reliable
  while a connection is up, signatures to be unforgeable.
- **The wallet's own state**: building, signing and syncing are calls into bdk that
  succeed or fail; two set-ups that choose the same coins are not seen.
- **Several CFDs in the monitor**: `Target`s of different CFDs share a map by script
  but do not touch each other; reorganisations are not handled by the code.
- **What follows `RevokedTransactionFound`**: a `todo!()`, which stops the cfd actor.
- **Oracle events of rolled-over contracts**: the order keeps the old event id.
- **The web front ends**: a user is any sequence of the requests a page offers.

## 6. Plan

What is left is more of the system, not more about what is modelled:

1. `RollOver` with oracle events: an attempt takes the new event id, which the order
   never gets.
2. The monitor with several CFDs, whose targets share a map by script.
