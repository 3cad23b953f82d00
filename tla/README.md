# ApexPay in TLA+

ApexPay (`src/src`, TypeScript, Express, Prisma on PostgreSQL, Redis, RabbitMQ)
is a payments backend: wallets with a ledger, tournaments with a prize pool, an
escrow for trades, marketplace charges with splits, refunds, payouts and
disputes for integrators, and webhooks that tell integrators what happened.
Money moves in database transactions started by concurrent HTTP requests,
timers and queue consumers of several server processes. What goes wrong goes
wrong between those: two requests that decide on the same row, a key in Redis
that outlives or precedes a commit, a message sent twice or marked sent too
soon; and before the services, in two web clients with tabs, sessions and cached
lists, and in a list of Express layers whose order decides who is served. The
modules here model that control; they abstract names, texts, payloads and formats.

## 1. Inventory

| Part | State | Operations | Talks to | Hard behaviour | What makes it correct |
|---|---|---|---|---|---|
| Tournaments and matches (`tournament.controller`, `match.controller`, `match-settlement.service`, `clearing.service`, `tournament-bracket.service`) | `Tournament`, `TournamentParticipant`, `Match`, `MatchReport`, wallets, `UserBalanceLedger` | create, join, start, report, dispute, legacy resolve, v1 resolve, bracket advance, payout, cancel | wallets, outbox | three handlers close matches and advance the bracket; two payout implementations; cancelling a running bracket | the pool is paid once or returned once, the bracket opens a round when and only when the last one is complete, every balance is explained by the ledger |
| Trade escrow (`trade.service`) | `Trade`, wallets, `Transaction` | create, pay, confirm, cancel | wallets | concurrent requests on the same trade or wallet | held, released and returned exactly once; no overdraft |
| Event outbox (`outbox-poller.service`, `message-broker`, `outbox-cleanup.service`) | `OutboxEvent`, circuit breaker, RabbitMQ exchange and queue | claim, publish, mark, retry, clean up | match settlement, consumer | overlapping ticks, several processes, lost confirms, crashes | a settled event reaches the queue; one owner per row |
| Broker link and settlement consumer (`rabbitmq-connection.manager`, `settlement-event-consumer.service`) | connection, confirm channel, reconnect timer; consumer's channel and its chain of rebuilds | dial, redial, close; start, rebuild, dispatch, acknowledge, stop | outbox, WebSocket, process | a connection lost in the middle of `start()`, of a rebuild, of a message, of a shutdown | one subscription; a message is handled once connections stay |
| Process (`server.ts`, `infra/rabbitmq.ts`) | links, consumers, timers, HTTP server | boot, shutdown on SIGTERM, crash by an unhandled rejection, restart | all of the above | shutdown while a handler runs or a tab is open | a shutdown ends |
| WebSocket (`websocket.service`) | `activeSessions` | connect, disconnect, notify | settlement consumer | two tabs of one player | the entry names an open socket |
| Webhooks (`webhook-dispatcher.service`, `webhook-dead-letter.service`) | `WebhookOutbox`, `WebhookDeadLetter`, `outbox_delivery` queue | create, poll, take a message, deliver, reschedule, archive, requeue | charges, refunds, payouts, disputes | workers of several processes, crashes, stale claims, two admins | delivered or archived, archived once, claimed by one worker, bounded attempts |
| Refunds (`refund.service`) | `Refund`, Redis key, wallets | create | charges, webhooks | check outside the transaction, lost replies, rounding | within the charge, balanced to the cent, once per key |
| Payouts (`payout.service`) | `Payout`, Redis key, wallet | create, settle | fraud, webhooks | check outside the transaction, lost replies, two admins | no overdraft, once per key, settled once |
| Wallets (`wallet.service`) | `Wallet`, `Transaction` | fund, transfer, deposit, fee | everything | READ COMMITTED, shared reference ids | each reference books once, money is conserved |
| Deposits (`psp-deposit-webhook.service`, `autopay-itn-webhook.controller`) | Redis key, ledger | PSP deposit, Autopay notification | wallets | notifications repeated, reordered, failing half way | a successful payment is credited exactly once |
| Charges and splits (`marketplace-charge.service`) | `MarketplaceCharge`, Redis key, wallets | integration charge, marketplace split | fraud, webhooks | as payouts; two idempotency schemes | debit equals credits, once per key |
| Disputes (`dispute.service`) | `Dispute`, Redis key, wallet | create from a webhook, evidence, resolve | webhooks | evidence against resolution under READ COMMITTED | held once, resolved once, resolved is final |
| Safe Taxi (`safe-taxi.service`, `ride-finalize.service`) | `SafeTaxiRide`, Redis key, wallets | create, settle, finalize | wallets | two services settle the same ride with different references | a ride is paid once, debit equals credits, debt limit |
| Limits and idempotency of resolve (`idempotency-resolve`, `resolve-rate-limit`, `hmac-signature` middleware, `lib/rate-limiter`) | Redis: counter with expiry, sliding window, key PENDING or the answer | limit, window, acquire, settle, answer | match settlement | writes that are not awaited; INCR and PEXPIRE are two calls; Redis replies lost | one execution per key at a time; the answers about a match, stored or not, name one winner; no address is refused for good |
| Routes, guards, accounts, API keys (`create-app`, the other middlewares, `auth.service`, `api-key.service`) | `User`, `ApiKey`, JWT | register, login, make and end a key; the layers of a request | every handler | order of layers, old addresses mounted twice, a key that ends while it is compared | a handler runs for the right user, administrators' handlers for administrators, a request meets the limiters of its path once each |
| Sessions and pages (`gaming/src`, `frontend/src`: `App`, `lib`, pages) | token in `localStorage`, page, requests under way | login, visit, load, send a form, poll, logout | the API | answers that come after the page or the session has gone; 401 and 403; lost replies | the tab comes to rest; a session ends for a reason; a form is repeated only unseen |
| Trade page (`TradeViewPage.tsx`) | trade shown, requests under way | load, jump, pay, confirm, cancel | trade escrow | the component survives a jump | what is shown is what the URL says |
| Lists and exports (`pagination.ts`, `listFor...`, `usePaginatedQuery.ts`, managers of the panel) | rows; pages in the query cache | page, load more, refetch, create, delete, export | API keys, accounts, charges, payouts | cursor by time, inserts between pages, another user in the same tab | no row twice or missing, own rows only |
| Integrator configuration (`integrator-config.service`, `WebhookConfigManager.tsx`) | `IntegratorConfig`; the form | load, edit, save | webhooks | find-then-write, two tabs, a load that fails, a page left with its PUT under way | a save replaces what was shown |
| Fraud detection (`fraud-detection.service`, `lib/fraud-rules`) | `FraudCheck` | evaluate, review | charges, payouts | check then act | score and verdict agree |
| Audit log, admin and analytics queries, CSV, logging, landing page, documentation site, SDK, deployment | - | formatting, I/O, reads | - | none worth a model | - |

`PROJECT.json` lists the same parts with their status, and under `hazards` what
in this code is hard to test, at its line.

## 2. Plan

Order: the code that moves the most money through the most concurrent paths
first, the parts that feed on it next, then what stands in front of the
services and around them.

1. `Tournament`: brackets, two payout implementations, the pool; `SumTheorems`,
   what sums over finite sets add up to, and `TournamentProofs`.
2. `TradeData`, `Escrow` (abstract), `TradeEscrow` (transactions),
   `TradeEscrowProofs`.
3. `AtLeastOnce` (abstract), `Outbox` (ticks, breaker, broker, consumer),
   `OutboxProofs`.
4. `WebhookDelivery`, `WebhookProofs`.
5. `Refund`; `Fraud`, `Payout` and `Charge`, composed by `Marketplace`; `Deposit`,
   both notification endpoints; `Dispute`.
6. `Wallets` (READ COMMITTED, statement by statement) and on top of it `Rides`.
   `Payments` puts these five parts side by side, `MCPayments` checks them,
   `PaymentsProofs`.
7. `BrokerLink` and `Server`: one process from boot to restart; `ServerProofs`.
8. `Access`, `Gateway`, `Session`, `TradeView`, `Listing`, `ConfigForm`; `Clients`
   puts them side by side, `MCClients` checks them, `ClientsProofs`.

All of this is done, and every safety property that a run checks is also a theorem.
What would add most after it: refunds on the charges of `Charge`, so that one ledger
explains all money of an integrator; two administrators who requeue one dead letter;
the pages of the two clients whose forms `Session` does not have.

## 3. How the code is modelled

*Transactions.* A handler that runs in one Serializable `$transaction` and shares
its rows with Serializable transactions only is one atomic action
(`Tournament`), because PostgreSQL makes every outcome equal to some serial one.
Where the point is what the handler decided on, the transaction is two steps: a
snapshot, and a commit that is refused if another transaction has meanwhile
written a row this one writes (`TradeEscrow`: the flag `stale`; `Dispute`: `stale`
through `Outdate`; `Rides`: the set `dirty`). P2034 is then `Rollback`, `Abort` or
`AbortRide`; the services do not retry. A transaction without an
`isolationLevel` is READ COMMITTED and is modelled statement by statement:
`Update` in `Wallets` takes a row lock that lasts until the commit, `Claim` and
`Lock` in the two outboxes are a read and an update, `FileEvidence` in `Dispute`
overwrites whatever it finds.

*Around a transaction.* What the service does before and after it is a step of its
own: the key in Redis (`SET NX`), the check of a balance or a sum, the fraud
evaluation, the catch that deletes the key. Any of these can be followed by a
crash. A commit whose reply is lost (`ReplyLost`, `DepositThrows`, `CreateThrows`) is
the case in which the catch of the code runs although the data is there.

*Data.* Users, trades, keys and rows are model values or small numbers; amounts
are integers in grosze. References to ledger rows, which the code builds as
strings, are tuples (`<<"stx:driver", r>>`) or a kind and a number. Rounding is
written as in the code (`\div`, half up where `Math.round` is used). The references
that `transferP2P`, `settleRide` and `finalizeRide` build share a unique column with those that
the callers of deposit and charge send as they like; there a key may be any such
tuple.

*Time* appears as what it makes true: an expired trade, a backoff that is over, a
claim that is stale, a key that is gone after 24 hours. Where no action stands
for it, the module's header says how long a behaviour lasts at most.

*History variables* record what the code does not keep and no action's guard
reads: `from` in `Payout` and `Charge` (how long the table was when the call read
it), `seen` in `Refund`, `late` in `Dispute`, `overtaken` in `WebhookDelivery`,
`Server` and `TradeView`, `failed` in `Deposit`, `told` and a row's `by` (what made its
reference) in `Wallets`, `abandoned` in `Rides`, `arrived` in `Outbox`, `unseen` and `swapped` in `Session`, `carried` in
`Listing`, `knows`, `excuse` and with each PUT `knew` and `excuse` in `ConfigForm`, `lost`
in `Gateway`, `gone`, `limits` and `spared` in the request of `Access`.

*Side by side.* Parts that share no state are put in one module: `Payments` and
`Clients` have a variable `focus`, chosen at the start, that says which of their parts
takes the steps, so that a run explores the union of the parts and not their
product. The constant `Parts` of `Payments` says which parts a run is about (what an
integrator calls, or what changes wallets besides), and the others have empty sets of
calls and keys there. The parts of `Marketplace`, of `Rides` on `Wallets` and of `Server` on
`BrokerLink` do share state and are interleaved.

*Clients.* A page is what it asks for, in which order, and what it does with each
code (`Loader`, `Form` in `Session`); the tables `GameRoutes` and `PanelRoutes` are the
two `App.tsx`. A request under way carries the session and the page it was sent
from, and its answer is dealt with by whatever page of code is then still alive.

| Module | Variables | Actions and the code they stand for |
|---|---|---|
| `Tournament` | rows of the tournament, its players and matches, wallets, bags of `Transaction` and `OutboxEvent` rows | `JoinTournament`, `StartTournament`, `CancelAndRefund` (`tournament.controller`); `ReportResult`, `ResolveDispute` (`match.controller`); `SettleDisputedMatch` (`match-settlement.service`); in each close `AdvanceAfterTerminalMatch` (`tournament-bracket.service`) and a payout of the pool (`clearing.service` or the v1 one) |
| `TradeEscrow` | `Trade` rows, wallets, number of ledger rows, open transactions | `CreateTrade`, `PayTrade`, `ConfirmReceipt`, `CancelBySeller` and their `Begin` and `Rollback` (`trade.service`) |
| `Escrow` | trades and wallets only | the promise: `Create`, `Pay`, `Release`, `Cancel`, each at once |
| `Outbox` | status and retry count of each row, what each tick does, a breaker per process, what a channel's full buffer makes `send` write again, the broker's copies | `Lock`, `Claim`, `Refused`, `MarkProcessed`, `MarkForRetry` (`outbox-poller.service`); `Publish`, `PublishFails`, `Drain` (`publish` and its `send` in `rabbitmq-connection.manager`); `HalfOpen` (opossum); `Route`, `LateArrival`, `Requeue` (RabbitMQ); `Consume`, `Ack` (`settlement-event-consumer.service`); `Cleanup` |
| `AtLeastOnce` | due, sent or failed, and copies, by event | the promise of the outbox |
| `WebhookDelivery` | `WebhookOutbox` and `WebhookDeadLetter` rows, messages, workers (a batch is a set: the order within it is left open), admins | `Poll`, `Claim`, `TakeMessage`, `Post`, `Succeed`, `Reschedule`, `LastAttempt`, `NoUrl` (`webhook-dispatcher.service`); `ReadDeadLetter`, `Requeue` (`webhook-dead-letter.service`); `Throw` (the requeue of `infra/rabbitmq`) |
| `Refund` | Redis keys, `Refund` rows with their debits, calls | `Start`, `Validate`, `Commit`, `Duplicate`, `Fail`, `ReplyLost`, `Crash` of `createRefund`; `SplitCost` and `ConnectedCost` are its allocation |
| `Fraud` | none | the rules and the verdict as functions of what each rule reads |
| `Payout` | Redis keys, wallet, ledger, `Payout` rows, calls | `Start`, `BalanceAccepted`, `FraudAccepted`, `Commit`, `Refuse`, ... of `createPayout`; `ReadOpen`, `SettlePaid`, `SettleFailed` of `settlePayout` |
| `Charge` | Redis keys, both wallets, `MarketplaceCharge` rows, calls | `StartIntegration`, `StartSplit`, `AccountsAccepted`, `Scored`, `Commit`, `Duplicate`, ... of `createIntegrationCharge` and `chargeSplit` |
| `Marketplace` | all of the two above | the steps of `Payout` and `Charge` interleaved on one account's wallet and one pool of calls |
| `Payments` | `focus`, all of `Marketplace`, `Refund`, `Deposit`, `Dispute`, `Rides` | the steps of the part in focus |
| `Deposit` | statuses each payment had, Redis keys, credits, calls | `Receive`, `TakeKey`, `KeyTaken`, `Deposit`, `DepositThrows`, `DeleteKey` (`psp-deposit-webhook.service`, `autopay-itn-webhook.controller`) |
| `Dispute` | `Dispute` rows, their ledger rows, wallet, Redis keys, calls | `LookUp`, `TakeKey`, `Create`, `DeleteKey` of `createFromWebhook`; `ReadOpen`, `FileEvidence`, `Resolve` |
| `Wallets` | wallets, ledger, the transaction of each call | `Ask`, `Find`, `Update`, `Commit`, `Refused`, `Abort` of `transferP2P`, `depositFunds`, `processEntryFee` |
| `Rides` | rides, keys, jobs, finalizations that failed, on the variables of `Wallets` | `CheckRide`, `CreateRide`, `AnsweredAsSettled`, `ReadRide`, `SettleRide` (`safe-taxi.service`); `StartFinalize`, `ReadFinalize`, `FinalizeRide` (`payments.controller`, `ride-finalize.service`) |
| `BrokerLink` | connections, the manager's dial and timer, the consumer's start, rebuilds and channel, subscriptions, one message and the handlers at work on it | `ConnectFails`, `Connected`, `ChannelReady`, `ConnectionCloses`, `Redial`, `CloseManager` (`rabbitmq-connection.manager`); `StartWaited`, `StartSubscribes`, `RebuildBegins`, `RebuildSubscribes`, `Dispatch`, `Ack`, `AckThrows` (`settlement-event-consumer.service`) |
| `Server` | phase of `main()` and `shutdown()`, webhook link, sockets, session, on the variables of `BrokerLink` | `SigTerm`, `WebhookClosed`, `ConsumerStops`, `BrokerClosed`, `Exit`, `Crash`, `Killed`, `Restart` (`server.ts`); `Connect`, `Disconnect` (`websocket.service`) |
| `Access` | accounts, tokens, keys, one request | `WebhookRoutes` ... `Limiters` are the lists of `create-app`; `Register`, `Login` (`auth.service`); `CreateKey`, `KeyEnds`, `ValidateKey` (`api-key.service`); `LimitGuard`, `LimiterSpares`, `SignatureGuard`, `TokenGuard`, `RoleGuard`, `KeyCompared`, `NoKeyGuard` (the middlewares) |
| `Gateway` | clock, counter, window, idempotency keys, winners, requests, answers, writes under way | `Incr`, `PExpire` (`rate-limiter`); `Slide` (the script of `resolve-rate-limit`); `Acquire`, `Respond`, `WriteLands` (`idempotency-resolve`); `Settle`, `SettleFails` (`match-resolve-v1.controller`); `LegacyResolve` (`match.controller`) |
| `Session` | token, sessions, role, page, requests under way, what the player was told | `Login`, `Logout`, `Visit`, `Submit`, `Poll`, `Execute`, `AnswerLoad`, `FormDone`, `FormRefused` (pages of both clients); `ReplyLost`, `Expire`, `Outage`, `OtherTab`, `Promote` |
| `TradeView` | URL, trade shown, loads and handler under way, statuses | `Jump`, `Loaded`, `LoadFails`, `Press`, `Acts`, `Refused` (`TradeViewPage.tsx`); `OtherParty` |
| `Listing` | rows, the tab's user, cached pages, the fetch, the last file | `Open`, `LoadMore`, `FetchPage`, `Refetch`, `Create`, `Export`, `ChangeUser` (panel); `PageOf`, `Cut` (`pagination.ts`, `listFor...`) |
| `ConfigForm` | row, secrets, tabs, the PUT of each save | `Loaded`, `LoadFails`, `Reopen`, `Save`, `Saved`, `ReplyLost` (`WebhookConfigManager.tsx`); `ReadForLoad`, `Find`, `Create`, `Update`, `PutFails` (`integrations-config.controller`, `integrator-config.service`) |

`PROJECT.json` maps every definition to its lines. The operators whose name has an
underscore and whose comment begins with "Mutation" are plausible bugs of the
definition below them; no action uses them. Each property of a passing run is
violated when one of them is put in place of its original.

## 4. The runs

| Run | Instance | Shows |
|---|---|---|
| `tournament_four` | four places, five users of whom one is the organizer and may play | whatever order joins, reports, disputes, both verdicts and a cancellation come in, wallets match the ledger, the bracket is in step with the tournament, a round's successor has exactly its winners, an event is written iff v1 pays, and the pool is conserved, unless an administrator reopens a paid match or the organizer cancels a running bracket |
| `tournament_reopen` (violation) | two players | `resolveDispute` refuses `RESOLVED` only; a match that v1 has settled and paid is resolved and paid again |
| `trade_escrow` | two trades, three users of whom one is the platform, two requests | every interleaving of two requests implements `Escrow`, no wallet goes negative, nothing is lost |
| `outbox_faults` | two events, two ticks of one process, two attempts, one crash or lost connection, one failed update and one write that finds the buffer full | rows have one owner, copies stay bounded by the counted failures and the full buffers, the outbox implements `AtLeastOnce`, a row is stranded only by a fault |
| `outbox_overlap` (fair) | two overlapping ticks of one process, one write that finds the buffer full, the queue bound at any moment | an event that waits when the queue is bound is handled or given up |
| `webhook` (fair) | two entries, two workers that may be held up, one admin, two attempts, one fault | every event ends delivered or archived, is archived once, and unless a worker was overtaken it is claimed by one worker at a time and final once delivered |
| `payments` | the first two parts of `Payments`: two calls, two keys of each service, two administrators, payouts of 20 and 40 from a wallet of 70, charges of 60 of which the account gets 30, one lost reply, two rows; a charge of 7 split 4:1:2, two calls, two keys, refunds of 3, 4, 7 | money matches the rows to the cent, a settlement is final, a key pays once (a payout's again only after a lost reply), an overdraft, a blocked payout, a repeated amount or an excess refund need overlapping calls |
| `deposit_itn` (violation) | two payments, one on each endpoint, three notifications at once | an ITN with PENDING makes Autopay's ITN with SUCCESS a duplicate |
| `wallets` | the other three parts: two payments, one on each endpoint, three notifications at once; two disputes, two webhook calls, two administrators; three users, two wallet calls among opposite transfers of one key, a deposit under the reference these look up and a fee under the one a settlement looks up, one ride, two workers, two fares | a payment is credited once, only after it succeeded, and before the PSP is told so; a dispute is held once, settled at most once, and the ledger says what its status says, late evidence apart; wallets match the ledger, an answer of done is true unless a raw reference holds the place of a built one, a ride is settled once to the cent, a duplicate finalization is booked, under way or failed, cash never crosses the debt floor |
| `server` (fair) | three connections of which two are lost, two sockets, one message | one subscription whatever the order of losses and rebuilds; the message is handled once connections stay, unless `start()` failed; a shutdown ends unless a tab holds it; the session's entry names an open socket, and is missing with one open only after another was closed |
| `clients` (fair) | two tabs with the form, two sessions, four visits, two mishaps, two trades, two users of the lists with three rows in two instants, two saves and any number of forms left before the last of them, three requests for resolve with one key of which one asks for another match, a match the old route may resolve as well, two users and one API key | ten properties of what stands before the services, those of `Clients.cfg` |
| `list_export` (violation) | two users, three rows, pages of at most two | an export has at most one page of its period |

*Why these bounds are enough.* The races in this code are between two actors over
one row, one wallet or one key; every run has two of each actor that races (three
notifications of a deposit, so that one can hold the key while a second is
refused and a third repeats; three requests in `Gateway`, for the same reason), and
two of the things they race for where one could hide a mix-up: two trades on one wallet, two events in one batch, two disputes on
one wallet, two or three keys. Four players are the smallest bracket with a round
to advance. Two attempts are the smallest number with a failure that is retried
and one that is not. `Prefetch` is 1 instead of 10, so that a consumer at its limit
occurs with two events. Amounts are chosen so that rounding and limits bite: in
`trade_escrow` 16 has a fee that rounds to 0 and 60 leaves too little for a second
payment; in `payments` the refunded 7 split 4:1:2 leaves a remainder for every amount; in `wallets`
fares 100 and 200 at 50 bps give a commission of 0 and of 1 against a floor of -1;
in `payments` the thresholds and multipliers are set so that the velocity,
duplicate, card testing, unusual amount and spike rules speak in some state and
some payouts are blocked by a sum that no rule reaches alone (the refund rate needs
five charges, and the age rule is kept silent so that first charges pass). The bounds on faults (`MaxCrashes`,
`MaxDbErrors`, `MaxFull`, `MaxFaults`, `MaxLost`) let one happen at every point (in `Gateway`
a verdict by the old route counts as one); where faults
cost no state (`Refund`, `Deposit`, `Dispute`, `Wallets`) they are not bounded. Two lost
connections let one be lost during the rebuild for the other. Two sessions are what an
answer of the wrong one needs; a visit too many is not a new situation, because a page
keeps nothing of its earlier visits. Pages of one row put every row on a boundary;
three rows in two instants make twins on one.

*Symmetry* is declared only in runs that check safety, for actors, keys and users
that the instance treats alike (in `wallets` the two calls and the two workers of one part
are those of the others, so that two permutations serve all three); `outbox_faults` exchanges the two ticks of its
process. Several processes are left to the theorems about `Outbox`: with the full buffers two
of them are beyond the five minutes of a run.

*Deadlock* is checked in `trade_escrow` and `deposit_itn`. The others may
really stop: a tournament that is over, an outbox whose events are all sent, webhooks
all delivered or archived, payments with `MaxRows` rows and all calls at rest, disputes
that all have their verdict, a
process that was stopped, clients that have used up their clicks.

## 5. Fairness

Four runs check liveness.

`outbox_overlap`: weak fairness of `Lock(k)` and of the loop of each tick (the timer
of `OutboxPoller.start` fires every two seconds and nothing stops it; a tick under
way is a promise chain that goes on), of `HalfOpen(p)` (opossum's `resetTimeout`
timer) and of delivery and acknowledgement (a consumer with a channel takes what the
broker has). Publications may fail every time: that an event is handled *or given
up* does not rest on the broker. There are no crashes in this run, because a crash
between the claim and the update strands the row for ever (section 8).

`webhook`: weak fairness of `BackoffOver` and `BecomesStale` (time passes), of some
worker polling (`setInterval` in `server.ts`, in whichever process is alive) and of a
worker that has claimed rows going on with them. Messages need not be delivered, so
what is shown does not rest on RabbitMQ; one crash or database error may happen at
any point, and `reclaimStaleProcessing` is what makes the event end.

`server`: weak fairness of the steps of the link and of the consumer, strong fairness
of a dial that succeeds (the broker is not away for ever: every redial that is made
again and again succeeds at last), of the webhook consumer, of `shutdown()`, of the end
of a process with an unhandled rejection (`server.ts` installs no handler; Node 20 ends
the process) and of the restart (the restart policy of the compose file). That a
connection stays open is assumed only in the sense of the bound on connections. The
player need not close a tab, nor SIGTERM come.

`clients`: in `Session`, every request is answered by the server or given up by the
browser; the server need not come back after an outage. In `Gateway`, the process goes
on with a request it has taken and Redis lets a counter with an expiry expire; neither
writes nor retries have to happen. The other parts have safety properties only.

## 6. What is proved

Each theorem holds for every value of the constants that satisfies the named
assumptions of its module: any number of users, requests, processes, keys, amounts
and faults. Where the runs have two of each actor, the theorem has any number. No
property below is inductive by itself; what follows says for each module with what
it becomes so, and why.

| Module | Theorems (property) |
|---|---|
| `TournamentProofs` | `BooksStayComplete` (`BooksAreComplete`), `PoolStaysConserved` (`PoolConserved`), `BracketStaysInStep` (`BracketInStep`), `EveryWinnerAdvances` (`AdvanceTakesEveryWinner`) |
| `TradeEscrowProofs` | `TypeCorrect`, `BookedOnce` (`LedgerMatchesStatus`), `NeverOverdrawn` (`NoOverdraft`), `DecisionsAreCurrent`, `Refinement` (`ImplementsEscrow`) |
| `OutboxProofs` | `RowsOwnedAndCounted` (`OwnedAndCounted`), `EventsStuckByFaults` (`StuckOnlyByFault`), `DeliversAtLeastOnce` (`ImplementsAtLeastOnce`) |
| `WebhookProofs` | `OutboxTypes`, `EntriesAreHandledOnce` (`HandledOnce`), `DeliveredIsFinal` (`SuccessIsFinal`) |
| `PaymentsProofs` | `WalletExplained` (`MoneyIsExplained`), `KeysPayOnce` (`PaidOncePerKey`), `RulesHold` (`RulesHoldButByOverlap`), `OutcomesStay` (`SettledIsFinal`), `RefundsMatch` (`RefundsAddUp`), `RefundsBounded` (`RefundsAreBounded`), `DepositsTold` (`CreditedAsTold`), `DisputesBooked` (`DisputeIsBooked`), `WalletsExplained` (`WalletsAddUp`), `RidesBooked` (`RideIsBooked`), `FloorKept` (`CashKeepsFloor`) |
| `ServerProofs` | `SubscribesOnce` (`OneSubscription`), `SessionIsOpen` (`SessionNamesOpenSocket`) |
| `ClientsProofs` | `SavedAsShown` (`FormTellsTheRow`), `AnswersAreTrue` (`AnswersNameTheWinner`), `KeysHaveOneOwner` (`PendingHasOneOwner`), `RoutesAreGuarded` (`GuardsAreApplied`), `EffectsAreSeen` (`RepeatedOnlyUnseen`), `SessionsEndSo` (`LiveSessionEndsBy`), `ShownAsAsked` (`ShownOtherOnlyBy`), `ListsAreExplained` (`ListIsExplained`) |

**Sums.** Half of these properties are sums over a ledger. `SumTheorems` shows what
`SumFunctionOnSet` adds up to: the empty set, one element more, a union, equal
values, values of one sign. The library's induction theorems take an operator, which
the provers cannot instantiate; `SetInduction` takes a *set of sets* instead, and
follows from the well-foundedness of strict inclusion among the subsets of a finite
set. Each proof about a sum names the set of the subsets for which it holds.

**Tournament.** The inductive invariant is

    IInv == TypeInv /\ BracketInv /\ PayoutsInv /\ WalletInv /\ EventInv
            /\ FeesInv /\ PoolInv /\ RefundsInv

`PoolConserved` needs to know that a payout is the first one, and no part of the
ledger says so. `BracketInv` does it: the bracket stands in one round `last`, the rounds
before it are done, the prize is on a match alone in it, so as long as the tournament runs
the match with the prize is open; `PayoutsInv` adds that only closed matches with the prize
have payouts and which door (v1 or legacy) each came through. A payout after the first
is then one of a match opened again after v1 paid it, which `Reopened` sees, or of a
cancelled bracket, `LateCancel`. `WalletInv`, `EventInv`, `FeesInv` and `PoolInv` are the sums of the
properties written as totals of the values `Worth(n)`, which makes a handler that books a
set of rows one application of lemma `Booked`: the total grows by the worth of the
rows. A registration changes the worth of prizes, and of no row booked so far
(`HoldsKeepWorth`). `Shares` shows that the two integer divisions by 100 leave neither share
negative and never pay more than the pool. `EveryWinnerAdvances` rests on
`OrderOfRound` and `RoundOpened`: whatever order `findMany` returns the winners in, pairing them
two by two takes each of them once. The theorems hold for every number of players,
the even ones that are no power of two included: there the bracket stops
(section 8), and never advances with a winner missing.

**Outbox.** The invariant `OutboxInv` adds to `TypeOK`, `OneOwner` and `StuckOnlyByFault`:

- `Retryable`, because a claimed row may be marked for retry only if it has attempts
  left, which the tick read when it took the row;
- `Counted` and `AllCounted`: the copies of an event are bounded by the failures that were
  *counted or are about to be*, so the bound has to follow a tick through the step
  between its publication and its update; copies still to be written count as well
  (`Waiting`, a sum over the channels), and each was paid for by a full buffer;
- `Unsent`: an event that was not settled has no copy on its way or to be written;
- `ArrivedBeforeSent`: a row is marked sent only by a tick whose copy has arrived.

`DeliversAtLeastOnce` is the refinement of `AtLeastOnce` by what is due and what has arrived; it
has the hypothesis `QueueExists` (the queue is bound before anything is published), as the
run `outbox_faults` has, because without it the broker drops what it confirms (section 8).

**Payments.** Each of the five parts has an invariant of its own (`MarketInv`, `RefundInv`,
`DepositInv`, `DisputeInv`, `RidesInv`), and `PartsStep` says that a step of the composition is a step of
one of them. In `Marketplace`, `Money` says what wallets are by the rows and `Entered` gives
each payout its one ledger entry; `PayoutJobs` and `PayoutsMade` carry what a call found (a
balance that covers it, no rule that blocks it) from its read through its commit for as
long as nothing was written in between, so that a negative wallet or a blocked payout
names a commit that overlapped. `Keyed` counts copies of a key against the replies lost
*before* the key was given back, because the bound of `PaidOncePerKey` alone leaves no room
for the retry under way. `RulesHold` has the hypothesis `DuplicatesBlock`:
the rule on duplicates, worth 70, blocks by itself. The code's defaults
(`fraud-detection.service.ts:76-77`: flag from 30, block from 70) satisfy it; with a higher
threshold an amount may be charged twice without any overlap. For refunds, `RefundsMatch` is
arithmetic about the allocation: rounding down every share but the last, and giving the
rest to the last, adds up to the refund for every split and amount.

**Wallets and rides.** The inductive invariant is

    RidesInv == RideTypes /\ RequestedRows /\ BalancesMatchLedger /\ AnsweredIsBooked
                /\ SettledRows /\ FinalizedRows /\ DuplicateIsBooked /\ ReadsCurrent

A wallet's balance is increments of many statements, its ledger is rows that appear at
the commit, and the two meet in lemma `BookKeeps`: rows under references that nobody
has booked add their totals, user by user, whatever the set of rows. `RequestedRows`
is why an answer is true although `Find` and `Unique` look for *one* reference: a row
that no ride has made came with the other leg of its request. A reference does not say
what made it, because callers choose theirs; the row's `by` does. If the row found and the
request agree in `by`, the row is one of a request with the same references
(`BuiltRefs`, `SameRefs`); if not, `KnownIsBooked` leaves the exception that
`AnsweredIsBooked` names. `AnsweredIsSettled` follows from `SettledRows` alike: a ride that
is not settled has no rows of its own, so that the one found is raw. `SettledRows` and `FinalizedRows`
fix the rows of a ride by its status; `SettlementIs` is the arithmetic, that the cut of the
platform, rounded down, and the driver's rest are the fare, for every fare and rate.
`ReadsCurrent` says that what a settlement read, the ride, its method and the driver's
room above the floor, still holds as long as no row it read is in `dirty`; that the
commit is refused otherwise (`NoConflict`) is all that keeps a driver above the floor.
`KeepsFloor` needs no more: `CashKeepsFloor` is `[][KeepsFloor]` of the same steps.
Assumed are the constants' types, a driver who is not the passenger, fares of at least
100 grosze (as `settleRide` demands),
a rate of at most 10000 basis points, a commission not above the base and a floor not
above 0.

**Server.** That a process has one subscription cannot be seen in what a single step leaves: a
rebuild that subscribes must know that no channel of the process is still subscribed.
`Turns` says who may be about to subscribe (`start()` until it has ended, then one rebuild at
a time, neither of them while there is a channel), `ChannelSubscribes` that the only
subscription is that of the consumer's channel while its connection is open, and
`GoneInv` that a process that is gone has left none.

**Trade escrow.** For every set of trades, users and requests, every price list and
all initial funds:

- `TypeCorrect`: `TypeOK`; in particular a paid trade has a buyer who is not its seller.
- `DecisionsAreCurrent`: what a request decided on still holds whenever its commit
  can succeed.
- `BookedOnce`: `LedgerMatchesStatus`; each trade is held, released and returned as
  often as its status says.
- `NeverOverdrawn`: `NoOverdraft`.
- `Refinement`: `ImplementsEscrow`; the concurrent service implements `Escrow`.

The assumptions are those of `TradeData` and `TradeEscrow`: the platform is a user,
null values are no users or transactions, prices are positive, funds are not
negative.

Neither `NoOverdraft` nor `LedgerMatchesStatus` is inductive: a payment debits because
its *snapshot* had the funds and the trade was unpaid *in the snapshot*. The
inductive invariant is

    IInv == TypeOK /\ SnapshotsCurrent /\ LedgerMatchesStatus /\ NoOverdraft

where `SnapshotsCurrent` says that an open transaction that is not stale has read
what the rows still are. It holds because `EndTx` makes stale every transaction that
writes the trade or a wallet just written; lemma `SnapshotAfterCommit` is that
argument, used by each of the three commits. Given `SnapshotsCurrent`, lemma
`CommitSeesState` replaces the snapshot by the current state in each guard, and the
other parts follow action by action. `FeeBounds` shows that the fee is between 0 and
the price, so that neither credit of a release is a debit. The refinement is the
identity on `trade` and `balance`: a commit is the step of `Escrow` of the same name,
all other steps stutter; lemma `SameData` says that the constant operators of the
instance are those of `TradeEscrow`.

**Webhooks.** For every set of entries, workers and administrators, every batch size
and number of attempts, and any number of faults:

- `OutboxTypes`: `TypeOK`.
- `EntriesAreHandledOnce`: `HandledOnce`; an entry is archived exactly once, and
  one that no worker was held up with past `STALE_PROCESSING_MS` is claimed by one
  worker at a time, which counts on from its real attempts.
- `DeliveredIsFinal`: `SuccessIsFinal`.

The inductive invariant is

    IInv == TypeOK /\ BatchInv /\ StaleInv /\ HandledOnce

`BatchInv` is the reason why a poll may deliver with the attempts it read before its
claim: whoever changes the attempts also moves `nextAttemptAt` on, so that a selection
made before cannot be claimed any more (`Rescheduled`). `StaleInv` says that only claimed
entries get stale, and that one a worker still has is marked as overtaken. Lemma
`KeptByOthers` says once of every action that takes nothing up what it keeps (rows,
stale marks, graves), `TakeSteps` treats the three that do, and `NoneTakenUpKeeps` and
`TakenUpKeeps` draw the invariant from those facts alone.
Assumed are the module's assumptions on its constants.

**Clients.** Lemma `PartsStep` says that a step of `Clients` is a step of one part and a
stutter of the others, so that each part has an invariant of its own.

- *The configuration form* (`IInv`): a form that waits has one PUT, an update has its row, and
  an answer under way tells the secret (`PutInv`), as does a load's; a secret on a screen has
  a row (`SecretInv`); a form knows the row, is about to be told it, or has an excuse, and
  so has each PUT, also one whose form was left (`KnowsInv`). `SavedAsShown` assumes
  `NoRow`: the null result is no row.
- *Resolve* (`GatewayInv`): there is a history of winners, `won`, that each match was settled
  with, and `AnswersInv` follows such a name through everything that can carry it (the reply
  of the service, the write on its way, the key in Redis, the answer); the match itself
  has it until the old route writes another; `KeysInv` says that a request that owns a key, and a write on its way, find it
  `PENDING` and exclude one another, and lists who may have left a `PENDING` key behind.
- *Routes* (`AccessInv`): a request has passed the guards of its layer up to where it is
  (`OnItsWay`), was identified with a key or token that was valid when it was compared, and has
  met the limiters laid before it once each, to be counted or spared (`Met`, `OneEach`).
  That the guards of a layer are those its paths need is a fact about the lists of
  `create-app`: `WebhookOK` to `TournamentOK` show it list by list, `LayersAre` for all
  of them, `NextLayerIs` that a path reaches the first layer that has it.
- *Sessions* (`SessionInv`): `FormsInv` counts effects against answers seen,
  form by form; `CallsInv` ties a page's requests to the session of its tab and to what
  its account may ask; `TokenInv` says that without another tab the token is the newest
  session or none, hence that only the listed events end a live one.
- *The trade page* (`TradeInv`): unless a jump overtook a request, every load and the handler
  under way are about the trade of the URL.
- *Lists* (`ListInv`): cursors fall from page to page and separate what the pages hold
  (`Falling`), and down to the last cursor only rows of the very instant of a cursor can
  be missing (`Covers`); both for the cached pages and for a fetch under way, among rows
  that others insert meanwhile.

## 7. What is only model-checked

Liveness under fairness is for TLC alone: `EventReachesConsumer`, `EveryEventEnds`,
`MessageIsHandled`, `ShutdownEnds`, `RefusalEnds` and `RedirectsEnd`. Every
safety property of a passing run, action properties and refinements included, is a
theorem of section 6, three of them under a named hypothesis: `DuplicatesBlock` and
`QueueExists` say what the code's configuration and start-up provide, `NoRow` that a
null is no row.
The three violations are runs, not theorems: a counterexample is finite.

## 8. Where the code and its promises part

Three disagreements are runs of their own (`tournament_reopen`, `deposit_itn`,
`list_export`; see `findings` in `PROJECT.json`). The others appear in the models as the conditions
under which a property holds:

- *Tournaments.* `joinTournament` debits without comparing the balance and relies on
  a database constraint that no migration creates. A running tournament can be
  cancelled; its matches stay open and the last of them still pays the pool after
  everyone was refunded (`LateCancel`). An even number of players that is no power of
  two reaches a round with an odd number of winners, and the close of its last match
  throws `BRACKET_ODD_WINNERS` for ever.
- *Outbox.* A row whose tick died between the claim and the update stays `PROCESSING`
  and is claimed by nobody (`Stuck`), although ADR-001:62 says no event is lost after
  a settlement. Until the queue is bound the broker confirms and drops what is
  published (`Route`); `AtLeastOnce` is checked with the queue in place. `send` takes a
  full buffer for a message that was not written and writes it again on `drain`, as
  often as the buffer is full and also after its promise is settled: how many copies one
  attempt makes is bounded by nothing but the full buffers (`faults.full` in `CopiesBounded`).
- *Webhooks.* Two administrators can requeue one dead letter, although API.md:150
  announces a 409. An entry whose integrator has no `webhookUrl` is archived as if
  all attempts had been made. A worker held up for more than 15 minutes shares its
  entry with another.
- *Refunds.* The sum of earlier refunds is read outside the transaction, so two
  calls can refund more than the charge.
- *Payouts.* The balance is compared outside the transaction, so two calls can
  overdraw the wallet. The key is in Redis only: after a commit whose reply is lost
  it is deleted, and the client's retry pays again.
- *Charges.* The integrator's balance is compared nowhere and the schema has no
  constraint on it. The idempotency key is unique over all integrators and over both
  endpoints: a key another caller has used answers with a conflict or, at
  `chargeSplit`, with that charge.
- *Fraud.* The rules read in parallel and before the transaction: calls that overlap
  do not see each other, and both pass.
- *Deposits.* An ITN whose credit fails leaves its key, so the repetitions of the next
  24 hours are confirmed without a credit.
- *Disputes.* `submitEvidence` can overwrite a verdict; the dispute is open again, and
  a second verdict fails on the unique `hold_release` row.
- *Wallets.* References are unique over all users: another user's request under the
  same reference is answered as done (`AnsweredIsBooked` says precisely that much). The
  `referenceId` of a deposit or charge (`wallet.controller.ts:174-258`,
  `wallet.service.ts:219`, `:312`) is the caller's, in the one unique column
  (`schema.prisma:222`) that also has the references the services build: a deposit under
  `p2p:k:out` makes a transfer, a charge under `stx:<ride>:passenger` a settlement,
  answer that it is done although nothing was booked. `AnsweredIsBooked` and
  `AnsweredIsSettled` name these two exceptions. The other modules take the references
  their services build (entry fees, pools, trades, `dep:...`) as free of such ones.
- *Rides.* A ride that `settleRide` has settled can be finalized and paid a second time
  under the references `ride:*`; a finalization without funds credits driver and
  platform with no debit; one that fails leaves its key, and the retry is answered as
  a duplicate. `SettledOnceToTheCent` is about `settleRide` alone.
- *Broker links.* After a first `start()` that failed, the consumer ignores every
  reconnection until the process is restarted. A message whose channel closes under it
  makes `ack` and then `nack` throw, and the process ends. The link of the webhooks is
  never dialled again; polling takes its place. An open WebSocket holds the shutdown
  until the container is killed.
- *WebSocket.* Closing either of two tabs takes the player's one entry: the tab that
  stays open, newer or older, is not notified until the next connect.
- *Resolve.* The answer's write to Redis is not awaited: if it is lost, the key stays
  PENDING and every retry is answered 409 for 24 hours. A counter whose PEXPIRE fails
  never expires. The old route resolves a SETTLED match again
  (`match.controller.ts:275-286`); the answer stored under a key goes on naming the
  winner of before.
- *Routes.* The limiter of `/internal/webhooks` (`create-app.ts:360-366`) is laid after
  the handlers of its paths and is never reached, although docs/operations/README.md:48
  lists the limit (`Unlimited` in `Access`). A HEAD under `/api/v1/admin` passes no limiter;
  `/Admin/...`, `/Auth/login` and `/payments/initiate/` pass two, because the conditions of the
  general one know only the exact spelling (`Respelled`). Addresses of
  `RATE_LIMIT_TRUSTED_IPS` are not counted, and while Redis fails nobody is stopped
  (`LimiterSpares`).
- *Sessions.* The dashboard of the game answers any failure but 401 by going to
  `/login` with the token kept, and the guard of `/login` sends it back: an expired
  token, which is answered 403, keeps the tab turning (`BackAndForth`). In the panel a
  late refusal of an older session ends the newer one. The cookie `jwt` outlives a logout.
- *Lists.* Rows of one instant are passed over at a page's end; the cached pages of one
  user are shown to the next one in the same tab.
- *Configuration.* A form whose load failed is shown empty and can be saved. A page left while
  its PUT is under way and opened again may show the row of before that PUT, and the
  next save then replaces a row that no form has shown.

## 9. What is not modelled

Hashing, signing, parsing, formatting, audit rows, metrics and read-only queries have
no state that the core reads: a signature verifies or does not. `FraudCheck` rows are
written and shown, and no service decides by them. Payment methods and the verification
of connected accounts are single rows; where another part reads them, they are a free
choice of what it finds. Several tournaments, charges or integrators share nothing but
wallets, whose updates are increments, so one of each is modelled. Of the pages only
what they ask for, send and keep is modelled: layout, validation, countdowns, the
landing page and the documentation site are not. Client and API are taken to be on one
host (an empty `VITE_API_URL`), so that the cookie goes with every request.
`redis-sliding-window-rate-limit.ts` is used by nothing. The alert timers of the server
read and log.

Three effects are in the models and no property excludes them: each is the exception that a
property names, so that what is shown is that nothing *else* has the effect. These are a raw
reference in the place of a built one (`AnsweredIsBooked`, `AnsweredIsSettled`), a counter
whose `PEXPIRE` was lost (`RefusalEnds`), and the dashboard's way to `/login` and back
(`RedirectsEnd`). Two more hazards have no property. A bracket of six players reaches a round with an odd number of
winners whose last match can never close: the action's guard has it, the instance has
four players, and the theorems about brackets of any size say that it stops there, with
no winner passed over. Two administrators who requeue one dead letter each get a new entry: the
model has the race (`ReadDeadLetter` and `Requeue`), but a second administrator and a
third entry take the run beyond its time.

Two details stay below what a run can reach. The rule on unusual amounts reads the ten
newest rows (`take: 10`, `lib/fraud-rules.ts:102`), more than an instance has. The deposit button of the
game is enabled again before the browser has left for the PSP
(`DashboardPage.tsx:281-283`): `/payments/initiate` signs a link and writes nothing, so a
second press has no effect to repeat.
