# The Blink Lightning gateway in TLA+

TLA+ specifications of `blink-lightning-gateway`, checked with TLC on small
instances. All their safety properties are also proved with TLAPS for every
instance. Source paths below are relative to the repository's `src/`.

## 1. The system

The gateway sits between Blink's clients (GraphQL), an LND node (gRPC) and
Symphony, the ledger (gRPC both ways). It keeps its own state in PostgreSQL.

| Part | State | Operations | What is hard about it |
|---|---|---|---|
| `Payment` aggregate (`payment/`) | event log per payment hash, `state` column | `mark_pending`, `settle`, `fail` (`reverse` has no caller) | replays and contradictions must be told apart |
| `lnInvoicePaymentSend` (`app/send_payment.rs`) | one request future | persist intent, AuthorizeSpend, SendPaymentV2, `transition_to_pending` / `settle_inline` / `fail_inline` | dies or errs between any two; races the two below |
| TrackPayments subscription and consumer (`lnd/subscription.rs`, `app/handle_payment_update.rs`) | stream, channel of 64, one consumer | reconnect with replay, forward, handle | lost, repeated and late updates |
| Orphan-hold sweep (`app/sweep_orphan_holds.rs`, `job/orphan_hold_sweep.rs`) | one tick | list `initiated`, look up at LND, commit | acts on old reads |
| `Invoice` aggregate (`invoice/`) | event log, `state`, held amount | `mark_held`, `settle`, `settle_intraledger`, `cancel` | as for payments |
| `lnInvoiceCreate` (`app/create_invoice.rs`) | one request | AddHoldInvoice, insert, spawn listener | fails between them |
| Invoice listeners and consumer (`lnd/invoice.rs`, `app/handle_invoice_update.rs`, `app/settle_hold_invoice.rs`) | a stream per open invoice, a shared channel, one consumer | subscribe, forward, hold, look up, SettleInvoice, commit | listeners live in memory only |
| Reconciliation and recovery sweeps (`app/reconcile_held_invoice.rs`, `job/`) | one tick; one job per database | per Held row; per open row | race the consumer |
| Intraledger transfer (`app/send_intraledger_payment.rs`) | one request | guard, AuthorizeSpend, CancelInvoice, one transaction | shares invoice and LND with everything above |
| Outbox (`outbox/publisher.rs`, `outbox/listen_connection.rs`) | rows numbered at INSERT, visible at COMMIT | publish, read pages, LISTEN/NOTIFY | commit order, lost notifications |
| gRPC SubscribeEvents (`api/grpc/service.rs`) | cursor, channel | backfill, live, re-backfill | overlap of the three, slow subscribers |
| GraphQL status subscription (`api/graphql/subscription.rs`, `outbox/fanout.rs`) | broadcast buffer, cursor, last status | initial read, resume, live, lag | the same, and one shared LISTEN |
| LND and Symphony clients | none of their own | one RPC each | an error may come after the effect |
| Supervisor and jobs (`cli.rs`, `job.rs`) | tasks, exit channel, cancel token, job rows | spawn, report exit, drain, poll | a task that ends unnoticed, a tick that never gets to a row |
| Ownership and token checks (`wallet/ownership.rs`, `server/jwks.rs`) | two caches | look up, fetch, prune | ownership that changes while a request is under way |
| Amounts, fees, expiries (`primitives/`, `fees/`, `app/decode.rs`) | none | convert, round, cap | rounding up here and down there; width |

They interact through the database (optimistic concurrency: the events of an
aggregate have PRIMARY KEY `(id, sequence)`), through LND's state, and through
Symphony, which is authorised synchronously and told the outcome by the outbox.

## 2. The modules

| Module | Models |
|---|---|
| `Payment`, `Invoice` | the aggregates, as operators on event logs |
| `OutgoingPayment` | request, subscription, consumer, sweep and writers, with LND and Symphony |
| `PaymentLedger` | abstract: what Symphony and LND may see of a payment |
| `HoldInvoice` | create, listeners, consumer, both sweeps and writers, with LND |
| `InvoiceLedger` | abstract: what Symphony and LND may see of an invoice |
| `Intraledger` | the transfer, composed with `HoldInvoice` (it EXTENDS it and adds its own variables and steps) |
| `OutboxLog` | the outbox and one LISTEN connection; extended by the two streams |
| `EventStream` | SubscribeEvents and a subscriber that resumes |
| `StatusStream` | the fanout and one status subscription |
| `SweepJobs` | the jobs of a database: ticks with a LIMIT, rescheduling, restarts |
| `Process` | `run_cmd`: boot, tasks, signal, supervisor, drain, kills; serves `SweepJobs` |
| `Ownership` | key cache and token check, wallet cache with TTL and pruning, owners that change |
| `Amounts` | msat and sat conversions with their widths, fee cap, hold, debit, credit, expiry |
| `Admission` | composes the two: a request is admitted, and what it then asks of LND, row and Symphony |
| `OutgoingPaymentInv`, `OutgoingPaymentProofs` | inductive invariant and the steps that write no row; the other steps and the theorems |
| `HoldInvoiceInv`, `HoldInvoiceProofs` | the same for invoices |
| `IntraledgerProofs` | the theorems on transfers composed with invoices |
| `EventStreamProofs`, `StatusStreamProofs` | the theorems on the two streams |
| `ServiceProofs` | the theorems on `Admission` and on `Process` |
| `MCIntraledger`, `MCAdmission` | symmetry sets for TLC |

Definitions have the names of the functions they model; `PROJECT.json` gives the
lines. A definition `X_Something` that precedes `X` is `X` with one plausible
defect. It is not used by the specification; it stands there so that each
property can be shown to notice a defect.

**Granularity.** An action runs from one `await` whose result another task can
influence to the next. A database transaction is one step. The row an action
loaded is kept in the task's record (`ent`) and used, possibly stale, by the
later action that writes. `update_in_op` succeeds only if the stored log has not
grown since.

**Data.** Hashes are model values, events are their variants. Amounts are small
numbers in `HoldInvoice` (held and credited amount) and real ones in `Amounts`,
whose word width is a constant. Time appears as questions: can a row pass the
idle threshold while its request works on it (`SlowRequests`), has an invoice
expired (`expired`); only `Ownership` counts ticks, against the cache's TTL.

**Faults** are a constant: the set of failures the environment may inject, named
at `FaultKind` in each module. An RPC or database error may come before or after
the effect. A crash keeps the database, LND and Symphony, and nothing else.

**External parts**, modelled from how the code uses them:

- LND. `TrackPayments` replays in-flight and final payments on connect (the
  comment at the head of `lnd/subscription.rs`); `SubscribeSingleInvoice` emits
  the current state on subscribe (`lnd/client.rs`). `CancelInvoice` of a canceled
  invoice is no error, of a settled one it is. A further HTLC may be parked on an
  accepted invoice (`overpay`), which the code expects when it speaks of MPP
  overpayment.
- Symphony. One authorization per idempotency key, which is the payment hash.
- The job crate, from `migrations/20250904065521_job_setup.sql` and `cli.rs`. A
  running job of a process that ends is taken up again. A job that finished
  keeps its row in `jobs`, and with it the unique key that `spawn_unique` meets:
  only `job_executions` has a state, and `job_events` refers to `jobs` without a
  cascade. The single-shot recovery sweep therefore runs once per database
  (`recovery` in `HoldInvoice`, `job` in `SweepJobs`).
- A client that drops its request future is covered by a crash or an error at
  the same place.

## 3. What the runs show

Passing runs. The numbers of distinct states are for the bounds of section 4.

| Run | Shows | States |
|---|---|---|
| `outgoing_payment` | two requests for one hash, consumer and sweep, every fault but `send_error`: `HoldBeforeLnd`, `OutboxMatchesRow`, `ReplyTruthful`, `CompletedOnlyIfPaid`, `FailedOnlyIfUnpaid`, `TerminalIsFinal`, refinement of `PaymentLedger`; a stranded row and a replayed final status reach the row (`StrandedResolves`, `ReplayResolves`) | 16,837 |
| `invoice` | one invoice, every fault: `RowAgreesWithLnd`, `HeldBeforeSettle`, `PendingNets`, `PayableHasRow`, `ReturnedIsWatched`, `TerminalIsFinal`, refinement of `InvoiceLedger`; `HeldResolves`; `AcceptedIsTaken` and `CancelReachesRow` unless the invoice is in `lost`: its row was skipped by the recovery job, the process died after that job had finished, or an update was dropped (database error in the consumer, malformed message) | 23,150 |
| `intraledger_safety` | two requests and everything of `HoldInvoice`: `TransferAtomic`, `OneSuccess`, `RowStillAgrees` | 46,931 |
| `stream_delivery` | every fault: `InOrder`; `Gapless` and `Delivered` up to three named exceptions, which `excused` collects (commit behind a greater number, commit while a live loop has no LISTEN, failed read of a notified row) | 144,143 |
| `status` | every fault: `StatusProtocol`, `PaidMeansSettled`; `StreamCompletes` unless a read, an event or the subscriber was lost | 793,756 |
| `process` | every fault: `CleanExitOnlyOnSignal`, `DrainAnnounced`, `DrainedInOrder`; `StopsOnceTold`, `ErrorIsKept`, `SweepReaches` | 81,037 |
| `admission` | `GrantFresh` while owners and keys change; `SpendCovered` and `InvoiceAsAsked` at the amounts and expiries where a rounding or a limit bites | 772,984 |

Runs in which TLC finds the code at odds with what the repository says of it.
Each has an entry under `findings` in `PROJECT.json` with both lines.

| Run | The code |
|---|---|
| `outgoing_stuck_pending` | The consumer loads an Initiated row, the request commits Pending, the consumer's commit is refused and only logged. The sweep lists `initiated` only. The row stays Pending until the stream is reopened. No fault is needed. |
| `outgoing_send_error` | Any error of SendPaymentV2, a first message that cannot be parsed or has another hash included, is taken for "not sent": the row fails and the hold is released while LND may pay. |
| `intraledger_unrecorded` | The echo of its own CancelInvoice can make the transfer's transaction fail after the journal was posted. |
| `process_recovery` | The recovery job, once finished, is not spawned by a later boot: after a restart nobody watches the invoices that are open, though the job's documentation speaks of a boot-time sweep for every open invoice. A Held row is still reached by the reconciliation sweep; an Open one is not. |
| `status_listen_gap` | What commits while the ingest task's LISTEN is down is never broadcast, and a stream that is attached has no reason to read again. A comment in `ingest_loop` says it is recovered. |

More of the same. A reader reproduces it by changing the configuration named in
the first column to check this property under these faults or this constant
(with `CHECK_DEADLOCK FALSE`, for an instance with fewer faults may stop):

| Configuration | Changed to | Violated | The code |
|---|---|---|---|
| `outgoing_payment` | `Faults = {}` | `FailureReplyTruthful` | `settle_inline` does not handle the lost race that `transition_to_pending` handles; the client is told FAILURE of a payment that was made. |
| `outgoing_payment` | `Faults = {"crash"}` | `StrandedHasNoLiveHtlc` | A comment says a stranded row has no live HTLC; it may. The sweep asks LND and does not depend on it. |
| `invoice` | `Faults = {"overpay"}` | `CreditIsPaid` | The credited amount is read before SettleInvoice. (It holds under all other faults together.) |
| `invoice` | `{"crash"}`, `{"db"}` or `{"malformed"}` | `UpdatesApplied` | What `lost` excuses: nobody applies LND's transition after a restart past the recovery job, a database error in the consumer, or a skipped message. (It holds under all other faults together.) |
| `intraledger_safety` | `Faults = {}` | `NotPaidTwice` | An HTLC can be settled between the guard and CancelInvoice. |
| `stream_delivery` | `{"listen_late"}`, `{"row_error"}` or `{"overlap"}` | `CursorIsEnough` | The three exceptions of `Gapless`, each needed: such an event is below the cursor and skipped for good, though `api/grpc/service.rs:8-9` says the check is for "deduping any sequence already covered by backfill". (It holds under each of the other faults.) |
| `status` | `Faults = {"read_error"}` | `StatusTruthful` | A database error is reported as EXPIRED. (It holds under each of the other faults.) |
| `process` | `Limit = 1` | `SweepReaches` | A tick may list the same rows LND cannot answer for each time: LIMIT without ORDER BY. In the run fewer rows are stuck than a tick lists. |
| `process` | `Faults = {"panic"}` | `PanicIsNoticed` | A consumer that panics reports nothing and the process goes on without it. A comment at `cli.rs:284-286` says a panic "surfaces as a supervised exit". |
| `status_listen_gap` | `{"listen_late"}`, `{"row_error"}` or `{"overlap"}` | `MissedRecovered` | The other ways an event is lost to an attached stream. (It holds with `Faults = {}`.) |
| `admission` | (unchanged) | `AmountAlwaysAsAsked` | `SatAmount::to_msat` wraps above U64 / 1000. |
| `admission` | (unchanged) | `ExpiriesAgree` | An expiry outside 60 s to 24 h is coerced in the row only. |

Facts the models state and that a reader of the code may find useful:

- `lnInvoiceCreate` hands the expiry it was asked for to LND and a coerced one to
  the row, when the request is outside 60 s to 24 h (`create_invoice.rs`,
  `NewInvoice::try_new`); an amount of zero is refused only after
  AddHoldInvoice. `InvoiceAsAsked` is stated for expiries within it.
- `SatAmount::to_msat` wraps above U64 / 1000; `InvoiceAsAsked` is stated for
  amounts up to the supply, which is far below.
- The fee probe rounds down what the debit of the payment later rounds up.
- The exit reason is the first report. An error reported after the Ok of a
  shutdown under way is dropped with the channel of one full.
- A process that leaves because of an error waits the whole drain deadline for
  the signal task, which has nothing to end it.

## 4. Bounds

- *Payments and invoices*: one hash, for the races on a row. Payments share only
  channel, consumer and sweep; the theorems cover any number of them.
- *Requests*: two; `UNIQUE(payment_hash)` lets only one of any number past the
  intent. A request may start again after it was answered, which covers retries.
- *Channels*: 1 or 2 instead of 64 or 1000, so that full channels occur.
- *Amounts*: 1 or 2 in `HoldInvoice`; two suffice to tell the amount held, looked
  up and settled apart. In `admission` U64 is 2^27 and the supply 20,000 sat, in
  the proportion that `AmountsAssumption` asks for, and the amounts are the ones
  next to a limit.
- *Sequence numbers*: 3 or 4 with pages of 2, so that a backfill has more than one
  page, and a `MaxBackfill` that is met. `MaxNtf` bounds repeated connection
  failures, which the code does not bound.
- *Process*: one server task (the servers do not interact), three rows of which
  one is stuck, two per tick.
- *Ownership*: two users, one wallet, one key, two requests, a TTL of 2 ticks, a
  round trip of at most 1, pruning from 1 entry.
- Logs and outboxes need no bound: they are finite by the aggregates' rules.

Symmetry is used on requests and users in safety runs only. Deadlock is
checked except where the instance may stop: bounded writers with a finished
status stream, and counterexample runs of bounded writers or finished transfers.

The theorems of section 6 do not depend on these bounds.

## 5. Fairness

Weak fairness for what a spawned task does next, for reconnecting, and for the
recovery job while it is not finished: tokio runs a ready task, the poller a job
that is due, and RPCs and queries return. Once the job is finished nothing is
assumed of it: no later boot runs it. Strong fairness for the success of what is
retried without end (a sweep's lookup and commit, forwarding into a full channel,
reconnecting, a backfill that a returning subscriber asks for again): it does not
fail every time. No fairness
for clients, payers, LND's decisions, publishers, or any fault. Properties that
crashes or departures could postpone without end assume that these stop
(`<>[][~Crash]_vars`, `<>[][~Gone]_vars`). For `EventStream` "the subscriber reads
and comes back" is an assumption on the subscriber. `StatusStream` assumes only
weak fairness of its tasks. `Process` assumes that its tasks run on once the
token is cancelled, that the supervisor and the job poller do, and that a sweep
visit to a row LND can answer for succeeds in the end; a server may never drain
and no signal need come.

## 6. What is proved

Every safety property of every passing run, invariant, action property or
refinement, is a theorem: it holds for every set of hashes, requests, users,
wallets, rows and servers, every capacity, page and limit, and every set of
faults. `PROJECT.json` lists the theorems with the property each states.

The assumptions are the ASSUMEs on the constants: capacities, pages and limits
are positive (`ConstantsAssumption`, `OutboxAssumption`, `ChanAssumption`,
`BufAssumption`, `JobsAssumption`); flags are Boolean and faults are known ones
(there and in `SenderAssumption`); rows and servers are finitely many
(`JobsAssumption`, `ProcessAssumption`); TTL and round trip are numbers
(`OwnershipAssumption`); inputs fit their types (`InputsAssumption`); and the
word is wide enough for the supply, 4000 * Supply + 50000 <= U64, with a day in
seconds below U32 (`AmountsAssumption`; 2^64 and 2^32 satisfy it with room).
Two theorems have one more, marked below.

| Module | Theorem | States |
|---|---|---|
| `OutgoingPaymentProofs` | `TypeCorrect` | `[]TypeOK` |
| | `RowsTruthful`, `HoldFirst`, `CompletedWasPaid` | `HoldBeforeLnd`, `OutboxMatchesRow`, `CompletedOnlyIfPaid` |
| | `AnswersTrue` | `ReplyTruthful` |
| | `TerminalRows` | `TerminalIsFinal` |
| | `ReleaseIsSafe` (*) | `FailedOnlyIfUnpaid` |
| | `Refinement` (*) | implements `PaymentLedger` |
| `HoldInvoiceProofs` | `InvoiceTypes` | `[]TypeOK` |
| | `RowsAgree`, `PendingBalances` | `RowAgreesWithLnd`, `PendingNets` |
| | `HoldPrecedesSettle`, `PayableRecorded`, `Watched` | `HeldBeforeSettle`, `PayableHasRow`, `ReturnedIsWatched` |
| | `TerminalRows` | `TerminalIsFinal` |
| | `InvoiceRefinement` | implements `InvoiceLedger` |
| `IntraledgerProofs` | `TransferTypes` | `[]TransferTypeOK` |
| | `TransfersAtomic`, `SuccessOnce`, `RowsStillAgree` | `TransferAtomic`, `OneSuccess`, `RowStillAgrees` |
| | `PromisesSurvive` | `PayableHasRow`, `ReturnedIsWatched`, `HeldBeforeSettle`, with transfers going on |
| `EventStreamProofs` | `StreamTypes`, `ReceivedInOrder`, `NothingSkipped` | `TypeOK`, `InOrder`, `Gapless` |
| `StatusStreamProofs` | `StatusTypes`, `StatusesInOrder`, `PaidIsSettled` | `TypeOK`, `StatusProtocol`, `PaidMeansSettled` |
| `ServiceProofs` | `GrantsAreFresh`, `SpendIsCovered`, `InvoicesAsAsked` | `GrantFresh`, `SpendCovered`, `InvoiceAsAsked` |
| | `ProcessTypes`, `SuccessMeansSignal`, `DrainIsAnnounced`, `DrainInOrder` | `TypeOK`, `CleanExitOnlyOnSignal`, `DrainAnnounced`, `DrainedInOrder` |

(*) if `"send_error" \notin Faults`: an error of SendPaymentV2, or a first message
that cannot be used, means that LND has not accepted the payment. `outgoing_send_error` shows that this is needed.

None of these properties is inductive: a task writes what it learned some steps
ago. The inductive invariants say what that knowledge is still worth.

**Outgoing payments** (`Inv` in `OutgoingPaymentInv`).

- `RowsLegal`: a log is one of the few an aggregate can have, so a task's copy of
  it is a prefix of the stored one (`LoadedFrom`), and equal length means equal.
- `RequestInv`: what is true of LND, Symphony and the row at each point of a
  request; before the send, for instance, LND does not know the payment.
- `OneRequestPerHash`: without it another request's send would break the former.
- `WorkerInv` and `UpdatesTrue`: a final status a task holds, or that is under way
  on stream or channel, is still LND's status.

`InvNoSendError` adds that a request about to fail a payment, and a Failed row,
have a payment LND will not make. `ReplyTruthful` follows from what `RequestInv`
knows at the step that answers and from rows and LND never going back
(`RowEffect`, `LndEffect`); so do `TerminalIsFinal` and the refinement.

**Invoices** (`IInv` in `HoldInvoiceInv`).

- `RowOK` relates log, outbox, LND's state and amount, the create request and
  the listener of one hash: the log is legal for its held amount; the outbox has
  the reservation and, once closed, its counterpart; what is held is covered by
  what LND has parked.
- `UpdatesTrue`: an update under way tells a state LND was in, a final one the
  state it is in.
- `TasksKnow`: a task's copy is a prefix of the row, an amount it looked up is
  between what was held and what LND has, and a task about to settle or cancel
  has LND's final state.

Each step either leaves the rows (`HoldInvoiceInv`) or extends one by one event
with its outbox row (`WriteKeeps`, `RowEffect` in `HoldInvoiceProofs`). `RowOK`
already allows for a row settled by a transfer (`Moved`), so that the invariant
is the same with and without them; `NoTransfers` excludes them for `HoldInvoice`
alone, where `RowAgreesWithLnd` and `PendingNets` need it.

**Transfers** (`TransferInv` in `IntraledgerProofs`) is `IInv` and

- `TransfersOK`: the payment's log is there, complete, exactly when the invoice's
  row was moved, and then the journal was posted;
- `RequestsKnow`: a request past the guard has loaded an open row that is a prefix
  of the stored one; past AuthorizeSpend the journal is posted; at the commit LND
  has canceled;
- `OneReply`: at most one SUCCESS per hash.

Every step of the invoice's actors and of LND moves rows onward only
(`GatewayOnward`), which keeps what requests know. The transaction appends to an
open row that nobody has touched since (`MovedRow`, `TransferWrites`), which is
why a second request, the echo of the cancellation and the sweep can refuse a
transfer but not split one.

**Event stream** (`IInv` in `EventStreamProofs`): received, in the channel and read
are increasing, in this order (`Increasing`); what was passed over is excused
(`Passed`); and in the live tail a row not yet sent is notified before any
greater one, or a lost LISTEN is noticed first (`Pending`).

**Status stream** (`StatusInv` in `StatusStreamProofs`): of the transactions in
flight at most one tells of the invoice, from the state it found, and a row that
tells of a settlement means a settled invoice (`Serial`); what a stream has read
or been sent is committed (`Committed`); a stream that goes on has sent nothing
or PENDING (`Sendable`). All ways to report a status pass through one lemma
(`EmitKeeps`).

**Ownership and amounts** (`OwnershipInv` in `ServiceProofs`): a wallet in a
fetched set was owned when the router answered, one in a cached set at most a
round trip before it was stored, and both age no slower than the ownership does
(`Remembered`). The amounts are arithmetic over the widths of
`AmountsAssumption`.

**Process** (`Inv` in `ServiceProofs`): before the token is cancelled the
supervisor waits and only errors are reported (`BeforeCancel`); a token cancelled while the supervisor waits
was cancelled by the signal task, after NotServing (`Waiting`, `Announced`); the
supervisor leaves with success only after a signal and its grace window
(`Leaving`); the subscription
task ends after the consumer it spawned (`InnerFirst`); every handle awaited has
stopped (`Past`).

Some leaves of the proofs name their prover (`Zenon`, `ZenonT`): it is the one
that proves them, and naming it saves the attempt of the other.

## 7. What is only model-checked

Liveness under fairness, and everything with ENABLED, is beyond the prover and
stays with TLC: `StrandedResolves`, `ReplayResolves`, `HeldResolves`,
`AcceptedIsTaken`, `CancelReachesRow`, `Delivered`, `StreamCompletes`,
`StopsOnceTold`, `ErrorIsKept`, `SweepReaches`. So do the counterexamples.
Induction over data and RECURSIVE operators are beyond the prover too; the
modules do without them.

## 8. What is not modelled

- `Payment::reverse` (no caller).
- BOLT11 parsing beyond the amount; hashing; message parsing beyond "it may fail".
- Transport, routing, TLS and macaroons of servers and clients; schema
  generation; configuration; tracing.
- The inside of the job crate, LND, Symphony, PostgreSQL and tokio, which are
  modelled from how the code uses them (section 2).
