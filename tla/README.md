# A verification project for desire-supply

desire-supply is a desire marketplace. Its core is a Python package,
`platform/src/desire_platform/`, of bounded contexts over PostgreSQL: an owner
puts a *demand* forward, *matching* ranks creators for it, an authorised
selector invites some of them and chooses one, and *coordination* turns the
choice into a project. Each context writes its rows and its events in one
transaction; an *outbox worker* carries the events to a broker and a *consumer
inbox* applies them at the other end. A smaller, older program, `mvp/`, does
matching for one user at a command line over an SQLite file.

This directory holds TLA+ models of that code, TLC configurations that check
them on small instances, and TLAPS proofs of what holds on every instance.
Paths below are relative to `src/`; `desire_platform/` stands for
`platform/src/desire_platform/`. `PROJECT.json` names, for every definition of
a model, the lines it was translated from.

## 1. Inventory

| Part | State | Operations | What is hard |
|---|---|---|---|
| **Outbox delivery** `outbox/delivery.py`, `outbox/postgres.py` | transport columns of `infra.outbox_events`; a worker's batch of leases | sweep exhausted, claim a batch, validate, publish, mark published / reschedule / dead, release | several workers, SKIP LOCKED, lease expiry, lost acknowledgements and commits, crashes, shutdown |
| **Consumer inbox** `outbox/postgres.py` | `infra.consumer_inbox_events` and the handler's projection | insert, detect duplicate or collision, run handler, commit, ack or nack | redelivery, two processes on one event, commit of unknown outcome |
| **Matching** `matching/application`, `matching/domain` | attempt, run, candidates, invitations, selection, receipts | create attempt, start/complete/fail run, invite, respond, withdraw, choose, close | commands that race on versions and on the digest of the invitation set |
| **Matching runtime** `matching/adapters/postgres/operational_runtime.py`, migration `0003` | jobs, completion claims, terminal intents | claim, start, complete, fail, execute selection, invalidate attempt | leases and fencing tokens in SQL functions, retries |
| **Ranking engine** `matching/engine_v1.py` | none | rank and exclude candidates | boundaries, ties, order of input |
| **Coordination** `coordination/` | selection, attempt, demand, project, agreement, completion record | `CompleteSelectionCoordinator.handle`, recovery | one decision over four aggregates, lost commit, concurrent delivery of one trigger |
| **Demand** `demand/` | demand, current revision, receipts | draft, submit, review, fund, request matching, cancel | optimistic versions, idempotent commands |
| **Trust and safety** `trust_safety/` | cases, measures, appeals | open, assign, decide, appeal | independence of reviewers, ends of measures |
| **Identity** `identity_access/` | login transactions, sessions, memberships, grants, duties, invitations, policies, consents | login callback, rotate, revoke, grant with two people, accept an invitation, publish a policy | one-time use, last administrator, expiry against use |
| **Finance funding** `internal_pilot/finance_funding.py` | funding facts | two confirmations | two people, one fact |
| **Creator profile, taxonomy** | versioned aggregates | edit, review, publish | optimistic versions |
| **HTTP, composition, deployment, local stack** | none of their own | routing, wiring, migrations | - |
| **MVP** `mvp/src/desire_mvp/` | an SQLite file, backups and their manifests | save, migrate, match, decide | interrupted migration, backup before commit |

How they interact. The matching commands and the coordinator share the
selection, attempt and invitation rows; the recorded choice
(`PendingCompleteSelectionTrigger`) is the only message from one to the other.
In the PostgreSQL runtime it is a row and a job, and a coordinator process
carries it out in Matching and in Demand together. The demand's owner may
cancel, and identity may revoke the selector's assignment, while a choice is
being completed. Every context's events reach others only through the outbox, a
broker, and an inbox: at least once, in any order.

What makes each part correct:

* outbox: every committed event ends published or dead-lettered; published
  means accepted by the broker; one running lease per event; a slow worker
  cannot settle what another one holds; nothing settled is reopened;
* inbox: a handler's effect happens once per event however often and wherever
  its message is delivered; ack only after that effect is committed;
* selection: four aggregates decide together or not at all; the choice is made
  among what the selector saw; every answer a caller gets is true;
* match run: only the holder of the current lease reports a result;
* selection job: Matching and Demand end alike and as was decided, the decision
  is not overtaken, and its job ends;
* demand, profile, taxonomy: no lost update, a repeated command has one effect;
* identity: one-time things are used once, an organization keeps an
  administrator, nobody approves their own grant;
* trust and safety: a reviewer is independent of what is reviewed.

`PROJECT.json` lists the hazards behind these, each at its line, with the
properties that watch it.

## 2. Modules

```
AtLeastOnce          what an outbox promises
   ^  ImplementsAtLeastOnce (OutboxRefinement)
OutboxDelivery       rows, leases, workers, faults, clock
   ^                 ^
MCOutboxDelivery     OutboxDeliveryProofs
                        ^
                     OutboxCopiesProofs

ConsumerInbox        broker queue, processes, inbox rows
   ^
OutboxPipeline       AtLeastOnce (as Outbox) + ConsumerInbox
   ^            ^  ImplementsPipeline
   |         DeliveryPipeline        OutboxDelivery + ConsumerInbox
   |            ^
   |         DeliveryPipelineProofs  (EXTENDS OutboxCopiesProofs)
OutboxPipelineProofs

OneDecision          what is promised of a choice, whoever carries it out
   ^                 ^  ImplementsDecision (in each of the two)
   |              CompleteSelection    invitations, choice, coordinator calls
   |                 ^                 ^
   |              MCCompleteSelection  CompleteSelectionProofs
SelectionJob         decisions, completion job, coordinators, Demand's outcome
   ^
SelectionJobProofs

OneResult            what the match workers promise of an attempt
   ^  ImplementsOneResult (MatchRunRefinement)
MatchRun             runs, jobs, leases, receipts, worker loops
   ^
MatchRunProofs       (EXTENDS MatchRunRefinement)

IamSessions          users, session families, login transactions, row locks
   ^                 ^
MCIamSessions        IamSessionsProofs
```

`OutboxCopiesProofs` extends `OutboxDeliveryProofs` with the one proof that
counts. `CompleteSelection` and `SelectionJob` are two implementations of the
same protocol: the injected unit of work of `coordination/`, and the SQL
programs and worker that run in its place. `OneDecision` says what they have in
common.

### OutboxDelivery

`row[e]` holds the transport columns of one row of `infra.outbox_events`;
`worker[w]` the local variables of one `OutboxDeliveryWorker.deliver_once`;
`claims` numbers the claim transactions and stands for the random lease token;
`copies[e]` counts what the broker accepted (external).

| Action | Code |
|---|---|
| `SweepExhausted`, `ClaimBatch` | `_dead_letter_exhausted`, `_claim_batch` and the SQL `_DEAD_EXHAUSTED_SQL`, `_CLAIM_SQL`, one transaction each |
| `StartLease`, `RegistryUnavailable` | the head of the loop of `deliver_once`: the worker's own look at its deadline, then the schema registry |
| `Publish` | `_publish`: acknowledged, refused, or no usable answer |
| `Settle` | `_mark_published`, `_reschedule` or `_mark_dead`, with the retry decision of `_retry_or_dead` |
| `SeeStop`, `ReleaseUnstarted` | the stop signal between leases, `_release_unstarted` |
| `Crash`, `RequestStop`, `Restart`, `Tick` | the environment |

Deadlines count down: `due` and `left` are the ticks that remain, and `Tick`
lowers them all. A transaction sees the clock as of its start, so each one has
a `lag` of up to `Slack` ticks, and a worker's clock differs from the
database's by up to `Slack` either way. Below `-Slack` every deadline is over
for everybody, so the countdown stops there; this keeps the state finite
without bounding how long the system runs. A transaction that raises commits
or not: each storing action has the alternative in which the worker learns
nothing. `SKIP LOCKED` and `LIMIT` appear as an arbitrary subset of the
eligible rows. Retry codes of pending rows, telemetry and readiness probes are
left out.

### AtLeastOnce, OutboxRefinement

The promise: each event is `queued`, `published` or `dead`; the broker may
accept it any number of times, also after it is settled (a publish of a stale
lease may arrive late); a queued event becomes `published` only once accepted,
and may be given up at any time. `OutboxRefinement` maps `PENDING` and `LEASED`
to `queued`, and the count of copies to whether there is one.

### ConsumerInbox, OutboxPipeline

`ConsumerInbox` follows `PostgresDurableConsumerInbox.process` statement by
statement: the insert that waits for another open transaction on the same
event, the row read back on a conflict, the handler, the commit, and only then
the ack. `body` stands for the columns that are compared to tell a duplicate
from a collision. `Abandon` covers an unreachable database, a dead process and
a lost ack: the broker gets its message back. `OutboxPipeline` puts the
abstract outbox in front, so that the inbox is checked against all that an
outbox may do, and not only against what this worker happens to do.

The handler is external, but what it is given is not: `execute_statement` of
`_ConsumerProjectionTransaction` (`outbox/postgres.py`, lines 604-608) raises
at every call. A handler that writes its projection through it can therefore
only fail, is rolled back and nacked, and so again at each redelivery.
`Writing` is the set of bodies with such a handler; they cannot take
`HandlerSucceeds` (`HandlerCannotWrite`). `PublishedIsApplied` says what is
left: a published event takes effect unless its handler fails again and again
for ever (`HandlerFailsOn`; a process that dies inside the handler leaves the
same state behind and counts as such).

### DeliveryPipeline

`DeliveryPipeline` leaves nothing abstract between the two ends: the workers of
`OutboxDelivery` on their table, the broker, and the processes of
`ConsumerInbox`. A step of the workers that puts a copy at the broker
(`Publish`, whatever answer comes back) also puts a message in the queue, with
any content the registry may make of the event; every other step leaves the
inbox side alone. `ImplementsPipeline` says that this is `OutboxPipeline` with
the row's status and copy count for the abstract outbox, and the budget of
attempts for the bound on copies. `EndToEnd` is the promise to a user of both.

### CompleteSelection

`db` is the committed state: invitations, selection, attempt, demand, the
selector's assignment, the recorded intent, project and completion record.
Each matching command (`matching/application/handlers.py`) is one transaction
and so one action; when the code rejects, the action is disabled. A call of
the coordinator takes several steps, because the code has several points where
others may come between:

| Action | Code in `coordination/complete_selection.py` |
|---|---|
| `Begin` | trigger checked, unit of work begun: `view` is its snapshot |
| `Check` | clock read again under the locks, static chain, replay or open preconditions |
| `Commit`, `RollBack`, `UniqueConflict`, `CommitUnknown` | the writes and the four ways the commit ends |
| `Recover` | `_recover`: a new snapshot is read, and everything that fails there, the reader itself included, has one code |

The unit of work is injected; the model takes its contract from the store the
coordinator's own tests use (`platform/tests/coordination/`): a commit that has
been overtaken by another is refused. Deadlines appear as the set of those
that have passed (`expired`, `lapsed`); they may pass between any two steps. An
invitation's version grows with its status, so the status stands for both; the
digest of an invitation set is the set itself.

### OneDecision

The decision without the way it is carried out: `choice`, once recorded, is not
replaced; `outcome` goes once from `open` to `selected` (of the recorded
choice, and the demand shows a match from the same moment), or to `closed` or
`cancelled` while no choice is recorded. Both implementations map to it. In
`CompleteSelection` the choice is the intent's invitation and the match is the
demand's status; in `SelectionJob` the choice is the recorded `CHOOSE` intent,
and a system close, for which no candidate exists, is an end without a choice.
It leaves open whether a recorded choice is ever carried out, since neither
implementation promises that (findings 2 and 4).

### MatchRun, OneResult

One attempt from its ingestion until its run is settled. `run[r]` and `job[r]`
are the rows of `matching.match_runs` and `matching.match_jobs` with `run_no =
r`; the selection's status and `match_run_id` are written with those of the
attempt in every function, so `attempt` and `currentRun` stand for both.
`frozen[w]` is the receipt of `CLAIM_MATCH_JOB` under the worker's present
claim slot, `pc[w]` where it is in `run_once`, `failures[w]` the count kept by
`run_matching_runtime_loop`.

| Action | Code |
|---|---|
| `ClaimQueued`, `ExhaustClaims`, `RecoverAndRetry`, `RecoverAndGiveUp` | `claim_match_job_v1`: lease a queued run, fail one whose claims are spent, fail one whose worker is gone, with or without a successor |
| `ReplayClaim`, `IdleTick`, `DeliveryTick` | the other ways a tick of `run_once` goes |
| `StartRun`, `StartRefused`, `StartLeaseLost` | `start_match_run_v1`: the receipt first, then the lease |
| `CompleteRun`, `FailAndRetry`, `FailForReview`, `FinishLeaseLost` | `complete_match_run_v1` (with or without the system's close intent), `fail_match_run_v1` |
| `StepFails`, `Crash`, `Restart`, `TimePasses` | a call that fails before it commits, the process, the clock |
| `CloseAttempt` | what ends an attempt from outside, once its run has completed |

Each SQL function locks its rows and is one transaction. Its commit may go
unreported (`acked = FALSE`): the tick raises, the slot is kept, and the next
tick replays the claim receipt. A cycle that raises is counted; after
`MaxFailures` in a row the process ends and the container starts it with a new
slot. A tick that returned may still belong to a cycle that raises, in the
coordinator or a readiness check. A tick that finds a delivery (`DeliveryTick`)
keeps the slot and, when its cycle returns, sets the count back to zero
(`runtime_process.py`, line 175), any number of times. The lease digest is a
function of the slot and a slot makes one fresh claim, so the fence names the
lease. `ripe` says that `available_at` or `lease_until` has passed. `FOR UPDATE
SKIP LOCKED` needs no counterpart, since an attempt has at most one claimable
job and transactions are atomic here. The outbox and audit rows, the manifest,
and the engine are left out; whether any candidate is eligible, and whether the
engine rejects its input, is chosen freely.

`OneResult` is the promise: at most `MaxTries` tries, one result, never taken
back. `MatchRunRefinement` maps the current run to the try and its status, with
the close intent, to the result.

### SelectionJob

One attempt from the completion of its run until its selection has ended, as
the SQL functions of migrations `0003` and `0005` (and `0015` of Demand) do it.
`attempt`, `selection`, `demand`, `invitation[c]` and `selector` are the rows'
statuses; `intent` is the recorded decision with the invitation set it was made
under; `job` is the row of `selection_completion_jobs`, `completed` and
`refused` its receipts. `slot[w]` is the fence frozen under a coordinator's
claim slot, `evidence[w]` its entry in `_trust_by_claim`, `failures[w]` the
count of its loop.

| Action | Code |
|---|---|
| `ClaimReview`, `EndReview`, `CreateInvitation`, `PublishInvitation`, `Invalidate` | a reviewer's assignment and what it allows |
| `Respond`, `Withdraw` | `execute_creator_invitation_v1` |
| `ClaimSelector`, `SelectorLapses`, `ChooseCreator`, `CloseSelection` | `claim_candidate_selector_v1`, `execute_candidate_selection_v1` |
| `ClaimCompletion`, `ExhaustClaims` | `claim_selection_completion_v1` |
| `ObtainEvidence`, `EvidenceAges`, `RefuseTrust`, `RefuseTrustReplayed`, `RefuseTrustRaises` | the coordinator's question to Trust, and `fail_claimed_selection_v1` |
| `CompleteSelection`, `CompletionEndsTick`, `CompletionRaises` | `complete_claimed_selection_v1` with Demand's programs nested in it (`Select`, `CloseWithoutSelection`), and its two refusals |
| `CycleFails`, `Crash`, `TimePasses` | a call that fails before it commits, the process, the clock |

A tick that returns rotates the slot, one that raises keeps it (`TickReturns`,
`TickRaises`); what separates them is which error codes the coordinator
expects. Receipts are looked at before the lease, so a kept slot can meet its
own receipt after the job has moved on. The digest of the invitation set is the
set of those that have been sent, with their statuses. Deadlines of invitations
are left out: an answer may always stay away, which is all they bring about.

### IamSessions

The requests of the identity context that contend for users, session families
and sessions. `user`, `invitation`, `family`, `session` and `auth` are rows;
`lapsed` and `late` the sessions and login transactions whose time is over;
`job[w]` is a request in progress with the rows it has yet to lock (`todo`),
those it holds (`held`) and what it was told at its start.

| Action | Code |
|---|---|
| `BeginLogin`, `BeginStepUp` | a login transaction is opened |
| `StartCallback`, `Claim`, `ProviderError`, `ExchangeFails`, `ExchangeSucceeds` | the callback up to its last transaction (`application/authentication.py`, `oidc_authentication.py`): the compare-and-swap on the transaction, then the provider outside any transaction |
| `FinishLogin`, `FinishStepUp`, `FailCallback` | the finalization (migration `0020` and its successors) |
| `StartRevoke`, `FinishRevoke` | `revoke_owned_session_v1` |
| `StartReplay`, `FindSuccessor`, `FinishReplay` | `revoke_replayed_session_family_v1` |
| `StartAdmin`, `LockFamilies`, `LockSessions`, `FinishAdmin` | suspend, resume and log out a user (migration `0018`) |
| `StartAccept`, `FinishAccept` | an invitation accepted, which rotates the session |
| `Lock`, `Abort`, `Crash` | one `FOR UPDATE`, a deadlock victim or lock timeout, a lost connection |
| `Lapse`, `TransactionLapses` | the clock |

The isolation is READ COMMITTED: a request sees a row as it is when it gets its
lock, so each `Lock` looks at what the code checks in that row. `LockOrder` is
the order in which each kind of request locks tables; they differ, so requests
may wait for each other, and `Abort` is how the database ends that. Writing,
committing and releasing are one step, because nothing a transaction wrote is
seen before. Deadlines of login transactions are compared with the start of the
database transaction, as the code does (`transaction_timestamp()`): the model
looks at them when the request's last transaction starts, which is also when it
locks that row, the first in its order. A login that comes too late stops there
and never locks the user. Whether a session has run out (`lapsed`) is looked at
when its row is locked, in the code as of the transaction's start; no property
depends on the difference, and `AuthorityAtCommit` leaves the clock out.

## 3. Runs

| Run | Instance | States | Shows |
|---|---|---|---|
| `outbox_safety` | 2 workers, 2 events (one refused by the registry), 2 attempts, all faults | 385,776 | type invariant, leases, publication, finality, bound on copies |
| `delivery_pipeline` | 2 workers, 1 event in 1 content, 2 attempts, all faults, 1 consumer, fairness of the workers only | 35,330 | every event is settled whatever the consumers do; the workers may stand for the abstract outbox of `pipeline` |
| `outbox_registry_outage` | 1 worker, 1 event, only the registry fails | - | finding 1 below |
| `pipeline` | 1 event in 3 contents, one with a handler that writes, 2 processes, 3 copies | 3,071 | exactly one effect, no loss, published implies applied unless the handler fails for ever |
| `complete_selection` | 2 creators, 1 invitation each, 3 calls | 110,960 | all or nothing, truth of answers, the one decision is implemented |
| `choose_after_close` | 1 creator, 2 rounds, 1 call | - | finding 2 below |
| `match_run` | 2 workers, 2 runs, 2 claims, 2 failures in a row, any number of deliveries, fairness | 21,140 | one chain of runs, run and job agree, one holder, review last, settling unless deliveries reset the counts for ever, the abstract attempt is implemented |
| `match_run_replay` | 1 worker, the code's own 3 runs, 3 claims, 5 failures | - | finding 3 below |
| `selection_job` | 2 creators, 2 coordinators, 2 claims, 2 failures in a row, fairness | 95,264 | both contexts end alike and as decided, the decision and the chosen creator stay, fences exclude, the job and the slots end, the one decision is implemented |
| `selection_stuck` | 2 creators, 1 coordinator, the code's own 3 claims and 5 failures | - | finding 4 below |
| `iam_sessions` | 1 administrator, 1 invited user, 1 login transaction, 2 requests at a time, 2 generations, 1 session that runs out; requests are interchangeable (symmetry) | 778,388 | one live session per family, none of a suspended user, one login per callback, nothing committed for a revoked session |
| `iam_replay` | 1 user, 1 login transaction, 1 request at a time | - | finding 5 below |

Why these bounds. Interference on an outbox row needs a holder and a
challenger, hence two workers; two events are the least that make a batch with
a lease not yet started, and two attempts reach retry, exhaustion and a second
claim by the same worker, which is the case the fence on `attempt_count` is
for. One tick of slack separates "over for the database" from "over for the
worker". For the inbox, rows of different events are independent, since every
statement names one event; two processes make the lock wait, two bodies a
collision, a third one a handler that writes, three copies a duplicate and a
redelivery. With the real workers in front (`delivery_pipeline`) one content
and one process are enough, because what consumers do to each other is the
question of `pipeline`; the question here is whether each step of the workers
is one the abstract outbox allows, and two workers with two attempts make every
such step, late publishes included. For the selection, two creators are the
least with an answer to an invitation that is not the chosen one; three calls
let one commit, one lose a conflict and one replay. With `Rounds = 2` and two
creators the state space is out of reach for a short run; a second round to one
creator is covered by `choose_after_close`. For the match run, two workers are
a holder and a challenger; two runs are one that may be retried and one that
may not; two claims one that may be repeated and one that may not; two failures
let one pass and one end the process. A third run makes the liveness check too
long for a short run; the safety properties are proved for any bounds. For the
selection job, two creators are one who is chosen and one who may still answer,
two coordinators a holder and a late one, two claims one that may be repeated
and the last one. The code's bounds (3 claims, 5 failures) give more of the
same steps; the safety properties are proved for any bounds. For the sessions,
an administrator and a user who accepts an invitation give every kind of
request; two at a time are enough for two transactions to cross, and a third
adds only who waits; two generations make a rotation and its replayed
predecessor. Two administrators who suspend each other are beyond a short run;
that one of them remains (`AdminRemains`) is proved, and was checked once with
two administrators and one generation. `CHECK_DEADLOCK FALSE` is set for
`pipeline`, `delivery_pipeline`, `CompleteSelection` and `IamSessions`: once
all copies are used up, every call is answered and every deadline past, or
every login transaction and generation is used up, nothing is left to do.

Every property has a mutant in `PROJECT.json`: a variant of one definition with
a plausible bug (`FenceByStatus`, `LostCommitIsSuccess`, ...), written beside
the definition it would replace, under which the run fails.

### Fairness

Outbox (`Fairness`): weak fairness of `Tick` (clocks run), of a worker's steps
within a cycle and of its restart by the supervisor. `deliver_once` is called
in a loop, so a worker that can start a sweep again and again does so: strong
fairness of `SweepExhausted(w)`, because faults interrupt it in between. A row
that is again and again eligible is at some time not locked by another
transaction and its claim or sweep commits: strong fairness per event. Nothing
is assumed of the faults, which may recur for ever; what ends them is the
attempt budget. Pipeline: strong fairness of the delivery of each event and of
a process's insert and commit, that is, the broker redelivers and the database
is not lost at every single try; weak fairness of the ack and of `HandlerEnds`.
Of the handler this assumes that it returns or raises, not that it ever
returns; that it does not fail for ever is a hypothesis of
`PublishedIsApplied`, stated in the property, and false of a handler that
writes. The outbox need not be fair. `delivery_pipeline` takes the other half:
the workers are fair as above, and the consumers may stop at any time.

Match run (`FairSpec`): weak fairness of a worker's ticks (its loop keeps
calling `run_once`), of the restart of a stopped container (`compose.yaml`,
`restart: unless-stopped`) and of time; strong fairness of `Claim(w)`: the
database is not lost for ever, so a claim that can succeed again and again some
day commits. Nothing is assumed of the calls after the claim, which may fail
each time; what ends them is the number of claims and of runs, and for a worker
at one claim its failure count. Deliveries are not bounded, and a delivery now
and then keeps that count from ever reaching its limit. So `SlotFreed` and
`Settles` carry a hypothesis, `CountsOn(w)`: from some time on no delivery
falls between the failures of worker `w` with one frozen claim. `SlotFreed`
asks it of the worker whose slot is meant, `Settles` of one worker, any.
Without it both fail: a worker whose start is refused replays its claim, gets a
delivery, replays, and so on. Weak fairness of a tick also says that a worker
which finds deliveries gets past them now and then; a tick that finds a
delivery never reaches the claim (`operational_runtime.py`, line 2427), so a
supply that is never exhausted would starve it.

Selection job (`Fairness`): weak fairness of each coordinator's claim and of
the execution of a claim it has (its loop keeps ticking, and a container that
stopped is started again), and of time. Nothing is assumed of reviewers,
creators, selectors, of Trust's answers or of a commit being reported; the
number of claims ends what they can prolong, and the number of failures in a
row ends a slot. The worker's tick comes first in each cycle, so this presumes
that it does not raise in every cycle.

Sessions: none, and no liveness is claimed. A request that dies is not repeated
by the program, and a login transaction it leaves `EXCHANGING` stays so.

## 4. Proofs

`OutboxDeliveryProofs`, for any finite or infinite sets of events and workers,
any attempt budget, batch size, lease duration and slack allowed by
`OutboxAssumption` (positive budget, batch and lease, non-negative slack, and
`NoWorker`, `NoLease` distinct from what they stand in for):

| Theorem | States |
|---|---|
| `TypeCorrect` | `Spec => []TypeOK` |
| `LeaseHeldUntilExpiry` | `Spec => []HeldUntilExpiry` |
| `LeasesExclude` | `Spec => []OneRunningLease` |
| `PublishedAccepted` | `Spec => []PublishedWasAccepted` |
| `TerminalForever` | `Spec => TerminalStable` |
| `PublishedOnItsOwnAck` | `Spec => AckedThisAttempt` |
| `Refinement` | `Spec` implements `AtLeastOnce` |

The argument. `HeldUntilExpiry` is not inductive: whether a step may take a row
away from a worker depends on how the deadline in the row relates to the one
in the worker's memory, and on which tokens can still turn up. The inductive
invariant is `IInv == TypeOK /\ Shape /\ Running /\ PublishedWasAccepted`.
`Shape` says what each program counter implies about the worker's memory (an
idle worker holds nothing, a held lease carries a token that has been issued,
an acknowledgement in hand means a copy at the broker). `Running` is
`HeldUntilExpiry` with the deadlines added: while a lease runs, the row's
deadline is the worker's. Then a claim or sweep, which needs a deadline that
has passed, can only hit rows nobody holds with time left; a settlement
compares owner, token and attempt, and so hits only the worker's own. Each
action has its lemma; `OneWorkerStep`, `SameRowsStep` and `OneRowStep` carry
what is common to actions that touch one worker or one row. The two action
properties follow from `EachRowStep`, which lists all that a step can do to a
row, and the refinement from the same list.

`DeliveryPipelineProofs`, under the same assumptions, for any contents and
processes:

| Theorem | States |
|---|---|
| `PipelineRefinement` | `PipelineSpec => ImplementsPipeline` |
| `Delivered` | `PipelineSpec => []EndToEnd` |

A step that makes a copy has to be an `Offer` of the abstract composition,
which allows no more than `MaxAttempts` of them. Only a worker that is about to
offer the event takes such a step (`CopyStep`), and the invariant `Spending` of
`OutboxCopiesProofs` counts this worker on top of the copies there are, so
there is room for one. All other steps of the workers map as in
`OutboxDeliveryProofs`, those of the consumers to themselves. `Delivered` is
then not proved again: the theorems of `OutboxPipelineProofs` are taken for the
instance (`INSTANCE ... WITH`) and read back through the mapping.

`OutboxPipelineProofs`, for any sets of events, contents and processes and any
bound on copies:

| Theorem | States |
|---|---|
| `EffectOnce` | `Spec => []AppliedOnce` |
| `AckAfterCommit` | `Spec => []AckedWasApplied` |
| `NothingPublishedIsLost` | `Spec => []PublishedNotLost` |

The strengthening says what each statement of `process()` has made sure of for
the next one (`Progress`): a process that has inserted a row finds none
committed, one that met a duplicate, or is about to ack, finds its own content
committed; and at most one open transaction inserts a given event's row
(`OneInserts`, from the wait in `Insert`). Then the one writing step,
`CommitInsertStep`, cannot disturb anybody: whoever relies on the row being
there, or absent, is not at this event. `PublishedNotLost` is strengthened from
published to accepted events.

`CompleteSelectionProofs`, for any creators, number of rounds and set of calls:

| Theorem | States |
|---|---|
| `TypeCorrect` | `Spec => []TypeOK` |
| `DecidedTogether` | `Spec => []ChainWhole` |
| `ReportedIsThere` | `Spec => []SuccessIsDurable` |
| `RefusedIsNotThere` | `Spec => []RefusalIsFinal` |
| `MadeAsShown` | `Spec => []ChosenAsShown` |
| `DecidedForever` | `Spec => DecisionFinal` |
| `Refinement` | `Spec => ImplementsDecision` |
| `ChoicePlaced` | `Spec => []IntentPlaced` |
| `OvertakenForGood` | `Spec => [][ChoiceOvertaken => ChoiceOvertaken']_vars` |

The invariant has a part about the rows (`WholeRows`: while there is no project
nothing says that the choice was made; once there is one, the whole chain is as
the intent describes it) and a part about each call (`CallKnows`: its snapshot
shows no project or the one that exists; a call about to write has a snapshot
in which nothing is decided and which matches the intent; the project's own
call has been answered truthfully or is still to find out). The deadlines are
left out of it, since they may pass after they were looked at. The commit takes
place on a snapshot that is the database itself, so `CompletedRows` applies
what was validated to what is written. The same invariant makes that commit the
one step `CarryOut` of `OneDecision`: selection, demand and project change
together, of a selection that was open, to the recorded choice.

The last two say what cannot be repaired. A choice is bound to the version the
selection had; versions only grow and closed or cancelled rows stay so
(`Advances`), and since the bound version is never ahead (`ChoicePlaced`), a
choice whose rows have moved on is overtaken in every later state: no call
carries it out, and the recorded intent keeps anybody from choosing again. This
covers a choice recorded of a closed selection (finding 2) and one overtaken by
an answer or a new invitation (section 5, first remark).

`MatchRunProofs`, for any set of workers and any positive number of runs,
claims and failures:

| Theorem | States |
|---|---|
| `TypeCorrect` | `Spec => []TypeOK` |
| `ChainOfRuns` | `Spec => []OneLiveRun` |
| `RunAndJobAgree` | `Spec => []JobMirrorsRun` |
| `LeaseExcludes` | `Spec => []OneHolder` |
| `ReviewIsLast` | `Spec => []ReviewOnlyWhenSpent` |
| `Refinement` | `Spec => ImplementsOneResult` |

The invariant `IInv == Rows /\ Slots` has a part about the tables and a part
about the workers' memory. `Rows` says of each run that its job fits it and
that it has its place in the chain. `Slots` says that a frozen claim was issued
by its job, with a fence not above the job's, and that no two workers hold the
same pair of run and fence. `OneHolder` is not inductive without the latter:
what keeps a new claim apart from the old ones is that it is given a fence
above all that were issued. No action lowers a fence, so `Slots` needs nothing
else of the tables. The refinement follows from the chain: only the current run
is live, hence an action that ends a run is either `Retry` (the current run
moves on) or `Decide` (it stays, and is settled), and an overtaken worker fails
`HoldsRun`.

`OutboxCopiesProofs`, under the same assumption as `OutboxDeliveryProofs`:

| Theorem | States |
|---|---|
| `DuplicatesBounded` | `Spec => []CopiesWithinAttempts` |

An attempt is counted when a row is claimed and its copy reaches the broker
later, so the bound is not inductive: the workers that are yet to offer the
event have to be counted with the copies (`Budget`), and each of them offers it
once (`Single`). The set `Offering(e)` is finite because it never outgrows the
attempts; the lemmas on cardinality are the library's.

`SelectionJobProofs`, for any creators, coordinators and positive bounds:

| Theorem | States |
|---|---|
| `TypeCorrect` | `Spec => []TypeOK` |
| `OutcomeAsDecided` | `Spec => []DecidedTogether` |
| `DecisionStands` | `Spec => []DecisionNotCancelled` |
| `ChosenBound` | `Spec => []ChosenStaysAccepted` |
| `FenceExcludes` | `Spec => []OneFencePerClaim` |
| `FailsLast` | `Spec => []FailedWhenSpent` |
| `OutcomeStays` | `Spec => OutcomeFinal` |
| `Refinement` | `Spec => ImplementsDecision` |
| `OnlyAnswers` | `Spec => []OnlyAnswersSince` |
| `StuckForGood` | `Spec => [][ChoiceStuck => ChoiceStuck']_vars` |
| `BlockedForGood` | `Spec => [][SystemCloseBlocked => SystemCloseBlocked' \/ selection' = "CANCELLED"]_vars` |

`IInv == Decision /\ Job /\ Slots`. `Decision` adds to the properties that
there is a job exactly when there is a decision: a second decision would need a
job that is not there. `Job` adds that an available job has a claim left;
`Slots` that no slot holds a fence above the job's, which is what keeps a new
claim apart from all that are still held. An outcome is final because a
completion needs an open selection, whoever carries it out and however late.

The last three theorems are about what the program does *not* recover from, and
make finding 4 exact. `OnlyAnswers`: between a choice and its completion the
invitations change in one way only, an open one is answered. An answer is never
taken back and no new invitation is sent under a recorded choice, so a digest
that has once moved away does not return (`AnswersStep`, `StuckStep`), and the
choice is stuck in every later state: no fairness and no retry helps. The
second case is a system close whose selector has opted in (section 5, third
remark); only an invalidation of the attempt ends it.

`IamSessionsProofs`, for any users, administrators, login transactions,
requests at work, generations and sessions that run out, where users and login
transactions are named by distinct positive numbers:

| Theorem | States |
|---|---|
| `TypeCorrect` | `Spec => []TypeOK` |
| `LocksExclusive` | `Spec => []Exclusive`: no row is locked twice |
| `OneLive` | `Spec => []OneLiveSession` |
| `SuspendedOut` | `Spec => []SuspendedLockedOut` |
| `OneLogin` | `Spec => []OneLoginPerCallback` |
| `AdministratorRemains` | `Spec => []AdminRemains` |
| `Authority` | `Spec => AuthorityAtCommit` |
| `NoRevival` | `Spec => NothingRevives` |
| `AbandonedForGood` | `Spec => [][\A t \in Transactions : Abandoned(t) => Abandoned(t)']_vars` |
| `Deadlocks` | `Spec => []DeadlocksKnown` |

The properties speak of rows only, and the rows are written on the strength of
what a request saw some steps before. The invariant
`IInv == TypeOK /\ Requests /\ Accounts /\ Logins` says why that is still true:
a request holds the lock of every row it relies on or is about to write
(`RowsOK`), what it saw in a locked row holds (`FactsOK`), and no two hold one
row (`Exclusive`). A commit writes only rows the request has locked, hence it
leaves the facts of all others alone, whatever order each of them locks in. The
last administrator is safe because a suspension looks at the administrators
under the platform lock, which only administrators take and keep. `Accounts`
and `Logins` are the properties with what they need of unborn rows: a family
that does not exist yet belongs to a login that has not succeeded.

`NothingRevives` relates each state to the next: what has ended (a session, a
family, an accepted invitation, a login transaction with its result) is not
written again. The writes are unconditional in some places (`FinishReplay` does
not look at the session's status again), so it needs to be known that the
session a replayed handle led to is still live when its turn comes
(`ReplayTargets`). It is, because a session ends only under the lock of its
family (`Kept`), which the replay has held since it looked.

`AbandonedForGood` makes the last remark of section 5 exact: a login
transaction that is `EXCHANGING` while no request works on it stays so. A
redelivered callback only claims `PENDING` ones, and every other write of a
login transaction belongs to the request that claimed it.

`DeadlocksKnown` is about the locks themselves. The kinds of requests lock the
same tables in different orders. `Crosses` names the seven pairs of kinds whose
orders conflict, and the theorem says that two requests which wait for each
other are always such a pair; two of one kind never are, which is what the
sorting of identifiers within a table is for. The step-up is the odd one out:
it locks the session before the family and crosses with everything that locks
both. The invariant (`Ordered`) is that a request has locked nothing that comes
after what it has yet to lock. An administrator's request breaks it by design:
it goes back to families and sessions with the user's row locked. There the
proof uses what else it holds: two administrators exclude each other by the
platform's lock, a login wants no family, and a replay that waits for the
administrator's own session would already hold the family that the
administrator holds (`LateAdmin`). The seven pairs are not an overestimate: TLC
reaches a mutual wait for each of them, with two administrators of whom one was
invited, one login transaction, two requests and three generations. Cycles of
three or more requests are not covered by the theorem.

Only model-checked are the liveness properties, `EventuallySettled`,
`PublishedIsApplied`, `Settles`, `SlotFreed`, `JobSettles` and `SlotGivenUp`:
liveness under fairness is out of the prover's reach. Every safety property of
the passing runs is proved. Proved without a run of their own are the theorems
that go beyond them: `OneRunningLease`, `ImplementsAtLeastOnce`,
`DecisionFinal`, `OutcomeFinal` (which the refinements of `delivery_pipeline`,
`complete_selection` and `selection_job` sharpen), `EndToEnd`,
`OnlyAnswersSince`, `IntentPlaced`, the three about stuck decisions, the one
about abandoned logins, `AdminRemains`, `NothingRevives` and `DeadlocksKnown`.
Each was checked with TLC on the instance of its module's run or one of similar
size before it was proved. The findings are counterexamples, of which there is
nothing to prove.

## 5. Findings

1. `outbox_registry_outage`. `docs/architecture/outbox-delivery.md` (line 61)
   wants claims paused while the schema registry is down, so that legal events
   are not marked dead. The code counts an attempt at the claim and leaves the
   batch leased when `validate` cannot answer, after the readiness probe has
   passed; after `max_attempts` such cycles the sweep dead-letters the rows
   without one publish. `ExhaustedWasOffered` fails.
2. `choose_after_close`. `docs/architecture/matching-invitation-selection.md`
   (lines 384, 466) says a choice is recorded of an OPEN selection.
   `_choose_creator` checks version, set, invitation and run but not the
   selection's status, and closing leaves accepted invitations accepted, so a
   choice can be recorded of a closed selection; no completion can use it. The
   SQL function `execute_candidate_selection_v1` does require OPEN.
   `IntentOfOpenSelection` fails.
3. `match_run_replay`. The worker (`operational_runtime.py`, line 2476) keeps its
   claim slot after every failure but a lost lease, "for safe replay". Once the
   start has committed the replay is not served: the demand is captured again,
   the new capture has another `captured_at`, the capture's digest is part of
   the payload bound to the START receipt, and so the receipt answers
   `IDEMPOTENCY_KEY_REUSED`, before the lease is looked at. The worker repeats
   this until its failures end the process; a later claim finds the lease
   expired and uses up a run. `ReplayServed` fails.

4. `selection_stuck`. Migration `0003` (line 3351) says that a recorded decision
   is durable coordinator work. A creator may answer an invitation after another
   one was chosen (line 2882); that changes the digest of the invitation set,
   the choice is bound to the old one, and every completion raises
   `SELECTION_NOT_READY` from then on. The claims are spent, the job fails as
   `LEASE_EXHAUSTED`, and the selection stays open for good: choosing, closing,
   a new selector and the invalidation all stop at the recorded decision.
   `ChoiceStaysCompletable` fails.
5. `iam_replay`. `docs/architecture/iam-authority-lifecycle.md` (lines 148, 154)
   says that a session may be revoked while its family stays active, and that a
   revoked handle presented again then revokes the family.
   `revoke_replayed_session_family_v1` (migration `0024`, line 498) looks for the
   active session of the current generation and raises when there is none: after
   a step-up and a logout the old handle gets `SERVICE_UNAVAILABLE`, the family
   stays active and the replay is not recorded. `SuccessorFound` fails.

Seen while modelling, where no line of the repository is contradicted:

* in `matching/application/handlers.py` too, answering another invitation after
  a choice is recorded moves the version the choice is bound to (line 850);
* an invitation that expired unanswered stays `SENT`, because nothing calls
  `Invitation.expire`, and blocks closing (line 1249);
* a selector who opts in while the system close is queued makes it
  `SELECTION_NOT_READY` (migration `0003`, line 7710);
* a run that failed for good is reviewed under `MATCH_RETRY` (line 8369), which
  `invalidate_matching_attempt_v1` does not accept as a purpose;
* a step-up whose session ends while the provider answers leaves its login
  transaction `EXCHANGING`;
* the transaction the inbox hands to a handler takes no statement
  (`outbox/postgres.py`, line 608): as it stands, a handler that writes is nacked
  for ever. `docs/architecture/outbox-delivery.md` (line 354) wants handlers to
  write through it, and line 249 leaves concrete projections to later work;
* a delivery now and then keeps a worker replaying a refused claim for ever
  (`runtime_process.py`, line 175). With every worker in that state nobody
  recovers the expired lease, and the attempt's run is never settled.

## 6. Not modelled, and the plan

1. *Done*: OutboxDelivery with AtLeastOnce; safety, bound on copies and
   refinement proved.
2. *Done*: ConsumerInbox and OutboxPipeline, their safety proved;
   DeliveryPipeline, which implements it, proved.
3. *Done*: CompleteSelection, its safety and the refinement of OneDecision proved.
4. *Done*: MatchRun with OneResult, its safety and refinement proved.
5. *Done*: SelectionJob, its safety, the refinement of OneDecision and the
   permanence of its stuck states proved.
6. *Done*: IamSessions, its safety and its possible deadlocks proved.

What would come next, in this order: the ingestion of demand deliveries in
front of `MatchRun`; the demand's own lifecycle with idempotent receipts and
the two confirmations of finance; grants of duties and organization
administrators; the MVP's legacy migration.

Parts of modelled components that are left out:

* Matching runtime: ingestion and acknowledgement of demand deliveries,
  readiness probes, the contents of evidence captures and manifests, reading
  projections;
* identity: the step-ups of enrollment and of invitations, duty grants,
  organization administrators, issuing and withdrawing invitations, idempotency
  receipts and `If-Match`, the age of an administrator's second factor, the
  extension of the idle expiry, CSRF and cookies. Row locks are modelled for the
  sessions only; the other models take each SQL function as one atomic step, and
  a deadlock victim there is a call that failed before its commit.

Components that are not modelled:

* the ranking engine: a pure function without state, within reach of its unit
  tests; the models choose freely whether anybody is eligible;
* trust and safety: sixteen handlers on one case row each. What matching uses of
  it, an answer that refuses or grows stale, is in `SelectionJob`;
* policies and consent, creator profile, taxonomy, finance funding: commands on
  single rows guarded by a version;
* the MVP's legacy migration (`mvp/src/desire_mvp/migrations.py`): plan, backup
  with manifest, one transaction, a check after it. Its hazards: the backup's
  name comes from the plan's id and must be free, so after a migration that
  failed later, or a crash, a retry of the same plan into the same directory
  answers `BACKUP_FAILED` (line 653); a crash in the middle of a backup leaves a
  file without a manifest; a writer between the commit and the check after it
  turns a good migration into `MIGRATION_RECOVERY_REQUIRED`; and the backup, its
  manifest and their directory have to be synced before the commit. It is run
  once by one operator, and no module covers it;
* HTTP, composition, configuration and deployment (transport and wiring), the
  synthetic local stack, the browser clients, and the editor and pilot
  projections, which keep no state beyond the contexts above. They are
  the larger part of the repository's lines.
