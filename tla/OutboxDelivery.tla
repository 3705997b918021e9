---------------------------- MODULE OutboxDelivery ----------------------------
(***************************************************************************)
(* The outbox delivery worker (outbox/delivery.py) over the Postgres       *)
(* outbox table (outbox/postgres.py).  Workers claim batches of rows under *)
(* a lease, offer each event to the broker outside any transaction, and    *)
(* settle the row in a second, fenced transaction.                         *)
(*                                                                         *)
(* Time.  A deadline is kept as the ticks left until it: row[e].due is     *)
(* available_at (PENDING) or lease_until (LEASED) minus the database       *)
(* clock, and Tick counts it down.  transaction_timestamp() is read at     *)
(* BEGIN, so a statement sees the clock up to Slack ticks late; a worker's *)
(* own clock is up to Slack ticks off either way.  Deadlines further past  *)
(* than Slack cannot be told apart, so the countdown stops at -Slack.      *)
(***************************************************************************)
EXTENDS Integers, FiniteSets

CONSTANTS Events,         \* outbox rows, all inserted by committed commands
          Workers,        \* delivery tasks, each with its own worker id
          Rejected,       \* events the schema registry refuses
          MaxAttempts,    \* max_attempts of every worker
          BatchSize,      \* LIMIT of the claim statement
          LeaseDuration,  \* lease_duration, in ticks
          Slack,          \* bound on transaction age and on worker clock skew
          Faults,         \* the faults the environment may show
          NoWorker,       \* lease_owner IS NULL
          NoLease         \* no lease is being delivered

FaultKinds == {"crash", "registry", "storage", "broker", "shutdown"}

ASSUME OutboxAssumption ==
  /\ Rejected \subseteq Events
  /\ MaxAttempts \in Nat \ {0}
  /\ BatchSize \in Nat \ {0}
  /\ LeaseDuration \in Nat \ {0}
  /\ Slack \in Nat
  /\ Faults \subseteq FaultKinds
  /\ NoWorker \notin Workers
  /\ NoLease \notin [event : Events, attempt : Nat]

VARIABLES row,     \* infra.outbox_events: transport columns of each event
          claims,  \* claim batches so far; the latest is the last lease token
          worker,  \* each task's memory during deliver_once
          copies   \* messages the broker has accepted, per event

vars == <<row, claims, worker, copies>>

Statuses == {"PENDING", "LEASED", "PUBLISHED", "DEAD"}
Terminal == {"PUBLISHED", "DEAD"}
-----------------------------------------------------------------------------
(* Rows.  The retry codes of a PENDING row are left out; those of a DEAD one *)
(* say whether the registry refused the event or its attempts ran out.       *)

Row == [status : Statuses, attempts : 0..MaxAttempts, due : Int,
        owner : Workers \cup {NoWorker}, token : Nat,
        code : {"NONE", "REJECTED", "EXHAUSTED"}]

Unleased(r, status, due, code) ==
  [r EXCEPT !.status = status, !.due = due, !.owner = NoWorker,
            !.token = 0, !.code = code]

LeasedUncounted(r, w, token, due) ==
  [r EXCEPT !.status = "LEASED", !.due = due, !.owner = w, !.token = token]

Leased(r, w, token, due) ==
  [r EXCEPT !.status = "LEASED", !.attempts = @ + 1, !.due = due,
            !.owner = w, !.token = token, !.code = "NONE"]

\* Variants with a plausible bug, each named for it; no other definition uses them.
EligibleBeforeExpiry(e, lag) == row[e].status \in {"PENDING", "LEASED"}
EligibleWhenDead(e, lag) == row[e].status # "PUBLISHED" /\ row[e].due <= -lag
EligiblePendingOnly(e, lag) == row[e].status = "PENDING" /\ row[e].due <= -lag

\* due PENDING row or expired lease, seen by a transaction begun lag ticks ago
Eligible(e, lag) ==
  /\ row[e].status \in {"PENDING", "LEASED"}
  /\ row[e].due <= -lag

MayClaimOnceMore(e, lag) == row[e].attempts <= MaxAttempts /\ Eligible(e, lag)
MayClaim(e, lag) == row[e].attempts < MaxAttempts /\ Eligible(e, lag)
MaySweep(e, lag) == row[e].attempts >= MaxAttempts /\ Eligible(e, lag)

\* _retry_or_dead: min(2^(n-1), 300) seconds, plus at most a fifth of jitter
RawDelay(n) == IF n > 9 THEN 300 ELSE 2 ^ (n - 1)
BackoffDelays(n) ==
  {d \in 1..360 : RawDelay(n) <= d /\ 10 * d <= 12 * RawDelay(n)}
-----------------------------------------------------------------------------
(* Workers.  All leases of a batch share one token and one deadline; todo    *)
(* holds those not started, cur the one being delivered.                     *)

Lease == [event : Events, attempt : Nat]

Worker == [pc : {"idle", "claim", "loop", "publish", "settle", "release"},
           token : Nat, left : Int, todo : SUBSET Lease,
           cur : Lease \cup {NoLease},
           verdict : {"none", "ack", "fail", "reject"}, stopping : BOOLEAN]

Idle(stopping) ==
  [pc |-> "idle", token |-> 0, left |-> 0, todo |-> {}, cur |-> NoLease,
   verdict |-> "none", stopping |-> stopping]

\* the head of the for loop, or the end of the cycle
Continue(w, todo) ==
  IF todo = {} THEN Idle(worker[w].stopping)
  ELSE [worker[w] EXCEPT !.pc = "loop", !.todo = todo, !.cur = NoLease,
                         !.verdict = "none"]

FenceByStatus(w, l, lag) ==
  row[l.event].status = "LEASED" /\ row[l.event].due > -lag

\* the WHERE clause every settling statement shares
Fence(w, l, lag) ==
  LET r == row[l.event] IN
  /\ r.status = "LEASED"
  /\ r.owner = w
  /\ r.token = worker[w].token
  /\ r.attempts = l.attempt
  /\ r.due = worker[w].left
  /\ r.due > -lag
-----------------------------------------------------------------------------
Init ==
  /\ row = [e \in Events |->
              [status |-> "PENDING", attempts |-> 0, due |-> 0,
               owner |-> NoWorker, token |-> 0, code |-> "NONE"]]
  /\ claims = 0
  /\ worker = [w \in Workers |-> Idle(FALSE)]
  /\ copies = [e \in Events |-> 0]

(* deliver_once opens with the sweep of exhausted rows.  SKIP LOCKED leaves  *)
(* out the rows another transaction holds, so any subset may be swept.  When *)
(* the commit's outcome is unknown the rows are dead and the cycle is over.  *)
SweepExhausted(w) ==
  /\ worker[w].pc = "idle"
  /\ ~worker[w].stopping
  /\ \E lag \in 0..Slack :
       \E dead \in SUBSET {e \in Events : MaySweep(e, lag)} :
         row' = [e \in Events |->
                   IF e \in dead THEN Unleased(row[e], "DEAD", 0, "EXHAUSTED")
                   ELSE row[e]]
  /\ \/ worker' = [worker EXCEPT ![w].pc = "claim"]
     \/ "storage" \in Faults /\ UNCHANGED worker
  /\ UNCHANGED <<claims, copies>>

(* The claim: the oldest eligible rows that nobody has locked, so any set of *)
(* at most BatchSize.  There is no look at the stop signal since the sweep.  *)
(* Outcome unknown: the rows are leased to a worker that dropped them.       *)
ClaimBatch(w) ==
  /\ worker[w].pc = "claim"
  /\ \E lag \in 0..Slack :
       \E S \in SUBSET {e \in Events : MayClaim(e, lag)} :
         /\ Cardinality(S) <= BatchSize
         /\ row' = [e \in Events |->
                      IF e \in S
                      THEN Leased(row[e], w, claims + 1, LeaseDuration - lag)
                      ELSE row[e]]
         /\ claims' = IF S = {} THEN claims ELSE claims + 1
         /\ \/ /\ S # {}
               /\ worker' = [worker EXCEPT ![w] =
                    [@ EXCEPT !.pc = "loop", !.token = claims + 1,
                              !.left = LeaseDuration - lag,
                              !.todo = {[event |-> e,
                                         attempt |-> row[e].attempts + 1] :
                                        e \in S}]]
            \/ /\ S = {} \/ "storage" \in Faults
               /\ worker' = [worker EXCEPT ![w] = Idle(@.stopping)]
  /\ UNCHANGED copies

(* One turn of the loop up to the broker call: a lease that the worker's own *)
(* clock calls over is dropped, an event the registry refuses goes straight  *)
(* to the dead-letter update, any other is about to be published.            *)
StartLease(w) ==
  /\ worker[w].pc = "loop"
  /\ ~worker[w].stopping
  /\ \E l \in worker[w].todo, skew \in -Slack..Slack :
       worker' = [worker EXCEPT ![w] =
         IF worker[w].left <= skew THEN Continue(w, worker[w].todo \ {l})
         ELSE [worker[w] EXCEPT
                 !.pc = IF l.event \in Rejected THEN "settle" ELSE "publish",
                 !.verdict = IF l.event \in Rejected THEN "reject" ELSE "none",
                 !.cur = l, !.todo = worker[w].todo \ {l}]]
  /\ UNCHANGED <<row, claims, copies>>

\* the registry cannot answer: the cycle raises and its leases run out
RegistryUnavailable(w) ==
  /\ "registry" \in Faults
  /\ worker[w].pc = "loop"
  /\ ~worker[w].stopping
  /\ worker[w].left > -Slack
  /\ worker' = [worker EXCEPT ![w] = Idle(FALSE)]
  /\ UNCHANGED <<row, claims, copies>>

(* The broker call: acknowledged; refused (BROKER_UNAVAILABLE); or no usable *)
(* answer (BROKER_ACK_UNKNOWN), the message accepted or not.                 *)
Publish(w) ==
  /\ worker[w].pc = "publish"
  /\ LET e == worker[w].cur.event IN
     \/ /\ copies' = [copies EXCEPT ![e] = @ + 1]
        /\ worker' = [worker EXCEPT ![w].pc = "settle", ![w].verdict = "ack"]
     \/ /\ "broker" \in Faults
        /\ \/ copies' = [copies EXCEPT ![e] = @ + 1]
           \/ UNCHANGED copies
        /\ worker' = [worker EXCEPT ![w].pc = "settle", ![w].verdict = "fail"]
  /\ UNCHANGED <<row, claims>>

SettledRowUnknownIsAck(w, lag, delay) ==
  LET r == row[worker[w].cur.event] IN
  IF worker[w].verdict = "reject" THEN Unleased(r, "DEAD", 0, "REJECTED")
  ELSE Unleased(r, "PUBLISHED", 0, "NONE")

\* mark_published, mark_dead or reschedule, by a transaction lag ticks old
SettledRow(w, lag, delay) ==
  LET l == worker[w].cur
      r == row[l.event]
  IN CASE worker[w].verdict = "ack"    -> Unleased(r, "PUBLISHED", 0, "NONE")
       [] worker[w].verdict = "reject" -> Unleased(r, "DEAD", 0, "REJECTED")
       [] OTHER -> IF l.attempt >= MaxAttempts
                   THEN Unleased(r, "DEAD", 0, "EXHAUSTED")
                   ELSE Unleased(r, "PENDING", delay - lag, "NONE")

(* The settling transaction.  A false fence is a stale lease: nothing is     *)
(* written and the loop goes on.  Outcome unknown: written or not, the cycle *)
(* ends and the rest of the batch is left to expire.                         *)
Settle(w) ==
  /\ worker[w].pc = "settle"
  /\ \E lag \in 0..Slack, delay \in BackoffDelays(worker[w].cur.attempt) :
       LET l == worker[w].cur
           settled == IF Fence(w, l, lag)
                      THEN [row EXCEPT ![l.event] = SettledRow(w, lag, delay)]
                      ELSE row
       IN \/ /\ row' = settled
             /\ worker' = [worker EXCEPT ![w] = Continue(w, worker[w].todo)]
          \/ /\ "storage" \in Faults
             /\ row' \in {row, settled}
             /\ worker' = [worker EXCEPT ![w] = Idle(@.stopping)]
  /\ UNCHANGED <<claims, copies>>

\* the loop sees the stop signal before its next lease
SeeStop(w) ==
  /\ worker[w].pc = "loop"
  /\ worker[w].stopping
  /\ worker' = [worker EXCEPT ![w].pc = "release"]
  /\ UNCHANGED <<row, claims, copies>>

(* release_unstarted, one lease at a time and best effort.  The row is due   *)
(* at once, and the attempt the claim counted stays counted.                 *)
ReleaseUnstarted(w) ==
  /\ worker[w].pc = "release"
  /\ \E l \in worker[w].todo, lag \in 0..Slack :
       /\ \/ /\ Fence(w, l, lag)
             /\ row' = [row EXCEPT ![l.event] =
                          Unleased(@, "PENDING", -lag, "NONE")]
          \/ /\ ~Fence(w, l, lag) \/ "storage" \in Faults
             /\ UNCHANGED row
       /\ LET rest == worker[w].todo \ {l} IN
          worker' = [worker EXCEPT ![w] =
            IF rest = {} THEN Idle(TRUE) ELSE [@ EXCEPT !.todo = rest]]
  /\ UNCHANGED <<claims, copies>>
-----------------------------------------------------------------------------
(* The environment.                                                          *)

\* a process dies anywhere in a cycle; its replacement starts afresh
Crash(w) ==
  /\ "crash" \in Faults
  /\ worker[w].pc # "idle"
  /\ worker' = [worker EXCEPT ![w] = Idle(FALSE)]
  /\ UNCHANGED <<row, claims, copies>>

RequestStop(w) ==
  /\ "shutdown" \in Faults
  /\ ~worker[w].stopping
  /\ worker' = [worker EXCEPT ![w].stopping = TRUE]
  /\ UNCHANGED <<row, claims, copies>>

Restart(w) ==
  /\ worker[w].pc = "idle"
  /\ worker[w].stopping
  /\ worker' = [worker EXCEPT ![w] = Idle(FALSE)]
  /\ UNCHANGED <<row, claims, copies>>

Sooner(t) == IF t > -Slack THEN t - 1 ELSE t

\* the clock runs for the deadlines that still mean something
Tick ==
  /\ row' = [e \in Events |->
               IF row[e].status \in Terminal THEN row[e]
               ELSE [row[e] EXCEPT !.due = Sooner(@)]]
  /\ worker' = [w \in Workers |->
                  IF worker[w].token = 0 THEN worker[w]
                  ELSE [worker[w] EXCEPT !.left = Sooner(@)]]
  /\ UNCHANGED <<claims, copies>>
-----------------------------------------------------------------------------
Progress(w) ==
  StartLease(w) \/ Publish(w) \/ Settle(w) \/ SeeStop(w) \/ ReleaseUnstarted(w)

Next ==
  \/ \E w \in Workers :
       \/ SweepExhausted(w) \/ ClaimBatch(w)
       \/ StartLease(w) \/ Publish(w) \/ Settle(w)
       \/ SeeStop(w) \/ ReleaseUnstarted(w)
       \/ RegistryUnavailable(w) \/ Crash(w)
       \/ RequestStop(w) \/ Restart(w)
  \/ Tick

Spec == Init /\ [][Next]_vars

(* Fairness.  Time passes; a task inside a cycle goes on; a stopped one is   *)
(* started again.  deliver_once is called over and over, so a task that is   *)
(* again and again free to start does start, and a row that is again and     *)
(* again eligible is not skipped as locked, or refused its commit, for ever. *)
SweepOf(w, e) == SweepExhausted(w) /\ row[e].status # "DEAD" /\ row'[e].status = "DEAD"
ClaimOf(w, e) == ClaimBatch(w) /\ row'[e].attempts # row[e].attempts

Fairness ==
  /\ WF_vars(Tick)
  /\ \A w \in Workers : /\ WF_vars(Progress(w))
                        /\ WF_vars(Restart(w))
                        /\ SF_vars(SweepExhausted(w))
                        /\ WF_vars(ClaimBatch(w))
  /\ \A e \in Events : /\ SF_vars(\E w \in Workers : SweepOf(w, e))
                       /\ SF_vars(\E w \in Workers : ClaimOf(w, e))

FairSpec == Spec /\ Fairness
-----------------------------------------------------------------------------
(* Properties.                                                               *)

\* Types of the table's transport columns and of the workers' memory; no row
\* is ever claimed beyond its attempt budget.
TypeOK ==
  /\ row \in [Events -> Row]
  /\ claims \in Nat
  /\ worker \in [Workers -> Worker]
  /\ copies \in [Events -> Nat]

Held(w) ==
  worker[w].todo \cup
    (IF worker[w].pc \in {"publish", "settle"} THEN {worker[w].cur} ELSE {})

Owns(w, l) ==
  /\ row[l.event].status = "LEASED"
  /\ row[l.event].owner = w
  /\ row[l.event].token = worker[w].token
  /\ row[l.event].attempts = l.attempt

\* A lease in a worker's memory is the row's lease for as long as its deadline
\* lies ahead: neither a claim, nor the sweep, nor another worker's late
\* settlement takes a row from a worker whose lease still runs.
HeldUntilExpiry ==
  \A w \in Workers : \A l \in Held(w) : worker[w].left > 0 => Owns(w, l)

\* Two workers never hold running leases on one event, so an event is offered
\* twice only when a lease ran out, an answer was lost or a retry was due.
OneRunningLease ==
  \A v, w \in Workers : \A k \in Held(v), l \in Held(w) :
    (v # w /\ k.event = l.event) => (worker[v].left <= 0 \/ worker[w].left <= 0)

\* No event is lost by being called published: the broker accepted it first.
PublishedWasAccepted ==
  \A e \in Events : row[e].status = "PUBLISHED" => copies[e] > 0

\* The duplicates of an event are bounded by its attempts: one claim never
\* puts two copies of it on the broker.
CopiesWithinAttempts == \A e \in Events : copies[e] <= row[e].attempts

\* A row is called published on the acknowledgement its current attempt got,
\* never on one that an earlier holder of the lease brings late.
AckedThisAttempt ==
  [][\A e \in Events :
       (row[e].status # "PUBLISHED" /\ row'[e].status = "PUBLISHED") =>
         \E w \in Workers :
           /\ worker[w].pc = "settle"
           /\ worker[w].verdict = "ack"
           /\ worker[w].cur = [event |-> e, attempt |-> row[e].attempts]
           /\ worker[w].token = row[e].token]_vars

\* PUBLISHED and DEAD are final: no late worker, claim or sweep reopens a row.
TerminalStable ==
  [][\A e \in Events : row[e].status \in Terminal => row'[e] = row[e]]_vars

\* Every committed event ends published or in the dead letters, whatever
\* crashes, lost answers and shutdowns happen on the way.
EventuallySettled == \A e \in Events : <>(row[e].status \in Terminal)

\* An event dead-lettered for exhausted attempts was offered to the broker at
\* least once.  Where the broker never fails, an offered event is accepted.
ExhaustedWasOffered ==
  \A e \in Events :
    (row[e].status = "DEAD" /\ row[e].code = "EXHAUSTED") => copies[e] > 0
=============================================================================
