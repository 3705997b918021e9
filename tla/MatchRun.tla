------------------------------ MODULE MatchRun ------------------------------
(***************************************************************************)
(* One matching attempt, from the moment it is ingested until its match    *)
(* run is settled: the queue of match jobs in PostgreSQL, the functions    *)
(* that claim, start, complete and fail a run, and the worker processes    *)
(* that call them.                                                         *)
(*                                                                         *)
(* A run has exactly one RUN_MATCH job, so both are numbered by run_no.    *)
(* A worker works under a lease: the claim raises the job's fencing        *)
(* generation, and every later call must show it.  The lease digest is a   *)
(* function of the claim slot and a slot makes one fresh claim at most, so *)
(* the digest and the fence of a job name the same lease; the model keeps  *)
(* the fence.  Each SQL function is one transaction.  Its commit may be    *)
(* reported to the worker or not (acked): without a report the tick raises *)
(* and the worker keeps its claim slot, so its next tick replays the       *)
(* frozen claim receipt.                                                   *)
(***************************************************************************)
EXTENDS Integers

CONSTANTS
    Workers,        \* worker processes sharing one workload identity
    MaxRuns,        \* run_no never exceeds it (3 in the code)
    MaxClaims,      \* attempt_count of a job never exceeds it (3 in the code)
    MaxFailures     \* _MAX_CONSECUTIVE_FAILURES (5 in the code)

ASSUME BoundsAssumption ==
    /\ MaxRuns \in Nat \ {0}
    /\ MaxClaims \in Nat \ {0}
    /\ MaxFailures \in Nat \ {0}

VARIABLES
    attempt,      \* matching_attempts.status, and selections.status with it
    currentRun,   \* current_match_run_id, and selections.match_run_id with it
    run,          \* match_runs by run_no
    job,          \* match_jobs by run_no
    closeIntent,  \* run of the SYSTEM_CLOSE intent, 0 if there is none
    startReceipt, \* runs whose START_MATCH_RUN receipt exists
    frozen,       \* the claim receipt of each worker's present claim slot
    pc,           \* where each worker is in run_once
    failures      \* consecutive_failures of each worker's loop

dbVars == <<attempt, currentRun, run, job, closeIntent, startReceipt>>
vars == <<attempt, currentRun, run, job, closeIntent, startReceipt,
          frozen, pc, failures>>

Runs == 1 .. MaxRuns

RunRecord == [status : {"NONE", "QUEUED", "RUNNING", "COMPLETED", "FAILED"},
              fence : Nat, next : Nat]
JobRecord == [status : {"NONE", "AVAILABLE", "LEASED", "COMPLETED", "FAILED"},
              fence : Nat, claims : 0 .. MaxClaims, ripe : BOOLEAN]
ClaimRecord == [status : {"NONE", "LEASED", "FAILED"}, run : Nat, fence : Nat]

NoRun == [status |-> "NONE", fence |-> 0, next |-> 0]
NoJob == [status |-> "NONE", fence |-> 0, claims |-> 0, ripe |-> FALSE]
NoClaim == [status |-> "NONE", run |-> 0, fence |-> 0]
QueuedRun == [status |-> "QUEUED", fence |-> 0, next |-> 0]

TypeOK ==
    /\ attempt \in {"OPEN", "CLOSED"}
    /\ currentRun \in Runs
    /\ run \in [Runs -> RunRecord]
    /\ job \in [Runs -> JobRecord]
    /\ closeIntent \in 0 .. MaxRuns
    /\ startReceipt \subseteq Runs
    /\ frozen \in [Workers -> ClaimRecord]
    /\ pc \in [Workers -> {"idle", "claimed", "started", "down"}]
    /\ failures \in [Workers -> 0 .. MaxFailures]

(***************************************************************************)
(* Rows.  ripe says that the moment the claim query waits for has passed:  *)
(* available_at of an AVAILABLE job, lease_until of a LEASED one.          *)
(***************************************************************************)
AvailableJob(now) ==
    [status |-> "AVAILABLE", fence |-> 0, claims |-> 0, ripe |-> now]
LeasedJob(fence, claims) ==
    [status |-> "LEASED", fence |-> fence, claims |-> claims, ripe |-> FALSE]
EndedJob(j, status, fence) ==
    [status |-> status, fence |-> fence, claims |-> j.claims, ripe |-> j.ripe]

LeasedClaim(r, fence) == [status |-> "LEASED", run |-> r, fence |-> fence]
FailedClaim(r, fence) == [status |-> "FAILED", run |-> r, fence |-> fence]

\* ingest_matching_requested_v1 has just opened the attempt with its run 1.
Init ==
    /\ attempt = "OPEN"
    /\ currentRun = 1
    /\ run = [r \in Runs |-> IF r = 1 THEN QueuedRun ELSE NoRun]
    /\ job = [r \in Runs |-> IF r = 1 THEN AvailableJob(TRUE) ELSE NoJob]
    /\ closeIntent = 0
    /\ startReceipt = {}
    /\ frozen = [w \in Workers |-> NoClaim]
    /\ pc = [w \in Workers |-> "idle"]
    /\ failures = [w \in Workers |-> 0]

(***************************************************************************)
(* How a tick of run_once ends for the worker.                             *)
(***************************************************************************)

CycleRaisesForever(w) ==
    /\ failures' = [failures EXCEPT ![w] = 1]
    /\ pc' = [pc EXCEPT ![w] = "idle"]

\* The cycle raises: the loop counts it, and after too many in a row the
\* process ends with EX_SOFTWARE.
CycleRaises(w) ==
    /\ failures' = [failures EXCEPT ![w] = failures[w] + 1]
    /\ pc' = [pc EXCEPT ![w] =
                IF failures[w] + 1 >= MaxFailures THEN "down" ELSE "idle"]

\* The tick returns: the claim slot rotates.  The count is reset, unless the
\* coordinator's tick or a readiness check of the same cycle raises.
TickReturns(w) ==
    /\ frozen' = [frozen EXCEPT ![w] = NoClaim]
    /\ \/ /\ pc' = [pc EXCEPT ![w] = "idle"]
          /\ failures' = [failures EXCEPT ![w] = 0]
       \/ CycleRaises(w)

\* A committed call whose report arrives leads on; one whose does not, raises.
Proceeds(w, acked, next) ==
    IF acked
    THEN pc' = [pc EXCEPT ![w] = next] /\ UNCHANGED failures
    ELSE CycleRaises(w)

(***************************************************************************)
(* claim_match_job_v1                                                      *)
(***************************************************************************)
ClaimableWhenAvailable(r) ==
    job[r].ripe /\ job[r].status = "AVAILABLE" /\ run[r].status = "QUEUED"

Claimable(r) ==
    /\ job[r].ripe
    /\ \/ job[r].status = "AVAILABLE" /\ run[r].status = "QUEUED"
       \/ job[r].status = "LEASED" /\ run[r].status \in {"QUEUED", "RUNNING"}

FreshClaim(w, r) ==
    /\ pc[w] = "idle"
    /\ frozen[w].status = "NONE"
    /\ Claimable(r)

ClaimsSpentOneLate(r) == job[r].status = "LEASED" /\ job[r].claims > MaxClaims

\* A queued run whose lease ran out on its last claim is not claimed again.
ClaimsSpent(r) == job[r].status = "LEASED" /\ job[r].claims >= MaxClaims

ClaimQueuedUnfenced(w, r, acked) ==
    /\ FreshClaim(w, r)
    /\ run[r].status = "QUEUED"
    /\ ~ClaimsSpent(r)
    /\ job' = [job EXCEPT ![r] =
                 LeasedJob(IF job[r].fence = 0 THEN 1 ELSE job[r].fence,
                           job[r].claims + 1)]
    /\ frozen' = [frozen EXCEPT ![w] = LeasedClaim(r, job'[r].fence)]
    /\ Proceeds(w, acked, "claimed")
    /\ UNCHANGED <<attempt, currentRun, run, closeIntent, startReceipt>>

\* A queued job, available or with an expired lease, is leased.
ClaimQueued(w, r, acked) ==
    /\ FreshClaim(w, r)
    /\ run[r].status = "QUEUED"
    /\ ~ClaimsSpent(r)
    /\ job' = [job EXCEPT ![r] =
                 LeasedJob(job[r].fence + 1, job[r].claims + 1)]
    /\ frozen' = [frozen EXCEPT ![w] = LeasedClaim(r, job[r].fence + 1)]
    /\ Proceeds(w, acked, "claimed")
    /\ UNCHANGED <<attempt, currentRun, run, closeIntent, startReceipt>>

\* A queued run whose job was claimed too often without ever starting fails.
ExhaustClaims(w, r, acked) ==
    /\ FreshClaim(w, r)
    /\ run[r].status = "QUEUED"
    /\ ClaimsSpent(r)
    /\ run' = [run EXCEPT ![r] = [status |-> "FAILED",
                                  fence |-> job[r].fence + 1, next |-> 0]]
    /\ job' = [job EXCEPT ![r] = EndedJob(job[r], "FAILED", job[r].fence + 1)]
    /\ IF acked
       THEN TickReturns(w)
       ELSE /\ frozen' = [frozen EXCEPT ![w] =
                            FailedClaim(r, job[r].fence + 1)]
            /\ CycleRaises(w)
    /\ UNCHANGED <<attempt, currentRun, closeIntent, startReceipt>>

RetryAllowedOnce(r) == r < MaxRuns - 1 /\ attempt = "OPEN" /\ currentRun = r

RetryAllowed(r) == r < MaxRuns /\ attempt = "OPEN" /\ currentRun = r

\* A running run whose lease expired fails; if a retry is allowed the claimer
\* receives the successor, already leased.
RecoverAndRetry(w, r, acked) ==
    /\ FreshClaim(w, r)
    /\ run[r].status = "RUNNING" /\ run[r].fence = job[r].fence
    /\ RetryAllowed(r)
    /\ run' = [run EXCEPT
                 ![r] = [status |-> "FAILED", fence |-> job[r].fence + 1,
                         next |-> r + 1],
                 ![r + 1] = QueuedRun]
    /\ job' = [job EXCEPT
                 ![r] = EndedJob(job[r], "FAILED", job[r].fence + 1),
                 ![r + 1] = LeasedJob(1, 1)]
    /\ currentRun' = r + 1
    /\ frozen' = [frozen EXCEPT ![w] = LeasedClaim(r + 1, 1)]
    /\ Proceeds(w, acked, "claimed")
    /\ UNCHANGED <<attempt, closeIntent, startReceipt>>

RecoverAndGiveUp(w, r, acked) ==
    /\ FreshClaim(w, r)
    /\ run[r].status = "RUNNING" /\ run[r].fence = job[r].fence
    /\ ~RetryAllowed(r)
    /\ run' = [run EXCEPT ![r] = [status |-> "FAILED",
                                  fence |-> job[r].fence + 1, next |-> 0]]
    /\ job' = [job EXCEPT ![r] = EndedJob(job[r], "FAILED", job[r].fence + 1)]
    /\ IF acked
       THEN TickReturns(w)
       ELSE /\ frozen' = [frozen EXCEPT ![w] =
                            FailedClaim(r, job[r].fence + 1)]
            /\ CycleRaises(w)
    /\ UNCHANGED <<attempt, currentRun, closeIntent, startReceipt>>

\* The slot has made its claim already: the receipt answers, whatever has
\* become of the job since.
ReplayClaim(w) ==
    /\ pc[w] = "idle"
    /\ \/ /\ frozen[w].status = "LEASED"
          /\ pc' = [pc EXCEPT ![w] = "claimed"]
          /\ UNCHANGED <<frozen, failures>>
       \/ /\ frozen[w].status = "FAILED"
          /\ TickReturns(w)
    /\ UNCHANGED dbVars

\* Nothing to claim: the tick is IDLE.
IdleTick(w) ==
    /\ pc[w] = "idle"
    /\ frozen[w].status = "NONE"
    /\ \A r \in Runs : ~Claimable(r)
    /\ TickReturns(w)
    /\ UNCHANGED dbVars

\* The tick goes to a MatchingRequested delivery of some other demand.  The
\* claim slot is not touched, and with the cycle the loop's count is reset.
DeliveryTick(w) ==
    /\ pc[w] = "idle"
    /\ failures' = [failures EXCEPT ![w] = 0]
    /\ UNCHANGED <<dbVars, frozen, pc>>

(***************************************************************************)
(* start_match_run_v1.  The worker captures the demand and the profiles    *)
(* first.  The START receipt is keyed by the run and binds the payload,    *)
(* and the payload holds the demand capture's transaction time; a second   *)
(* capture has another time, so a receipt that exists refuses the call     *)
(* with IDEMPOTENCY_KEY_REUSED before the lease is looked at.              *)
(***************************************************************************)
HoldsSomeLease(w) ==
    /\ frozen[w].status = "LEASED"
    /\ job[frozen[w].run].status = "LEASED"
    /\ ~job[frozen[w].run].ripe

HoldsLease(w) ==
    LET c == frozen[w] IN
    /\ c.status = "LEASED"
    /\ job[c.run].status = "LEASED"
    /\ job[c.run].fence = c.fence
    /\ ~job[c.run].ripe

StartRun(w, acked) ==
    LET r == frozen[w].run IN
    /\ pc[w] = "claimed"
    /\ r \notin startReceipt
    /\ HoldsLease(w)
    /\ run[r].status = "QUEUED" /\ run[r].fence < frozen[w].fence
    /\ run' = [run EXCEPT ![r] = [status |-> "RUNNING",
                                  fence |-> frozen[w].fence, next |-> 0]]
    /\ startReceipt' = startReceipt \cup {r}
    /\ Proceeds(w, acked, "started")
    /\ UNCHANGED <<attempt, currentRun, job, closeIntent, frozen>>

StartRefused(w) ==
    /\ pc[w] = "claimed"
    /\ frozen[w].run \in startReceipt
    /\ CycleRaises(w)
    /\ UNCHANGED <<dbVars, frozen>>

StartLeaseLost(w) ==
    /\ pc[w] = "claimed"
    /\ frozen[w].run \notin startReceipt
    /\ ~HoldsLease(w)
    /\ TickReturns(w)
    /\ UNCHANGED dbVars

(***************************************************************************)
(* complete_match_run_v1 and fail_match_run_v1.  A tick calls one of them, *)
(* once, after its own start committed, so their receipts never answer.    *)
(***************************************************************************)
HoldsRun(w) ==
    LET r == frozen[w].run IN
    /\ HoldsLease(w)
    /\ run[r].status = "RUNNING"
    /\ run[r].fence = frozen[w].fence

FinishingStale(w) == pc[w] = "started"

Finishing(w) ==
    /\ pc[w] = "started"
    /\ HoldsRun(w)
    /\ attempt = "OPEN"
    /\ currentRun = frozen[w].run

EndTick(w, acked) ==
    IF acked THEN TickReturns(w) ELSE CycleRaises(w) /\ UNCHANGED frozen

\* The engine ranked the candidates; with none eligible the run also records
\* the intent that closes the selection.
CompleteRun(w, eligible, acked) ==
    LET r == frozen[w].run IN
    /\ Finishing(w)
    /\ closeIntent = 0
    /\ run' = [run EXCEPT ![r] = [status |-> "COMPLETED",
                                  fence |-> run[r].fence, next |-> 0]]
    /\ job' = [job EXCEPT ![r] = EndedJob(job[r], "COMPLETED", job[r].fence)]
    /\ closeIntent' = IF eligible THEN 0 ELSE r
    /\ EndTick(w, acked)
    /\ UNCHANGED <<attempt, currentRun, startReceipt>>

FailAndRetryUnlinked(w, acked) ==
    LET r == frozen[w].run IN
    /\ Finishing(w)
    /\ r < MaxRuns
    /\ run' = [run EXCEPT
                 ![r] = [status |-> "FAILED", fence |-> run[r].fence,
                         next |-> r + 1],
                 ![r + 1] = QueuedRun]
    /\ job' = [job EXCEPT
                 ![r] = EndedJob(job[r], "FAILED", job[r].fence),
                 ![r + 1] = AvailableJob(FALSE)]
    /\ EndTick(w, acked)
    /\ UNCHANGED <<attempt, currentRun, closeIntent, startReceipt>>

\* The engine rejected its input; a successor waits until 30 s after the lease.
FailAndRetry(w, acked) ==
    LET r == frozen[w].run IN
    /\ Finishing(w)
    /\ r < MaxRuns
    /\ run' = [run EXCEPT
                 ![r] = [status |-> "FAILED", fence |-> run[r].fence,
                         next |-> r + 1],
                 ![r + 1] = QueuedRun]
    /\ job' = [job EXCEPT
                 ![r] = EndedJob(job[r], "FAILED", job[r].fence),
                 ![r + 1] = AvailableJob(FALSE)]
    /\ currentRun' = r + 1
    /\ EndTick(w, acked)
    /\ UNCHANGED <<attempt, closeIntent, startReceipt>>

FailForReview(w, acked) ==
    LET r == frozen[w].run IN
    /\ Finishing(w)
    /\ r >= MaxRuns
    /\ run' = [run EXCEPT ![r] = [status |-> "FAILED",
                                  fence |-> run[r].fence, next |-> 0]]
    /\ job' = [job EXCEPT ![r] = EndedJob(job[r], "FAILED", job[r].fence)]
    /\ EndTick(w, acked)
    /\ UNCHANGED <<attempt, currentRun, closeIntent, startReceipt>>

FinishLeaseLost(w) ==
    /\ pc[w] = "started"
    /\ ~HoldsRun(w)
    /\ TickReturns(w)
    /\ UNCHANGED dbVars

(***************************************************************************)
(* Failures of the worker, time, and the rest of the attempt's life.       *)
(***************************************************************************)

\* A capture, a connection or a call fails before it commits anything.
StepFails(w) ==
    /\ pc[w] \in {"idle", "claimed", "started"}
    /\ CycleRaises(w)
    /\ UNCHANGED <<dbVars, frozen>>

Forget(w) ==
    /\ frozen' = [frozen EXCEPT ![w] = NoClaim]
    /\ pc' = [pc EXCEPT ![w] = "idle"]
    /\ failures' = [failures EXCEPT ![w] = 0]
    /\ UNCHANGED dbVars

\* The container is restarted (restart: unless-stopped) with a new slot.
Restart(w) == pc[w] = "down" /\ Forget(w)

\* The process is killed between two of its steps and comes up again.
Crash(w) == pc[w] \in {"idle", "claimed", "started"} /\ Forget(w)

TimePasses(r) ==
    /\ job[r].status \in {"AVAILABLE", "LEASED"}
    /\ ~job[r].ripe
    /\ job' = [job EXCEPT ![r] = [@ EXCEPT !.ripe = TRUE]]
    /\ UNCHANGED <<attempt, currentRun, run, closeIntent, startReceipt,
                   frozen, pc, failures>>

\* A choice, a close or an invalidation ends the attempt; each of them needs
\* the current run to be COMPLETED.
CloseAttempt ==
    /\ attempt = "OPEN"
    /\ run[currentRun].status = "COMPLETED"
    /\ attempt' = "CLOSED"
    /\ UNCHANGED <<currentRun, run, job, closeIntent, startReceipt,
                   frozen, pc, failures>>

Claim(w) ==
    \E r \in Runs, acked \in BOOLEAN :
        \/ ClaimQueued(w, r, acked)
        \/ ExhaustClaims(w, r, acked)
        \/ RecoverAndRetry(w, r, acked)
        \/ RecoverAndGiveUp(w, r, acked)

Execute(w) ==
    \/ \E acked \in BOOLEAN : StartRun(w, acked)
    \/ StartRefused(w)
    \/ StartLeaseLost(w)
    \/ \E acked \in BOOLEAN, eligible \in BOOLEAN :
          CompleteRun(w, eligible, acked)
    \/ \E acked \in BOOLEAN : FailAndRetry(w, acked)
    \/ \E acked \in BOOLEAN : FailForReview(w, acked)
    \/ FinishLeaseLost(w)

Tick(w) ==
    Claim(w) \/ ReplayClaim(w) \/ IdleTick(w) \/ Execute(w) \/ StepFails(w)

Next ==
    \/ \E w \in Workers :
          Tick(w) \/ DeliveryTick(w) \/ Restart(w) \/ Crash(w)
    \/ \E r \in Runs : TimePasses(r)
    \/ CloseAttempt

Spec == Init /\ [][Next]_vars

(***************************************************************************)
(* Fairness.  A worker's loop keeps ticking, a stopped container is        *)
(* restarted, clocks advance, and the database is not lost for ever: a     *)
(* claim that can succeed again and again some day does.  Nothing is       *)
(* assumed of the calls after the claim: any of them may fail every time.  *)
(***************************************************************************)
Fairness ==
    /\ \A w \in Workers :
          WF_vars(Tick(w)) /\ WF_vars(Restart(w)) /\ SF_vars(Claim(w))
    /\ \A r \in Runs : WF_vars(TimePasses(r))

FairSpec == Spec /\ Fairness
-----------------------------------------------------------------------------
(***************************************************************************)
(* Properties                                                              *)
(***************************************************************************)

Live(r) == run[r].status \in {"QUEUED", "RUNNING"}

\* The runs of an attempt form a chain that ends in current_match_run_id:
\* those before it failed and name their successor, those after it do not
\* exist, and nothing has superseded it.  Two ways of retrying (the worker's
\* own and the recovery of an expired lease) extend the chain.
OneLiveRun ==
    /\ \A r \in Runs :
          /\ r < currentRun => run[r].status = "FAILED" /\ run[r].next = r + 1
          /\ r > currentRun => run[r] = NoRun
    /\ run[currentRun].status # "NONE" /\ run[currentRun].next = 0

\* The two rows of a run agree although each function writes them one after
\* the other: a live run has a job somebody can claim, a running one is under
\* its job's current lease, and a job ends exactly as its run does.
JobMirrorsRun ==
    \A r \in Runs :
        /\ run[r].status = "NONE" => job[r] = NoJob
        /\ run[r].status = "QUEUED" =>
              job[r].status \in {"AVAILABLE", "LEASED"} /\ run[r].fence = 0
        /\ run[r].status = "RUNNING" =>
              job[r].status = "LEASED" /\ run[r].fence = job[r].fence
        /\ run[r].status \in {"COMPLETED", "FAILED"} =>
              job[r].status = run[r].status

\* Two workers never hold the lease at once, however late either of them is:
\* a claim that takes a job over makes the earlier holder's calls fail.
OneHolder ==
    \A v, w \in Workers : HoldsLease(v) /\ HoldsLease(w) => v = w

\* An open attempt is left to the reviewers only after everything automatic
\* has been tried: the runs are used up, or the claims of the last run's job
\* are, without it ever having started.
ReviewOnlyWhenSpent ==
    attempt = "OPEN" /\ run[currentRun].status = "FAILED" =>
        \/ currentRun = MaxRuns
        \/ /\ currentRun \notin startReceipt
           /\ job[currentRun].claims = MaxClaims

\* From some time on, no delivery comes between the worker's failures in a row
\* with one frozen claim.
CountsOn(w) == <>[][~(frozen[w].status # "NONE" /\ DeliveryTick(w))]_vars

\* Whatever fails, the attempt's run is settled in the end, if deliveries do not
\* reset the count of failures of one worker for ever; the others may replay a
\* refused claim for all time.
Settles == (\E w \in Workers : CountsOn(w)) => <>[](~Live(currentRun))

\* Only deliveries that come again and again can keep a worker at one frozen
\* claim for ever: without them it is given up with the tick or, after too many
\* failures in a row, with the process.
SlotFreed ==
    \A w \in Workers :
        CountsOn(w) =>
            (frozen[w].status # "NONE" ~> frozen[w].status = "NONE")

\* What operational_runtime.py says where it keeps the claim slot: every
\* failure but a lost lease retains it for safe replay.  So a worker that
\* still holds its lease is not refused when it replays.
ReplayServed == [][~\E w \in Workers : StartRefused(w) /\ HoldsLease(w)]_vars
=============================================================================
