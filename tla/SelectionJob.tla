---------------------------- MODULE SelectionJob ----------------------------
(***************************************************************************)
(* How the selection of one matching attempt is decided, once its match    *)
(* run is COMPLETED: the PostgreSQL functions through which reviewers      *)
(* invite creators, creators answer and the selector chooses or closes;    *)
(* the selection completion job such a decision leaves behind; and the     *)
(* coordinator processes that carry it out in Matching and in Demand.      *)
(*                                                                         *)
(* Each SQL function is one transaction.  Its commit may be reported to    *)
(* the caller or not (acked).  A coordinator works under a claim slot: the *)
(* claim is frozen in a receipt, so a slot that is kept shows the same     *)
(* fence again at the next tick, however the job has moved on since.  The  *)
(* lease digest is a function of the slot, so the fence stands for both.   *)
(* Deadlines of invitations are left out: an answer or a publication may   *)
(* always stay away, which is all that a deadline brings about.            *)
(***************************************************************************)
EXTENDS Integers

CONSTANTS
    Creators,     \* the eligible candidates of the run
    Coordinators, \* coordinator processes sharing one workload identity
    MaxClaims,    \* attempt_count of the job never exceeds it (3 in the code)
    MaxFailures   \* _MAX_CONSECUTIVE_FAILURES (5 in the code)

ASSUME BoundsAssumption ==
    MaxClaims \in Nat \ {0} /\ MaxFailures \in Nat \ {0}

VARIABLES
    eligible,     \* eligible_count of the run is positive
    attempt,      \* matching_attempts.status
    selection,    \* selections.status
    demand,       \* status of the demand, in the Demand context
    invitation,   \* invitations.status by creator
    selector,     \* the last candidate selector assignment
    reviewing,    \* somebody holds a live review assignment of the attempt
    intent,       \* the decision: choose, close or system close intent
    job,          \* selection_completion_jobs
    completed,    \* fence of the COMPLETE_SELECTION receipt, 0 without one
    refused,      \* FAIL_SELECTION_COMPLETION receipts: fence and code
    slot,         \* fence frozen under a coordinator's claim slot, or 0
    evidence,     \* its trust evidence for that claim (_trust_by_claim)
    failures      \* consecutive_failures of its loop

selectionVars == <<eligible, attempt, selection, demand, invitation, selector,
                   reviewing, intent>>
jobVars == <<job, completed, refused>>
coordinatorVars == <<slot, evidence, failures>>
vars == <<eligible, attempt, selection, demand, invitation, selector,
          reviewing, intent, job, completed, refused, slot, evidence, failures>>

None == "NONE"

InvitationStatus == {"NONE", "CREATED", "SENT", "ACCEPTED", "DECLINED",
                     "WITHDRAWN", "REVOKED"}
IntentKind == {"NONE", "CHOOSE", "CLOSE", "SYSTEM_CLOSE"}
RefusalCode == {"TRUST_HOLD_BLOCKED", "TRUST_EVIDENCE_UNAVAILABLE"}
FailureCode == RefusalCode \cup {"NONE", "LEASE_EXHAUSTED"}
\* ripe: available_at of an AVAILABLE job, lease_until of a LEASED one, passed.
JobRecord == [status : {"NONE", "AVAILABLE", "LEASED", "COMPLETED", "FAILED"},
              fence : Nat, claims : Nat, ripe : BOOLEAN, failure : FailureCode]

(***************************************************************************)
(* selection_invitation_set_sha256_v1 is a digest over the invitations     *)
(* that have been sent, with their statuses and versions.  The versions    *)
(* only rise, so equal digests mean equal statuses.                        *)
(***************************************************************************)
InvitationSet(inv) ==
    [c \in Creators |-> IF inv[c] = "CREATED" THEN None ELSE inv[c]]

Sets == [Creators -> InvitationStatus]
NoSet == [c \in Creators |-> None]

IntentRecord == [kind : IntentKind, invited : Creators \cup {None}, set : Sets]
NoIntent == [kind |-> None, invited |-> None, set |-> NoSet]
SystemClose == [kind |-> "SYSTEM_CLOSE", invited |-> None, set |-> NoSet]

NoJob == [status |-> None, fence |-> 0, claims |-> 0, ripe |-> FALSE,
          failure |-> None]
QueuedJob == [status |-> "AVAILABLE", fence |-> 0, claims |-> 0, ripe |-> TRUE,
              failure |-> None]

TypeOK ==
    /\ eligible \in BOOLEAN
    /\ attempt \in {"OPEN", "SELECTED", "CLOSED_NO_SELECTION", "INVALIDATED"}
    /\ selection \in {"OPEN", "SELECTED", "CLOSED_NO_SELECTION", "CANCELLED"}
    /\ demand \in {"MATCHING", "MATCHED", "NO_MATCH"}
    /\ invitation \in [Creators -> InvitationStatus]
    /\ selector \in {"NONE", "ACTIVE", "LAPSED", "COMPLETED"}
    /\ reviewing \in BOOLEAN
    /\ intent \in IntentRecord
    /\ job \in JobRecord
    /\ completed \in Nat
    /\ refused \subseteq (Nat \X RefusalCode)
    /\ slot \in [Coordinators -> Nat]
    /\ evidence \in [Coordinators -> {"NONE", "FRESH", "STALE"}]
    /\ failures \in [Coordinators -> 0 .. MaxFailures]

(***************************************************************************)
(* The run has just completed.  With no eligible candidate,                *)
(* complete_match_run_v1 has recorded the SYSTEM_CLOSE intent and its job. *)
(* A selector may have claimed the demand while the run was executing.     *)
(***************************************************************************)
Init ==
    /\ eligible \in BOOLEAN
    /\ attempt = "OPEN" /\ selection = "OPEN" /\ demand = "MATCHING"
    /\ invitation = [c \in Creators |-> None]
    /\ selector \in {"NONE", "ACTIVE", "LAPSED"}
    /\ reviewing = FALSE
    /\ intent = IF eligible THEN NoIntent ELSE SystemClose
    /\ job = IF eligible THEN NoJob ELSE QueuedJob
    /\ completed = 0 /\ refused = {}
    /\ slot = [w \in Coordinators |-> 0]
    /\ evidence = [w \in Coordinators |-> None]
    /\ failures = [w \in Coordinators |-> 0]

Open == attempt = "OPEN" /\ selection = "OPEN"

\* A row of selection_intents or of selection_close_intents exists.
Recorded == intent.kind \in {"CHOOSE", "CLOSE"}
-----------------------------------------------------------------------------
(* Reviewers                                                                 *)

ClaimReview ==
    /\ attempt = "OPEN"
    /\ ~reviewing
    /\ reviewing' = TRUE
    /\ UNCHANGED <<eligible, attempt, selection, demand, invitation, selector,
                   intent, jobVars, coordinatorVars>>

\* The assignment is released or runs out.
EndReview ==
    /\ reviewing
    /\ reviewing' = FALSE
    /\ UNCHANGED <<eligible, attempt, selection, demand, invitation, selector,
                   intent, jobVars, coordinatorVars>>

Invite(c, status) ==
    /\ invitation' = [invitation EXCEPT ![c] = status]
    /\ UNCHANGED <<eligible, attempt, selection, demand, selector, reviewing,
                   intent, jobVars, coordinatorVars>>

CreateInvitation(c) ==
    /\ reviewing /\ eligible
    /\ attempt = "OPEN"
    /\ invitation[c] = None
    /\ Invite(c, "CREATED")

PublishInvitation(c) ==
    /\ reviewing /\ eligible
    /\ Open /\ ~Recorded
    /\ invitation[c] = "CREATED"
    /\ Invite(c, "SENT")

Cancel ==
    /\ selection' = "CANCELLED"
    /\ attempt' = "INVALIDATED"
    /\ invitation' = [c \in Creators |->
                        IF invitation[c] \in {"CREATED", "SENT", "ACCEPTED"}
                        THEN "REVOKED" ELSE invitation[c]]
    /\ UNCHANGED <<eligible, demand, selector, reviewing, intent, jobVars,
                   coordinatorVars>>

InvalidateDecided ==
    /\ reviewing
    /\ Open
    /\ selector # "ACTIVE"
    /\ Cancel

\* invalidate_matching_attempt_v1 looks for choose and close intents, not for
\* the system close intent.
Invalidate ==
    /\ reviewing
    /\ Open /\ ~Recorded
    /\ selector # "ACTIVE"
    /\ Cancel
-----------------------------------------------------------------------------
(* Creators                                                                  *)

\* Accepting or declining asks for an open selection, not for the absence of
\* a decision.
Respond(c, answer) ==
    /\ selection = "OPEN"
    /\ invitation[c] = "SENT"
    /\ Invite(c, answer)

WithdrawAny(c) ==
    /\ selection = "OPEN"
    /\ invitation[c] = "ACCEPTED"
    /\ Invite(c, "WITHDRAWN")

Withdraw(c) ==
    /\ selection = "OPEN"
    /\ invitation[c] = "ACCEPTED"
    /\ intent.kind # "CHOOSE"
    /\ Invite(c, "WITHDRAWN")
-----------------------------------------------------------------------------
(* The selector                                                              *)

\* An assignment that has run out is expired and replaced.
ClaimSelector ==
    /\ Open /\ ~Recorded
    /\ selector # "ACTIVE"
    /\ selector' = "ACTIVE"
    /\ UNCHANGED <<eligible, attempt, selection, demand, invitation, reviewing,
                   intent, jobVars, coordinatorVars>>

\* expires_at passes; the row keeps its status ACTIVE.
SelectorLapses ==
    /\ selector = "ACTIVE"
    /\ selector' = "LAPSED"
    /\ UNCHANGED <<eligible, attempt, selection, demand, invitation, reviewing,
                   intent, jobVars, coordinatorVars>>

\* The job's primary key is the selection's id: a second one is refused.
Decide(kind, c) ==
    /\ selector = "ACTIVE"
    /\ Open /\ ~Recorded
    /\ job = NoJob
    /\ intent' = [kind |-> kind, invited |-> c,
                  set |-> InvitationSet(invitation)]
    /\ job' = QueuedJob
    /\ UNCHANGED <<eligible, attempt, selection, demand, invitation, selector,
                   reviewing, completed, refused, coordinatorVars>>

ChooseCreator(c) == invitation[c] = "ACCEPTED" /\ Decide("CHOOSE", c)

CloseSelection ==
    /\ \A c \in Creators : invitation[c] \notin {"CREATED", "SENT"}
    /\ Decide("CLOSE", None)
-----------------------------------------------------------------------------
(* How a tick of a coordinator ends                                          *)

\* Process memory is lost; the next tick makes a new claim slot.
Forget(w) ==
    /\ slot' = [slot EXCEPT ![w] = 0]
    /\ evidence' = [evidence EXCEPT ![w] = None]
    /\ failures' = [failures EXCEPT ![w] = 0]

TickRaisesOneLate(w) ==
    IF failures[w] > MaxFailures
    THEN Forget(w)
    ELSE /\ failures' = [failures EXCEPT ![w] = failures[w] + 1]
         /\ UNCHANGED <<slot, evidence>>

\* The tick raises and keeps its slot.  Too many in a row end the process,
\* which is started again.
TickRaises(w) ==
    IF failures[w] + 1 >= MaxFailures
    THEN Forget(w)
    ELSE /\ failures' = [failures EXCEPT ![w] = failures[w] + 1]
         /\ UNCHANGED <<slot, evidence>>

TickReturnsWithSlot(w) ==
    /\ evidence' = [evidence EXCEPT ![w] = None]
    /\ failures' = [failures EXCEPT ![w] = 0]
    /\ UNCHANGED slot

\* The tick returns: the slot rotates and the evidence is dropped.
TickReturns(w) == Forget(w)

EndTick(w, acked) == IF acked THEN TickReturns(w) ELSE TickRaises(w)
-----------------------------------------------------------------------------
(* claim_selection_completion_v1                                             *)

ClaimableWhenAvailable == job.status = "AVAILABLE" /\ job.ripe

Claimable == job.status \in {"AVAILABLE", "LEASED"} /\ job.ripe

LeaseUnfenced(w, acked) ==
    /\ job' = [job EXCEPT !.status = "LEASED", !.claims = job.claims + 1,
                          !.fence = IF job.fence = 0 THEN 1 ELSE job.fence,
                          !.ripe = FALSE, !.failure = None]
    /\ slot' = [slot EXCEPT ![w] = job'.fence]
    /\ UNCHANGED <<selectionVars, completed, refused, evidence, failures>>

Lease(w, acked) ==
    /\ job' = [status |-> "LEASED", fence |-> job.fence + 1,
               claims |-> job.claims + 1, ripe |-> FALSE, failure |-> None]
    /\ IF acked \/ failures[w] + 1 < MaxFailures
       THEN slot' = [slot EXCEPT ![w] = job.fence + 1]
       ELSE UNCHANGED slot
    /\ failures' = [failures EXCEPT ![w] =
                      IF acked THEN @
                      ELSE IF @ + 1 < MaxFailures THEN @ + 1 ELSE 0]
    /\ UNCHANGED <<selectionVars, completed, refused, evidence>>

ClaimsSpentEarly == job.status = "LEASED" /\ job.claims + 1 >= MaxClaims

ClaimsSpent == job.status = "LEASED" /\ job.claims >= MaxClaims

ClaimCompletion(w, acked) ==
    /\ slot[w] = 0
    /\ Claimable /\ ~ClaimsSpent
    /\ Lease(w, acked)

\* The lease ran out on the last claim: the job fails for good.
ExhaustClaims(w, acked) ==
    /\ slot[w] = 0
    /\ Claimable /\ ClaimsSpent
    /\ job' = [status |-> "FAILED", fence |-> job.fence + 1,
               claims |-> job.claims, ripe |-> job.ripe,
               failure |-> "LEASE_EXHAUSTED"]
    /\ EndTick(w, acked)
    /\ UNCHANGED <<selectionVars, completed, refused>>
-----------------------------------------------------------------------------
(* Trust evidence and fail_claimed_selection_v1                              *)

HoldsAnyClaim(w) == slot[w] # 0

HoldsLease(w) ==
    job.status = "LEASED" /\ job.fence = slot[w] /\ ~job.ripe

\* A choice is carried out only with evidence from Trust, kept by claim.
NeedsEvidence(w) ==
    slot[w] # 0 /\ intent.kind = "CHOOSE" /\ evidence[w] = None

ObtainEvidence(w) ==
    /\ NeedsEvidence(w)
    /\ evidence' = [evidence EXCEPT ![w] = "FRESH"]
    /\ UNCHANGED <<selectionVars, jobVars, slot, failures>>

\* valid_until passes, 15 s after the evaluation at most.
EvidenceAges(w) ==
    /\ evidence[w] = "FRESH"
    /\ evidence' = [evidence EXCEPT ![w] = "STALE"]
    /\ UNCHANGED <<selectionVars, jobVars, slot, failures>>

\* Trust holds the creator, or does not answer.  The receipt is keyed by the
\* claim and binds the code: it answers the same refusal again, refuses
\* another, and comes before the lease is looked at.
RefuseTrust(w, code, acked) ==
    /\ NeedsEvidence(w)
    /\ \A other \in RefusalCode : <<slot[w], other>> \notin refused
    /\ HoldsLease(w)
    /\ job' = IF job.claims >= MaxClaims
              THEN [job EXCEPT !.status = "FAILED", !.failure = code]
              ELSE [job EXCEPT !.status = "AVAILABLE", !.ripe = FALSE,
                               !.failure = code]
    /\ refused' = refused \cup {<<slot[w], code>>}
    /\ EndTick(w, acked)
    /\ UNCHANGED <<selectionVars, completed>>

RefuseTrustReplayed(w, code) ==
    /\ NeedsEvidence(w)
    /\ <<slot[w], code>> \in refused
    /\ TickReturns(w)
    /\ UNCHANGED <<selectionVars, jobVars>>

\* IDEMPOTENCY_KEY_REUSED or LEASE_LOST, neither of which _fail_claim expects.
RefuseTrustRaises(w, code) ==
    /\ NeedsEvidence(w)
    /\ \/ \E other \in RefusalCode : <<slot[w], other>> \in refused
       \/ ~HoldsLease(w)
    /\ TickRaises(w)
    /\ UNCHANGED <<selectionVars, jobVars>>
-----------------------------------------------------------------------------
(* complete_claimed_selection_v1                                             *)

ReadyWhateverState ==
    /\ intent.set = InvitationSet(invitation)
    /\ intent.kind = "CHOOSE" => invitation[intent.invited] = "ACCEPTED"
    /\ selector \in {"ACTIVE", "LAPSED", "NONE"}

\* What the decision rested on still stands.  A lapsed selector's row still
\* reads ACTIVE, so it counts as the decider's and blocks a system close.
ReadyToChoose ==
    /\ invitation[intent.invited] = "ACCEPTED"
    /\ selector \in {"ACTIVE", "LAPSED"}

ReadyToClose == selector \in {"ACTIVE", "LAPSED"}

ReadyToCloseBySystem == ~eligible /\ selector = None

Ready ==
    /\ Open /\ demand = "MATCHING"
    /\ intent.set = InvitationSet(invitation)
    /\ intent.kind = "CHOOSE" => ReadyToChoose
    /\ intent.kind = "CLOSE" => ReadyToClose
    /\ intent.kind = "SYSTEM_CLOSE" => ReadyToCloseBySystem

\* Demand's own programs run nested in the completion's transaction.
Select ==
    /\ selection' = "SELECTED" /\ attempt' = "SELECTED"
    /\ demand' = "MATCHED"

CloseWithoutSelection ==
    /\ selection' = "CLOSED_NO_SELECTION" /\ attempt' = "CLOSED_NO_SELECTION"
    /\ demand' = "NO_MATCH"

Completing(w) ==
    /\ slot[w] # 0
    /\ intent.kind = "CHOOSE" => evidence[w] # None

\* Selection, attempt, assignment, demand and job change in one transaction.
CompleteSelection(w, acked) ==
    /\ Completing(w)
    /\ completed # slot[w]
    /\ HoldsLease(w)
    /\ evidence[w] # "STALE"
    /\ Ready
    /\ IF intent.kind = "CHOOSE" THEN Select ELSE CloseWithoutSelection
    /\ selector' = IF selector = None THEN None ELSE "COMPLETED"
    /\ job' = [job EXCEPT !.status = "COMPLETED"]
    /\ completed' = slot[w]
    /\ EndTick(w, acked)
    /\ UNCHANGED <<eligible, invitation, reviewing, intent, refused>>

\* The completed receipt answers, or the lease is lost: the tick returns.
CompletionEndsTick(w) ==
    /\ Completing(w)
    /\ completed = slot[w] \/ ~HoldsLease(w)
    /\ TickReturns(w)
    /\ UNCHANGED <<selectionVars, jobVars>>

\* SAFETY_HOLD_BLOCKED or SELECTION_NOT_READY; nothing is written.
CompletionRaises(w) ==
    /\ Completing(w)
    /\ completed # slot[w] /\ HoldsLease(w)
    /\ evidence[w] = "STALE" \/ ~Ready
    /\ TickRaises(w)
    /\ UNCHANGED <<selectionVars, jobVars>>
-----------------------------------------------------------------------------
(* Time, failures, and the whole                                             *)

TimePasses ==
    /\ job.status \in {"AVAILABLE", "LEASED"} /\ ~job.ripe
    /\ job' = [job EXCEPT !.ripe = TRUE]
    /\ UNCHANGED <<selectionVars, completed, refused, coordinatorVars>>

\* A call fails before it commits, or the worker's half of the cycle raises.
CycleFails(w) ==
    /\ TickRaises(w)
    /\ UNCHANGED <<selectionVars, jobVars>>

\* The process is killed and comes up again.
Crash(w) ==
    /\ slot[w] # 0
    /\ Forget(w)
    /\ UNCHANGED <<selectionVars, jobVars>>

People ==
    \/ ClaimReview \/ EndReview \/ Invalidate
    \/ ClaimSelector \/ SelectorLapses \/ CloseSelection
    \/ \E c \in Creators :
          \/ CreateInvitation(c) \/ PublishInvitation(c)
          \/ \E answer \in {"ACCEPTED", "DECLINED"} : Respond(c, answer)
          \/ Withdraw(c) \/ ChooseCreator(c)

Claim(w) ==
    \E acked \in BOOLEAN : ClaimCompletion(w, acked) \/ ExhaustClaims(w, acked)

Execute(w) ==
    \/ ObtainEvidence(w)
    \/ \E code \in RefusalCode :
          \/ \E acked \in BOOLEAN : RefuseTrust(w, code, acked)
          \/ RefuseTrustReplayed(w, code)
          \/ RefuseTrustRaises(w, code)
    \/ \E acked \in BOOLEAN : CompleteSelection(w, acked)
    \/ CompletionEndsTick(w)
    \/ CompletionRaises(w)

Next ==
    \/ People
    \/ \E w \in Coordinators :
          Claim(w) \/ Execute(w) \/ CycleFails(w) \/ EvidenceAges(w) \/ Crash(w)
    \/ TimePasses

Spec == Init /\ [][Next]_vars

(***************************************************************************)
(* Fairness.  A coordinator's loop keeps ticking, whatever its ticks come  *)
(* to, a stopped process is started again, and clocks advance.  Nothing is *)
(* assumed of the people, of Trust's answers or of a commit being          *)
(* reported.                                                               *)
(***************************************************************************)
Fairness ==
    /\ \A w \in Coordinators : WF_vars(Claim(w)) /\ WF_vars(Execute(w))
    /\ WF_vars(TimePasses)

FairSpec == Spec /\ Fairness
-----------------------------------------------------------------------------
(***************************************************************************)
(* Properties                                                              *)
(***************************************************************************)

\* The two contexts never disagree about how the matching ended, and neither
\* ends otherwise than was decided: one transaction writes both, but between
\* the decision and that transaction reviewers, creators and the other
\* coordinator go on.
DecidedTogether ==
    /\ demand = "MATCHED" <=> selection = "SELECTED"
    /\ demand = "NO_MATCH" <=> selection = "CLOSED_NO_SELECTION"
    /\ attempt = IF selection = "CANCELLED" THEN "INVALIDATED" ELSE selection
    /\ selection = "SELECTED" => intent.kind = "CHOOSE"
    /\ selection = "CLOSED_NO_SELECTION" =>
          intent.kind \in {"CLOSE", "SYSTEM_CLOSE"}
    /\ job.status = "COMPLETED" <=>
          selection \in {"SELECTED", "CLOSED_NO_SELECTION"}

\* An ended selection stays as it ended, in both contexts: a job that is still
\* queued for it, or a coordinator that comes late, does not reopen it.
OutcomeFinal ==
    [][selection # "OPEN" => UNCHANGED <<selection, attempt, demand>>]_vars

\* What the rows of intents and selections show of the decision.
Choice == IF intent.kind = "CHOOSE" THEN intent.invited ELSE None

Outcome ==
    CASE selection = "SELECTED"            -> "selected"
      [] selection = "CLOSED_NO_SELECTION" -> "closed"
      [] selection = "CANCELLED"           -> "cancelled"
      [] OTHER                             -> "open"

Abstract ==
    INSTANCE OneDecision WITH
        Candidates <- Creators, NoChoice <- None,
        choice  <- Choice,
        outcome <- Outcome,
        matched <- demand = "MATCHED"

\* Reviewers, creators, the selector and the coordinators together make one
\* decision: the recorded choice is the one that is carried out, in Matching
\* and Demand at once; it keeps the selection from being invalidated; and a
\* job still queued, or a coordinator that comes late, reopens nothing.
ImplementsDecision == Abstract!Spec

\* Once a person has decided, no reviewer cancels the selection under the
\* decision, however long the job is retried or after it has failed.
DecisionNotCancelled == selection = "CANCELLED" => ~Recorded

\* The creator who was chosen cannot get away between the choice and its
\* completion, nor be replaced by another.
ChosenStaysAccepted ==
    intent.kind = "CHOOSE" => invitation[intent.invited] = "ACCEPTED"

\* However late a coordinator is, no other works under the fence it holds.
OneFencePerClaim ==
    \A v, w \in Coordinators : slot[v] # 0 /\ slot[v] = slot[w] => v = w

\* A job is given up only when its claims are spent.
FailedWhenSpent == job.status = "FAILED" => job.claims = MaxClaims

\* The job of a decision ends, whatever fails: completed, or failed and left
\* to a review.
JobSettles == job # NoJob ~> job.status \in {"COMPLETED", "FAILED"}

\* A coordinator does not replay one frozen claim for ever.
SlotGivenUp == \A w \in Coordinators : slot[w] # 0 ~> slot[w] = 0

\* What the code says of a recorded decision where it refuses a second
\* selector: it is durable coordinator work.  So while the selection is open
\* a choice can still be carried out.
ChoiceStaysCompletable == intent.kind = "CHOOSE" /\ selection = "OPEN" => Ready
=============================================================================
