-------------------------- MODULE SelectionJobProofs ---------------------------
(***************************************************************************)
(* Proofs of the safety properties of SelectionJob, for any creators, any  *)
(* coordinators and any bounds.                                            *)
(***************************************************************************)
EXTENDS SelectionJob, TLAPS

\* What the people and the two contexts see.
Decision ==
    /\ eligible \in BOOLEAN
    /\ attempt \in {"OPEN", "SELECTED", "CLOSED_NO_SELECTION", "INVALIDATED"}
    /\ selection \in {"OPEN", "SELECTED", "CLOSED_NO_SELECTION", "CANCELLED"}
    /\ demand \in {"MATCHING", "MATCHED", "NO_MATCH"}
    /\ invitation \in Sets
    /\ selector \in {"NONE", "ACTIVE", "LAPSED", "COMPLETED"}
    /\ reviewing \in BOOLEAN
    /\ intent \in IntentRecord
    /\ DecidedTogether
    /\ DecisionNotCancelled
    /\ ChosenStaysAccepted
    /\ intent.kind = "CHOOSE" => intent.invited \in Creators
    /\ job.status = None <=> intent.kind = None

\* The job, and the receipts about it.
Job ==
    /\ job \in JobRecord
    /\ completed \in Nat
    /\ refused \subseteq (Nat \X RefusalCode)
    /\ job.claims <= MaxClaims
    /\ job.status = "AVAILABLE" => job.claims < MaxClaims
    /\ FailedWhenSpent

\* A fence under a slot was given out by the job, to that slot only.
Slots ==
    /\ slot \in [Coordinators -> Nat]
    /\ evidence \in [Coordinators -> {"NONE", "FRESH", "STALE"}]
    /\ failures \in [Coordinators -> 0 .. MaxFailures]
    /\ \A w \in Coordinators : slot[w] <= job.fence
    /\ OneFencePerClaim

IInv == Decision /\ Job /\ Slots
-----------------------------------------------------------------------------
LEMMA InvProperties ==
  ASSUME IInv
  PROVE  /\ TypeOK /\ DecidedTogether /\ DecisionNotCancelled
         /\ ChosenStaysAccepted /\ OneFencePerClaim /\ FailedWhenSpent
BY DEF IInv, Decision, Job, Slots, TypeOK, Sets

LEMMA InitInv == Init => IInv
<1> SUFFICES ASSUME Init PROVE IInv OBVIOUS
<1> USE BoundsAssumption
<1>1. Decision
  <2>1. invitation \in Sets BY DEF Init, Sets, InvitationStatus, None
  <2>2. NoSet \in Sets BY DEF NoSet, Sets, InvitationStatus, None
  <2>3. intent \in IntentRecord
    BY <2>2 DEF Init, IntentRecord, IntentKind, NoIntent, SystemClose, None
  <2>4. intent.kind \in {"NONE", "SYSTEM_CLOSE"}
        /\ (intent.kind = None <=> job.status = None)
        /\ job.status # "COMPLETED"
    BY DEF Init, NoIntent, SystemClose, NoJob, QueuedJob, None
  <2>5. DecidedTogether /\ DecisionNotCancelled /\ ChosenStaysAccepted
    BY <2>4 DEF Init, DecidedTogether, DecisionNotCancelled, ChosenStaysAccepted
  <2> QED BY <2>1, <2>3, <2>4, <2>5 DEF Init, Decision
<1>2. Job
  BY DEF Init, Job, JobRecord, NoJob, QueuedJob, FailureCode, FailedWhenSpent, None
<1>3. Slots
  <2>1. job.fence = 0 BY DEF Init, NoJob, QueuedJob
  <2> QED BY <2>1 DEF Init, Slots, OneFencePerClaim, None
<1> QED BY <1>1, <1>2, <1>3 DEF IInv
-----------------------------------------------------------------------------
(* Steps of the people                                                       *)

\* Nothing that ends or decides the selection happens.
Undecided == UNCHANGED <<attempt, selection, demand, intent, jobVars, coordinatorVars>>

LEMMA UndecidedStep ==
  ASSUME IInv, Undecided,
         eligible' \in BOOLEAN, invitation' \in Sets, reviewing' \in BOOLEAN,
         selector' \in {"NONE", "ACTIVE", "LAPSED", "COMPLETED"},
         ChosenStaysAccepted'
  PROVE  IInv'
<1>1. Decision'
  BY DEF IInv, Decision, Undecided, jobVars, DecidedTogether, DecisionNotCancelled,
         Recorded
<1>2. Job' BY DEF IInv, Job, Undecided, jobVars, FailedWhenSpent
<1>3. Slots'
  BY DEF IInv, Slots, Undecided, jobVars, coordinatorVars, OneFencePerClaim
<1> QED BY <1>1, <1>2, <1>3 DEF IInv

LEMMA InviteStep ==
  ASSUME IInv, NEW c \in Creators, NEW status \in InvitationStatus,
         intent.kind = "CHOOSE" => invitation[c] # "ACCEPTED",
         Invite(c, status)
  PROVE  IInv'
<1>1. invitation' = [invitation EXCEPT ![c] = status] /\ invitation \in Sets
  BY DEF Invite, IInv, Decision
<1>2. invitation' \in Sets BY <1>1 DEF Sets
<1>3. ChosenStaysAccepted'
  <2> SUFFICES ASSUME intent.kind = "CHOOSE"
               PROVE  invitation'[intent.invited] = "ACCEPTED"
    BY DEF Invite, ChosenStaysAccepted
  <2>1. intent.invited \in Creators /\ invitation[intent.invited] = "ACCEPTED"
    BY DEF IInv, Decision, ChosenStaysAccepted
  <2> QED BY <1>1, <2>1 DEF Sets
<1>4. Undecided BY DEF Invite, Undecided
<1> QED BY <1>2, <1>3, <1>4, UndecidedStep DEF Invite, IInv, Decision

LEMMA AssignmentStep ==
  ASSUME IInv, ClaimReview \/ EndReview \/ ClaimSelector \/ SelectorLapses
  PROVE  IInv'
<1>1. Undecided
  BY DEF ClaimReview, EndReview, ClaimSelector, SelectorLapses, Undecided
<1>2. UNCHANGED <<eligible, invitation>> /\ reviewing' \in BOOLEAN
      /\ selector' \in {"NONE", "ACTIVE", "LAPSED", "COMPLETED"}
  BY DEF ClaimReview, EndReview, ClaimSelector, SelectorLapses, IInv, Decision
<1>3. eligible' \in BOOLEAN /\ invitation' \in Sets /\ ChosenStaysAccepted'
  BY <1>1, <1>2 DEF Undecided, IInv, Decision, ChosenStaysAccepted
<1> QED BY <1>1, <1>2, <1>3, UndecidedStep

LEMMA InvitationStep ==
  ASSUME IInv, NEW c \in Creators,
         \/ CreateInvitation(c) \/ PublishInvitation(c) \/ Withdraw(c)
         \/ \E answer \in {"ACCEPTED", "DECLINED"} : Respond(c, answer)
  PROVE  IInv'
<1>1. CASE CreateInvitation(c)
  BY <1>1, InviteStep DEF CreateInvitation, InvitationStatus, None
<1>2. CASE PublishInvitation(c)
  BY <1>2, InviteStep DEF PublishInvitation, InvitationStatus
<1>3. CASE Withdraw(c) BY <1>3, InviteStep DEF Withdraw, InvitationStatus
<1>4. CASE \E answer \in {"ACCEPTED", "DECLINED"} : Respond(c, answer)
  BY <1>4, InviteStep DEF Respond, InvitationStatus
<1> QED BY <1>1, <1>2, <1>3, <1>4

LEMMA InvalidateStep ==
  ASSUME IInv, Invalidate
  PROVE  IInv'
<1>1. selection = "OPEN" /\ attempt = "OPEN" /\ ~Recorded
      /\ selection' = "CANCELLED" /\ attempt' = "INVALIDATED"
      /\ UNCHANGED <<eligible, demand, selector, reviewing, intent, jobVars,
                     coordinatorVars>>
  BY DEF Invalidate, Open, Cancel
<1>2. invitation' \in Sets
  BY DEF Invalidate, Cancel, IInv, Decision, Sets, InvitationStatus
<1>3. DecidedTogether'
  BY <1>1 DEF IInv, Decision, DecidedTogether, jobVars
<1>4. DecisionNotCancelled' /\ ChosenStaysAccepted'
  BY <1>1 DEF DecisionNotCancelled, ChosenStaysAccepted, Recorded
<1>5. Decision' BY <1>1, <1>2, <1>3, <1>4 DEF IInv, Decision, jobVars
<1>6. Job' BY <1>1 DEF IInv, Job, jobVars, FailedWhenSpent
<1>7. Slots' BY <1>1 DEF IInv, Slots, jobVars, coordinatorVars, OneFencePerClaim
<1> QED BY <1>5, <1>6, <1>7 DEF IInv

LEMMA DecideStep ==
  ASSUME IInv, NEW kind \in {"CHOOSE", "CLOSE"}, NEW c \in Creators \cup {None},
         kind = "CHOOSE" => c \in Creators /\ invitation[c] = "ACCEPTED",
         Decide(kind, c)
  PROVE  IInv'
<1>1. InvitationSet(invitation) \in Sets
  BY DEF IInv, Decision, InvitationSet, Sets, InvitationStatus, None
<1>2. selection = "OPEN" /\ job = NoJob /\ job' = QueuedJob
      /\ intent' = [kind |-> kind, invited |-> c, set |-> InvitationSet(invitation)]
      /\ UNCHANGED <<eligible, attempt, selection, demand, invitation, selector,
                     reviewing, completed, refused, coordinatorVars>>
  BY DEF Decide, Open
<1>3. intent' \in IntentRecord /\ intent'.kind = kind /\ intent'.invited = c
  BY <1>1, <1>2 DEF IntentRecord, IntentKind
<1>4. job'.status = "AVAILABLE" /\ job'.fence = 0 /\ job.fence = 0 /\ job'.claims = 0
      /\ job' \in JobRecord
  BY <1>2 DEF NoJob, QueuedJob, JobRecord, FailureCode, None
<1>5. DecidedTogether' /\ DecisionNotCancelled' /\ ChosenStaysAccepted'
  BY <1>2, <1>3, <1>4 DEF IInv, Decision, DecidedTogether, DecisionNotCancelled,
                          ChosenStaysAccepted
<1>6. Decision' BY <1>2, <1>3, <1>4, <1>5 DEF IInv, Decision, None
<1>7. Job' BY <1>2, <1>4, BoundsAssumption DEF IInv, Job, FailedWhenSpent
<1>8. Slots' BY <1>2, <1>4 DEF IInv, Slots, coordinatorVars, OneFencePerClaim
<1> QED BY <1>6, <1>7, <1>8 DEF IInv

LEMMA PeopleStep == IInv /\ People => IInv'
<1> SUFFICES ASSUME IInv, People PROVE IInv' OBVIOUS
<1>1. CASE CloseSelection BY <1>1, DecideStep DEF CloseSelection
<1>2. ASSUME NEW c \in Creators, ChooseCreator(c) PROVE IInv'
  BY <1>2, DecideStep DEF ChooseCreator
<1> QED BY <1>1, <1>2, AssignmentStep, InvalidateStep, InvitationStep DEF People
-----------------------------------------------------------------------------
(* Steps of the coordinators                                                 *)

\* A coordinator's memory moves; the fence it keeps under its slot, if any, is
\* the one it had.
Moves ==
    /\ slot' \in [Coordinators -> Nat]
    /\ evidence' \in [Coordinators -> {"NONE", "FRESH", "STALE"}]
    /\ failures' \in [Coordinators -> 0 .. MaxFailures]
    /\ \A w \in Coordinators : slot'[w] \in {0, slot[w]}

LEMMA ForgetMoves ==
  ASSUME Slots, NEW w \in Coordinators, Forget(w)
  PROVE  Moves
BY BoundsAssumption DEF Slots, Forget, Moves, None

LEMMA RaisesMoves ==
  ASSUME Slots, NEW w \in Coordinators, TickRaises(w)
  PROVE  Moves
<1>1. CASE failures[w] + 1 >= MaxFailures BY <1>1, ForgetMoves DEF TickRaises
<1>2. CASE ~(failures[w] + 1 >= MaxFailures)
  <2>1. failures[w] + 1 \in 0 .. MaxFailures
    BY <1>2, BoundsAssumption DEF Slots
  <2>2. failures' \in [Coordinators -> 0 .. MaxFailures]
    BY <1>2, <2>1 DEF TickRaises, Slots
  <2> QED BY <1>2, <2>2 DEF TickRaises, Slots, Moves
<1> QED BY <1>1, <1>2

LEMMA EndTickMoves ==
  ASSUME Slots, NEW w \in Coordinators, NEW acked \in BOOLEAN, EndTick(w, acked)
  PROVE  Moves
BY ForgetMoves, RaisesMoves DEF EndTick, TickReturns

LEMMA SlotsStep ==
  ASSUME IInv, Moves, job'.fence \in Nat, job'.fence >= job.fence
  PROVE  Slots'
<1>1. job.fence \in Nat BY DEF IInv, Job, JobRecord
<1>2. \A w \in Coordinators : slot[w] \in Nat /\ slot[w] <= job.fence
  BY DEF IInv, Slots
<1>3. \A w \in Coordinators : slot'[w] <= job'.fence BY <1>1, <1>2 DEF Moves
<1>4. OneFencePerClaim'
  BY DEF IInv, Slots, Moves, OneFencePerClaim
<1> QED BY <1>3, <1>4 DEF Slots, Moves

\* A tick that leaves the database alone.
LEMMA MemoryStep ==
  ASSUME IInv, Moves, UNCHANGED <<selectionVars, jobVars>>
  PROVE  IInv'
<1>1. Decision'
  BY DEF IInv, Decision, selectionVars, jobVars, DecidedTogether,
         DecisionNotCancelled, ChosenStaysAccepted, Recorded
<1>2. Job' BY DEF IInv, Job, jobVars, FailedWhenSpent
<1>3. Slots' BY SlotsStep DEF IInv, Job, JobRecord, jobVars
<1> QED BY <1>1, <1>2, <1>3 DEF IInv

\* The job moves on, but does not complete.
LEMMA JobMoves ==
  ASSUME IInv, UNCHANGED selectionVars, job.status \in {"AVAILABLE", "LEASED"},
         job'.status \in {"AVAILABLE", "LEASED", "FAILED"}
  PROVE  Decision'
BY DEF IInv, Decision, selectionVars, DecidedTogether, DecisionNotCancelled,
       ChosenStaysAccepted, Recorded, None

LEMMA ClaimStep ==
  ASSUME IInv, NEW w \in Coordinators, NEW acked \in BOOLEAN, ClaimCompletion(w, acked)
  PROVE  IInv'
<1> USE BoundsAssumption
<1>1. job \in JobRecord /\ job.fence \in Nat /\ job.claims \in Nat
  BY DEF IInv, Job, JobRecord
<1>2. job.status \in {"AVAILABLE", "LEASED"} /\ job.claims < MaxClaims
  BY <1>1 DEF ClaimCompletion, Claimable, ClaimsSpent, IInv, Job
<1>3. job' \in JobRecord /\ job'.status = "LEASED" /\ job'.claims = job.claims + 1
      /\ job'.fence = job.fence + 1
  BY <1>1 DEF ClaimCompletion, Lease, JobRecord, FailureCode, None
<1>4. Decision' BY <1>2, <1>3, JobMoves DEF ClaimCompletion, Lease
<1>5. Job'
  BY <1>1, <1>2, <1>3 DEF ClaimCompletion, Lease, IInv, Job, FailedWhenSpent
<1>6. Slots'
  <2>1. slot' \in [Coordinators -> Nat]
        /\ \A v \in Coordinators : \/ slot'[v] = slot[v]
                                   \/ v = w /\ slot'[v] = job.fence + 1
    BY <1>1 DEF ClaimCompletion, Lease, IInv, Slots
  <2>2. \A v \in Coordinators : slot[v] \in Nat /\ slot[v] <= job.fence
    BY DEF IInv, Slots
  <2>3. \A v \in Coordinators : slot'[v] <= job'.fence
    BY <1>1, <1>3, <2>1, <2>2
  <2>4. OneFencePerClaim'
    BY <1>1, <2>1, <2>2 DEF IInv, Slots, OneFencePerClaim
  <2>5. failures[w] \in 0 .. MaxFailures BY DEF IInv, Slots
  <2>6. failures' \in [Coordinators -> 0 .. MaxFailures]
    BY <2>5 DEF ClaimCompletion, Lease, IInv, Slots
  <2> QED BY <2>1, <2>3, <2>4, <2>6 DEF ClaimCompletion, Lease, IInv, Slots
<1> QED BY <1>4, <1>5, <1>6 DEF IInv

LEMMA ExhaustStep ==
  ASSUME IInv, NEW w \in Coordinators, NEW acked \in BOOLEAN, ExhaustClaims(w, acked)
  PROVE  IInv'
<1>1. job \in JobRecord /\ job.fence \in Nat /\ job.claims \in Nat
      /\ job.claims <= MaxClaims
  BY DEF IInv, Job, JobRecord
<1>2. job.status = "LEASED" /\ job.claims = MaxClaims
  BY <1>1, BoundsAssumption DEF ExhaustClaims, ClaimsSpent
<1>3. job' \in JobRecord /\ job'.status = "FAILED" /\ job'.claims = job.claims
      /\ job'.fence = job.fence + 1
  BY <1>1 DEF ExhaustClaims, JobRecord, FailureCode
<1>4. Decision' BY <1>2, <1>3, JobMoves DEF ExhaustClaims
<1>5. Job' BY <1>1, <1>2, <1>3 DEF ExhaustClaims, IInv, Job, FailedWhenSpent
<1>6. Slots' BY <1>1, <1>3, SlotsStep, EndTickMoves DEF ExhaustClaims, IInv
<1> QED BY <1>4, <1>5, <1>6 DEF IInv

LEMMA RefuseStep ==
  ASSUME IInv, NEW w \in Coordinators, NEW code \in RefusalCode, NEW acked \in BOOLEAN,
         RefuseTrust(w, code, acked)
  PROVE  IInv'
<1>1. job \in JobRecord /\ job.fence \in Nat /\ job.claims \in Nat
      /\ job.claims <= MaxClaims /\ slot[w] \in Nat
  BY DEF IInv, Job, JobRecord, Slots
<1>2. job.status = "LEASED" BY DEF RefuseTrust, HoldsLease
<1>3. CASE job.claims >= MaxClaims
  <2>1. job' \in JobRecord /\ job'.status = "FAILED" /\ job'.claims = job.claims
        /\ job'.fence = job.fence
    BY <1>1, <1>3 DEF RefuseTrust, JobRecord, FailureCode
  <2>2. job'.claims = MaxClaims BY <1>1, <1>3, <2>1, BoundsAssumption
  <2>3. Decision' BY <1>2, <2>1, JobMoves DEF RefuseTrust
  <2>4. Job' BY <1>1, <2>1, <2>2 DEF RefuseTrust, IInv, Job, FailedWhenSpent
  <2>5. Slots' BY <1>1, <2>1, SlotsStep, EndTickMoves DEF RefuseTrust, IInv
  <2> QED BY <2>3, <2>4, <2>5 DEF IInv
<1>4. CASE ~(job.claims >= MaxClaims)
  <2>1. job' \in JobRecord /\ job'.status = "AVAILABLE" /\ job'.claims = job.claims
        /\ job'.fence = job.fence
    BY <1>1, <1>4 DEF RefuseTrust, JobRecord, FailureCode
  <2>2. job'.claims < MaxClaims BY <1>1, <1>4, <2>1, BoundsAssumption
  <2>3. Decision' BY <1>2, <2>1, JobMoves DEF RefuseTrust
  <2>4. Job' BY <1>1, <2>1, <2>2 DEF RefuseTrust, IInv, Job, FailedWhenSpent
  <2>5. Slots' BY <1>1, <2>1, SlotsStep, EndTickMoves DEF RefuseTrust, IInv
  <2> QED BY <2>3, <2>4, <2>5 DEF IInv
<1> QED BY <1>3, <1>4

LEMMA CompleteStep ==
  ASSUME IInv, NEW w \in Coordinators, NEW acked \in BOOLEAN,
         CompleteSelection(w, acked)
  PROVE  IInv'
<1>1. job \in JobRecord /\ job.fence \in Nat /\ job.claims \in Nat /\ slot[w] \in Nat
  BY DEF IInv, Job, JobRecord, Slots
<1>2. job.status = "LEASED" /\ selection = "OPEN" /\ attempt = "OPEN"
  BY DEF CompleteSelection, HoldsLease, Ready, Open
<1>3. intent.kind \in {"CHOOSE", "CLOSE", "SYSTEM_CLOSE"}
  BY <1>2 DEF IInv, Decision, IntentRecord, IntentKind, None
<1>4. job' \in JobRecord /\ job'.status = "COMPLETED" /\ job'.claims = job.claims
      /\ job'.fence = job.fence
  BY <1>1 DEF CompleteSelection, JobRecord
<1>5. UNCHANGED <<eligible, invitation, reviewing, intent, refused>>
      /\ completed' = slot[w] /\ EndTick(w, acked)
      /\ selector' = IF selector = None THEN None ELSE "COMPLETED"
  BY DEF CompleteSelection
<1>6. IF intent.kind = "CHOOSE"
      THEN selection' = "SELECTED" /\ attempt' = "SELECTED" /\ demand' = "MATCHED"
      ELSE /\ selection' = "CLOSED_NO_SELECTION"
           /\ attempt' = "CLOSED_NO_SELECTION" /\ demand' = "NO_MATCH"
  BY DEF CompleteSelection, Select, CloseWithoutSelection
<1>7. DecidedTogether' /\ DecisionNotCancelled'
  BY <1>3, <1>4, <1>5, <1>6 DEF DecidedTogether, DecisionNotCancelled
<1>8. ChosenStaysAccepted' BY <1>5 DEF IInv, Decision, ChosenStaysAccepted
<1>9. Decision'
  BY <1>2, <1>3, <1>4, <1>5, <1>6, <1>7, <1>8 DEF IInv, Decision, None
<1>10. Job' BY <1>1, <1>2, <1>4, <1>5 DEF IInv, Job, FailedWhenSpent
<1>11. Slots' BY <1>1, <1>4, <1>5, SlotsStep, EndTickMoves DEF IInv
<1> QED BY <1>9, <1>10, <1>11 DEF IInv

LEMMA EvidenceStep ==
  ASSUME IInv, NEW w \in Coordinators, ObtainEvidence(w) \/ EvidenceAges(w)
  PROVE  IInv'
<1>1. Moves BY DEF ObtainEvidence, EvidenceAges, Moves, IInv, Slots
<1> QED BY <1>1, MemoryStep DEF ObtainEvidence, EvidenceAges

LEMMA TimePassesStep == IInv /\ TimePasses => IInv'
<1> SUFFICES ASSUME IInv, TimePasses PROVE IInv' OBVIOUS
<1>1. job' \in JobRecord /\ job'.status = job.status /\ job'.claims = job.claims
      /\ job'.fence = job.fence
  BY DEF TimePasses, IInv, Job, JobRecord
<1>2. Decision' BY <1>1, JobMoves DEF TimePasses
<1>3. Job' BY <1>1 DEF TimePasses, IInv, Job, FailedWhenSpent
<1>4. Slots'
  BY <1>1 DEF TimePasses, IInv, Slots, coordinatorVars, OneFencePerClaim
<1> QED BY <1>2, <1>3, <1>4 DEF IInv

LEMMA ExecuteStep ==
  ASSUME IInv, NEW w \in Coordinators, Execute(w)
  PROVE  IInv'
<1>1. ASSUME NEW code \in RefusalCode,
             RefuseTrustReplayed(w, code) \/ RefuseTrustRaises(w, code)
      PROVE  IInv'
  <2>1. Moves
    BY <1>1, ForgetMoves, RaisesMoves
       DEF RefuseTrustReplayed, RefuseTrustRaises, TickReturns, IInv
  <2> QED BY <1>1, <2>1, MemoryStep DEF RefuseTrustReplayed, RefuseTrustRaises
<1>2. CASE CompletionEndsTick(w) \/ CompletionRaises(w)
  <2>1. Moves
    BY <1>2, ForgetMoves, RaisesMoves
       DEF CompletionEndsTick, CompletionRaises, TickReturns, IInv
  <2> QED BY <1>2, <2>1, MemoryStep DEF CompletionEndsTick, CompletionRaises
<1> QED BY <1>1, <1>2, EvidenceStep, RefuseStep, CompleteStep DEF Execute

LEMMA NextInv == IInv /\ [Next]_vars => IInv'
<1> SUFFICES ASSUME IInv, [Next]_vars PROVE IInv' OBVIOUS
<1>1. CASE UNCHANGED vars
  <2>1. Moves BY <1>1 DEF vars, Moves, IInv, Slots
  <2> QED BY <1>1, <2>1, MemoryStep DEF vars, selectionVars, jobVars
<1>2. ASSUME NEW w \in Coordinators, CycleFails(w) \/ Crash(w) PROVE IInv'
  <2>1. Moves
    BY <1>2, ForgetMoves, RaisesMoves DEF CycleFails, Crash, IInv
  <2> QED BY <1>2, <2>1, MemoryStep DEF CycleFails, Crash
<1> QED BY <1>1, <1>2, PeopleStep, ClaimStep, ExhaustStep, ExecuteStep,
           EvidenceStep, TimePassesStep DEF Next, Claim

LEMMA InvAlways == Spec => []IInv
BY InitInv, NextInv, PTL DEF Spec

\* Every variable keeps its type, and no counter of a coordinator leaves its
\* bound.
THEOREM TypeCorrect == Spec => []TypeOK
<1>1. IInv => TypeOK BY InvProperties
<1> QED BY <1>1, InvAlways, PTL

\* Matching and Demand agree about the outcome, and it is the one decided.
THEOREM OutcomeAsDecided == Spec => []DecidedTogether
<1>1. IInv => DecidedTogether BY InvProperties
<1> QED BY <1>1, InvAlways, PTL

\* No invalidation overtakes a decision.
THEOREM DecisionStands == Spec => []DecisionNotCancelled
<1>1. IInv => DecisionNotCancelled BY InvProperties
<1> QED BY <1>1, InvAlways, PTL

\* The chosen creator's acceptance stays.
THEOREM ChosenBound == Spec => []ChosenStaysAccepted
<1>1. IInv => ChosenStaysAccepted BY InvProperties
<1> QED BY <1>1, InvAlways, PTL

\* A fence is held by one coordinator.
THEOREM FenceExcludes == Spec => []OneFencePerClaim
<1>1. IInv => OneFencePerClaim BY InvProperties
<1> QED BY <1>1, InvAlways, PTL

\* A failed job has used all its claims.
THEOREM FailsLast == Spec => []FailedWhenSpent
<1>1. IInv => FailedWhenSpent BY InvProperties
<1> QED BY <1>1, InvAlways, PTL
-----------------------------------------------------------------------------
LEMMA OutcomeStep ==
  ASSUME [Next]_vars, selection # "OPEN"
  PROVE  UNCHANGED <<selection, attempt, demand>>
<1>1. CASE UNCHANGED vars BY <1>1 DEF vars
<1>2. CASE People
  BY <1>2 DEF People, ClaimReview, EndReview, Invalidate, Open, ClaimSelector,
              SelectorLapses, CloseSelection, ChooseCreator, Decide, Invite,
              CreateInvitation, PublishInvitation, Respond, Withdraw
<1>3. ASSUME NEW w \in Coordinators, Claim(w) PROVE UNCHANGED selectionVars
  BY <1>3 DEF Claim, ClaimCompletion, Lease, ExhaustClaims
<1>4. ASSUME NEW w \in Coordinators, Execute(w) PROVE UNCHANGED selectionVars
  BY <1>4 DEF Execute, ObtainEvidence, RefuseTrust, RefuseTrustReplayed,
              RefuseTrustRaises, CompleteSelection, Ready, Open,
              CompletionEndsTick, CompletionRaises
<1>5. ASSUME NEW w \in Coordinators, CycleFails(w) \/ EvidenceAges(w) \/ Crash(w)
      PROVE  UNCHANGED selectionVars
  BY <1>5 DEF CycleFails, EvidenceAges, Crash
<1>6. CASE TimePasses BY <1>6 DEF TimePasses, selectionVars
<1> QED BY <1>1, <1>2, <1>3, <1>4, <1>5, <1>6 DEF Next, selectionVars

\* What has ended stays as it ended.
THEOREM OutcomeStays == Spec => OutcomeFinal
<1>1. [Next]_vars => [selection # "OPEN" => UNCHANGED <<selection, attempt, demand>>]_vars
  BY OutcomeStep
<1> QED BY <1>1, PTL DEF Spec, OutcomeFinal
-----------------------------------------------------------------------------
(* One decision                                                              *)

DecisionVars == <<Choice, Outcome, demand = "MATCHED">>

LEMMA SameDecision ==
  ASSUME UNCHANGED <<selection, demand, intent>>
  PROVE  UNCHANGED DecisionVars
BY DEF DecisionVars, Choice, Outcome

\* A person's step that is not about the decision.
LEMMA PeopleKeep ==
  ASSUME \/ ClaimReview \/ EndReview \/ ClaimSelector \/ SelectorLapses
         \/ \E c \in Creators :
               \/ CreateInvitation(c) \/ PublishInvitation(c)
               \/ \E answer \in {"ACCEPTED", "DECLINED"} : Respond(c, answer)
               \/ Withdraw(c)
  PROVE  UNCHANGED <<selection, demand, intent>>
BY DEF ClaimReview, EndReview, ClaimSelector, SelectorLapses, Invite,
       CreateInvitation, PublishInvitation, Respond, Withdraw

\* A coordinator's step, but for the completion itself.
LEMMA CoordinatorKeeps ==
  ASSUME NEW w \in Coordinators,
         \/ Claim(w) \/ CycleFails(w) \/ EvidenceAges(w) \/ Crash(w)
         \/ ObtainEvidence(w) \/ CompletionEndsTick(w) \/ CompletionRaises(w)
         \/ \E code \in RefusalCode :
               \/ \E acked \in BOOLEAN : RefuseTrust(w, code, acked)
               \/ RefuseTrustReplayed(w, code) \/ RefuseTrustRaises(w, code)
  PROVE  UNCHANGED selectionVars
BY DEF Claim, ClaimCompletion, Lease, ExhaustClaims, CycleFails, EvidenceAges,
       Crash, ObtainEvidence, CompletionEndsTick, CompletionRaises, RefuseTrust,
       RefuseTrustReplayed, RefuseTrustRaises

LEMMA ChooseMaps ==
  ASSUME IInv, NEW c \in Creators, ChooseCreator(c)
  PROVE  Abstract!Choose(c)
BY DEF ChooseCreator, Decide, Recorded, Abstract!Choose, Choice, Outcome

\* Closing is decided here and carried out by a coordinator.
LEMMA CloseDecidedMaps ==
  ASSUME IInv, CloseSelection
  PROVE  UNCHANGED DecisionVars
BY DEF CloseSelection, Decide, Recorded, DecisionVars, Choice, Outcome

LEMMA InvalidateMaps ==
  ASSUME IInv, Invalidate
  PROVE  Abstract!EndWithoutChoice
BY DEF Invalidate, Open, Cancel, Recorded, Abstract!EndWithoutChoice, Choice, Outcome

LEMMA CompleteMaps ==
  ASSUME IInv, NEW w \in Coordinators, NEW acked \in BOOLEAN,
         CompleteSelection(w, acked)
  PROVE  Abstract!CarryOut \/ Abstract!EndWithoutChoice
<1>1. selection = "OPEN" /\ demand = "MATCHING" /\ UNCHANGED intent
  BY DEF CompleteSelection, Ready, Open
<1>2. CASE intent.kind = "CHOOSE"
  <2>1. intent.invited \in Creators BY <1>2 DEF IInv, Decision
  <2>2. selection' = "SELECTED" /\ demand' = "MATCHED"
    BY <1>2 DEF CompleteSelection, Select
  <2> QED BY <1>1, <1>2, <2>1, <2>2 DEF Abstract!CarryOut, Choice, Outcome
<1>3. CASE intent.kind # "CHOOSE"
  <2>1. selection' = "CLOSED_NO_SELECTION" /\ demand' = "NO_MATCH"
    BY <1>3 DEF CompleteSelection, CloseWithoutSelection
  <2> QED BY <1>1, <1>3, <2>1 DEF Abstract!EndWithoutChoice, Choice, Outcome
<1> QED BY <1>2, <1>3

LEMMA StepMaps == IInv /\ [Next]_vars => [Abstract!Next]_DecisionVars
<1> SUFFICES ASSUME IInv, [Next]_vars PROVE [Abstract!Next]_DecisionVars OBVIOUS
<1>1. CASE People
  BY <1>1, ChooseMaps, CloseDecidedMaps, InvalidateMaps, PeopleKeep, SameDecision
     DEF People, Abstract!Next
<1>2. ASSUME NEW w \in Coordinators,
             Claim(w) \/ Execute(w) \/ CycleFails(w) \/ EvidenceAges(w) \/ Crash(w)
      PROVE  [Abstract!Next]_DecisionVars
  <2>1. CASE \E acked \in BOOLEAN : CompleteSelection(w, acked)
    BY <2>1, CompleteMaps DEF Abstract!Next
  <2>2. CASE ~\E acked \in BOOLEAN : CompleteSelection(w, acked)
    <3>1. UNCHANGED selectionVars BY <1>2, <2>2, CoordinatorKeeps DEF Execute
    <3> QED BY <3>1, SameDecision DEF selectionVars
  <2> QED BY <2>1, <2>2
<1>3. CASE TimePasses BY <1>3, SameDecision DEF TimePasses, selectionVars
<1>4. CASE UNCHANGED vars BY <1>4, SameDecision DEF vars
<1> QED BY <1>1, <1>2, <1>3, <1>4 DEF Next

\* Everything the PostgreSQL functions and the coordinator processes do about a
\* selection is one decision, as OneDecision describes it.
THEOREM Refinement == Spec => ImplementsDecision
<1>1. Init => Abstract!Init
  BY DEF Init, Abstract!Init, NoIntent, SystemClose, Choice, Outcome, None
<1> QED BY <1>1, InvAlways, StepMaps, PTL
         DEF Spec, ImplementsDecision, Abstract!Spec, DecisionVars
-----------------------------------------------------------------------------
(* Decisions that can never be carried out                                   *)

\* The choice is bound to a set of invitations that is not the set there is.
ChoiceStuck ==
    /\ intent.kind = "CHOOSE" /\ selection = "OPEN"
    /\ intent.set # InvitationSet(invitation)

\* A selector has claimed what the system is about to close.
SystemCloseBlocked ==
    /\ intent.kind = "SYSTEM_CLOSE" /\ selection = "OPEN"
    /\ selector # None

\* An invitation that differs from the recorded set was open then and has been
\* answered since.
OnlyAnswersSince ==
    intent.kind = "CHOOSE" =>
        \A c \in Creators :
            \/ InvitationSet(invitation)[c] = intent.set[c]
            \/ intent.set[c] = "SENT" /\ invitation[c] \in {"ACCEPTED", "DECLINED"}

LEMMA AnswerKeeps ==
  ASSUME IInv, OnlyAnswersSince, intent.kind = "CHOOSE", UNCHANGED intent,
         NEW c \in Creators, NEW answer \in {"ACCEPTED", "DECLINED"},
         Respond(c, answer)
  PROVE  OnlyAnswersSince'
<1>1. invitation[c] = "SENT" /\ invitation' = [invitation EXCEPT ![c] = answer]
      /\ invitation \in Sets
  BY DEF Respond, Invite, IInv, Decision
<1>2. intent.set[c] = "SENT" BY <1>1 DEF OnlyAnswersSince, InvitationSet
<1>3. \A d \in Creators : d # c =>
        InvitationSet(invitation')[d] = InvitationSet(invitation)[d]
        /\ invitation'[d] = invitation[d]
  BY <1>1 DEF InvitationSet, Sets
<1>4. invitation'[c] = answer BY <1>1 DEF Sets
<1> QED BY <1>2, <1>3, <1>4 DEF OnlyAnswersSince

\* A created invitation is not part of the set.
LEMMA CreateKeepsSet ==
  ASSUME IInv, NEW c \in Creators, CreateInvitation(c)
  PROVE  InvitationSet(invitation') = InvitationSet(invitation)
         /\ \A d \in Creators : invitation[d] \in {"ACCEPTED", "DECLINED"} =>
               invitation'[d] = invitation[d]
BY DEF CreateInvitation, Invite, InvitationSet, IInv, Decision, Sets, None

\* After a choice the invitations change by answers alone.
LEMMA ChosenStep ==
  ASSUME IInv, Next, intent.kind = "CHOOSE"
  PROVE  /\ UNCHANGED intent
         /\ \/ UNCHANGED invitation
            \/ \E c \in Creators : CreateInvitation(c)
            \/ \E c \in Creators, answer \in {"ACCEPTED", "DECLINED"} :
                  Respond(c, answer)
<1>1. CASE People
  <2>1. UNCHANGED intent
    BY <1>1, PeopleKeep
       DEF People, Invalidate, CloseSelection, ChooseCreator, Decide, Recorded
  <2>2. ~Invalidate /\ ~CloseSelection /\ \A c \in Creators :
          ~PublishInvitation(c) /\ ~Withdraw(c) /\ ~ChooseCreator(c)
    BY DEF Invalidate, CloseSelection, PublishInvitation, Withdraw, ChooseCreator,
           Decide, Recorded
  <2> QED BY <1>1, <2>1, <2>2
          DEF People, ClaimReview, EndReview, ClaimSelector, SelectorLapses
<1>2. ASSUME NEW w \in Coordinators,
             Claim(w) \/ Execute(w) \/ CycleFails(w) \/ EvidenceAges(w) \/ Crash(w)
      PROVE  UNCHANGED <<intent, invitation>>
  BY <1>2, CoordinatorKeeps DEF Execute, CompleteSelection, selectionVars
<1>3. CASE TimePasses BY <1>3 DEF TimePasses, selectionVars
<1> QED BY <1>1, <1>2, <1>3 DEF Next

\* A choice is recorded with the set there is.
LEMMA BecomesChosen ==
  ASSUME IInv, [Next]_vars, intent.kind # "CHOOSE", intent'.kind = "CHOOSE"
  PROVE  OnlyAnswersSince'
<1>1. CASE \E c \in Creators : ChooseCreator(c)
  BY <1>1 DEF ChooseCreator, Decide, OnlyAnswersSince
<1>2. CASE People /\ ~\E c \in Creators : ChooseCreator(c)
  BY <1>2, PeopleKeep DEF People, Invalidate, Cancel, CloseSelection, Decide
<1>3. ASSUME NEW w \in Coordinators,
             Claim(w) \/ Execute(w) \/ CycleFails(w) \/ EvidenceAges(w) \/ Crash(w)
      PROVE  UNCHANGED intent
  BY <1>3, CoordinatorKeeps DEF Execute, CompleteSelection, selectionVars
<1>4. CASE TimePasses \/ UNCHANGED vars BY <1>4 DEF TimePasses, selectionVars, vars
<1> QED BY <1>1, <1>2, <1>3, <1>4 DEF Next

LEMMA AnswersStep ==
  IInv /\ OnlyAnswersSince /\ [Next]_vars => OnlyAnswersSince'
<1> SUFFICES ASSUME IInv, OnlyAnswersSince, [Next]_vars, intent'.kind = "CHOOSE"
             PROVE  OnlyAnswersSince'
  BY DEF OnlyAnswersSince
<1>1. CASE intent.kind # "CHOOSE" BY <1>1, BecomesChosen
<1>2. CASE intent.kind = "CHOOSE" /\ UNCHANGED vars
  BY <1>2 DEF vars, OnlyAnswersSince
<1>3. CASE intent.kind = "CHOOSE" /\ Next
  <2>1. CASE UNCHANGED invitation
    BY <1>3, <2>1, ChosenStep DEF OnlyAnswersSince
  <2>2. ASSUME NEW c \in Creators, CreateInvitation(c) PROVE OnlyAnswersSince'
    BY <1>3, <2>2, ChosenStep, CreateKeepsSet DEF OnlyAnswersSince
  <2> QED BY <1>3, <2>1, <2>2, ChosenStep, AnswerKeeps
<1> QED BY <1>1, <1>2, <1>3

\* Between a choice and its completion the invitations it is bound to change
\* in one way only: creators who had an open invitation answer it.
THEOREM OnlyAnswers == Spec => []OnlyAnswersSince
<1>1. Init => OnlyAnswersSince
  <2>1. Init => intent.kind # "CHOOSE" BY DEF Init, NoIntent, SystemClose, None
  <2> QED BY <2>1 DEF OnlyAnswersSince
<1> QED BY <1>1, InvAlways, AnswersStep, PTL DEF Spec

LEMMA StuckStep ==
  ASSUME IInv, OnlyAnswersSince, OnlyAnswersSince', [Next]_vars, ChoiceStuck
  PROVE  ChoiceStuck'
<1>1. CASE UNCHANGED vars BY <1>1 DEF vars, ChoiceStuck
<1>2. CASE Next
  <2>1. UNCHANGED intent /\ intent.kind = "CHOOSE" BY <1>2, ChosenStep DEF ChoiceStuck
  <2>2. UNCHANGED selection
    <3>1. ~Ready BY DEF Ready, ChoiceStuck
    <3>2. \A w \in Coordinators, acked \in BOOLEAN : ~CompleteSelection(w, acked)
      BY <3>1 DEF CompleteSelection
    <3>3. ~Invalidate BY <2>1 DEF Invalidate, Recorded
    <3> QED BY <1>2, <3>2, <3>3, PeopleKeep, CoordinatorKeeps
            DEF Next, People, Execute, CloseSelection, ChooseCreator, Decide,
                TimePasses, selectionVars
  <2>3. PICK c \in Creators :
          intent.set[c] = "SENT" /\ invitation[c] \in {"ACCEPTED", "DECLINED"}
    <3>1. intent.set \in Sets /\ InvitationSet(invitation) \in Sets
      BY DEF IInv, Decision, IntentRecord, InvitationSet, Sets, InvitationStatus, None
    <3>2. PICK c \in Creators : intent.set[c] # InvitationSet(invitation)[c]
      BY <3>1 DEF ChoiceStuck, Sets
    <3> QED BY <2>1, <3>2 DEF OnlyAnswersSince
  <2>4. invitation'[c] = invitation[c]
    BY <1>2, <2>1, <2>3, ChosenStep
       DEF CreateInvitation, Respond, Invite, IInv, Decision, Sets, None
  <2>5. intent'.set # InvitationSet(invitation')
    BY <2>1, <2>3, <2>4 DEF InvitationSet
  <2> QED BY <2>1, <2>2, <2>5 DEF ChoiceStuck
<1> QED BY <1>1, <1>2

\* Once an answer has come between a choice and its completion, the selection
\* stays open under that choice for ever: no coordinator completes it, and
\* nobody can choose again, close or invalidate it.
THEOREM StuckForGood == Spec => [][ChoiceStuck => ChoiceStuck']_vars
<1>1. IInv /\ OnlyAnswersSince /\ OnlyAnswersSince' /\ [Next]_vars
        => [ChoiceStuck => ChoiceStuck']_vars
  BY StuckStep
<1> QED BY <1>1, InvAlways, OnlyAnswers, PTL DEF Spec

LEMMA BlockedStep ==
  ASSUME IInv, Next, SystemCloseBlocked
  PROVE  SystemCloseBlocked' \/ selection' = "CANCELLED"
<1>1. ~Recorded /\ job # NoJob
  BY DEF SystemCloseBlocked, Recorded, IInv, Decision, NoJob, None
<1>2. CASE People
  BY <1>1, <1>2 DEF People, SystemCloseBlocked, Invalidate, Cancel, ClaimReview, EndReview,
              ClaimSelector, SelectorLapses, CloseSelection, ChooseCreator, Decide,
              Invite, CreateInvitation, PublishInvitation, Respond, Withdraw, None
<1>3. ASSUME NEW w \in Coordinators,
             Claim(w) \/ Execute(w) \/ CycleFails(w) \/ EvidenceAges(w) \/ Crash(w)
      PROVE  UNCHANGED selectionVars
  <2>1. ~Ready BY DEF Ready, ReadyToCloseBySystem, SystemCloseBlocked
  <2>2. \A acked \in BOOLEAN : ~CompleteSelection(w, acked)
    BY <2>1 DEF CompleteSelection
  <2> QED BY <1>3, <2>2, CoordinatorKeeps DEF Execute
<1>4. CASE TimePasses BY <1>4 DEF TimePasses, SystemCloseBlocked, selectionVars
<1> QED BY <1>2, <1>3, <1>4 DEF Next, SystemCloseBlocked, selectionVars

\* A selector who opts in while the system is about to close a selection
\* without candidates stops it for ever, even when the assignment has run out:
\* only an invalidation still ends the attempt.
THEOREM BlockedForGood ==
  Spec => [][SystemCloseBlocked => SystemCloseBlocked' \/ selection' = "CANCELLED"]_vars
<1>1. IInv /\ [Next]_vars
        => [SystemCloseBlocked => SystemCloseBlocked' \/ selection' = "CANCELLED"]_vars
  BY BlockedStep
<1> QED BY <1>1, InvAlways, PTL DEF Spec
=============================================================================
