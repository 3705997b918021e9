------------------------ MODULE DeliveryPipelineProofs -------------------------
(***************************************************************************)
(* The delivery workers, the broker and the consumers together: what       *)
(* OutboxPipeline shows with an abstract outbox holds with the workers in  *)
(* its place.  That the broker never gets more copies of an event than     *)
(* that composition allows is what the count of OutboxCopiesProofs is for. *)
(***************************************************************************)
EXTENDS DeliveryPipeline, OutboxCopiesProofs

AbstractPipelineVars ==
  <<inboxVars, <<AbstractState, AbstractAccepted, copies>>>>

\* The consumers change nothing of the workers'.
LEMMA WorkersAlone == PipelineSpec => Spec
<1>1. PipelineInit => Init BY DEF PipelineInit
<1>2. [PipelineNext]_pipelineVars => [Next]_vars
  BY DEF PipelineNext, DeliveryStep, ConsumeStep, pipelineVars
<1> QED BY <1>1, <1>2, PTL DEF PipelineSpec, Spec

LEMMA WorkersInv == PipelineSpec => [](IInv /\ Spending)
BY WorkersAlone, Invariance, SpendingInvariance, PTL

LEMMA PipelineInitRefines == PipelineInit => Pipeline!Init
<1> SUFFICES ASSUME PipelineInit PROVE Pipeline!Init OBVIOUS
<1>1. Abstract!Init BY InitRefines DEF PipelineInit
<1>2. Pipeline!Outbox!Init
  BY <1>1 DEF Abstract!Init, Pipeline!Outbox!Init
<1>3. copies = [e \in Events |-> 0] BY DEF PipelineInit, Init
<1> QED BY <1>2, <1>3 DEF PipelineInit, Pipeline!Init

\* Only the broker call makes copies: one more, of an event with an attempt
\* that is not spent yet.
LEMMA CopyStep ==
  ASSUME IInv, Spending, Next, copies' # copies
  PROVE  \E e \in Events : /\ copies[e] < MaxAttempts
                           /\ copies' = [copies EXCEPT ![e] = @ + 1]
                           /\ row' = row
<1>1. PICK w \in Workers : Publish(w)
  BY DEF Next, SweepExhausted, ClaimBatch, StartLease, Settle, SeeStop,
         ReleaseUnstarted, RegistryUnavailable, Crash, RequestStop, Restart, Tick
<1> DEFINE e == worker[w].cur.event
<1>2. /\ row' = row /\ copies \in [Events -> Nat] /\ e \in Events
      /\ copies' = [copies EXCEPT ![e] = @ + 1]
      /\ worker[w].pc = "publish" /\ row[e] \in Row
  BY <1>1 DEF IInv, TypeOK, Publish, Shape, Lease
<1> HIDE DEF e
<1>3. w \in Offering(e) BY <1>2 DEF Offering, ToOffer, e
<1>4. Budget(e) BY <1>2 DEF Spending
<1>5. Cardinality(Offering(e)) \in Nat /\ Cardinality(Offering(e)) # 0
  BY <1>3, <1>4, FS_CardinalityType, FS_EmptySet DEF Budget
<1>6. copies[e] \in Nat /\ row[e].attempts \in 0 .. MaxAttempts
  BY <1>2 DEF Row
<1>7. copies[e] < MaxAttempts
  BY <1>4, <1>5, <1>6, OutboxAssumption DEF Budget, OutboxAssumption
<1> QED BY <1>2, <1>7

LEMMA OfferRefines ==
  ASSUME IInv, Spending, DeliveryStep, copies' # copies
  PROVE  \E e \in Events : Pipeline!Offer(e)
<1>1. PICK e \in Events : /\ copies[e] < MaxAttempts
                          /\ copies' = [copies EXCEPT ![e] = @ + 1]
                          /\ row' = row
  BY CopyStep DEF DeliveryStep
<1>2. copies \in [Events -> Nat] BY DEF IInv, TypeOK
<1>3. Arrive(e)
  <2>1. PICK f \in Events : copies'[f] # copies[f] /\ Arrive(f)
    BY DEF DeliveryStep
  <2>2. f = e BY <1>1, <1>2, <2>1
  <2> QED BY <2>1, <2>2
<1>4. AbstractState' = AbstractState BY <1>1 DEF AbstractState
<1>5. AbstractAccepted' = AbstractAccepted \cup {e}
  <2>1. copies'[e] > 0 /\ \A x \in Events \ {e} : copies'[x] = copies[x]
    BY <1>1, <1>2
  <2> QED BY <2>1 DEF AbstractAccepted
<1>6. Pipeline!Outbox!Accept(e) BY <1>4, <1>5 DEF Pipeline!Outbox!Accept
<1> QED BY <1>1, <1>3, <1>6 DEF Pipeline!Offer, Arrive

\* Without a new copy, the table alone is settled, or nothing is shown.
LEMMA SettleRefinesPipeline ==
  ASSUME IInv, [Next]_vars, UNCHANGED <<inboxVars, copies>>
  PROVE  Pipeline!SettleOutbox \/ UNCHANGED AbstractPipelineVars
<1>1. AbstractAccepted' = AbstractAccepted BY DEF AbstractAccepted
<1>2. CASE UNCHANGED AbstractVars
  BY <1>2 DEF AbstractVars, AbstractPipelineVars
<1>3. ASSUME NEW e \in Events, Abstract!Accept(e)
      PROVE  UNCHANGED AbstractPipelineVars
  BY <1>1, <1>3 DEF Abstract!Accept, AbstractPipelineVars
<1>4. ASSUME NEW e \in Events, Abstract!Confirm(e) PROVE Pipeline!SettleOutbox
  BY <1>4 DEF Abstract!Confirm, Pipeline!Outbox!Confirm, Pipeline!SettleOutbox,
              inboxVars, Pipeline!inboxVars
<1>5. ASSUME NEW S \in SUBSET Events, Abstract!GiveUp(S)
      PROVE  Pipeline!SettleOutbox \/ UNCHANGED AbstractPipelineVars
  <2>1. CASE S = {}
    <3>1. AbstractState = [e \in Events |-> AbstractState[e]] BY DEF AbstractState
    <3>2. AbstractState' = AbstractState
      BY <1>5, <2>1, <3>1 DEF Abstract!GiveUp
    <3> QED BY <1>1, <3>2 DEF AbstractPipelineVars
  <2>2. CASE S # {}
    BY <1>5, <2>2 DEF Abstract!GiveUp, Pipeline!Outbox!GiveUp,
                      Pipeline!SettleOutbox, inboxVars, Pipeline!inboxVars
  <2> QED BY <2>1, <2>2
<1> QED BY <1>2, <1>3, <1>4, <1>5, StepRefines DEF Abstract!Next

LEMMA ConsumeRefines ==
  ASSUME NEW c \in Consumers, Pipeline!ConsumerStep(c), UNCHANGED vars
  PROVE  Pipeline!Consume(c)
<1>1. UNCHANGED <<AbstractState, AbstractAccepted, copies>>
  BY DEF vars, AbstractState, AbstractAccepted
<1> QED BY <1>1 DEF Pipeline!Consume, Pipeline!outboxVars

LEMMA PipelineStepRefines ==
  IInv /\ Spending /\ [PipelineNext]_pipelineVars
    => [Pipeline!Next]_AbstractPipelineVars
<1> SUFFICES ASSUME IInv, Spending, [PipelineNext]_pipelineVars
             PROVE  [Pipeline!Next]_AbstractPipelineVars
  OBVIOUS
<1>1. CASE DeliveryStep /\ copies' # copies
  BY <1>1, OfferRefines DEF Pipeline!Next
<1>2. CASE DeliveryStep /\ copies' = copies
  BY <1>2, SettleRefinesPipeline DEF DeliveryStep, Pipeline!Next
<1>3. CASE ConsumeStep
  BY <1>3, ConsumeRefines DEF ConsumeStep, Pipeline!Next
<1>4. CASE UNCHANGED pipelineVars
  BY <1>4 DEF pipelineVars, vars, AbstractPipelineVars, AbstractState,
              AbstractAccepted
<1> QED BY <1>1, <1>2, <1>3, <1>4 DEF PipelineNext

\* The real workers implement the abstract composition: every copy the broker
\* accepts is an offer within the budget, every settled row a settlement.
THEOREM PipelineRefinement == PipelineSpec => ImplementsPipeline
<1> QED BY WorkersInv, PipelineInitRefines, PipelineStepRefines, PTL
         DEF PipelineSpec, ImplementsPipeline, Pipeline!Spec, Pipeline!vars,
             AbstractPipelineVars, inboxVars, Pipeline!inboxVars,
             Pipeline!outboxVars
-----------------------------------------------------------------------------
Proved == INSTANCE OutboxPipelineProofs WITH MaxCopies <- MaxAttempts,
                                             state     <- AbstractState,
                                             accepted  <- AbstractAccepted,
                                             sent      <- copies

\* Its specification is that of Pipeline, instantiated once more.
LEMMA SamePipeline == Pipeline!Spec => Proved!Spec
BY PTL
   DEF Pipeline!Spec, Pipeline!Init, Pipeline!InboxInit, Pipeline!Outbox!Init,
       Pipeline!Next, Pipeline!Offer, Pipeline!Send, Pipeline!Outbox!Accept,
       Pipeline!SettleOutbox, Pipeline!Outbox!Confirm, Pipeline!Outbox!GiveUp,
       Pipeline!Consume, Pipeline!ConsumerStep, Pipeline!Deliver,
       Pipeline!Insert, Pipeline!HandlerCannotWrite, Pipeline!HandlerSucceeds,
       Pipeline!HandlerRaises,
       Pipeline!Commit, Pipeline!CommitUnknown, Pipeline!Ack, Pipeline!Abandon,
       Pipeline!Requeue, Pipeline!Written, Pipeline!Locked, Pipeline!Waiting,
       Pipeline!Message, Pipeline!vars, Pipeline!inboxVars, Pipeline!outboxVars,
       Proved!Spec, Proved!Init, Proved!InboxInit, Proved!Outbox!Init,
       Proved!Next, Proved!Offer, Proved!Send, Proved!Outbox!Accept,
       Proved!SettleOutbox, Proved!Outbox!Confirm, Proved!Outbox!GiveUp,
       Proved!Consume, Proved!ConsumerStep, Proved!Deliver,
       Proved!Insert, Proved!HandlerCannotWrite, Proved!HandlerSucceeds,
       Proved!HandlerRaises,
       Proved!Commit, Proved!CommitUnknown, Proved!Ack, Proved!Abandon,
       Proved!Requeue, Proved!Written, Proved!Locked, Proved!Waiting,
       Proved!Message, Proved!vars, Proved!inboxVars, Proved!outboxVars

\* An event takes effect at most once, and none that the table calls published
\* is lost between the broker and the consumer (_publish, _mark_published and
\* PostgresDurableConsumerInbox.process together).
THEOREM Delivered == PipelineSpec => []EndToEnd
<1>1. Proved!AppliedOnce /\ Proved!PublishedNotLost => EndToEnd
  <2> SUFFICES ASSUME Proved!AppliedOnce, Proved!PublishedNotLost,
                      NEW e \in Events
               PROVE  /\ effects[e] \in {0, 1}
                      /\ row[e].status = "PUBLISHED" =>
                           \/ effects[e] > 0
                           \/ \E b \in Bodies : queue[[event |-> e, body |-> b]] > 0
                           \/ \E c \in Consumers :
                                consumer[c].pc # "idle" /\ consumer[c].msg.event = e
    BY DEF EndToEnd
  <2>1. row[e].status = "PUBLISHED" => AbstractState[e] = "published"
    BY DEF AbstractState, Shown
  <2> QED BY <2>1 DEF Proved!AppliedOnce, Proved!PublishedNotLost
<1>2. PipelineSpec => Proved!Spec
  BY PipelineRefinement, SamePipeline DEF ImplementsPipeline
<1>3. Proved!InboxAssumption
  BY PipelineAssumption, OutboxAssumption
     DEF PipelineAssumption, OutboxAssumption, Proved!InboxAssumption,
         Proved!Message
<1>4. Proved!Spec => []Proved!AppliedOnce BY <1>3, Proved!EffectOnce
<1>5. Proved!Spec => []Proved!PublishedNotLost
  BY <1>3, Proved!NothingPublishedIsLost
<1> QED BY <1>1, <1>2, <1>4, <1>5, PTL
=============================================================================
