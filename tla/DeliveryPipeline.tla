--------------------------- MODULE DeliveryPipeline ----------------------------
(***************************************************************************)
(* The whole way of an event, with nothing abstracted between the two      *)
(* ends: the delivery workers of OutboxDelivery on the outbox table, the   *)
(* broker, and the processes of ConsumerInbox.  The broker holds one more  *)
(* message for every copy it accepted, acknowledged or not.                *)
(***************************************************************************)
EXTENDS OutboxRefinement

CONSTANTS Bodies,     \* what the registry may make of one event
          Writing,    \* bodies whose handler writes through its transaction
          Consumers,  \* processes that share one consumer_name
          NoBody,     \* no inbox row
          NoMessage   \* nothing is being processed

ASSUME PipelineAssumption ==
  /\ Writing \subseteq Bodies
  /\ NoBody \notin Bodies
  /\ NoMessage \notin [event : Events, body : Bodies]

VARIABLES queue,     \* copies of each message that wait at the broker
          consumer,  \* what each process does with the message it was given
          inbox,     \* infra.consumer_inbox_events, committed rows
          effects,   \* committed runs of the handler, per event
          acked      \* messages acknowledged by some process

inboxVars == <<queue, consumer, inbox, effects, acked>>

\* The abstract outbox and the same inbox; a budget of attempts is its bound on
\* the copies of an event.
Pipeline == INSTANCE OutboxPipeline WITH MaxCopies <- MaxAttempts,
                                         state     <- AbstractState,
                                         accepted  <- AbstractAccepted,
                                         sent      <- copies

pipelineVars == <<vars, inboxVars>>

PipelineInit == Init /\ Pipeline!InboxInit

\* _publish encodes the event anew at every attempt
Arrive(e) == \E b \in Bodies : Pipeline!Send([event |-> e, body |-> b])

DeliveryStep ==
  /\ Next
  /\ IF copies' = copies
     THEN UNCHANGED inboxVars
     ELSE \E e \in Events : copies'[e] # copies[e] /\ Arrive(e)

ConsumeStep == (\E c \in Consumers : Pipeline!ConsumerStep(c)) /\ UNCHANGED vars

PipelineNext == DeliveryStep \/ ConsumeStep

PipelineSpec == PipelineInit /\ [][PipelineNext]_pipelineVars

\* of the workers, as OutboxDelivery assumes it; the consumers are free to stop
PipelineFairSpec == PipelineSpec /\ Fairness
-----------------------------------------------------------------------------
\* The delivery workers may stand where OutboxPipeline has the abstract outbox:
\* what is shown of that composition holds of theirs.
ImplementsPipeline == Pipeline!Spec

\* An event whose row says PUBLISHED has run its handler once, or is still to
\* run it from a copy that waits or is being processed; no event runs it twice,
\* however often it was published and delivered.
EndToEnd ==
  \A e \in Events :
    /\ effects[e] <= 1
    /\ row[e].status = "PUBLISHED" =>
         \/ effects[e] = 1
         \/ \E b \in Bodies : queue[[event |-> e, body |-> b]] > 0
         \/ \E c \in Consumers :
              consumer[c].pc # "idle" /\ consumer[c].msg.event = e
=============================================================================
