---------------------------- MODULE OutboxPipeline -----------------------------
(***************************************************************************)
(* From the outbox table to a consumer's projection: the abstract outbox   *)
(* that the delivery workers implement (AtLeastOnce), the broker, and the  *)
(* consumer inbox.  Whenever the workers have a copy accepted, the broker  *)
(* holds one more message.                                                 *)
(***************************************************************************)
EXTENDS ConsumerInbox

VARIABLES state,     \* what the outbox table says of each event
          accepted,  \* events the broker has accepted
          sent       \* copies sent so far, per event

Outbox == INSTANCE AtLeastOnce

outboxVars == <<state, accepted, sent>>
vars == <<inboxVars, outboxVars>>

Init == InboxInit /\ Outbox!Init /\ sent = [e \in Events |-> 0]

Offer(e) ==
  /\ sent[e] < MaxCopies
  /\ sent' = [sent EXCEPT ![e] = @ + 1]
  /\ Outbox!Accept(e)
  /\ \E b \in Bodies : Send([event |-> e, body |-> b])

\* the table is settled; consumers do not see it
SettleOutbox ==
  /\ \/ \E e \in Events : Outbox!Confirm(e)
     \/ \E S \in (SUBSET Events) \ {{}} : Outbox!GiveUp(S)
  /\ UNCHANGED <<inboxVars, sent>>

Consume(c) == ConsumerStep(c) /\ UNCHANGED outboxVars

Next ==
  \/ \E e \in Events : Offer(e)
  \/ SettleOutbox
  \/ \E c \in Consumers : Consume(c)

Spec == Init /\ [][Next]_vars

(* The broker delivers again what was not settled; a process goes on with    *)
(* its message, and no insert or commit fails on every single try.  Of the   *)
(* handler it is assumed that it ends, not that it ever succeeds.            *)
DeliverOf(e) ==
  \E c \in Consumers, m \in Message : m.event = e /\ Deliver(c, m)

HandlerEnds(c) == HandlerSucceeds(c) \/ HandlerRaises(c)

Fairness ==
  /\ \A c \in Consumers :
       /\ SF_vars(Insert(c) /\ UNCHANGED outboxVars)
       /\ WF_vars(HandlerEnds(c) /\ UNCHANGED outboxVars)
       /\ SF_vars(Commit(c) /\ UNCHANGED outboxVars)
       /\ WF_vars(Ack(c) /\ UNCHANGED outboxVars)
  /\ \A e \in Events : SF_vars(DeliverOf(e) /\ UNCHANGED outboxVars)

FairSpec == Spec /\ Fairness
-----------------------------------------------------------------------------
\* An event the table calls published has taken effect at the consumer, or a
\* copy of it is still on its way: no ack, nack, crash or lost commit drops it.
PublishedNotLost ==
  \A e \in Events : state[e] = "published" =>
    \/ effects[e] > 0
    \/ \E b \in Bodies : queue[[event |-> e, body |-> b]] > 0
    \/ \E c \in Consumers :
         consumer[c].pc # "idle" /\ consumer[c].msg.event = e

\* A run of the event's handler comes to nothing: it raises, or its process
\* dies or loses the database meanwhile, which leaves the same behind.
HandlerFailsOn(e) ==
  \E c \in Consumers : HandlerRaises(c) /\ consumer[c].msg.event = e

\* Nothing but its own handler keeps a published event from taking effect: one
\* that never does is one whose handler fails again and again for ever, as a
\* handler that writes through the inbox's transaction must.
PublishedIsApplied ==
  \A e \in Events :
    <>[][~HandlerFailsOn(e)]_vars
      => ((state[e] = "published") ~> (effects[e] > 0))
=============================================================================
