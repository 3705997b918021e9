--------------------------- MODULE OutboxRefinement ----------------------------
(* How the rows of OutboxDelivery show the abstract outbox of AtLeastOnce.   *)
EXTENDS OutboxDelivery

Shown(status) == CASE status = "PUBLISHED" -> "published"
                   [] status = "DEAD"      -> "dead"
                   [] OTHER                -> "queued"

AbstractState == [e \in Events |-> Shown(row[e].status)]

AbstractAccepted == {e \in Events : copies[e] > 0}

Abstract == INSTANCE AtLeastOnce WITH state <- AbstractState,
                                      accepted <- AbstractAccepted

\* Every step of the delivery workers is a step of the abstract outbox: an event
\* is settled once, and called published only after the broker accepted it.
ImplementsAtLeastOnce == Abstract!Spec
=============================================================================
