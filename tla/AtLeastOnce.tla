----------------------------- MODULE AtLeastOnce ------------------------------
(***************************************************************************)
(* What the outbox promises (docs/architecture/outbox-delivery.md, section *)
(* 7): at least once, or given up in the open.  A queued event may reach   *)
(* the broker any number of times, before or after it is settled; it is    *)
(* called published only once it has been accepted.                        *)
(***************************************************************************)
CONSTANT Events

VARIABLES state,     \* what the table says of each event
          accepted   \* events the broker has accepted

Init ==
  /\ state = [e \in Events |-> "queued"]
  /\ accepted = {}

Accept(e) ==
  /\ accepted' = accepted \cup {e}
  /\ UNCHANGED state

Confirm(e) ==
  /\ state[e] = "queued"
  /\ e \in accepted
  /\ state' = [state EXCEPT ![e] = "published"]
  /\ UNCHANGED accepted

GiveUp(S) ==
  /\ \A e \in S : state[e] = "queued"
  /\ state' = [e \in Events |-> IF e \in S THEN "dead" ELSE state[e]]
  /\ UNCHANGED accepted

Next ==
  \/ \E e \in Events : Accept(e) \/ Confirm(e)
  \/ \E S \in SUBSET Events : GiveUp(S)

Spec == Init /\ [][Next]_<<state, accepted>>
=============================================================================
