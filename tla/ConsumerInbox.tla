----------------------------- MODULE ConsumerInbox -----------------------------
(***************************************************************************)
(* The durable consumer inbox (PostgresDurableConsumerInbox.process in     *)
(* outbox/postgres.py): several processes of one consumer take messages    *)
(* from the broker and, in one transaction, insert the event's inbox row   *)
(* and run the handler; the message is settled after that transaction.     *)
(*                                                                         *)
(* The broker is external: a message a consumer neither acks nor nacks is  *)
(* delivered again.  A message's body stands for the columns of the inbox  *)
(* row, the digest of its canonical bytes among them; the registry makes   *)
(* those bytes anew at every attempt, so two copies of one event may       *)
(* differ.                                                                 *)
(*                                                                         *)
(* The handler is external too.  The transaction it is given takes no      *)
(* statement yet: execute_statement raises whatever it is asked, so a      *)
(* handler that writes its projection through it fails each time.          *)
(***************************************************************************)
EXTENDS Integers, FiniteSets

CONSTANTS Events,     \* event ids
          Bodies,     \* what the registry may make of one event
          Writing,    \* bodies whose handler writes through its transaction
          Consumers,  \* processes that share one consumer_name
          MaxCopies,  \* bound on the copies of an event sent to the broker
          NoBody,     \* no inbox row
          NoMessage   \* nothing is being processed

Message == [event : Events, body : Bodies]

ASSUME InboxAssumption ==
  /\ MaxCopies \in Nat \ {0}
  /\ Writing \subseteq Bodies
  /\ NoBody \notin Bodies
  /\ NoMessage \notin Message

VARIABLES queue,     \* copies of each message that wait at the broker
          consumer,  \* what each process does with the message it was given
          inbox,     \* infra.consumer_inbox_events, committed rows
          effects,   \* committed runs of the handler, per event
          acked      \* messages acknowledged by some process

inboxVars == <<queue, consumer, inbox, effects, acked>>

Consumer == [pc : {"idle", "insert", "apply", "commit", "ack"},
             msg : Message \cup {NoMessage}, duplicate : BOOLEAN]

Waiting == [pc |-> "idle", msg |-> NoMessage, duplicate |-> FALSE]

\* the message goes back to the broker and the process is free
Requeue(c) ==
  /\ queue' = [queue EXCEPT ![consumer[c].msg] = @ + 1]
  /\ consumer' = [consumer EXCEPT ![c] = Waiting]

NeverLocked(c) == FALSE

\* another open transaction has inserted the row: ON CONFLICT waits for its end
Locked(c) ==
  \E d \in Consumers \ {c} :
    /\ consumer[d].pc \in {"apply", "commit"}
    /\ ~consumer[d].duplicate
    /\ consumer[d].msg.event = consumer[c].msg.event

InboxInit ==
  /\ queue = [m \in Message |-> 0]
  /\ consumer = [c \in Consumers |-> Waiting]
  /\ inbox = [e \in Events |-> NoBody]
  /\ effects = [e \in Events |-> 0]
  /\ acked = {}

\* the broker accepts one more copy
Send(m) ==
  /\ queue' = [queue EXCEPT ![m] = @ + 1]
  /\ UNCHANGED <<consumer, inbox, effects, acked>>

Deliver(c, m) ==
  /\ consumer[c].pc = "idle"
  /\ queue[m] > 0
  /\ queue' = [queue EXCEPT ![m] = @ - 1]
  /\ consumer' = [consumer EXCEPT ![c] =
                    [pc |-> "insert", msg |-> m, duplicate |-> FALSE]]
  /\ UNCHANGED <<inbox, effects, acked>>

(* The insert.  On a conflict the row is read back: the same message is a    *)
(* duplicate and goes to COMMIT, another one is a collision, requeued.       *)
Insert(c) ==
  LET m == consumer[c].msg IN
  /\ consumer[c].pc = "insert"
  /\ ~Locked(c)
  /\ \/ /\ inbox[m.event] = NoBody
        /\ consumer' = [consumer EXCEPT ![c].pc = "apply"]
        /\ UNCHANGED queue
     \/ /\ inbox[m.event] = m.body
        /\ consumer' = [consumer EXCEPT ![c].pc = "commit", ![c].duplicate = TRUE]
        /\ UNCHANGED queue
     \/ /\ inbox[m.event] \notin {NoBody, m.body}
        /\ Requeue(c)
  /\ UNCHANGED <<inbox, effects, acked>>

\* execute_statement raises whatever it is asked
HandlerCannotWrite(c) == consumer[c].msg.body \in Writing

\* The handler returns.  One that writes never gets there.
HandlerSucceeds(c) ==
  /\ consumer[c].pc = "apply"
  /\ ~HandlerCannotWrite(c)
  /\ consumer' = [consumer EXCEPT ![c].pc = "commit"]
  /\ UNCHANGED <<queue, inbox, effects, acked>>

HandlerRaisesDrops(c) ==
  /\ consumer[c].pc = "apply"
  /\ consumer' = [consumer EXCEPT ![c] = Waiting]
  /\ UNCHANGED <<queue, inbox, effects, acked>>

\* The handler raises, as one that writes always does: ROLLBACK and nack.
HandlerRaises(c) ==
  /\ consumer[c].pc = "apply"
  /\ Requeue(c)
  /\ UNCHANGED <<inbox, effects, acked>>

\* the transaction's writes become visible
Written(c) ==
  LET m == consumer[c].msg IN
  IF consumer[c].duplicate THEN UNCHANGED <<inbox, effects>>
  ELSE /\ inbox' = [inbox EXCEPT ![m.event] = m.body]
       /\ effects' = [effects EXCEPT ![m.event] = @ + 1]

Commit(c) ==
  /\ consumer[c].pc = "commit"
  /\ Written(c)
  /\ consumer' = [consumer EXCEPT ![c].pc = "ack"]
  /\ UNCHANGED <<queue, acked>>

LostCommitIsCommit(c) ==
  /\ consumer[c].pc = "commit"
  /\ Written(c) \/ UNCHANGED <<inbox, effects>>
  /\ consumer' = [consumer EXCEPT ![c].pc = "ack"]
  /\ UNCHANGED <<queue, acked>>

\* ConsumerInboxOutcomeUnknown: written or not, neither ack nor nack
CommitUnknown(c) ==
  /\ consumer[c].pc = "commit"
  /\ Written(c) \/ UNCHANGED <<inbox, effects>>
  /\ Requeue(c)
  /\ UNCHANGED acked

Ack(c) ==
  /\ consumer[c].pc = "ack"
  /\ consumer' = [consumer EXCEPT ![c] = Waiting]
  /\ acked' = acked \cup {consumer[c].msg}
  /\ UNCHANGED <<queue, inbox, effects>>

\* The database cannot be reached, the process dies, or the ack is lost; an open
\* transaction is rolled back.
Abandon(c) ==
  /\ consumer[c].pc # "idle"
  /\ Requeue(c)
  /\ UNCHANGED <<inbox, effects, acked>>

ConsumerStep(c) ==
  \/ \E m \in Message : Deliver(c, m)
  \/ Insert(c) \/ HandlerSucceeds(c) \/ HandlerRaises(c)
  \/ Commit(c) \/ CommitUnknown(c) \/ Ack(c) \/ Abandon(c)
-----------------------------------------------------------------------------
InboxTypeOK ==
  /\ queue \in [Message -> Nat]
  /\ consumer \in [Consumers -> Consumer]
  /\ inbox \in [Events -> Bodies \cup {NoBody}]
  /\ effects \in [Events -> Nat]
  /\ acked \subseteq Message

\* However often an event is delivered, to however many processes at once, its
\* handler takes effect once, and exactly when its inbox row is there.
AppliedOnce ==
  \A e \in Events : effects[e] = IF inbox[e] = NoBody THEN 0 ELSE 1

\* An acknowledged message is one whose own transaction, or that of an equal
\* copy, has committed: nothing is acked on the strength of a lost commit, and
\* a colliding message is never acked.
AckedWasApplied == \A m \in acked : inbox[m.event] = m.body
=============================================================================
