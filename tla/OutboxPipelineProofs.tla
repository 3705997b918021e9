------------------------- MODULE OutboxPipelineProofs --------------------------
(***************************************************************************)
(* Proofs of the safety properties of OutboxPipeline: whatever the number  *)
(* of events, contents, processes and copies, an event takes effect once,  *)
(* an acknowledged message has taken effect, and a published event is not  *)
(* lost.                                                                   *)
(***************************************************************************)
EXTENDS OutboxPipeline, TLAPS

\* A process whose open transaction has inserted the row of its event.
Inserting(r) == r.pc \in {"apply", "commit"} /\ ~r.duplicate

\* What each statement of process() has made sure of when the next one runs.
Progress(r, rows) ==
  /\ r.pc # "idle" => r.msg \in Message
  /\ r.pc \in {"insert", "apply"} => ~r.duplicate
  /\ Inserting(r) => rows[r.msg.event] = NoBody
  /\ (r.pc = "commit" /\ r.duplicate) => rows[r.msg.event] = r.msg.body
  /\ r.pc = "ack" => rows[r.msg.event] = r.msg.body

\* The unique key lets one open transaction at a time insert an event's row.
OneInserts(rs) ==
  \A c, d \in Consumers :
    (Inserting(rs[c]) /\ Inserting(rs[d]) /\ rs[c].msg.event = rs[d].msg.event)
      => c = d

OnItsWay(e) ==
  \/ effects[e] > 0
  \/ \E b \in Bodies : queue[[event |-> e, body |-> b]] > 0
  \/ \E c \in Consumers : consumer[c].pc # "idle" /\ consumer[c].msg.event = e

OutboxTypeOK ==
  /\ state \in [Events -> {"queued", "published", "dead"}]
  /\ accepted \subseteq Events
  /\ sent \in [Events -> Nat]

IInv ==
  /\ InboxTypeOK
  /\ OutboxTypeOK
  /\ \A c \in Consumers : Progress(consumer[c], inbox)
  /\ OneInserts(consumer)
  /\ AppliedOnce
  /\ AckedWasApplied
  /\ \A e \in Events : state[e] = "published" => e \in accepted
  /\ \A e \in accepted : OnItsWay(e)

LEMMA WaitingIdle ==
  /\ Waiting \in Consumer
  /\ ~Inserting(Waiting)
  /\ \A rows : Progress(Waiting, rows)
<1>1. Waiting \in Consumer BY DEF Waiting, Consumer
<1>2. Waiting.pc = "idle" BY DEF Waiting
<1> QED BY <1>1, <1>2 DEF Inserting, Progress

LEMMA InitIInv == Init => IInv
<1> SUFFICES ASSUME Init PROVE IInv OBVIOUS
<1> USE DEF Init, InboxInit, Outbox!Init
<1>1. InboxTypeOK
  BY WaitingIdle DEF InboxTypeOK
<1>2. OutboxTypeOK
  BY DEF OutboxTypeOK
<1>3. \A c \in Consumers : Progress(consumer[c], inbox)
  BY WaitingIdle
<1>4. OneInserts(consumer)
  BY WaitingIdle DEF OneInserts
<1>5. AppliedOnce /\ AckedWasApplied
  BY DEF AppliedOnce, AckedWasApplied
<1> QED BY <1>1, <1>2, <1>3, <1>4, <1>5 DEF IInv

(* A step of one process that commits nothing: the rest of the invariant is  *)
(* kept if the process's own facts hold, nobody else inserts the same row,   *)
(* and the message stays with the broker or the process.                     *)
LEMMA QuietStep ==
  ASSUME IInv, NEW c \in Consumers, NEW r \in Consumer,
         consumer' = [consumer EXCEPT ![c] = r],
         queue' \in [Message -> Nat],
         UNCHANGED <<inbox, effects, outboxVars>>,
         acked' \subseteq Message,
         \A m \in acked' : inbox[m.event] = m.body,
         Progress(r, inbox),
         \A d \in Consumers \ {c} :
           ~(Inserting(r) /\ Inserting(consumer[d])
               /\ consumer[d].msg.event = r.msg.event),
         \A e \in accepted : OnItsWay(e)'
  PROVE  IInv'
<1> USE DEF IInv
<1>1. consumer \in [Consumers -> Consumer] BY DEF InboxTypeOK
<1>2. /\ consumer' \in [Consumers -> Consumer]
      /\ consumer'[c] = r
      /\ \A d \in Consumers \ {c} : consumer'[d] = consumer[d]
  BY <1>1
<1>3. InboxTypeOK' BY <1>2 DEF InboxTypeOK
<1>4. OutboxTypeOK' BY DEF OutboxTypeOK, outboxVars
<1>5. \A d \in Consumers : Progress(consumer[d], inbox)'
  <2> SUFFICES ASSUME NEW d \in Consumers PROVE Progress(consumer'[d], inbox)
    BY DEF Progress, Inserting
  <2> QED BY <1>2
<1>6. OneInserts(consumer') BY <1>2 DEF OneInserts
<1>7. AppliedOnce' BY DEF AppliedOnce
<1>8. AckedWasApplied' BY DEF AckedWasApplied
<1>9. \A e \in Events : state'[e] = "published" => e \in accepted'
  BY DEF outboxVars
<1>10. \A e \in accepted' : OnItsWay(e)' BY DEF outboxVars
<1> QED BY <1>3, <1>4, <1>5, <1>6, <1>7, <1>8, <1>9, <1>10 DEF OneInserts

\* A message on its way stays so when the queue only grows, the process keeps it,
\* or it is given back.
LEMMA KeptOnItsWay ==
  ASSUME IInv, NEW c \in Consumers, NEW r \in Consumer,
         consumer' = [consumer EXCEPT ![c] = r],
         UNCHANGED <<queue, effects>>,
         r.pc # "idle", r.msg = consumer[c].msg
  PROVE  \A e \in accepted : OnItsWay(e)'
<1> SUFFICES ASSUME NEW e \in accepted PROVE OnItsWay(e)' OBVIOUS
<1>1. consumer \in [Consumers -> Consumer] BY DEF IInv, InboxTypeOK
<1>2. OnItsWay(e) BY DEF IInv
<1>3. CASE \E d \in Consumers : consumer[d].pc # "idle" /\ consumer[d].msg.event = e
  <2>1. PICK d \in Consumers : consumer[d].pc # "idle" /\ consumer[d].msg.event = e
    BY <1>3
  <2>2. consumer'[d].pc # "idle" /\ consumer'[d].msg.event = e
    BY <1>1, <2>1
  <2> QED BY <2>2 DEF OnItsWay
<1> QED BY <1>2, <1>3 DEF OnItsWay

LEMMA RequeueOnItsWay ==
  ASSUME IInv, NEW c \in Consumers, consumer[c].pc # "idle", Requeue(c),
         effects' \in [Events -> Nat],
         \A e \in Events : effects'[e] >= effects[e]
  PROVE  /\ queue' \in [Message -> Nat]
         /\ \A e \in accepted : OnItsWay(e)'
<1> DEFINE m == consumer[c].msg
<1>1. /\ consumer \in [Consumers -> Consumer]
      /\ queue \in [Message -> Nat]
      /\ effects \in [Events -> Nat]
      /\ accepted \subseteq Events
  BY DEF IInv, InboxTypeOK, OutboxTypeOK
<1>2. m \in Message BY DEF IInv, Progress
<1>3. /\ queue' \in [Message -> Nat]
      /\ queue'[m] > 0
      /\ \A k \in Message : queue'[k] >= queue[k]
  BY <1>1, <1>2 DEF Requeue
<1>4. ASSUME NEW e \in accepted PROVE OnItsWay(e)'
  <2>1. e \in Events BY <1>1
  <2>2. OnItsWay(e) BY DEF IInv
  <2>3. CASE effects[e] > 0
    BY <1>1, <2>1, <2>3 DEF OnItsWay
  <2>4. CASE \E b \in Bodies : queue[[event |-> e, body |-> b]] > 0
    <3>1. PICK b \in Bodies : queue[[event |-> e, body |-> b]] > 0 BY <2>4
    <3>2. [event |-> e, body |-> b] \in Message BY <2>1 DEF Message
    <3>3. queue'[[event |-> e, body |-> b]] > 0 BY <1>1, <1>3, <3>1, <3>2
    <3> QED BY <3>3 DEF OnItsWay
  <2>5. CASE \E d \in Consumers : consumer[d].pc # "idle" /\ consumer[d].msg.event = e
    <3>1. PICK d \in Consumers : consumer[d].pc # "idle" /\ consumer[d].msg.event = e
      BY <2>5
    <3>2. CASE d = c
      <4>1. m.body \in Bodies /\ m = [event |-> e, body |-> m.body]
        BY <1>2, <3>1, <3>2 DEF Message
      <4> QED BY <1>3, <4>1 DEF OnItsWay
    <3>3. CASE d # c
      <4>1. consumer'[d] = consumer[d] BY <1>1, <3>3 DEF Requeue
      <4> QED BY <3>1, <4>1 DEF OnItsWay
    <3> QED BY <3>2, <3>3
  <2> QED BY <2>2, <2>3, <2>4, <2>5 DEF OnItsWay
<1> QED BY <1>3, <1>4

-----------------------------------------------------------------------------
(* The steps of a consumer process, one lemma each.                          *)

LEMMA RequeueStep ==
  ASSUME IInv, NEW c \in Consumers, consumer[c].pc # "idle", Requeue(c),
         UNCHANGED <<inbox, effects, acked, outboxVars>>
  PROVE  IInv'
<1>1. /\ effects' \in [Events -> Nat]
      /\ \A e \in Events : effects'[e] >= effects[e]
      /\ acked' \subseteq Message
  BY DEF IInv, InboxTypeOK
<1>2. queue' \in [Message -> Nat] /\ \A e \in accepted : OnItsWay(e)'
  BY <1>1, RequeueOnItsWay
<1>3. \A m \in acked' : inbox[m.event] = m.body BY DEF IInv, AckedWasApplied
<1>4. consumer' = [consumer EXCEPT ![c] = Waiting] BY DEF Requeue
<1> QED BY <1>1, <1>2, <1>3, <1>4, WaitingIdle, QuietStep

LEMMA DeliverStep ==
  ASSUME IInv, NEW c \in Consumers, NEW m \in Message, Deliver(c, m),
         UNCHANGED outboxVars
  PROVE  IInv'
<1> DEFINE r == [pc |-> "insert", msg |-> m, duplicate |-> FALSE]
<1>1. /\ consumer \in [Consumers -> Consumer]
      /\ queue \in [Message -> Nat]
      /\ acked \subseteq Message
  BY DEF IInv, InboxTypeOK
<1>2. r \in Consumer /\ ~Inserting(r) /\ Progress(r, inbox)
  BY DEF Consumer, Inserting, Progress
<1>3. /\ consumer' = [consumer EXCEPT ![c] = r]
      /\ queue' = [queue EXCEPT ![m] = @ - 1]
      /\ queue[m] > 0
      /\ consumer[c].pc = "idle"
      /\ UNCHANGED <<inbox, effects, acked>>
  BY DEF Deliver
<1>4. queue' \in [Message -> Nat] BY <1>1, <1>3
<1>5. ASSUME NEW e \in accepted PROVE OnItsWay(e)'
  <2>1. OnItsWay(e) BY DEF IInv
  <2>2. CASE \E b \in Bodies : queue[[event |-> e, body |-> b]] > 0
    <3>1. PICK b \in Bodies : queue[[event |-> e, body |-> b]] > 0 BY <2>2
    <3>2. CASE m = [event |-> e, body |-> b]
      <4>1. consumer'[c].pc # "idle" /\ consumer'[c].msg.event = e
        BY <1>1, <1>3, <3>2
      <4> QED BY <4>1 DEF OnItsWay
    <3>3. CASE m # [event |-> e, body |-> b]
      <4>1. [event |-> e, body |-> b] \in Message
        BY DEF IInv, OutboxTypeOK, Message
      <4>2. queue'[[event |-> e, body |-> b]] > 0 BY <1>1, <1>3, <3>1, <3>3, <4>1
      <4> QED BY <4>2 DEF OnItsWay
    <3> QED BY <3>2, <3>3
  <2>3. CASE \E d \in Consumers : consumer[d].pc # "idle" /\ consumer[d].msg.event = e
    <3>1. PICK d \in Consumers : consumer[d].pc # "idle" /\ consumer[d].msg.event = e
      BY <2>3
    <3>2. consumer'[d] = consumer[d] BY <1>1, <1>3, <3>1
    <3> QED BY <3>1, <3>2 DEF OnItsWay
  <2> QED BY <1>3, <2>1, <2>2, <2>3 DEF OnItsWay
<1>6. \A k \in acked' : inbox[k.event] = k.body BY <1>3 DEF IInv, AckedWasApplied
<1> HIDE DEF r
<1> QED BY <1>1, <1>2, <1>3, <1>4, <1>5, <1>6, QuietStep

LEMMA InsertStep ==
  ASSUME IInv, NEW c \in Consumers, Insert(c), UNCHANGED outboxVars
  PROVE  IInv'
<1> DEFINE m == consumer[c].msg
<1>1. /\ consumer \in [Consumers -> Consumer]
      /\ queue \in [Message -> Nat]
      /\ acked \subseteq Message
      /\ consumer[c].pc = "insert"
      /\ UNCHANGED <<inbox, effects, acked>>
  BY DEF IInv, InboxTypeOK, Insert
<1>2. consumer[c] \in Consumer /\ m \in Message /\ ~consumer[c].duplicate
  BY <1>1 DEF IInv, Progress
<1>3. \A k \in acked' : inbox[k.event] = k.body BY <1>1 DEF IInv, AckedWasApplied
<1>4. CASE /\ inbox[m.event] = NoBody
           /\ consumer' = [consumer EXCEPT ![c].pc = "apply"]
           /\ UNCHANGED queue
  <2> DEFINE r == [consumer[c] EXCEPT !.pc = "apply"]
  <2>1. r \in Consumer /\ Progress(r, inbox)
    BY <1>2, <1>4 DEF Consumer, Progress, Inserting
  <2>2. consumer' = [consumer EXCEPT ![c] = r] BY <1>1, <1>4
  <2>3. r.pc # "idle" /\ r.msg = consumer[c].msg BY <1>2 DEF Consumer
  <2>4. \A d \in Consumers \ {c} :
          ~(Inserting(consumer[d]) /\ consumer[d].msg.event = r.msg.event)
    BY <2>3 DEF Insert, Locked, Inserting
  <2> HIDE DEF r
  <2>5. \A e \in accepted : OnItsWay(e)'
    BY <1>1, <1>4, <2>1, <2>2, <2>3, KeptOnItsWay
  <2> QED BY <1>1, <1>3, <1>4, <2>1, <2>2, <2>4, <2>5, QuietStep
<1>5. CASE /\ inbox[m.event] = m.body
           /\ consumer' = [consumer EXCEPT ![c].pc = "commit", ![c].duplicate = TRUE]
           /\ UNCHANGED queue
  <2> DEFINE r == [consumer[c] EXCEPT !.pc = "commit", !.duplicate = TRUE]
  <2>1. r \in Consumer /\ Progress(r, inbox) /\ ~Inserting(r)
    BY <1>2, <1>5 DEF Consumer, Progress, Inserting
  <2>2. consumer' = [consumer EXCEPT ![c] = r] BY <1>1, <1>5
  <2>3. r.pc # "idle" /\ r.msg = consumer[c].msg BY <1>2 DEF Consumer
  <2> HIDE DEF r
  <2>4. \A e \in accepted : OnItsWay(e)'
    BY <1>1, <1>5, <2>1, <2>2, <2>3, KeptOnItsWay
  <2> QED BY <1>1, <1>3, <1>5, <2>1, <2>2, <2>4, QuietStep
<1>6. CASE Requeue(c)
  BY <1>1, <1>6, RequeueStep
<1> QED BY <1>4, <1>5, <1>6 DEF Insert

LEMMA HandlerSucceedsStep ==
  ASSUME IInv, NEW c \in Consumers, HandlerSucceeds(c), UNCHANGED outboxVars
  PROVE  IInv'
<1> DEFINE r == [consumer[c] EXCEPT !.pc = "commit"]
<1>1. /\ consumer \in [Consumers -> Consumer]
      /\ queue \in [Message -> Nat]
      /\ acked \subseteq Message
      /\ consumer[c].pc = "apply"
      /\ UNCHANGED <<queue, inbox, effects, acked>>
      /\ consumer' = [consumer EXCEPT ![c].pc = "commit"]
  BY DEF IInv, InboxTypeOK, HandlerSucceeds
<1>2. consumer[c] \in Consumer /\ Inserting(consumer[c]) /\ Progress(consumer[c], inbox)
  BY <1>1 DEF IInv, Progress, Inserting
<1>3. /\ r \in Consumer /\ Progress(r, inbox)
      /\ r.pc # "idle" /\ r.msg = consumer[c].msg
  BY <1>1, <1>2 DEF Consumer, Progress, Inserting
<1>4. consumer' = [consumer EXCEPT ![c] = r] BY <1>1
<1>5. \A d \in Consumers \ {c} :
        ~(Inserting(consumer[d]) /\ consumer[d].msg.event = r.msg.event)
  BY <1>2, <1>3 DEF IInv, OneInserts
<1>6. \A k \in acked' : inbox[k.event] = k.body BY <1>1 DEF IInv, AckedWasApplied
<1> HIDE DEF r
<1>7. \A e \in accepted : OnItsWay(e)' BY <1>1, <1>3, <1>4, KeptOnItsWay
<1> QED BY <1>1, <1>3, <1>4, <1>5, <1>6, <1>7, QuietStep

LEMMA AckStep ==
  ASSUME IInv, NEW c \in Consumers, Ack(c), UNCHANGED outboxVars
  PROVE  IInv'
<1> DEFINE m == consumer[c].msg
<1>1. /\ consumer \in [Consumers -> Consumer]
      /\ queue \in [Message -> Nat]
      /\ acked \subseteq Message
      /\ consumer[c].pc = "ack"
      /\ UNCHANGED <<queue, inbox, effects>>
      /\ acked' = acked \cup {m}
      /\ consumer' = [consumer EXCEPT ![c] = Waiting]
  BY DEF IInv, InboxTypeOK, Ack
<1>2. m \in Message /\ inbox[m.event] = m.body BY <1>1 DEF IInv, Progress
<1>3. effects[m.event] > 0
  BY <1>2, InboxAssumption DEF IInv, AppliedOnce, Message, InboxAssumption
<1>4. acked' \subseteq Message /\ \A k \in acked' : inbox[k.event] = k.body
  BY <1>1, <1>2 DEF IInv, AckedWasApplied
<1>5. ASSUME NEW e \in accepted PROVE OnItsWay(e)'
  <2>1. OnItsWay(e) BY DEF IInv
  <2>2. CASE \E d \in Consumers : consumer[d].pc # "idle" /\ consumer[d].msg.event = e
    <3>1. PICK d \in Consumers : consumer[d].pc # "idle" /\ consumer[d].msg.event = e
      BY <2>2
    <3>2. CASE d = c BY <1>1, <1>3, <3>1, <3>2 DEF OnItsWay
    <3>3. CASE d # c
      <4>1. consumer'[d] = consumer[d] BY <1>1, <3>3
      <4> QED BY <3>1, <4>1 DEF OnItsWay
    <3> QED BY <3>2, <3>3
  <2> QED BY <1>1, <2>1, <2>2 DEF OnItsWay
<1> QED BY <1>1, <1>4, <1>5, WaitingIdle, QuietStep

(* The one step that writes: c, which inserts the row of its event, commits. *)
(* Nobody else relies on that row being absent or on what it says, since it  *)
(* was not there.                                                            *)
LEMMA CommitInsertStep ==
  ASSUME IInv, NEW c \in Consumers, NEW r \in Consumer,
         Inserting(consumer[c]), ~consumer[c].duplicate,
         Written(c),
         consumer' = [consumer EXCEPT ![c] = r],
         Progress(r, inbox'), ~Inserting(r),
         queue' \in [Message -> Nat],
         UNCHANGED <<acked, outboxVars>>,
         \A e \in accepted : OnItsWay(e)'
  PROVE  IInv'
<1> DEFINE m == consumer[c].msg
<1>1. /\ consumer \in [Consumers -> Consumer]
      /\ inbox \in [Events -> Bodies \cup {NoBody}]
      /\ effects \in [Events -> Nat]
      /\ acked \subseteq Message
      /\ m \in Message
  BY DEF IInv, InboxTypeOK, Progress, Inserting
<1>2. m.event \in Events /\ m.body \in Bodies BY <1>1 DEF Message
<1>3. /\ inbox[m.event] = NoBody
      /\ effects[m.event] = 0
  BY <1>2 DEF IInv, Progress, AppliedOnce
<1>4. /\ inbox' = [inbox EXCEPT ![m.event] = m.body]
      /\ effects' = [effects EXCEPT ![m.event] = @ + 1]
  BY DEF Written
<1>5. m.body # NoBody BY <1>2, InboxAssumption DEF InboxAssumption
<1>6. /\ consumer' \in [Consumers -> Consumer]
      /\ consumer'[c] = r
      /\ \A d \in Consumers \ {c} : consumer'[d] = consumer[d]
  BY <1>1
<1>7. InboxTypeOK' BY <1>1, <1>2, <1>4, <1>6 DEF InboxTypeOK
<1>8. OutboxTypeOK' BY DEF IInv, OutboxTypeOK, outboxVars
<1>9. \A d \in Consumers : Progress(consumer[d], inbox)'
  <2> SUFFICES ASSUME NEW d \in Consumers PROVE Progress(consumer'[d], inbox')
    BY DEF Progress, Inserting
  <2>1. CASE d = c BY <1>6, <2>1
  <2>2. CASE d # c /\ consumer[d].pc = "idle"
    BY <1>6, <2>2 DEF Progress, Inserting
  <2>3. CASE d # c /\ consumer[d].pc # "idle"
    <3>1. consumer'[d] = consumer[d] /\ Progress(consumer[d], inbox)
      BY <1>6, <2>3 DEF IInv
    <3>2. consumer[d].msg \in Message BY <2>3, <3>1 DEF Progress
    <3>3. consumer[d].msg.event \in Events /\ consumer[d].msg.body \in Bodies
      BY <3>2 DEF Message
    <3>4. CASE consumer[d].msg.event # m.event
      <4>1. inbox'[consumer[d].msg.event] = inbox[consumer[d].msg.event]
        BY <1>1, <1>4, <3>3, <3>4
      <4> QED BY <3>1, <4>1 DEF Progress
    <3>5. CASE consumer[d].msg.event = m.event
      <4>1. ~Inserting(consumer[d]) BY <2>3, <3>5 DEF IInv, OneInserts
      <4>2. inbox[consumer[d].msg.event] # consumer[d].msg.body
        BY <1>3, <3>3, <3>5, InboxAssumption DEF InboxAssumption
      <4> QED BY <3>1, <4>1, <4>2 DEF Progress
    <3> QED BY <3>4, <3>5
  <2> QED BY <2>1, <2>2, <2>3
<1>10. OneInserts(consumer') BY <1>6 DEF IInv, OneInserts
<1>11. AppliedOnce'
  <2> SUFFICES ASSUME NEW e \in Events
               PROVE effects'[e] = IF inbox'[e] = NoBody THEN 0 ELSE 1
    BY DEF AppliedOnce
  <2>1. CASE e = m.event BY <1>1, <1>3, <1>4, <1>5, <2>1
  <2>2. CASE e # m.event
    <3>1. effects'[e] = effects[e] /\ inbox'[e] = inbox[e] BY <1>1, <1>4, <2>2
    <3> QED BY <3>1 DEF IInv, AppliedOnce
  <2> QED BY <2>1, <2>2
<1>12. AckedWasApplied'
  <2> SUFFICES ASSUME NEW k \in acked PROVE inbox'[k.event] = k.body
    BY DEF AckedWasApplied
  <2>1. k.event \in Events /\ k.body \in Bodies /\ inbox[k.event] = k.body
    BY <1>1 DEF IInv, AckedWasApplied, Message
  <2>2. k.event # m.event
    BY <1>3, <2>1, InboxAssumption DEF InboxAssumption
  <2> QED BY <1>1, <1>4, <2>1, <2>2
<1>13. \A e \in Events : state'[e] = "published" => e \in accepted'
  BY DEF IInv, outboxVars
<1>14. \A e \in accepted' : OnItsWay(e)' BY DEF outboxVars
<1> QED
  BY <1>7, <1>8, <1>9, <1>10, <1>11, <1>12, <1>13, <1>14 DEF IInv, OneInserts

LEMMA CommitStep ==
  ASSUME IInv, NEW c \in Consumers, Commit(c), UNCHANGED outboxVars
  PROVE  IInv'
<1> DEFINE r == [consumer[c] EXCEPT !.pc = "ack"]
<1> DEFINE m == consumer[c].msg
<1>1. /\ consumer \in [Consumers -> Consumer]
      /\ inbox \in [Events -> Bodies \cup {NoBody}]
      /\ effects \in [Events -> Nat]
      /\ queue \in [Message -> Nat]
      /\ acked \subseteq Message
      /\ consumer[c].pc = "commit"
      /\ UNCHANGED <<queue, acked>>
      /\ Written(c)
      /\ consumer' = [consumer EXCEPT ![c].pc = "ack"]
  BY DEF IInv, InboxTypeOK, Commit
<1>2. consumer[c] \in Consumer /\ Progress(consumer[c], inbox) BY <1>1 DEF IInv
<1>3. m \in Message /\ m.event \in Events BY <1>1, <1>2 DEF Progress, Message
<1>4. /\ r \in Consumer /\ r.pc = "ack" /\ r.msg = m
      /\ ~Inserting(r)
  BY <1>2 DEF Consumer, Inserting
<1>5. consumer' = [consumer EXCEPT ![c] = r] BY <1>1
<1> HIDE DEF r
<1>6. CASE consumer[c].duplicate
  <2>1. UNCHANGED <<inbox, effects>> BY <1>1, <1>6 DEF Written
  <2>2. inbox[m.event] = m.body BY <1>1, <1>2, <1>6 DEF Progress
  <2>3. Progress(r, inbox) BY <1>3, <1>4, <2>2 DEF Progress
  <2>4. \A e \in accepted : OnItsWay(e)'
    BY <1>1, <1>4, <1>5, <2>1, KeptOnItsWay
  <2>5. \A k \in acked' : inbox[k.event] = k.body
    BY <1>1 DEF IInv, AckedWasApplied
  <2> QED BY <1>1, <1>4, <1>5, <2>1, <2>3, <2>4, <2>5, QuietStep
<1>7. CASE ~consumer[c].duplicate
  <2>1. /\ inbox' = [inbox EXCEPT ![m.event] = m.body]
        /\ effects' = [effects EXCEPT ![m.event] = @ + 1]
    BY <1>1, <1>7 DEF Written
  <2>2. Progress(r, inbox')
    BY <1>1, <1>3, <1>4, <2>1 DEF Progress
  <2>3. ASSUME NEW e \in accepted PROVE OnItsWay(e)'
    <3>1. e \in Events /\ OnItsWay(e) BY DEF IInv, OutboxTypeOK
    <3>2. effects[e] > 0 => effects'[e] > 0 BY <1>1, <1>3, <2>1, <3>1
    <3>3. CASE \E d \in Consumers : consumer[d].pc # "idle" /\ consumer[d].msg.event = e
      <4>1. PICK d \in Consumers : consumer[d].pc # "idle" /\ consumer[d].msg.event = e
        BY <3>3
      <4>2. consumer'[d].pc # "idle" /\ consumer'[d].msg.event = e
        BY <1>1, <1>4, <1>5, <4>1
      <4> QED BY <4>2 DEF OnItsWay
    <3> QED BY <1>1, <3>1, <3>2, <3>3 DEF OnItsWay
  <2>4. Inserting(consumer[c]) BY <1>1, <1>7 DEF Inserting
  <2>5. queue' \in [Message -> Nat] BY <1>1
  <2> QED BY <1>1, <1>4, <1>5, <1>7, <2>2, <2>3, <2>4, <2>5, CommitInsertStep
<1> QED BY <1>6, <1>7

LEMMA CommitUnknownStep ==
  ASSUME IInv, NEW c \in Consumers, CommitUnknown(c), UNCHANGED outboxVars
  PROVE  IInv'
<1> DEFINE m == consumer[c].msg
<1>1. /\ effects \in [Events -> Nat]
      /\ consumer \in [Consumers -> Consumer]
      /\ consumer[c].pc = "commit"
      /\ Requeue(c)
      /\ UNCHANGED acked
  BY DEF IInv, InboxTypeOK, CommitUnknown
<1>2. CASE UNCHANGED <<inbox, effects>>
  BY <1>1, <1>2, RequeueStep
<1>3. CASE Written(c) /\ consumer[c].duplicate
  <2>1. UNCHANGED <<inbox, effects>> BY <1>3 DEF Written
  <2> QED BY <1>1, <2>1, RequeueStep
<1>4. CASE Written(c) /\ ~consumer[c].duplicate
  <2>1. m.event \in Events BY <1>1 DEF IInv, Progress, Message
  <2>2. effects' = [effects EXCEPT ![m.event] = @ + 1] BY <1>4 DEF Written
  <2>3. /\ effects' \in [Events -> Nat]
        /\ \A e \in Events : effects'[e] >= effects[e]
    BY <1>1, <2>1, <2>2
  <2>4. queue' \in [Message -> Nat] /\ \A e \in accepted : OnItsWay(e)'
    BY <1>1, <2>3, RequeueOnItsWay
  <2>5. Inserting(consumer[c]) BY <1>1, <1>4 DEF Inserting
  <2>6. consumer' = [consumer EXCEPT ![c] = Waiting] BY <1>1 DEF Requeue
  <2> QED BY <1>1, <1>4, <2>4, <2>5, <2>6, WaitingIdle, CommitInsertStep
<1> QED BY <1>2, <1>3, <1>4 DEF CommitUnknown

LEMMA ConsumeStep ==
  ASSUME IInv, NEW c \in Consumers, Consume(c)
  PROVE  IInv'
<1> USE DEF Consume
<1>1. CASE \E m \in Message : Deliver(c, m) BY <1>1, DeliverStep
<1>2. CASE Insert(c) BY <1>2, InsertStep
<1>3. CASE HandlerSucceeds(c) BY <1>3, HandlerSucceedsStep
<1>4. CASE HandlerRaises(c) BY <1>4, RequeueStep DEF HandlerRaises
<1>5. CASE Commit(c) BY <1>5, CommitStep
<1>6. CASE CommitUnknown(c) BY <1>6, CommitUnknownStep
<1>7. CASE Ack(c) BY <1>7, AckStep
<1>8. CASE Abandon(c) BY <1>8, RequeueStep DEF Abandon
<1> QED
  BY <1>1, <1>2, <1>3, <1>4, <1>5, <1>6, <1>7, <1>8 DEF ConsumerStep
-----------------------------------------------------------------------------
(* The steps of the outbox.                                                  *)

LEMMA OfferStep ==
  ASSUME IInv, NEW e \in Events, Offer(e)
  PROVE  IInv'
<1>1. PICK b \in Bodies : Send([event |-> e, body |-> b]) BY DEF Offer
<1> DEFINE m == [event |-> e, body |-> b]
<1>2. /\ consumer \in [Consumers -> Consumer]
      /\ queue \in [Message -> Nat]
      /\ sent \in [Events -> Nat]
      /\ accepted \subseteq Events
  BY DEF IInv, InboxTypeOK, OutboxTypeOK
<1>3. m \in Message BY DEF Message
<1>4. /\ queue' = [queue EXCEPT ![m] = @ + 1]
      /\ UNCHANGED <<consumer, inbox, effects, acked>>
  BY <1>1 DEF Send
<1>5. /\ accepted' = accepted \cup {e}
      /\ UNCHANGED state
      /\ sent' = [sent EXCEPT ![e] = @ + 1]
  BY DEF Offer, Outbox!Accept
<1>6. /\ queue' \in [Message -> Nat]
      /\ queue'[m] > 0
      /\ \A k \in Message : queue'[k] >= queue[k]
  BY <1>2, <1>3, <1>4
<1>7. ASSUME NEW f \in accepted' PROVE OnItsWay(f)'
  <2>1. CASE f = e BY <1>6, <2>1 DEF OnItsWay
  <2>2. CASE f # e
    <3>1. f \in Events /\ OnItsWay(f) BY <1>2, <1>5, <2>2 DEF IInv
    <3>2. \A a \in Bodies : [event |-> f, body |-> a] \in Message
      BY <3>1 DEF Message
    <3>3. \A a \in Bodies : queue[[event |-> f, body |-> a]] > 0 =>
                              queue'[[event |-> f, body |-> a]] > 0
      BY <1>2, <1>6, <3>2
    <3> QED BY <1>4, <3>1, <3>3 DEF OnItsWay
  <2> QED BY <2>1, <2>2
<1>8. InboxTypeOK' BY <1>4, <1>6 DEF IInv, InboxTypeOK
<1>9. OutboxTypeOK' BY <1>2, <1>5 DEF IInv, OutboxTypeOK
<1>10. \A c \in Consumers : Progress(consumer[c], inbox)'
  BY <1>4 DEF IInv, Progress, Inserting
<1>11. OneInserts(consumer)' /\ AppliedOnce' /\ AckedWasApplied'
  BY <1>4 DEF IInv, OneInserts, Inserting, AppliedOnce, AckedWasApplied
<1>12. \A f \in Events : state'[f] = "published" => f \in accepted'
  BY <1>5 DEF IInv
<1> QED BY <1>7, <1>8, <1>9, <1>10, <1>11, <1>12 DEF IInv

LEMMA SettleOutboxStep ==
  ASSUME IInv, SettleOutbox
  PROVE  IInv'
<1>1. UNCHANGED <<queue, consumer, inbox, effects, acked, sent>>
  BY DEF SettleOutbox, inboxVars
<1>2. state \in [Events -> {"queued", "published", "dead"}]
  BY DEF IInv, OutboxTypeOK
<1>3. /\ UNCHANGED accepted
      /\ state' \in [Events -> {"queued", "published", "dead"}]
      /\ \A e \in Events : state'[e] = "published" => e \in accepted
  <2>1. CASE \E e \in Events : Outbox!Confirm(e)
    BY <1>2, <2>1 DEF IInv, Outbox!Confirm
  <2>2. CASE \E S \in (SUBSET Events) \ {{}} : Outbox!GiveUp(S)
    BY <1>2, <2>2 DEF IInv, Outbox!GiveUp
  <2> QED BY <2>1, <2>2 DEF SettleOutbox
<1>4. InboxTypeOK' /\ OutboxTypeOK'
  BY <1>1, <1>3 DEF IInv, InboxTypeOK, OutboxTypeOK
<1>5. \A c \in Consumers : Progress(consumer[c], inbox)'
  BY <1>1 DEF IInv, Progress, Inserting
<1>6. OneInserts(consumer)' /\ AppliedOnce' /\ AckedWasApplied'
  BY <1>1 DEF IInv, OneInserts, Inserting, AppliedOnce, AckedWasApplied
<1>7. \A e \in accepted' : OnItsWay(e)' BY <1>1, <1>3 DEF IInv, OnItsWay
<1> QED BY <1>3, <1>4, <1>5, <1>6, <1>7 DEF IInv

LEMMA StutterStep == IInv /\ UNCHANGED vars => IInv'
<1> SUFFICES ASSUME IInv, UNCHANGED vars PROVE IInv' OBVIOUS
<1>1. /\ UNCHANGED <<queue, consumer, inbox, effects, acked>>
      /\ UNCHANGED <<state, accepted, sent>>
  BY DEF vars, inboxVars, outboxVars
<1>2. InboxTypeOK' /\ OutboxTypeOK'
  BY <1>1 DEF IInv, InboxTypeOK, OutboxTypeOK
<1>3. \A c \in Consumers : Progress(consumer[c], inbox)'
  BY <1>1 DEF IInv, Progress, Inserting
<1>4. OneInserts(consumer)' /\ AppliedOnce' /\ AckedWasApplied'
  BY <1>1 DEF IInv, OneInserts, Inserting, AppliedOnce, AckedWasApplied
<1>5. \A e \in accepted' : OnItsWay(e)' BY <1>1 DEF IInv, OnItsWay
<1>6. \A e \in Events : state'[e] = "published" => e \in accepted'
  BY <1>1 DEF IInv
<1> QED BY <1>2, <1>3, <1>4, <1>5, <1>6 DEF IInv

LEMMA NextIInv == IInv /\ [Next]_vars => IInv'
<1> SUFFICES ASSUME IInv, [Next]_vars PROVE IInv' OBVIOUS
<1>1. CASE \E e \in Events : Offer(e) BY <1>1, OfferStep
<1>2. CASE SettleOutbox BY <1>2, SettleOutboxStep
<1>3. CASE \E c \in Consumers : Consume(c) BY <1>3, ConsumeStep
<1>4. CASE UNCHANGED vars BY <1>4, StutterStep
<1> QED BY <1>1, <1>2, <1>3, <1>4 DEF Next

LEMMA Invariance == Spec => []IInv
<1> QED BY InitIInv, NextIInv, PTL DEF Spec
-----------------------------------------------------------------------------
\* process(): the handler of an event takes effect once, and exactly when the
\* event's inbox row is committed, for any number of copies and processes.
THEOREM EffectOnce == Spec => []AppliedOnce
<1>1. IInv => AppliedOnce BY DEF IInv
<1> QED BY <1>1, Invariance, PTL

\* process() acknowledges a message only when its own content has been applied.
THEOREM AckAfterCommit == Spec => []AckedWasApplied
<1>1. IInv => AckedWasApplied BY DEF IInv
<1> QED BY <1>1, Invariance, PTL

\* An event that the outbox calls published has taken effect, waits at the
\* broker, or is in a process's hands: nothing process() does drops it.
THEOREM NothingPublishedIsLost == Spec => []PublishedNotLost
<1>1. IInv => PublishedNotLost BY DEF IInv, OnItsWay, PublishedNotLost
<1> QED BY <1>1, Invariance, PTL
=============================================================================
