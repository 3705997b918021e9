-------------------------- MODULE OutboxDeliveryProofs -------------------------
(***************************************************************************)
(* What holds of the outbox for any set of rows and workers, any batch     *)
(* size, attempt budget, lease duration, clock slack and set of faults.    *)
(***************************************************************************)
EXTENDS OutboxRefinement, TLAPS

LEMMA UnleasedType ==
  ASSUME NEW r \in Row, NEW s \in Statuses, NEW d \in Int,
         NEW c \in {"NONE", "REJECTED", "EXHAUSTED"}
  PROVE  Unleased(r, s, d, c) \in Row
BY DEF Unleased, Row

LEMMA LeasedType ==
  ASSUME NEW r \in Row, r.attempts < MaxAttempts,
         NEW w \in Workers, NEW t \in Nat, NEW d \in Int
  PROVE  Leased(r, w, t, d) \in Row
<1>1. MaxAttempts \in Nat BY OutboxAssumption DEF OutboxAssumption
<1>2. r.attempts + 1 \in 0..MaxAttempts BY <1>1 DEF Row
<1> QED BY <1>2 DEF Leased, Row, Statuses

LEMMA IdleType == ASSUME NEW s \in BOOLEAN PROVE Idle(s) \in Worker
BY DEF Idle, Worker

LEMMA ContinueType ==
  ASSUME NEW w \in Workers, worker \in [Workers -> Worker],
         NEW todo \in SUBSET Lease
  PROVE  Continue(w, todo) \in Worker
<1>1. worker[w].stopping \in BOOLEAN BY DEF Worker
<1>2. CASE todo = {} BY <1>1, <1>2, IdleType DEF Continue
<1>3. CASE todo # {} BY <1>3 DEF Continue, Worker
<1> QED BY <1>2, <1>3

LEMMA SettledRowType ==
  ASSUME TypeOK, NEW w \in Workers, worker[w].cur \in Lease,
         NEW lag \in 0..Slack, NEW delay \in 1..360
  PROVE  SettledRow(w, lag, delay) \in Row
<1> DEFINE r == row[worker[w].cur.event]
<1>1. r \in Row BY DEF TypeOK, Lease
<1>2. delay - lag \in Int BY OutboxAssumption DEF OutboxAssumption
<1> HIDE DEF r
<1>3. Unleased(r, "PUBLISHED", 0, "NONE") \in Row
  BY <1>1, UnleasedType DEF Statuses
<1>4. Unleased(r, "DEAD", 0, "REJECTED") \in Row
  BY <1>1, UnleasedType DEF Statuses
<1>5. Unleased(r, "DEAD", 0, "EXHAUSTED") \in Row
  BY <1>1, UnleasedType DEF Statuses
<1>6. Unleased(r, "PENDING", delay - lag, "NONE") \in Row
  BY <1>1, <1>2, UnleasedType DEF Statuses
<1> QED BY <1>3, <1>4, <1>5, <1>6 DEF SettledRow, r

LEMMA SettledStatus ==
  ASSUME TypeOK, NEW w \in Workers, worker[w].cur \in Lease,
         NEW lag \in 0..Slack, NEW delay \in 1..360
  PROVE  LET s == SettledRow(w, lag, delay).status IN
         \/ s = "PUBLISHED" /\ worker[w].verdict = "ack"
         \/ s \in {"DEAD", "PENDING"}
<1> DEFINE r == row[worker[w].cur.event]
<1>1. r \in Row BY DEF TypeOK, Lease
<1> HIDE DEF r
<1>2. /\ Unleased(r, "PUBLISHED", 0, "NONE").status = "PUBLISHED"
      /\ Unleased(r, "DEAD", 0, "REJECTED").status = "DEAD"
      /\ Unleased(r, "DEAD", 0, "EXHAUSTED").status = "DEAD"
      /\ Unleased(r, "PENDING", delay - lag, "NONE").status = "PENDING"
  BY <1>1 DEF Unleased, Row
<1>3. CASE worker[w].verdict = "ack" BY <1>2, <1>3 DEF SettledRow, r
<1>4. CASE worker[w].verdict = "reject" BY <1>2, <1>4 DEF SettledRow, r
<1>5. CASE worker[w].verdict \notin {"ack", "reject"}
  <2>1. SettledRow(w, lag, delay) \in
          {Unleased(r, "DEAD", 0, "EXHAUSTED"),
           Unleased(r, "PENDING", delay - lag, "NONE")}
    BY <1>5 DEF SettledRow, r
  <2> QED BY <1>2, <2>1
<1> QED BY <1>3, <1>4, <1>5
-----------------------------------------------------------------------------
(* The inductive invariant.  HeldUntilExpiry alone is not preserved by Tick: *)
(* the row's deadline and the worker's must also be the same one.  A worker  *)
(* that settles must not hold its current lease a second time, and one that  *)
(* carries an acknowledgement must have put a copy on the broker.            *)

HeldBy(r) ==
  r.todo \cup (IF r.pc \in {"publish", "settle"} THEN {r.cur} ELSE {})

Shape(r, c) ==
  /\ r.pc \in {"idle", "claim"} => r.todo = {}
  /\ r.pc \notin {"idle", "claim"} => r.token # 0
  /\ r.pc \in {"publish", "settle"} => r.cur \in Lease /\ r.cur \notin r.todo
  /\ (r.pc = "settle" /\ r.verdict = "ack") => c[r.cur.event] > 0

Running(w, r, rows) ==
  r.left > 0 => \A l \in HeldBy(r) :
    /\ rows[l.event].status = "LEASED"
    /\ rows[l.event].owner = w
    /\ rows[l.event].token = r.token
    /\ rows[l.event].attempts = l.attempt
    /\ rows[l.event].due = r.left

IInv ==
  /\ TypeOK
  /\ \A w \in Workers : Shape(worker[w], copies)
  /\ \A w \in Workers : Running(w, worker[w], row)
  /\ PublishedWasAccepted

LEMMA InitIInv == Init => IInv
<1> SUFFICES ASSUME Init PROVE IInv OBVIOUS
<1>1. 0 \in 0..MaxAttempts BY OutboxAssumption DEF OutboxAssumption
<1>2. [status |-> "PENDING", attempts |-> 0, due |-> 0, owner |-> NoWorker,
       token |-> 0, code |-> "NONE"] \in Row
  BY <1>1 DEF Row, Statuses
<1>3. Idle(FALSE) \in Worker BY IdleType
<1>4. TypeOK BY <1>2, <1>3 DEF Init, TypeOK
<1>5. Shape(Idle(FALSE), copies) BY DEF Shape, Idle
<1>6. \A w \in Workers : Running(w, Idle(FALSE), row) BY DEF Running, Idle
<1>7. PublishedWasAccepted BY DEF Init, PublishedWasAccepted
<1> QED BY <1>4, <1>5, <1>6, <1>7 DEF IInv, Init

(* Every step but a tick changes the memory of one worker, w.  It keeps the  *)
(* invariant if it leaves alone the rows whose running lease another worker  *)
(* owns, and gives w only leases that the rows confirm.                      *)
LEMMA OneWorkerStep ==
  ASSUME IInv, NEW w \in Workers, NEW r \in Worker,
         worker' = [worker EXCEPT ![w] = r],
         row' \in [Events -> Row], claims' \in Nat, copies' \in [Events -> Nat],
         \A e \in Events : copies'[e] >= copies[e],
         Shape(r, copies'),
         Running(w, r, row'),
         \A e \in Events :
           (row[e].status = "LEASED" /\ row[e].owner # w /\ row[e].due > 0)
             => row'[e] = row[e],
         \A e \in Events : row'[e].status = "PUBLISHED" => copies'[e] > 0
  PROVE  IInv'
<1>1. TypeOK' BY DEF IInv, TypeOK
<1>2. ASSUME NEW v \in Workers PROVE Shape(worker'[v], copies')
  <2>1. CASE v = w BY <2>1 DEF IInv, TypeOK
  <2>2. CASE v # w
    <3>1. worker'[v] = worker[v] BY <2>2 DEF IInv, TypeOK
    <3>2. Shape(worker[v], copies) BY DEF IInv
    <3>3. worker[v].cur \in Lease => worker[v].cur.event \in Events
      BY DEF Lease
    <3>4. \A e \in Events : copies[e] \in Nat /\ copies'[e] \in Nat
      BY DEF IInv, TypeOK
    <3> QED BY <3>1, <3>2, <3>3, <3>4 DEF Shape
  <2> QED BY <2>1, <2>2
<1>3. ASSUME NEW v \in Workers PROVE Running(v, worker'[v], row')
  <2>1. CASE v = w BY <2>1 DEF IInv, TypeOK
  <2>2. CASE v # w
    <3>1. worker'[v] = worker[v] BY <2>2 DEF IInv, TypeOK
    <3>2. Running(v, worker[v], row) BY DEF IInv
    <3>3. ASSUME NEW l \in HeldBy(worker[v]) PROVE l.event \in Events
      <4>1. worker[v] \in Worker BY DEF IInv, TypeOK
      <4>2. Shape(worker[v], copies) BY DEF IInv
      <4>3. l \in Lease BY <4>1, <4>2 DEF HeldBy, Shape, Worker
      <4> QED BY <4>3 DEF Lease
    <3>4. ASSUME NEW l \in HeldBy(worker[v]), worker[v].left > 0
          PROVE  row'[l.event] = row[l.event]
      BY <2>2, <3>2, <3>3, <3>4 DEF Running
    <3> QED BY <3>1, <3>2, <3>4 DEF Running
  <2> QED BY <2>1, <2>2
<1>4. PublishedWasAccepted' BY DEF PublishedWasAccepted
<1> QED BY <1>1, <1>2, <1>3, <1>4 DEF IInv

LEMMA SameRowsStep ==
  ASSUME IInv, NEW w \in Workers, NEW r \in Worker,
         worker' = [worker EXCEPT ![w] = r],
         UNCHANGED <<row, claims>>, copies' \in [Events -> Nat],
         \A e \in Events : copies'[e] >= copies[e],
         Shape(r, copies'), Running(w, r, row)
  PROVE  IInv'
<1>1. row' \in [Events -> Row] /\ claims' \in Nat BY DEF IInv, TypeOK
<1>2. Running(w, r, row') OBVIOUS
<1>3. \A e \in Events : row'[e].status = "PUBLISHED" => copies'[e] > 0
  BY DEF IInv, TypeOK, PublishedWasAccepted
<1> QED BY <1>1, <1>2, <1>3, OneWorkerStep

LEMMA IdleShape ==
  ASSUME NEW s, NEW c, NEW w, NEW rows
  PROVE  Shape(Idle(s), c) /\ Running(w, Idle(s), rows)
BY DEF Shape, Running, Idle, HeldBy

LEMMA ContinueShape ==
  ASSUME IInv, NEW w \in Workers, NEW todo \in SUBSET worker[w].todo,
         worker[w].pc \notin {"idle", "claim"}, NEW c, NEW rows,
         worker[w].left > 0 =>
           \A l \in todo : rows[l.event] = row[l.event]
  PROVE  /\ Continue(w, todo) \in Worker
         /\ Shape(Continue(w, todo), c)
         /\ Running(w, Continue(w, todo), rows)
<1>1. worker[w] \in Worker /\ worker \in [Workers -> Worker]
  BY DEF IInv, TypeOK
<1>2. todo \in SUBSET Lease BY <1>1 DEF Worker
<1>3. Continue(w, todo) \in Worker BY <1>1, <1>2, ContinueType
<1>4. CASE todo = {}
  BY <1>3, <1>4, IdleShape DEF Continue
<1>5. CASE todo # {}
  <2> DEFINE r == [worker[w] EXCEPT !.pc = "loop", !.todo = todo,
                                    !.cur = NoLease, !.verdict = "none"]
  <2>1. Continue(w, todo) = r BY <1>5 DEF Continue
  <2>2. /\ r.pc = "loop" /\ r.todo = todo
        /\ r.left = worker[w].left /\ r.token = worker[w].token
    BY <1>1 DEF Worker
  <2>3. Shape(worker[w], copies) /\ Running(w, worker[w], row) BY DEF IInv
  <2>4. Shape(r, c) BY <2>2, <2>3 DEF Shape
  <2>5. HeldBy(r) = todo BY <2>2 DEF HeldBy
  <2>6. todo \subseteq HeldBy(worker[w]) BY DEF HeldBy
  <2> HIDE DEF r
  <2>7. Running(w, r, rows)
    BY <2>2, <2>3, <2>5, <2>6 DEF Running
  <2> QED BY <1>3, <2>1, <2>4, <2>7
<1> QED BY <1>4, <1>5

(* One lemma per action of a worker.                                         *)

LEMMA SweepExhaustedStep ==
  ASSUME IInv, NEW w \in Workers, SweepExhausted(w) PROVE IInv'
<1>0. PICK lag \in 0..Slack :
        \E dead \in SUBSET {e \in Events : MaySweep(e, lag)} :
          row' = [e \in Events |->
                    IF e \in dead THEN Unleased(row[e], "DEAD", 0, "EXHAUSTED")
                    ELSE row[e]]
  BY DEF SweepExhausted
<1>1. PICK dead \in SUBSET {e \in Events : MaySweep(e, lag)} :
        row' = [e \in Events |->
                  IF e \in dead THEN Unleased(row[e], "DEAD", 0, "EXHAUSTED")
                  ELSE row[e]]
  BY <1>0
<1>2. /\ row \in [Events -> Row] /\ worker \in [Workers -> Worker]
      /\ claims' \in Nat /\ copies' \in [Events -> Nat] /\ copies' = copies
      /\ \A e \in Events : copies[e] \in Nat
  BY DEF IInv, TypeOK, SweepExhausted
<1>3. \A e \in Events : Unleased(row[e], "DEAD", 0, "EXHAUSTED") \in Row
  BY <1>2, UnleasedType DEF Statuses
<1>4. row' \in [Events -> Row] BY <1>1, <1>2, <1>3
<1>5. \A e \in Events : row[e].due > 0 => row'[e] = row[e]
  <2>1. lag \in Nat BY OutboxAssumption DEF OutboxAssumption
  <2>2. \A e \in dead : row[e].due <= -lag BY DEF MaySweep, Eligible
  <2>3. \A e \in Events : row[e].due \in Int BY <1>2 DEF Row
  <2> QED BY <1>1, <2>1, <2>2, <2>3
<1>6. \A e \in Events : row'[e].status = "PUBLISHED" => copies'[e] > 0
  <2>1. \A e \in Events : row'[e].status = "PUBLISHED" =>
           row[e].status = "PUBLISHED"
    BY <1>1, <1>2 DEF Unleased, Row
  <2> QED BY <1>2, <2>1 DEF IInv, PublishedWasAccepted
<1>7. PICK r \in {[worker[w] EXCEPT !.pc = "claim"], worker[w]} :
        worker' = [worker EXCEPT ![w] = r]
  BY <1>2 DEF SweepExhausted
<1>8. r \in Worker /\ r.pc \in {"idle", "claim"} /\ r.todo = {}
  BY <1>2 DEF Worker, SweepExhausted, IInv, Shape
<1>9. Shape(r, copies') /\ Running(w, r, row')
  BY <1>8 DEF Shape, Running, HeldBy
<1>10. \A e \in Events : copies'[e] >= copies[e] BY <1>2
<1>11. \A e \in Events :
         (row[e].status = "LEASED" /\ row[e].owner # w /\ row[e].due > 0)
           => row'[e] = row[e]
  BY <1>5
<1>12. r \in Worker BY <1>8
<1> QED BY <1>2, <1>4, <1>6, <1>7, <1>9, <1>10, <1>11, <1>12, OneWorkerStep

LEMMA ClaimBatchStep ==
  ASSUME IInv, NEW w \in Workers, ClaimBatch(w) PROVE IInv'
<1> DEFINE New(S, lag) ==
      [e \in Events |-> IF e \in S
                        THEN Leased(row[e], w, claims + 1, LeaseDuration - lag)
                        ELSE row[e]]
    Got(S, lag) ==
      [worker[w] EXCEPT !.pc = "loop", !.token = claims + 1,
         !.left = LeaseDuration - lag,
         !.todo = {[event |-> e, attempt |-> row[e].attempts + 1] : e \in S}]
<1>1. PICK lag \in 0..Slack :
        \E S \in SUBSET {e \in Events : MayClaim(e, lag)} :
          /\ row' = New(S, lag)
          /\ claims' = IF S = {} THEN claims ELSE claims + 1
          /\ \E r \in {Got(S, lag), Idle(worker[w].stopping)} :
               worker' = [worker EXCEPT ![w] = r]
  BY DEF ClaimBatch
<1>2. PICK S \in SUBSET {e \in Events : MayClaim(e, lag)} :
        /\ row' = New(S, lag)
        /\ claims' = IF S = {} THEN claims ELSE claims + 1
        /\ \E r \in {Got(S, lag), Idle(worker[w].stopping)} :
             worker' = [worker EXCEPT ![w] = r]
  BY <1>1
<1>3. PICK r \in {Got(S, lag), Idle(worker[w].stopping)} :
        worker' = [worker EXCEPT ![w] = r]
  BY <1>2
<1>4. /\ row \in [Events -> Row] /\ worker[w] \in Worker
      /\ worker[w].stopping \in BOOLEAN
      /\ claims \in Nat /\ claims' \in Nat
      /\ copies' = copies /\ copies' \in [Events -> Nat]
      /\ \A e \in Events : copies'[e] >= copies[e]
  BY <1>2 DEF IInv, TypeOK, ClaimBatch, Worker
<1>5. /\ claims + 1 \in Nat /\ claims + 1 # 0
      /\ LeaseDuration - lag \in Int /\ lag \in Nat
  BY <1>4, OutboxAssumption DEF OutboxAssumption
<1>6. \A e \in S : row[e].due <= -lag /\ row[e].attempts < MaxAttempts
  BY DEF MayClaim, Eligible
<1>7. \A e \in S : Leased(row[e], w, claims + 1, LeaseDuration - lag) \in Row
  BY <1>4, <1>5, <1>6, LeasedType
<1>8. row' \in [Events -> Row] BY <1>2, <1>4, <1>7
<1>9. \A e \in Events :
        (row[e].status = "LEASED" /\ row[e].owner # w /\ row[e].due > 0)
          => row'[e] = row[e]
  <2>1. \A e \in Events : row[e].due \in Int BY <1>4 DEF Row
  <2> QED BY <1>2, <1>5, <1>6, <2>1
<1>10. \A e \in Events : row'[e].status = "PUBLISHED" => copies'[e] > 0
  <2>1. \A e \in Events : row'[e].status = "PUBLISHED" =>
           row[e].status = "PUBLISHED"
    BY <1>2, <1>4 DEF Leased, Row
  <2> QED BY <1>4, <2>1 DEF IInv, PublishedWasAccepted
<1>11. CASE r = Idle(worker[w].stopping)
  <2>1. r \in Worker BY <1>4, <1>11, IdleType
  <2>2. Shape(r, copies') /\ Running(w, r, row') BY <1>11, IdleShape
  <2> QED BY <1>3, <1>4, <1>8, <1>9, <1>10, <2>1, <2>2, OneWorkerStep
<1>12. CASE r = Got(S, lag)
  <2>1. {[event |-> e, attempt |-> row[e].attempts + 1] : e \in S} \in SUBSET Lease
    <3>1. \A e \in S : e \in Events /\ row[e].attempts + 1 \in Nat
      BY <1>4 DEF Row
    <3> QED BY <3>1 DEF Lease
  <2>2. r \in Worker BY <1>4, <1>5, <1>12, <2>1 DEF Worker
  <2>3. /\ r.pc = "loop" /\ r.token = claims + 1 /\ r.left = LeaseDuration - lag
        /\ r.todo = {[event |-> e, attempt |-> row[e].attempts + 1] : e \in S}
    BY <1>4, <1>12 DEF Worker
  <2>4. Shape(r, copies') BY <1>5, <2>3 DEF Shape
  <2>5. ASSUME NEW l \in HeldBy(r)
        PROVE  /\ row'[l.event].status = "LEASED" /\ row'[l.event].owner = w
               /\ row'[l.event].token = r.token
               /\ row'[l.event].attempts = l.attempt
               /\ row'[l.event].due = r.left
    <3>1. PICK e \in S : l = [event |-> e, attempt |-> row[e].attempts + 1]
      BY <2>3, <2>5 DEF HeldBy
    <3>2. row'[e] = Leased(row[e], w, claims + 1, LeaseDuration - lag)
      BY <1>2, <3>1
    <3>3. row[e] \in Row BY <1>4, <3>1
    <3> QED BY <2>3, <3>1, <3>2, <3>3 DEF Leased, Row
  <2>6. Running(w, r, row') BY <2>5 DEF Running
  <2> QED BY <1>3, <1>4, <1>8, <1>9, <1>10, <2>2, <2>4, <2>6, OneWorkerStep
<1> QED BY <1>11, <1>12

LEMMA StartLeaseStep ==
  ASSUME IInv, NEW w \in Workers, StartLease(w) PROVE IInv'
<1> DEFINE Drop(l) == Continue(w, worker[w].todo \ {l})
           Take(l) == [worker[w] EXCEPT
                         !.pc = IF l.event \in Rejected THEN "settle"
                                ELSE "publish",
                         !.verdict = IF l.event \in Rejected THEN "reject"
                                     ELSE "none",
                         !.cur = l, !.todo = worker[w].todo \ {l}]
<1>1. PICK l \in worker[w].todo : \E r \in {Drop(l), Take(l)} :
        worker' = [worker EXCEPT ![w] = r]
  BY DEF StartLease
<1>2. /\ worker[w] \in Worker /\ worker[w].todo \in SUBSET Lease
      /\ worker[w].pc = "loop" /\ UNCHANGED <<row, claims, copies>>
      /\ copies' \in [Events -> Nat] /\ \A e \in Events : copies'[e] >= copies[e]
  BY DEF IInv, TypeOK, StartLease, Worker
<1>3. CASE worker' = [worker EXCEPT ![w] = Drop(l)]
  <2>1. Drop(l) \in Worker /\ Shape(Drop(l), copies') /\ Running(w, Drop(l), row)
    BY <1>2, ContinueShape
  <2> QED BY <1>2, <1>3, <2>1, SameRowsStep
<1>4. CASE worker' = [worker EXCEPT ![w] = Take(l)]
  <2> DEFINE r == Take(l)
  <2>1. l \in Lease BY <1>1, <1>2
  <2>2. r \in Worker BY <1>2, <2>1 DEF Worker
  <2>3. /\ r.pc \in {"publish", "settle"} /\ r.cur = l
        /\ r.todo = worker[w].todo \ {l} /\ r.verdict # "ack"
        /\ r.left = worker[w].left /\ r.token = worker[w].token
    BY <1>2 DEF Worker
  <2>4. Shape(worker[w], copies) /\ Running(w, worker[w], row) BY DEF IInv
  <2>5. HeldBy(r) \subseteq HeldBy(worker[w]) BY <1>1, <2>3 DEF HeldBy
  <2> HIDE DEF r
  <2>6. Shape(r, copies') BY <1>2, <2>1, <2>3, <2>4 DEF Shape
  <2>7. Running(w, r, row) BY <2>3, <2>4, <2>5 DEF Running
  <2> QED BY <1>2, <1>4, <2>2, <2>6, <2>7, SameRowsStep DEF r
<1> QED BY <1>1, <1>3, <1>4
LEMMA PublishStep ==
  ASSUME IInv, NEW w \in Workers, Publish(w) PROVE IInv'
<1> DEFINE e == worker[w].cur.event
           Answer(v) == [worker[w] EXCEPT !.pc = "settle", !.verdict = v]
<1>1. /\ worker[w] \in Worker /\ worker \in [Workers -> Worker]
      /\ worker[w].pc = "publish" /\ UNCHANGED <<row, claims>>
      /\ Shape(worker[w], copies) /\ Running(w, worker[w], row)
      /\ copies \in [Events -> Nat]
  BY DEF IInv, TypeOK, Publish
<1>2. worker[w].cur \in Lease /\ e \in Events /\ worker[w].cur \notin worker[w].todo
  BY <1>1 DEF Shape, Lease
<1>3. PICK v \in {"ack", "fail"} :
        /\ worker' = [worker EXCEPT ![w] = Answer(v)]
        /\ copies' \in {copies, [copies EXCEPT ![e] = @ + 1]}
        /\ v = "ack" => copies' = [copies EXCEPT ![e] = @ + 1]
  BY <1>1 DEF Publish
<1>4. /\ copies' \in [Events -> Nat] /\ \A x \in Events : copies'[x] >= copies[x]
      /\ v = "ack" => copies'[e] > 0
  BY <1>1, <1>2, <1>3
<1>5. Answer(v) \in Worker BY <1>1 DEF Worker
<1>6. /\ Answer(v).pc = "settle" /\ Answer(v).verdict = v
      /\ Answer(v).cur = worker[w].cur /\ Answer(v).todo = worker[w].todo
      /\ Answer(v).left = worker[w].left /\ Answer(v).token = worker[w].token
  BY <1>1 DEF Worker
<1> HIDE DEF Answer
<1>7. Shape(Answer(v), copies') BY <1>1, <1>2, <1>4, <1>6 DEF Shape
<1>8. HeldBy(Answer(v)) = HeldBy(worker[w]) BY <1>1, <1>6 DEF HeldBy
<1>9. Running(w, Answer(v), row) BY <1>1, <1>6, <1>8 DEF Running
<1> QED BY <1>1, <1>3, <1>4, <1>5, <1>7, <1>9, SameRowsStep

(* A settling statement touches one row, and only under its fence.           *)
LEMMA OneRowStep ==
  ASSUME IInv, NEW w \in Workers, NEW l \in HeldBy(worker[w]),
         l \in Lease, NEW r \in Worker, worker' = [worker EXCEPT ![w] = r],
         NEW x \in Row, NEW lag \in 0..Slack,
         row' = row \/ (Fence(w, l, lag) /\ row' = [row EXCEPT ![l.event] = x]),
         x.status = "PUBLISHED" => copies[l.event] > 0,
         UNCHANGED <<claims, copies>>,
         Shape(r, copies), Running(w, r, row')
  PROVE  IInv'
<1>1. l.event \in Events BY DEF Lease
<1>2. /\ row \in [Events -> Row] /\ claims' \in Nat
      /\ copies' \in [Events -> Nat] /\ copies' = copies
  BY DEF IInv, TypeOK
<1>3. row' \in [Events -> Row] BY <1>1, <1>2
<1>4. \A e \in Events : copies'[e] >= copies[e] BY <1>2
<1>5. \A e \in Events :
        (row[e].status = "LEASED" /\ row[e].owner # w /\ row[e].due > 0)
          => row'[e] = row[e]
  <2>1. CASE row' = row BY <2>1
  <2>2. CASE Fence(w, l, lag) /\ row' = [row EXCEPT ![l.event] = x]
    <3>1. row[l.event].owner = w BY <2>2 DEF Fence
    <3> QED BY <1>1, <1>2, <2>2, <3>1
  <2> QED BY <2>1, <2>2
<1>6. \A e \in Events : row'[e].status = "PUBLISHED" => copies'[e] > 0
  BY <1>1, <1>2 DEF IInv, PublishedWasAccepted
<1>7. Shape(r, copies') BY <1>2
<1> QED BY <1>2, <1>3, <1>4, <1>5, <1>6, <1>7, OneWorkerStep

(* While the lease runs, the other leases of the batch lie on other rows.    *)
LEMMA OtherRows ==
  ASSUME IInv, NEW w \in Workers, worker[w].left > 0,
         NEW k \in HeldBy(worker[w]), NEW l \in HeldBy(worker[w]), k # l,
         k \in Lease, l \in Lease
  PROVE  k.event # l.event
<1>1. Running(w, worker[w], row) BY DEF IInv
<1>2. k.event = l.event => k.attempt = l.attempt BY <1>1 DEF Running
<1> QED BY <1>2 DEF Lease
LEMMA SettleStep ==
  ASSUME IInv, NEW w \in Workers, Settle(w) PROVE IInv'
<1> DEFINE l == worker[w].cur
           New(lag, delay) == [row EXCEPT ![l.event] = SettledRow(w, lag, delay)]
<1>1. /\ worker[w] \in Worker /\ worker[w].pc = "settle"
      /\ worker[w].stopping \in BOOLEAN
      /\ UNCHANGED <<claims, copies>> /\ row \in [Events -> Row]
      /\ Shape(worker[w], copies)
  BY DEF IInv, TypeOK, Settle, Worker
<1>2. /\ l \in Lease /\ l \notin worker[w].todo /\ l \in HeldBy(worker[w])
      /\ worker[w].todo \in SUBSET Lease /\ l.event \in Events
  BY <1>1 DEF Shape, HeldBy, Worker, Lease
<1>3. PICK lag \in 0..Slack :
        \E delay \in BackoffDelays(l.attempt) :
          \E r \in {Continue(w, worker[w].todo), Idle(worker[w].stopping)} :
            /\ worker' = [worker EXCEPT ![w] = r]
            /\ row' = row \/ (Fence(w, l, lag) /\ row' = New(lag, delay))
  BY DEF Settle
<1>4. PICK delay \in BackoffDelays(l.attempt) :
        \E r \in {Continue(w, worker[w].todo), Idle(worker[w].stopping)} :
          /\ worker' = [worker EXCEPT ![w] = r]
          /\ row' = row \/ (Fence(w, l, lag) /\ row' = New(lag, delay))
  BY <1>3
<1>5. PICK r \in {Continue(w, worker[w].todo), Idle(worker[w].stopping)} :
        /\ worker' = [worker EXCEPT ![w] = r]
        /\ row' = row \/ (Fence(w, l, lag) /\ row' = New(lag, delay))
  BY <1>4
<1>6. delay \in 1..360 BY DEF BackoffDelays
<1>7. SettledRow(w, lag, delay) \in Row
  BY <1>2, <1>6, SettledRowType DEF IInv
<1>8. SettledRow(w, lag, delay).status = "PUBLISHED" => copies[l.event] > 0
  BY <1>1, <1>2, <1>6, SettledStatus DEF IInv, Shape
<1>9. worker[w].left > 0 => \A k \in worker[w].todo : row'[k.event] = row[k.event]
  <2> SUFFICES ASSUME worker[w].left > 0, NEW k \in worker[w].todo
               PROVE  row'[k.event] = row[k.event]
    OBVIOUS
  <2>1. k.event # l.event
    <3>1. k \in HeldBy(worker[w]) /\ k \in Lease BY <1>2 DEF HeldBy
    <3>2. k # l BY <1>2
    <3> QED BY <1>2, <3>1, <3>2, OtherRows
  <2>2. CASE row' = row BY <2>2
  <2>3. CASE row' = New(lag, delay) BY <1>1, <1>2, <2>1, <2>3
  <2> QED BY <1>5, <2>2, <2>3
<1>10. r \in Worker /\ Shape(r, copies) /\ Running(w, r, row')
  <2>1. CASE r = Idle(worker[w].stopping) BY <1>1, <2>1, IdleType, IdleShape
  <2>2. CASE r = Continue(w, worker[w].todo)
    <3>1. worker[w].pc \notin {"idle", "claim"} BY <1>1
    <3> QED BY <1>9, <2>2, <3>1, ContinueShape
  <2> QED BY <2>1, <2>2
<1>11. row' = row \/ (Fence(w, l, lag) /\
         row' = [row EXCEPT ![l.event] = SettledRow(w, lag, delay)])
  BY <1>5
<1>12. worker' = [worker EXCEPT ![w] = r] BY <1>5
<1> HIDE DEF l, New
<1> QED BY <1>1, <1>2, <1>7, <1>8, <1>10, <1>11, <1>12, OneRowStep

LEMMA ReleaseUnstartedStep ==
  ASSUME IInv, NEW w \in Workers, ReleaseUnstarted(w) PROVE IInv'
<1> DEFINE Freed(l, lag) == Unleased(row[l.event], "PENDING", -lag, "NONE")
           Rest(l) == IF worker[w].todo \ {l} = {} THEN Idle(TRUE)
                      ELSE [worker[w] EXCEPT !.todo = worker[w].todo \ {l}]
<1>1. PICK l \in worker[w].todo : \E lag \in 0..Slack :
        /\ row' = row \/ (Fence(w, l, lag) /\
                           row' = [row EXCEPT ![l.event] = Freed(l, lag)])
        /\ worker' = [worker EXCEPT ![w] = Rest(l)]
  BY DEF ReleaseUnstarted
<1>2. PICK lag \in 0..Slack :
        /\ row' = row \/ (Fence(w, l, lag) /\
                           row' = [row EXCEPT ![l.event] = Freed(l, lag)])
        /\ worker' = [worker EXCEPT ![w] = Rest(l)]
  BY <1>1
<1>3. /\ worker[w] \in Worker /\ worker[w].pc = "release"
      /\ UNCHANGED <<claims, copies>> /\ row \in [Events -> Row]
      /\ Shape(worker[w], copies) /\ Running(w, worker[w], row)
      /\ worker[w].todo \in SUBSET Lease
  BY DEF IInv, TypeOK, ReleaseUnstarted, Worker
<1>4. l \in Lease /\ l \in HeldBy(worker[w]) /\ l.event \in Events
  BY <1>3 DEF HeldBy, Lease
<1>5. Freed(l, lag) \in Row /\ Freed(l, lag).status = "PENDING"
  <2>1. -lag \in Int /\ row[l.event] \in Row
    BY <1>3, <1>4, OutboxAssumption DEF OutboxAssumption
  <2>2. Freed(l, lag) \in Row BY <2>1, UnleasedType DEF Statuses
  <2> QED BY <2>1, <2>2 DEF Unleased, Row
<1>6. worker[w].left > 0 =>
        \A k \in worker[w].todo \ {l} : row'[k.event] = row[k.event]
  <2> SUFFICES ASSUME worker[w].left > 0, NEW k \in worker[w].todo \ {l}
               PROVE  row'[k.event] = row[k.event]
    OBVIOUS
  <2>1. k \in HeldBy(worker[w]) /\ k \in Lease /\ k # l BY <1>3 DEF HeldBy
  <2>2. k.event # l.event BY <1>4, <2>1, OtherRows
  <2>3. CASE row' = row BY <2>3
  <2>4. CASE row' = [row EXCEPT ![l.event] = Freed(l, lag)]
    <3> HIDE DEF Freed
    <3>1. k.event \in Events BY <2>1 DEF Lease
    <3> QED BY <1>3, <2>2, <2>4, <3>1
  <2> QED BY <1>2, <2>3, <2>4
<1>7. Rest(l) \in Worker /\ Shape(Rest(l), copies) /\ Running(w, Rest(l), row')
  <2>1. CASE worker[w].todo \ {l} = {} BY <2>1, IdleType, IdleShape
  <2>2. CASE worker[w].todo \ {l} # {}
    <3> DEFINE r == [worker[w] EXCEPT !.todo = worker[w].todo \ {l}]
    <3>1. r \in Worker BY <1>3 DEF Worker
    <3>2. /\ r.pc = "release" /\ r.todo = worker[w].todo \ {l}
          /\ r.left = worker[w].left /\ r.token = worker[w].token
      BY <1>3 DEF Worker
    <3> HIDE DEF r
    <3>3. Shape(r, copies) BY <1>3, <3>2 DEF Shape
    <3>4. HeldBy(r) = worker[w].todo \ {l} BY <3>2 DEF HeldBy
    <3>5. worker[w].todo \ {l} \subseteq HeldBy(worker[w]) BY DEF HeldBy
    <3>6. Running(w, r, row') BY <1>3, <1>6, <3>2, <3>4, <3>5 DEF Running
    <3> QED BY <2>2, <3>1, <3>3, <3>6 DEF r
  <2> QED BY <2>1, <2>2
<1> HIDE DEF Freed, Rest
<1>8. Freed(l, lag).status = "PUBLISHED" => copies[l.event] > 0 BY <1>5
<1> QED BY <1>2, <1>3, <1>4, <1>5, <1>7, <1>8, OneRowStep
LEMMA SeeStopStep ==
  ASSUME IInv, NEW w \in Workers, SeeStop(w) PROVE IInv'
<1> DEFINE r == [worker[w] EXCEPT !.pc = "release"]
<1>1. /\ worker[w] \in Worker /\ worker[w].pc = "loop"
      /\ UNCHANGED <<row, claims, copies>>
      /\ copies' \in [Events -> Nat] /\ \A e \in Events : copies'[e] >= copies[e]
      /\ Shape(worker[w], copies) /\ Running(w, worker[w], row)
  BY DEF IInv, TypeOK, SeeStop
<1>2. worker' = [worker EXCEPT ![w] = r] BY DEF SeeStop
<1>3. r \in Worker BY <1>1 DEF Worker
<1>4. /\ r.pc = "release" /\ r.todo = worker[w].todo
      /\ r.left = worker[w].left /\ r.token = worker[w].token
  BY <1>1 DEF Worker
<1> HIDE DEF r
<1>5. Shape(r, copies') BY <1>1, <1>4 DEF Shape
<1>6. Running(w, r, row) BY <1>1, <1>4 DEF Running, HeldBy
<1> QED BY <1>1, <1>2, <1>3, <1>5, <1>6, SameRowsStep

LEMMA ForgetStep ==
  ASSUME IInv, NEW w \in Workers,
         RegistryUnavailable(w) \/ Crash(w) \/ Restart(w)
  PROVE  IInv'
<1>1. /\ worker' = [worker EXCEPT ![w] = Idle(FALSE)]
      /\ UNCHANGED <<row, claims>> /\ copies' = copies
  BY DEF RegistryUnavailable, Crash, Restart
<1>2. copies' \in [Events -> Nat] /\ \A e \in Events : copies'[e] >= copies[e]
  BY <1>1 DEF IInv, TypeOK
<1>3. Idle(FALSE) \in Worker BY IdleType
<1>4. Shape(Idle(FALSE), copies') /\ Running(w, Idle(FALSE), row) BY IdleShape
<1> QED BY <1>1, <1>2, <1>3, <1>4, SameRowsStep

LEMMA RequestStopStep ==
  ASSUME IInv, NEW w \in Workers, RequestStop(w) PROVE IInv'
<1> DEFINE r == [worker[w] EXCEPT !.stopping = TRUE]
<1>1. /\ worker[w] \in Worker
      /\ UNCHANGED <<row, claims, copies>>
      /\ copies' \in [Events -> Nat] /\ \A e \in Events : copies'[e] >= copies[e]
      /\ Shape(worker[w], copies) /\ Running(w, worker[w], row)
  BY DEF IInv, TypeOK, RequestStop
<1>2. worker' = [worker EXCEPT ![w] = r] BY DEF RequestStop
<1>3. r \in Worker BY <1>1 DEF Worker
<1>4. /\ r.pc = worker[w].pc /\ r.todo = worker[w].todo /\ r.cur = worker[w].cur
      /\ r.verdict = worker[w].verdict
      /\ r.left = worker[w].left /\ r.token = worker[w].token
  BY <1>1 DEF Worker
<1> HIDE DEF r
<1>5. Shape(r, copies') BY <1>1, <1>4 DEF Shape
<1>6. HeldBy(r) = HeldBy(worker[w]) BY <1>4 DEF HeldBy
<1>7. Running(w, r, row) BY <1>1, <1>4, <1>6 DEF Running
<1> QED BY <1>1, <1>2, <1>3, <1>5, <1>7, SameRowsStep

LEMMA TickStep == ASSUME IInv, Tick PROVE IInv'
<1>1. /\ row \in [Events -> Row] /\ worker \in [Workers -> Worker]
      /\ claims' = claims /\ copies' = copies
  BY DEF IInv, TypeOK, Tick
<1>2. \A t \in Int : Sooner(t) \in Int /\ (Sooner(t) > 0 => t > 0)
  BY OutboxAssumption DEF OutboxAssumption, Sooner
<1>3. ASSUME NEW e \in Events
      PROVE  /\ row'[e] \in Row
             /\ row'[e].status = row[e].status /\ row'[e].owner = row[e].owner
             /\ row'[e].token = row[e].token /\ row'[e].attempts = row[e].attempts
             /\ row[e].status = "LEASED" => row'[e].due = Sooner(row[e].due)
  <2>1. row[e] \in Row /\ Sooner(row[e].due) \in Int BY <1>1, <1>2 DEF Row
  <2> HIDE DEF Sooner
  <2> QED BY <2>1 DEF Tick, Row, Terminal
<1>4. ASSUME NEW w \in Workers
      PROVE  /\ worker'[w] \in Worker
             /\ worker'[w].pc = worker[w].pc /\ worker'[w].todo = worker[w].todo
             /\ worker'[w].cur = worker[w].cur
             /\ worker'[w].token = worker[w].token
             /\ worker'[w].verdict = worker[w].verdict
             /\ worker[w].token # 0 => worker'[w].left = Sooner(worker[w].left)
  <2>1. worker[w] \in Worker /\ Sooner(worker[w].left) \in Int
    BY <1>1, <1>2 DEF Worker
  <2> HIDE DEF Sooner
  <2> QED BY <2>1 DEF Tick, Worker
<1>5. TypeOK'
  <2>1. row' \in [Events -> Row] BY <1>3 DEF Tick
  <2>2. worker' \in [Workers -> Worker] BY <1>4 DEF Tick
  <2> QED BY <1>1, <2>1, <2>2 DEF TypeOK, IInv
<1>6. \A w \in Workers : Shape(worker'[w], copies')
  BY <1>1, <1>4 DEF IInv, Shape
<1>7. ASSUME NEW w \in Workers PROVE Running(w, worker'[w], row')
  <2>1. HeldBy(worker'[w]) = HeldBy(worker[w]) BY <1>4 DEF HeldBy
  <2>2. Shape(worker[w], copies) /\ Running(w, worker[w], row) /\ worker[w] \in Worker
    BY <1>1 DEF IInv
  <2> SUFFICES ASSUME worker'[w].left > 0, NEW l \in HeldBy(worker[w])
               PROVE  /\ row'[l.event].status = "LEASED"
                      /\ row'[l.event].owner = w
                      /\ row'[l.event].token = worker'[w].token
                      /\ row'[l.event].attempts = l.attempt
                      /\ row'[l.event].due = worker'[w].left
    BY <2>1 DEF Running
  <2>3. l \in Lease /\ worker[w].token # 0
    BY <2>2 DEF HeldBy, Shape, Worker
  <2>4. l.event \in Events BY <2>3 DEF Lease
  <2>5. worker'[w].left = Sooner(worker[w].left) /\ worker[w].left > 0
    BY <1>2, <1>4, <2>2, <2>3 DEF Worker
  <2> HIDE DEF Sooner
  <2> QED BY <1>3, <1>4, <2>2, <2>4, <2>5 DEF Running
<1>8. PublishedWasAccepted' BY <1>1, <1>3 DEF IInv, PublishedWasAccepted
<1> QED BY <1>5, <1>6, <1>7, <1>8 DEF IInv

LEMMA Inductive == IInv /\ [Next]_vars => IInv'
<1> SUFFICES ASSUME IInv, [Next]_vars PROVE IInv' OBVIOUS
<1>1. CASE UNCHANGED vars
  BY <1>1 DEF vars, IInv, TypeOK, Shape, Running, PublishedWasAccepted
<1>2. CASE Tick BY <1>2, TickStep
<1>3. ASSUME NEW w \in Workers, SweepExhausted(w) PROVE IInv'
  BY <1>3, SweepExhaustedStep
<1>4. ASSUME NEW w \in Workers, ClaimBatch(w) PROVE IInv' BY <1>4, ClaimBatchStep
<1>5. ASSUME NEW w \in Workers, StartLease(w) PROVE IInv' BY <1>5, StartLeaseStep
<1>6. ASSUME NEW w \in Workers, Publish(w) PROVE IInv' BY <1>6, PublishStep
<1>7. ASSUME NEW w \in Workers, Settle(w) PROVE IInv' BY <1>7, SettleStep
<1>8. ASSUME NEW w \in Workers, SeeStop(w) PROVE IInv' BY <1>8, SeeStopStep
<1>9. ASSUME NEW w \in Workers, ReleaseUnstarted(w) PROVE IInv'
  BY <1>9, ReleaseUnstartedStep
<1>10. ASSUME NEW w \in Workers,
              RegistryUnavailable(w) \/ Crash(w) \/ Restart(w)
       PROVE  IInv'
  BY <1>10, ForgetStep
<1>11. ASSUME NEW w \in Workers, RequestStop(w) PROVE IInv'
  BY <1>11, RequestStopStep
<1> QED
  BY <1>1, <1>2, <1>3, <1>4, <1>5, <1>6, <1>7, <1>8, <1>9, <1>10, <1>11
  DEF Next

LEMMA Invariance == Spec => []IInv
BY InitIInv, Inductive, PTL DEF Spec
-----------------------------------------------------------------------------
\* The rows and the workers' memory keep their types: attempt_count never passes
\* max_attempts, and a lease is always a lease of a row (the CHECK constraints
\* of migration 0008).
THEOREM TypeCorrect == Spec => []TypeOK
<1>1. IInv => TypeOK BY DEF IInv
<1> QED BY <1>1, Invariance, PTL

\* A lease that still runs is the row's lease (the claim and every settling
\* statement of outbox/postgres.py).
THEOREM LeaseHeldUntilExpiry == Spec => []HeldUntilExpiry
<1>1. \A w \in Workers : Held(w) = HeldBy(worker[w]) BY DEF Held, HeldBy
<1>2. IInv => HeldUntilExpiry
  BY <1>1 DEF IInv, Running, HeldUntilExpiry, Owns
<1> QED BY <1>2, Invariance, PTL

\* Two workers never hold running leases on one event.
THEOREM LeasesExclude == Spec => []OneRunningLease
<1>1. ASSUME IInv PROVE OneRunningLease
  <2> SUFFICES ASSUME NEW v \in Workers, NEW w \in Workers,
                      NEW k \in Held(v), NEW l \in Held(w),
                      v # w, k.event = l.event,
                      worker[v].left > 0, worker[w].left > 0
               PROVE  FALSE
    BY <1>1 DEF OneRunningLease, IInv, TypeOK, Worker
  <2>1. row[k.event].owner = v BY <1>1 DEF IInv, Running, Held, HeldBy
  <2>2. row[l.event].owner = w BY <1>1 DEF IInv, Running, Held, HeldBy
  <2> QED BY <2>1, <2>2
<1> QED BY <1>1, Invariance, PTL

\* An event is called published only after the broker accepted it.
THEOREM PublishedAccepted == Spec => []PublishedWasAccepted
<1>1. IInv => PublishedWasAccepted BY DEF IInv
<1> QED BY <1>1, Invariance, PTL-----------------------------------------------------------------------------
(* Steps.  What a step does to a row depends on which statement it runs.     *)

\* What one statement may do to one row: nothing, let time pass, lease it,
\* settle it under the fence of the lease that w is settling, or release it.
RowStep(e) ==
  \/ row'[e] = row[e]
  \/ /\ row[e].status \notin Terminal
     /\ row'[e].status \notin {"PUBLISHED"}
  \/ \E w \in Workers :
       /\ worker[w].pc = "settle" /\ worker[w].cur.event = e
       /\ \E lag \in 0..Slack : Fence(w, worker[w].cur, lag)
       /\ row'[e].status = "PUBLISHED" => worker[w].verdict = "ack"

LEMMA EachRowStep ==
  ASSUME IInv, [Next]_vars, NEW e \in Events PROVE RowStep(e)
<1>1. /\ row \in [Events -> Row] /\ row[e] \in Row
      /\ worker \in [Workers -> Worker]
  BY DEF IInv, TypeOK
<1>2. CASE UNCHANGED row BY <1>2 DEF RowStep
<1>3. CASE Tick
  <2>1. row[e].status \notin Terminal => row'[e].status = row[e].status
    BY <1>1, <1>3 DEF Tick, Row
  <2> QED BY <1>3, <2>1 DEF Tick, RowStep, Terminal
<1>4. ASSUME NEW w \in Workers, SweepExhausted(w) PROVE RowStep(e)
  <2>1. PICK lag \in 0..Slack :
          \E dead \in SUBSET {x \in Events : MaySweep(x, lag)} :
            row' = [x \in Events |->
                      IF x \in dead THEN Unleased(row[x], "DEAD", 0, "EXHAUSTED")
                      ELSE row[x]]
    BY <1>4 DEF SweepExhausted
  <2>2. row'[e] = row[e] \/
          (MaySweep(e, lag) /\ row'[e] = Unleased(row[e], "DEAD", 0, "EXHAUSTED"))
    BY <2>1
  <2>3. Unleased(row[e], "DEAD", 0, "EXHAUSTED").status = "DEAD"
    BY <1>1 DEF Unleased, Row
  <2> QED BY <2>2, <2>3 DEF RowStep, MaySweep, Eligible, Terminal
<1>5. ASSUME NEW w \in Workers, ClaimBatch(w) PROVE RowStep(e)
  <2>1. PICK lag \in 0..Slack :
          \E S \in SUBSET {x \in Events : MayClaim(x, lag)} :
            row' = [x \in Events |->
                      IF x \in S
                      THEN Leased(row[x], w, claims + 1, LeaseDuration - lag)
                      ELSE row[x]]
    BY <1>5 DEF ClaimBatch
  <2>2. row'[e] = row[e] \/
          (/\ MayClaim(e, lag)
           /\ row'[e] = Leased(row[e], w, claims + 1, LeaseDuration - lag))
    BY <2>1
  <2>3. Leased(row[e], w, claims + 1, LeaseDuration - lag).status = "LEASED"
    BY <1>1 DEF Leased, Row
  <2> QED BY <2>2, <2>3 DEF RowStep, MayClaim, Eligible, Terminal
<1>6. ASSUME NEW w \in Workers, Settle(w) PROVE RowStep(e)
  <2> DEFINE l == worker[w].cur
  <2>1. worker[w].pc = "settle" /\ l.event \in Events
    BY <1>1, <1>6 DEF Settle, IInv, Shape, Lease
  <2>2. CASE row' = row BY <2>2 DEF RowStep
  <2>3. CASE row' # row
    <3>1. PICK lag \in 0..Slack : \E delay \in BackoffDelays(l.attempt) :
            /\ Fence(w, l, lag)
            /\ row' = [row EXCEPT ![l.event] = SettledRow(w, lag, delay)]
      BY <1>6, <2>3 DEF Settle
    <3>2. PICK delay \in BackoffDelays(l.attempt) :
            row' = [row EXCEPT ![l.event] = SettledRow(w, lag, delay)]
      BY <3>1
    <3>3. CASE e # l.event BY <1>1, <3>2, <3>3 DEF RowStep
    <3>4. CASE e = l.event
      <4>1. row'[e] = SettledRow(w, lag, delay) BY <1>1, <3>2, <3>4
      <4>2. l \in Lease /\ delay \in 1..360
        BY <2>1 DEF IInv, Shape, BackoffDelays
      <4>3. row'[e].status = "PUBLISHED" => worker[w].verdict = "ack"
        BY <4>1, <4>2, SettledStatus DEF IInv
      <4> QED BY <2>1, <3>1, <3>4, <4>3 DEF RowStep
    <3> QED BY <3>3, <3>4
  <2> QED BY <2>2, <2>3
<1>7. ASSUME NEW w \in Workers, ReleaseUnstarted(w) PROVE RowStep(e)
  <2>1. CASE row' = row BY <2>1 DEF RowStep
  <2>2. CASE row' # row
    <3>1. PICK l \in worker[w].todo : \E lag \in 0..Slack :
            /\ Fence(w, l, lag)
            /\ row' = [row EXCEPT ![l.event] = Unleased(@, "PENDING", -lag, "NONE")]
      BY <1>7, <2>2 DEF ReleaseUnstarted
    <3>2. l.event = e => row[e].status = "LEASED" /\ row'[e].status = "PENDING"
      BY <1>1, <3>1 DEF Fence, Unleased, Row
    <3>3. l.event # e => row'[e] = row[e] BY <1>1, <3>1
    <3> QED BY <3>2, <3>3 DEF RowStep, Terminal
  <2> QED BY <2>1, <2>2
<1>8. ASSUME NEW w \in Workers,
             StartLease(w) \/ Publish(w) \/ SeeStop(w) \/ RegistryUnavailable(w)
               \/ Crash(w) \/ RequestStop(w) \/ Restart(w)
      PROVE  RowStep(e)
  <2>1. UNCHANGED row
    BY <1>8 DEF StartLease, Publish, SeeStop, RegistryUnavailable, Crash,
                RequestStop, Restart
  <2> QED BY <1>2, <2>1
<1> QED BY <1>2, <1>3, <1>4, <1>5, <1>6, <1>7, <1>8 DEF Next, vars

\* No late worker, claim or sweep reopens a settled row.
THEOREM TerminalForever == Spec => TerminalStable
<1> DEFINE Stays == \A e \in Events : row[e].status \in Terminal => row'[e] = row[e]
<1>1. IInv /\ [Next]_vars => Stays
  BY EachRowStep DEF RowStep, Fence, Terminal
<1>2. IInv /\ [Next]_vars => [Stays]_vars BY <1>1
<1> QED BY <1>2, Invariance, PTL DEF Spec, TerminalStable

\* A row is called published only on its current attempt's acknowledgement.
THEOREM PublishedOnItsOwnAck == Spec => AckedThisAttempt
<1> DEFINE Acked ==
      \A e \in Events :
        (row[e].status # "PUBLISHED" /\ row'[e].status = "PUBLISHED") =>
          \E w \in Workers :
            /\ worker[w].pc = "settle"
            /\ worker[w].verdict = "ack"
            /\ worker[w].cur = [event |-> e, attempt |-> row[e].attempts]
            /\ worker[w].token = row[e].token
<1>1. ASSUME IInv, [Next]_vars PROVE Acked
  <2> SUFFICES ASSUME NEW e \in Events, row[e].status # "PUBLISHED",
                      row'[e].status = "PUBLISHED"
               PROVE  \E w \in Workers :
                        /\ worker[w].pc = "settle"
                        /\ worker[w].verdict = "ack"
                        /\ worker[w].cur = [event |-> e, attempt |-> row[e].attempts]
                        /\ worker[w].token = row[e].token
    OBVIOUS
  <2>1. RowStep(e) BY <1>1, EachRowStep
  <2>2. PICK w \in Workers :
          /\ worker[w].pc = "settle" /\ worker[w].cur.event = e
          /\ \E lag \in 0..Slack : Fence(w, worker[w].cur, lag)
          /\ row'[e].status = "PUBLISHED" => worker[w].verdict = "ack"
    BY <2>1 DEF RowStep
  <2>3. worker[w].cur \in Lease BY <1>1, <2>2 DEF IInv, Shape
  <2>4. worker[w].cur.attempt = row[e].attempts /\ worker[w].token = row[e].token
    BY <2>2 DEF Fence
  <2>5. worker[w].cur = [event |-> e, attempt |-> row[e].attempts]
    BY <2>2, <2>3, <2>4 DEF Lease
  <2> QED BY <2>2, <2>4, <2>5
<1>2. IInv /\ [Next]_vars => [Acked]_vars BY <1>1
<1> QED BY <1>2, Invariance, PTL DEF Spec, AckedThisAttempt-----------------------------------------------------------------------------
(* The refinement.                                                           *)

AbstractVars == <<AbstractState, AbstractAccepted>>

LEMMA InitRefines == Init => Abstract!Init
<1> SUFFICES ASSUME Init PROVE Abstract!Init OBVIOUS
<1>1. \A e \in Events : row[e].status = "PENDING" BY DEF Init
<1>2. AbstractState = [e \in Events |-> "queued"]
  BY <1>1 DEF AbstractState, Shown
<1>3. AbstractAccepted = {} BY DEF Init, AbstractAccepted
<1> QED BY <1>2, <1>3 DEF Abstract!Init

LEMMA SameShown ==
  ASSUME \A e \in Events : Shown(row'[e].status) = Shown(row[e].status),
         copies' = copies
  PROVE  UNCHANGED AbstractVars
BY DEF AbstractVars, AbstractState, AbstractAccepted

LEMMA GiveUpRefines ==
  ASSUME NEW S \in SUBSET Events, copies' = copies,
         \A e \in S : row[e].status \notin Terminal /\ row'[e].status = "DEAD",
         \A e \in Events \ S : row'[e].status = row[e].status
  PROVE  Abstract!Next
<1>1. \A e \in S : AbstractState[e] = "queued"
  BY DEF AbstractState, Shown, Terminal
<1>2. AbstractState' = [e \in Events |-> IF e \in S THEN "dead" ELSE AbstractState[e]]
  BY DEF AbstractState, Shown
<1>3. AbstractAccepted' = AbstractAccepted BY DEF AbstractAccepted
<1>4. Abstract!GiveUp(S) BY <1>1, <1>2, <1>3 DEF Abstract!GiveUp
<1> QED BY <1>4 DEF Abstract!Next

LEMMA ConfirmRefines ==
  ASSUME NEW e \in Events, copies' = copies, copies[e] > 0,
         row[e].status \notin Terminal, row'[e].status = "PUBLISHED",
         \A x \in Events \ {e} : row'[x].status = row[x].status
  PROVE  Abstract!Next
<1>1. AbstractState[e] = "queued" BY DEF AbstractState, Shown, Terminal
<1>2. e \in AbstractAccepted BY DEF AbstractAccepted
<1>3. AbstractState' = [AbstractState EXCEPT ![e] = "published"]
  BY DEF AbstractState, Shown
<1>4. AbstractAccepted' = AbstractAccepted BY DEF AbstractAccepted
<1>5. Abstract!Confirm(e) BY <1>1, <1>2, <1>3, <1>4 DEF Abstract!Confirm
<1> QED BY <1>5 DEF Abstract!Next

LEMMA SettleRefines ==
  ASSUME IInv, NEW w \in Workers, Settle(w)
  PROVE  Abstract!Next \/ UNCHANGED AbstractVars
<1> DEFINE l == worker[w].cur
<1>1. /\ row \in [Events -> Row] /\ worker[w].pc = "settle" /\ copies' = copies
      /\ Shape(worker[w], copies)
  BY DEF IInv, TypeOK, Settle
<1>2. l.event \in Events BY <1>1 DEF Shape, Lease
<1>3. CASE row' = row BY <1>1, <1>3, SameShown
<1>4. CASE row' # row
  <2>1. PICK lag \in 0..Slack : \E delay \in BackoffDelays(l.attempt) :
          /\ Fence(w, l, lag)
          /\ row' = [row EXCEPT ![l.event] = SettledRow(w, lag, delay)]
    BY <1>4 DEF Settle
  <2>2. PICK delay \in BackoffDelays(l.attempt) :
          row' = [row EXCEPT ![l.event] = SettledRow(w, lag, delay)]
    BY <2>1
  <2>3. row[l.event].status = "LEASED" BY <2>1 DEF Fence
  <2>4. \A x \in Events \ {l.event} : row'[x].status = row[x].status
    BY <1>1, <2>2
  <2>5. row'[l.event] = SettledRow(w, lag, delay) BY <1>1, <1>2, <2>2
  <2>6. l \in Lease /\ delay \in 1..360 BY <1>1 DEF Shape, BackoffDelays
  <2>7. \/ row'[l.event].status = "PUBLISHED" /\ worker[w].verdict = "ack"
        \/ row'[l.event].status \in {"DEAD", "PENDING"}
    BY <2>5, <2>6, SettledStatus DEF IInv
  <2> HIDE DEF l
  <2>8. CASE row'[l.event].status = "PUBLISHED"
    <3>1. copies[l.event] > 0 BY <1>1, <2>7, <2>8 DEF Shape, l
    <3> QED BY <1>1, <1>2, <2>3, <2>4, <2>8, <3>1, ConfirmRefines DEF Terminal
  <2>9. CASE row'[l.event].status = "DEAD"
    <3>1. {l.event} \in SUBSET Events BY <1>2
    <3> QED BY <1>1, <2>3, <2>4, <2>9, <3>1, GiveUpRefines DEF Terminal
  <2>10. CASE row'[l.event].status = "PENDING"
    <3>1. \A x \in Events : Shown(row'[x].status) = Shown(row[x].status)
      BY <2>3, <2>4, <2>10 DEF Shown
    <3> QED BY <1>1, <3>1, SameShown
  <2> QED BY <2>7, <2>8, <2>9, <2>10
<1> QED BY <1>3, <1>4

LEMMA PublishRefines ==
  ASSUME IInv, NEW w \in Workers, Publish(w)
  PROVE  Abstract!Next \/ UNCHANGED AbstractVars
<1> DEFINE e == worker[w].cur.event
<1>1. /\ row' = row /\ copies \in [Events -> Nat] /\ e \in Events
      /\ copies' \in {copies, [copies EXCEPT ![e] = @ + 1]}
  BY DEF IInv, TypeOK, Publish, Shape, Lease
<1>2. CASE copies' = copies BY <1>1, <1>2, SameShown
<1>3. CASE copies' = [copies EXCEPT ![e] = @ + 1]
  <2>1. copies[e] \in Nat BY <1>1
  <2>2. copies'[e] > 0 /\ \A x \in Events \ {e} : copies'[x] = copies[x]
    BY <1>1, <1>3, <2>1
  <2>3. AbstractAccepted' = AbstractAccepted \cup {e}
    BY <1>1, <2>2 DEF AbstractAccepted
  <2>4. AbstractState' = AbstractState BY <1>1 DEF AbstractState
  <2>5. Abstract!Accept(e) BY <2>3, <2>4 DEF Abstract!Accept
  <2> QED BY <1>1, <2>5 DEF Abstract!Next
<1> QED BY <1>1, <1>2, <1>3
LEMMA StepRefines ==
  ASSUME IInv, [Next]_vars PROVE Abstract!Next \/ UNCHANGED AbstractVars
<1>1. row \in [Events -> Row] BY DEF IInv, TypeOK
<1>2. CASE UNCHANGED vars
  BY <1>2 DEF vars, AbstractVars, AbstractState, AbstractAccepted
<1>3. CASE Tick
  <2>1. \A e \in Events : row'[e].status = row[e].status
    BY <1>1, <1>3 DEF Tick, Row
  <2> QED BY <1>3, <2>1, SameShown DEF Tick
<1>4. ASSUME NEW w \in Workers, SweepExhausted(w) PROVE Abstract!Next
  <2>1. PICK lag \in 0..Slack :
          \E dead \in SUBSET {x \in Events : MaySweep(x, lag)} :
            row' = [x \in Events |->
                      IF x \in dead THEN Unleased(row[x], "DEAD", 0, "EXHAUSTED")
                      ELSE row[x]]
    BY <1>4 DEF SweepExhausted
  <2>2. PICK dead \in SUBSET {x \in Events : MaySweep(x, lag)} :
            row' = [x \in Events |->
                      IF x \in dead THEN Unleased(row[x], "DEAD", 0, "EXHAUSTED")
                      ELSE row[x]]
    BY <2>1
  <2>3. \A x \in dead : row[x].status \notin Terminal
    BY DEF MaySweep, Eligible, Terminal
  <2>4. \A x \in dead : row'[x].status = "DEAD" BY <1>1, <2>2 DEF Unleased, Row
  <2>5. \A x \in Events \ dead : row'[x].status = row[x].status BY <2>2
  <2>6. copies' = copies /\ dead \in SUBSET Events BY <1>4 DEF SweepExhausted
  <2> QED BY <2>3, <2>4, <2>5, <2>6, GiveUpRefines
<1>5. ASSUME NEW w \in Workers, ClaimBatch(w) PROVE UNCHANGED AbstractVars
  <2>1. PICK lag \in 0..Slack :
          \E S \in SUBSET {x \in Events : MayClaim(x, lag)} :
            row' = [x \in Events |->
                      IF x \in S
                      THEN Leased(row[x], w, claims + 1, LeaseDuration - lag)
                      ELSE row[x]]
    BY <1>5 DEF ClaimBatch
  <2>2. ASSUME NEW x \in Events PROVE Shown(row'[x].status) = Shown(row[x].status)
    <3>1. \/ row'[x] = row[x]
          \/ /\ MayClaim(x, lag)
             /\ row'[x] = Leased(row[x], w, claims + 1, LeaseDuration - lag)
      BY <2>1
    <3>2. row[x] \in Row BY <1>1
    <3>3. Leased(row[x], w, claims + 1, LeaseDuration - lag).status = "LEASED"
      BY <3>2 DEF Leased, Row
    <3> QED BY <3>1, <3>3 DEF MayClaim, Eligible, Shown
  <2> QED BY <1>5, <2>2, SameShown DEF ClaimBatch
<1>6. ASSUME NEW w \in Workers, ReleaseUnstarted(w) PROVE UNCHANGED AbstractVars
  <2>1. CASE row' = row
    BY <1>6, <2>1, SameShown DEF ReleaseUnstarted
  <2>2. CASE row' # row
    <3>1. PICK l \in worker[w].todo : \E lag \in 0..Slack :
            /\ Fence(w, l, lag)
            /\ row' = [row EXCEPT ![l.event] = Unleased(@, "PENDING", -lag, "NONE")]
      BY <1>6, <2>2 DEF ReleaseUnstarted
    <3>2. ASSUME NEW x \in Events PROVE Shown(row'[x].status) = Shown(row[x].status)
      <4>1. x = l.event => row[x].status = "LEASED" /\ row'[x].status = "PENDING"
        BY <1>1, <3>1 DEF Fence, Unleased, Row
      <4>2. x # l.event => row'[x] = row[x] BY <1>1, <3>1
      <4> QED BY <4>1, <4>2 DEF Shown
    <3> QED BY <1>6, <3>2, SameShown DEF ReleaseUnstarted
  <2> QED BY <2>1, <2>2
<1>7. ASSUME NEW w \in Workers,
             StartLease(w) \/ SeeStop(w) \/ RegistryUnavailable(w)
               \/ Crash(w) \/ RequestStop(w) \/ Restart(w)
      PROVE  UNCHANGED AbstractVars
  BY <1>7, SameShown
  DEF StartLease, SeeStop, RegistryUnavailable, Crash, RequestStop, Restart
<1> QED
  BY <1>2, <1>3, <1>4, <1>5, <1>6, <1>7, SettleRefines, PublishRefines DEF Next

\* The delivery workers implement the abstract outbox: whatever is claimed twice,
\* lost or late, an event is settled once and never called published unsent.
THEOREM Refinement == Spec => ImplementsAtLeastOnce
<1>1. Init => Abstract!Init BY InitRefines
<1>2. IInv /\ [Next]_vars => [Abstract!Next]_AbstractVars BY StepRefines
<1> QED
  BY <1>1, <1>2, Invariance, PTL
  DEF Spec, ImplementsAtLeastOnce, Abstract!Spec, AbstractVars
=============================================================================
