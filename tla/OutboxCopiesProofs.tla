--------------------------- MODULE OutboxCopiesProofs ---------------------------
(***************************************************************************)
(* The bound on duplicates, which needs an invariant that counts: every    *)
(* attempt of a row is spent on a copy, still in the hands of one worker   *)
(* that has yet to offer it, or lost.                                      *)
(***************************************************************************)
EXTENDS OutboxDeliveryProofs, FiniteSetTheorems

\* a worker with memory r is yet to offer event e to the broker
ToOffer(e, r) ==
  \/ \E l \in r.todo : l.event = e
  \/ r.pc = "publish" /\ r.cur.event = e

\* and it will do so once only
Single(r) ==
  /\ \A k, l \in r.todo : k.event = l.event => k = l
  /\ r.pc = "publish" => \A l \in r.todo : l.event # r.cur.event

Offering(e) == {w \in Workers : ToOffer(e, worker[w])}

Budget(e) ==
  /\ IsFiniteSet(Offering(e))
  /\ copies[e] + Cardinality(Offering(e)) <= row[e].attempts

Spending ==
  /\ \A w \in Workers : Single(worker[w])
  /\ \A e \in Events : Budget(e)

LEMMA InitSpending == Init => Spending
<1> SUFFICES ASSUME Init PROVE Spending OBVIOUS
<1>1. \A w \in Workers : worker[w].todo = {} /\ worker[w].pc = "idle"
  BY DEF Init, Idle
<1>2. \A e \in Events : Offering(e) = {} BY <1>1 DEF Offering, ToOffer
<1>3. \A e \in Events : copies[e] = 0 /\ row[e].attempts = 0 BY DEF Init
<1>4. \A e \in Events : Budget(e) BY <1>2, <1>3, FS_EmptySet DEF Budget
<1> QED BY <1>1, <1>4 DEF Spending, Single

(* A step that claims and offers nothing at most drops leases.               *)
LEMMA DropStep ==
  ASSUME IInv, Spending, NEW w \in Workers, NEW r,
         worker' = [worker EXCEPT ![w] = r],
         copies' = copies, \A e \in Events : row'[e].attempts = row[e].attempts,
         Single(r), \A e \in Events : ToOffer(e, r) => ToOffer(e, worker[w])
  PROVE  Spending'
<1>1. worker \in [Workers -> Worker] BY DEF IInv, TypeOK
<1>2. \A v \in Workers : worker'[v] = IF v = w THEN r ELSE worker[v] BY <1>1
<1>3. \A v \in Workers : Single(worker'[v]) BY <1>2 DEF Spending
<1>4. ASSUME NEW e \in Events PROVE Budget(e)'
  <2>1. Offering(e)' \in SUBSET Offering(e) BY <1>2 DEF Offering
  <2>2. Budget(e) BY DEF Spending
  <2>3. /\ IsFiniteSet(Offering(e)')
        /\ Cardinality(Offering(e)') <= Cardinality(Offering(e))
    BY <2>1, <2>2, FS_Subset DEF Budget
  <2>4. Cardinality(Offering(e)) \in Nat /\ Cardinality(Offering(e)') \in Nat
    BY <2>2, <2>3, FS_CardinalityType DEF Budget
  <2>5. copies[e] \in Nat /\ row[e].attempts \in Nat
    BY OutboxAssumption DEF IInv, TypeOK, Row, OutboxAssumption
  <2> QED BY <2>2, <2>3, <2>4, <2>5 DEF Budget
<1> QED BY <1>3, <1>4 DEF Spending

LEMMA IdleOffers ==
  ASSUME NEW s PROVE Single(Idle(s)) /\ \A e \in Events : ~ToOffer(e, Idle(s))
BY DEF Single, ToOffer, Idle

LEMMA ContinueOffers ==
  ASSUME IInv, Spending, NEW w \in Workers, NEW todo \in SUBSET worker[w].todo
  PROVE  /\ Single(Continue(w, todo))
         /\ \A e \in Events : ToOffer(e, Continue(w, todo)) => ToOffer(e, worker[w])
<1>1. CASE todo = {} BY <1>1, IdleOffers DEF Continue
<1>2. CASE todo # {}
  <2>1. worker[w] \in Worker /\ Single(worker[w]) BY DEF IInv, TypeOK, Spending
  <2>2. Continue(w, todo).todo = todo /\ Continue(w, todo).pc = "loop"
    BY <1>2, <2>1 DEF Continue, Worker
  <2> QED BY <2>1, <2>2 DEF Single, ToOffer
<1> QED BY <1>1, <1>2

\* the worker's memory is what it was, but for fields the count does not read
LEMMA SameOffers ==
  ASSUME NEW r, NEW s, s.todo \subseteq r.todo, Single(r),
         s.pc = "publish" => r.pc = "publish" /\ s.cur = r.cur
  PROVE  Single(s) /\ \A e \in Events : ToOffer(e, s) => ToOffer(e, r)
BY DEF Single, ToOffer

LEMMA UnleasedAttempts ==
  ASSUME NEW r \in Row, NEW s, NEW d, NEW c
  PROVE  Unleased(r, s, d, c).attempts = r.attempts
BY DEF Unleased, Row

LEMMA SweepExhaustedSpends ==
  ASSUME IInv, Spending, NEW w \in Workers, SweepExhausted(w) PROVE Spending'
<1>1. \A e \in Events : row[e] \in Row BY DEF IInv, TypeOK
<1>2. \A e \in Events : row'[e].attempts = row[e].attempts
  BY <1>1, UnleasedAttempts DEF SweepExhausted
<1> DEFINE r == [worker[w] EXCEPT !.pc = "claim"]
<1>3. worker[w] \in Worker /\ Single(worker[w]) /\ copies' = copies
  BY DEF IInv, TypeOK, Spending, SweepExhausted
<1>4. r.todo = worker[w].todo /\ r.pc = "claim" BY <1>3 DEF Worker
<1>5. CASE worker' = [worker EXCEPT ![w] = r]
  <2> HIDE DEF r
  <2>1. Single(r) /\ \A e \in Events : ToOffer(e, r) => ToOffer(e, worker[w])
    BY <1>3, <1>4, SameOffers
  <2> QED BY <1>2, <1>3, <1>5, <2>1, DropStep
<1>6. CASE UNCHANGED worker
  <2>1. worker' = [worker EXCEPT ![w] = worker[w]]
    BY <1>6 DEF IInv, TypeOK
  <2> QED BY <1>2, <1>3, <2>1, DropStep
<1> QED BY <1>5, <1>6 DEF SweepExhausted

(* The claim counts an attempt of each row it leases, and its worker, which  *)
(* held nothing, is the only one to be added to those that may offer it.     *)
LEMMA ClaimBatchSpends ==
  ASSUME IInv, Spending, NEW w \in Workers, ClaimBatch(w) PROVE Spending'
<1> DEFINE New(S, lag) ==
      [e \in Events |-> IF e \in S
                        THEN Leased(row[e], w, claims + 1, LeaseDuration - lag)
                        ELSE row[e]]
    Got(S, lag) ==
      [worker[w] EXCEPT !.pc = "loop", !.token = claims + 1,
         !.left = LeaseDuration - lag,
         !.todo = {[event |-> e, attempt |-> row[e].attempts + 1] : e \in S}]
<1>1. PICK lag \in 0..Slack, S \in SUBSET Events :
        /\ row' = New(S, lag)
        /\ \E r \in {Got(S, lag), Idle(worker[w].stopping)} :
             worker' = [worker EXCEPT ![w] = r]
  BY DEF ClaimBatch
<1>2. PICK r \in {Got(S, lag), Idle(worker[w].stopping)} :
        worker' = [worker EXCEPT ![w] = r]
  BY <1>1
<1>3. /\ worker \in [Workers -> Worker] /\ worker[w] \in Worker
      /\ worker[w].pc = "claim" /\ Shape(worker[w], copies)
      /\ row \in [Events -> Row] /\ copies' = copies
      /\ \A e \in Events : copies[e] \in Nat /\ row[e].attempts \in Nat
  BY OutboxAssumption DEF IInv, TypeOK, ClaimBatch, Row, OutboxAssumption
<1>4. \A e \in Events :
        row'[e].attempts = IF e \in S THEN row[e].attempts + 1
                                      ELSE row[e].attempts
  BY <1>1, <1>3 DEF Leased, Row
<1>5. \A v \in Workers : worker'[v] = IF v = w THEN r ELSE worker[v]
  BY <1>2, <1>3
<1>6. \A e \in Events : ~ToOffer(e, worker[w]) BY <1>3 DEF Shape, ToOffer
<1>7. /\ Single(r)
      /\ \A e \in Events : ToOffer(e, r) => e \in S
  <2>1. CASE r = Idle(worker[w].stopping) BY <2>1, IdleOffers
  <2>2. CASE r = Got(S, lag)
    <3>1. /\ r.pc = "loop"
          /\ r.todo = {[event |-> e, attempt |-> row[e].attempts + 1] : e \in S}
      BY <1>3, <2>2 DEF Worker
    <3> QED BY <3>1 DEF Single, ToOffer
  <2> QED BY <2>1, <2>2
<1>8. \A v \in Workers : Single(worker'[v]) BY <1>5, <1>7 DEF Spending
<1>9. ASSUME NEW e \in Events PROVE Budget(e)'
  <2>1. Budget(e) /\ Cardinality(Offering(e)) \in Nat
    BY FS_CardinalityType DEF Spending, Budget
  <2>2. CASE e \in S
    <3>1. w \notin Offering(e) BY <1>6 DEF Offering
    <3>2. Offering(e)' \in SUBSET (Offering(e) \cup {w})
      BY <1>5 DEF Offering
    <3>3. /\ IsFiniteSet(Offering(e) \cup {w})
          /\ Cardinality(Offering(e) \cup {w}) = Cardinality(Offering(e)) + 1
      BY <2>1, <3>1, FS_AddElement DEF Budget
    <3>4. /\ IsFiniteSet(Offering(e)')
          /\ Cardinality(Offering(e)') <= Cardinality(Offering(e)) + 1
      BY <3>2, <3>3, FS_Subset
    <3>5. Cardinality(Offering(e)') \in Nat BY <3>4, FS_CardinalityType
    <3> QED BY <1>3, <1>4, <2>1, <2>2, <3>4, <3>5 DEF Budget
  <2>3. CASE e \notin S
    <3>1. Offering(e)' \in SUBSET Offering(e)
      BY <1>5, <1>7, <2>3 DEF Offering
    <3>2. /\ IsFiniteSet(Offering(e)')
          /\ Cardinality(Offering(e)') <= Cardinality(Offering(e))
      BY <2>1, <3>1, FS_Subset DEF Budget
    <3>3. Cardinality(Offering(e)') \in Nat BY <3>2, FS_CardinalityType
    <3> QED BY <1>3, <1>4, <2>1, <2>3, <3>2, <3>3 DEF Budget
  <2> QED BY <2>2, <2>3
<1> QED BY <1>8, <1>9 DEF Spending

LEMMA StartLeaseSpends ==
  ASSUME IInv, Spending, NEW w \in Workers, StartLease(w) PROVE Spending'
<1> DEFINE Drop(l) == Continue(w, worker[w].todo \ {l})
           Take(l) == [worker[w] EXCEPT
                         !.pc = IF l.event \in Rejected THEN "settle"
                                ELSE "publish",
                         !.verdict = IF l.event \in Rejected THEN "reject"
                                     ELSE "none",
                         !.cur = l, !.todo = worker[w].todo \ {l}]
<1>1. PICK l \in worker[w].todo :
        \E r \in {Drop(l), Take(l)} : worker' = [worker EXCEPT ![w] = r]
  BY DEF StartLease
<1>2. PICK r \in {Drop(l), Take(l)} : worker' = [worker EXCEPT ![w] = r]
  BY <1>1
<1>3. /\ worker[w] \in Worker /\ Single(worker[w]) /\ copies' = copies
      /\ \A e \in Events : row'[e].attempts = row[e].attempts
  BY DEF IInv, TypeOK, Spending, StartLease
<1>4. Single(r) /\ \A e \in Events : ToOffer(e, r) => ToOffer(e, worker[w])
  <2>1. CASE r = Drop(l) BY <2>1, ContinueOffers
  <2>2. CASE r = Take(l)
    <3>1. /\ r.todo = worker[w].todo \ {l} /\ r.cur = l
      BY <1>3, <2>2 DEF Worker
    <3> QED BY <1>3, <3>1 DEF Single, ToOffer
  <2> QED BY <2>1, <2>2
<1> QED BY <1>2, <1>3, <1>4, DropStep

(* The broker call turns a worker that is yet to offer the event into at     *)
(* most one copy of it.                                                      *)
LEMMA PublishSpends ==
  ASSUME IInv, Spending, NEW w \in Workers, Publish(w) PROVE Spending'
<1> DEFINE f == worker[w].cur.event
<1>1. PICK verdict \in {"ack", "fail"} :
        worker' = [worker EXCEPT ![w] =
                     [@ EXCEPT !.pc = "settle", !.verdict = verdict]]
  BY DEF Publish, IInv, TypeOK
<1> DEFINE r == [worker[w] EXCEPT !.pc = "settle", !.verdict = verdict]
<1>2. /\ worker \in [Workers -> Worker] /\ worker[w] \in Worker
      /\ Single(worker[w]) /\ worker[w].pc = "publish" /\ row' = row
      /\ worker[w].cur \in Lease
  BY DEF IInv, TypeOK, Spending, Shape, Publish
<1>3. /\ worker' = [worker EXCEPT ![w] = r]
      /\ r.todo = worker[w].todo /\ r.pc = "settle"
  BY <1>1, <1>2 DEF Worker
<1>4. /\ f \in Events
      /\ \A e \in Events : copies[e] \in Nat /\ row[e].attempts \in Nat
      /\ copies' \in {copies, [copies EXCEPT ![f] = @ + 1]}
  BY <1>2, OutboxAssumption
  DEF IInv, TypeOK, Lease, Publish, Row, OutboxAssumption
<1>5. \A e \in Events : copies'[e] \in Nat /\
        copies'[e] <= IF e = f THEN copies[e] + 1 ELSE copies[e]
  BY <1>4 DEF IInv, TypeOK
<1> HIDE DEF r, f
<1>6. \A v \in Workers : worker'[v] = IF v = w THEN r ELSE worker[v]
  BY <1>2, <1>3
<1>7. /\ Single(r)
      /\ \A e \in Events : ToOffer(e, r) => ToOffer(e, worker[w]) /\ e # f
  BY <1>2, <1>3 DEF Single, ToOffer, f
<1>8. \A v \in Workers : Single(worker'[v]) BY <1>6, <1>7 DEF Spending
<1>9. ASSUME NEW e \in Events PROVE Budget(e)'
  <2>1. Budget(e) /\ Cardinality(Offering(e)) \in Nat
    BY FS_CardinalityType DEF Spending, Budget
  <2>2. Offering(e)' \in SUBSET Offering(e) BY <1>6, <1>7 DEF Offering
  <2>3. /\ IsFiniteSet(Offering(e)')
        /\ Cardinality(Offering(e)') <= Cardinality(Offering(e))
    BY <2>1, <2>2, FS_Subset DEF Budget
  <2>4. Cardinality(Offering(e)') \in Nat BY <2>3, FS_CardinalityType
  <2>5. CASE e # f BY <1>2, <1>4, <1>5, <2>1, <2>3, <2>4, <2>5 DEF Budget
  <2>6. CASE e = f
    <3>1. w \in Offering(e) BY <1>2, <2>6 DEF Offering, ToOffer, f
    <3>2. Offering(e)' \in SUBSET (Offering(e) \ {w})
      BY <1>6, <1>7, <2>2, <2>6 DEF Offering
    <3>3. /\ IsFiniteSet(Offering(e) \ {w})
          /\ Cardinality(Offering(e) \ {w}) = Cardinality(Offering(e)) - 1
      BY <2>1, <3>1, FS_RemoveElement DEF Budget
    <3>4. Cardinality(Offering(e)') <= Cardinality(Offering(e)) - 1
      BY <3>2, <3>3, FS_Subset
    <3> QED BY <1>2, <1>4, <1>5, <2>1, <2>3, <2>4, <2>6, <3>4 DEF Budget
  <2> QED BY <2>5, <2>6
<1> QED BY <1>8, <1>9 DEF Spending

LEMMA SettleSpends ==
  ASSUME IInv, Spending, NEW w \in Workers, Settle(w) PROVE Spending'
<1>1. /\ worker[w] \in Worker /\ worker[w].cur \in Lease
      /\ copies' = copies /\ \A e \in Events : row[e] \in Row
      /\ row \in [Events -> Row]
  BY DEF IInv, TypeOK, Shape, Settle
<1> DEFINE f == worker[w].cur.event
<1>2. f \in Events BY <1>1 DEF Lease
<1>3. \A lag, delay : SettledRow(w, lag, delay).attempts = row[f].attempts
  BY <1>1, <1>2, UnleasedAttempts DEF SettledRow
<1>4. \/ row' = row
      \/ \E lag, delay : row' = [row EXCEPT ![f] = SettledRow(w, lag, delay)]
  BY DEF Settle
<1> HIDE DEF f
<1>5. \A e \in Events : row'[e].attempts = row[e].attempts
  BY <1>1, <1>2, <1>3, <1>4
<1>6. PICK r \in {Continue(w, worker[w].todo), Idle(worker[w].stopping)} :
        worker' = [worker EXCEPT ![w] = r]
  BY DEF Settle
<1>7. Single(r) /\ \A e \in Events : ToOffer(e, r) => ToOffer(e, worker[w])
  BY <1>6, ContinueOffers, IdleOffers
<1> QED BY <1>1, <1>5, <1>6, <1>7, DropStep

LEMMA ReleaseUnstartedSpends ==
  ASSUME IInv, Spending, NEW w \in Workers, ReleaseUnstarted(w) PROVE Spending'
<1> DEFINE Rest(l) == [worker[w] EXCEPT !.todo = @ \ {l}]
<1>1. /\ worker[w] \in Worker /\ copies' = copies /\ Single(worker[w])
      /\ row \in [Events -> Row]
  BY DEF IInv, TypeOK, Spending, ReleaseUnstarted
<1>2. PICK l \in worker[w].todo :
        /\ \/ row' = row
           \/ \E lag : row' = [row EXCEPT ![l.event] =
                                 Unleased(@, "PENDING", -lag, "NONE")]
        /\ \E r \in {Rest(l), Idle(TRUE)} : worker' = [worker EXCEPT ![w] = r]
  BY DEF ReleaseUnstarted
<1>3. PICK r \in {Rest(l), Idle(TRUE)} : worker' = [worker EXCEPT ![w] = r]
  BY <1>2
<1>4. l.event \in Events BY <1>1 DEF Worker, Lease
<1>5. \A e \in Events : row'[e].attempts = row[e].attempts
  BY <1>1, <1>2, <1>4, UnleasedAttempts
<1>6. Single(r) /\ \A e \in Events : ToOffer(e, r) => ToOffer(e, worker[w])
  <2>1. CASE r = Idle(TRUE) BY <2>1, IdleOffers
  <2>2. CASE r = Rest(l)
    <3>1. /\ r.todo \subseteq worker[w].todo
          /\ r.pc = worker[w].pc /\ r.cur = worker[w].cur
      BY <1>1, <2>2 DEF Worker
    <3> QED BY <1>1, <3>1, SameOffers
  <2> QED BY <2>1, <2>2
<1> QED BY <1>1, <1>3, <1>5, <1>6, DropStep

\* the stop signal, its sight and every way a worker loses its memory
LEMMA OtherSpends ==
  ASSUME IInv, Spending, NEW w \in Workers,
         \/ SeeStop(w) \/ RequestStop(w)
         \/ RegistryUnavailable(w) \/ Crash(w) \/ Restart(w)
  PROVE  Spending'
<1> DEFINE New == {[worker[w] EXCEPT !.pc = "release"],
                   [worker[w] EXCEPT !.stopping = TRUE], Idle(FALSE)}
<1>1. PICK r \in New : worker' = [worker EXCEPT ![w] = r]
  BY DEF SeeStop, RequestStop, RegistryUnavailable, Crash, Restart
<1>2. /\ worker[w] \in Worker /\ Single(worker[w])
      /\ copies' = copies
      /\ \A e \in Events : row'[e].attempts = row[e].attempts
  BY DEF IInv, TypeOK, Spending,
         SeeStop, RequestStop, RegistryUnavailable, Crash, Restart
<1>3. Single(r) /\ \A e \in Events : ToOffer(e, r) => ToOffer(e, worker[w])
  <2>1. CASE r = Idle(FALSE) BY <2>1, IdleOffers
  <2>2. CASE r # Idle(FALSE)
    <3>1. /\ r.todo = worker[w].todo /\ r.cur = worker[w].cur
          /\ r.pc \in {"release", worker[w].pc}
      BY <1>1, <1>2, <2>2 DEF Worker
    <3> QED BY <1>2, <3>1, SameOffers
  <2> QED BY <2>1, <2>2
<1> QED BY <1>1, <1>2, <1>3, DropStep

LEMMA SameSpending ==
  ASSUME IInv, Spending, copies' = copies,
         \A e \in Events : row'[e].attempts = row[e].attempts,
         \A w \in Workers : /\ worker'[w].pc = worker[w].pc
                            /\ worker'[w].todo = worker[w].todo
                            /\ worker'[w].cur = worker[w].cur
  PROVE  Spending'
<1>1. \A w \in Workers : Single(worker'[w]) BY DEF Spending, Single
<1>2. \A e \in Events : Offering(e)' = Offering(e) BY DEF Offering, ToOffer
<1>3. \A e \in Events : Budget(e)' BY <1>2 DEF Spending, Budget
<1> QED BY <1>1, <1>3 DEF Spending

LEMMA TickSpends == ASSUME IInv, Spending, Tick PROVE Spending'
<1>1. /\ copies' = copies
      /\ \A e \in Events : row[e] \in Row
      /\ \A w \in Workers : worker[w] \in Worker
  BY DEF IInv, TypeOK, Tick
<1>2. \A e \in Events : row'[e].attempts = row[e].attempts
  BY <1>1 DEF Tick, Row
<1>3. \A w \in Workers : /\ worker'[w].pc = worker[w].pc
                         /\ worker'[w].todo = worker[w].todo
                         /\ worker'[w].cur = worker[w].cur
  BY <1>1 DEF Tick, Worker
<1> QED BY <1>1, <1>2, <1>3, SameSpending

LEMMA SpendingInductive == IInv /\ Spending /\ [Next]_vars => Spending'
<1> SUFFICES ASSUME IInv, Spending, [Next]_vars PROVE Spending' OBVIOUS
<1>1. CASE UNCHANGED vars BY <1>1, SameSpending DEF vars
<1>2. CASE Tick BY <1>2, TickSpends
<1>3. ASSUME NEW w \in Workers, SweepExhausted(w) PROVE Spending'
  BY <1>3, SweepExhaustedSpends
<1>4. ASSUME NEW w \in Workers, ClaimBatch(w) PROVE Spending'
  BY <1>4, ClaimBatchSpends
<1>5. ASSUME NEW w \in Workers, StartLease(w) PROVE Spending'
  BY <1>5, StartLeaseSpends
<1>6. ASSUME NEW w \in Workers, Publish(w) PROVE Spending'
  BY <1>6, PublishSpends
<1>7. ASSUME NEW w \in Workers, Settle(w) PROVE Spending'
  BY <1>7, SettleSpends
<1>8. ASSUME NEW w \in Workers, ReleaseUnstarted(w) PROVE Spending'
  BY <1>8, ReleaseUnstartedSpends
<1>9. ASSUME NEW w \in Workers,
             \/ SeeStop(w) \/ RequestStop(w)
             \/ RegistryUnavailable(w) \/ Crash(w) \/ Restart(w)
      PROVE  Spending'
  BY <1>9, OtherSpends
<1> QED BY <1>1, <1>2, <1>3, <1>4, <1>5, <1>6, <1>7, <1>8, <1>9 DEF Next

LEMMA SpendingInvariance == Spec => []Spending
<1>1. Spec => []IInv BY Invariance
<1> QED BY <1>1, InitSpending, SpendingInductive, PTL DEF Spec

\* An event has at most as many copies at the broker as attempts were counted
\* by claims, and so at most max_attempts, however many workers take it over,
\* crash, or lose answers (deliver_once in outbox/delivery.py).
THEOREM DuplicatesBounded == Spec => []CopiesWithinAttempts
<1>1. ASSUME IInv, Spending PROVE CopiesWithinAttempts
  <2> SUFFICES ASSUME NEW e \in Events PROVE copies[e] <= row[e].attempts
    BY DEF CopiesWithinAttempts
  <2>1. Budget(e) BY <1>1 DEF Spending
  <2>2. Cardinality(Offering(e)) \in Nat BY <2>1, FS_CardinalityType DEF Budget
  <2>3. copies[e] \in Nat /\ row[e].attempts \in Nat
    BY <1>1, OutboxAssumption DEF IInv, TypeOK, Row, OutboxAssumption
  <2> QED BY <2>1, <2>2, <2>3 DEF Budget
<1> QED BY <1>1, Invariance, SpendingInvariance, PTL
=================================================================================
