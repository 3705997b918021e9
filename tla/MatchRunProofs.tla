---------------------------- MODULE MatchRunProofs -----------------------------
(***************************************************************************)
(* Proofs of the safety properties of MatchRun and of its refinement, for  *)
(* any set of workers and any bounds.                                      *)
(***************************************************************************)
EXTENDS MatchRunRefinement, TLAPS

PCs == {"idle", "claimed", "started", "down"}

\* A run, its job and its START receipt, seen together.
RowFits(r) ==
    /\ run[r].status = "NONE" => job[r] = NoJob
    /\ run[r].status = "QUEUED" =>
          /\ job[r].status \in {"AVAILABLE", "LEASED"}
          /\ run[r].fence = 0
          /\ r \notin startReceipt
    /\ run[r].status = "RUNNING" =>
          job[r].status = "LEASED" /\ run[r].fence = job[r].fence
    /\ run[r].status \in {"COMPLETED", "FAILED"} => job[r].status = run[r].status
    /\ job[r].status = "AVAILABLE" => job[r].claims = 0
    /\ r \in startReceipt => run[r].status # "NONE"

InChain(r) ==
    /\ r < currentRun => run[r].status = "FAILED" /\ run[r].next = r + 1
    /\ r > currentRun => run[r] = NoRun
    /\ r = currentRun => run[r].status # "NONE" /\ run[r].next = 0

Rows ==
    /\ attempt \in {"OPEN", "CLOSED"}
    /\ currentRun \in Runs
    /\ run \in [Runs -> RunRecord]
    /\ job \in [Runs -> JobRecord]
    /\ closeIntent \in 0 .. MaxRuns
    /\ startReceipt \subseteq Runs
    /\ \A r \in Runs : RowFits(r) /\ InChain(r)
    /\ ReviewOnlyWhenSpent

\* The lease of a frozen claim was given out by the job: its fence is not above
\* the job's.
Issued(c) ==
    c.status = "LEASED" =>
        /\ c.run \in Runs
        /\ job[c.run].status # "NONE"
        /\ c.fence <= job[c.run].fence

SlotFits(w) ==
    /\ Issued(frozen[w])
    /\ pc[w] \in {"claimed", "started"} => frozen[w].status = "LEASED"
    /\ pc[w] # "down" => failures[w] < MaxFailures

SameLease(c, d) ==
    /\ c.status = "LEASED" /\ d.status = "LEASED"
    /\ c.run = d.run /\ c.fence = d.fence

Slots ==
    /\ frozen \in [Workers -> ClaimRecord]
    /\ pc \in [Workers -> PCs]
    /\ failures \in [Workers -> 0 .. MaxFailures]
    /\ \A w \in Workers : SlotFits(w)
    /\ \A v, w \in Workers : SameLease(frozen[v], frozen[w]) => v = w

IInv == Rows /\ Slots
-----------------------------------------------------------------------------
(* What the invariant says.                                                  *)

LEMMA InvProperties ==
  ASSUME IInv
  PROVE  TypeOK /\ OneLiveRun /\ JobMirrorsRun /\ OneHolder /\ ReviewOnlyWhenSpent
<1>1. TypeOK BY DEF IInv, Rows, Slots, TypeOK, PCs
<1>2. OneLiveRun BY DEF IInv, Rows, InChain, OneLiveRun
<1>3. JobMirrorsRun BY DEF IInv, Rows, RowFits, JobMirrorsRun
<1>4. OneHolder
  <2> SUFFICES ASSUME NEW v \in Workers, NEW w \in Workers,
                      HoldsLease(v), HoldsLease(w)
               PROVE  v = w
    BY DEF OneHolder
  <2> DEFINE r == frozen[v].run
             s == frozen[w].run
  <2>1. r \in Runs /\ s \in Runs
    BY DEF IInv, Slots, SlotFits, Issued, HoldsLease
  <2>2. job[r].status = "LEASED" /\ job[s].status = "LEASED" BY DEF HoldsLease
  <2>3. run[r].status \in {"QUEUED", "RUNNING"} /\ run[s].status \in {"QUEUED", "RUNNING"}
    BY <2>1, <2>2 DEF IInv, Rows, RowFits, RunRecord, NoJob
  <2>4. r = currentRun /\ s = currentRun
    BY <2>1, <2>3 DEF IInv, Rows, InChain, NoRun, Runs
  <2>5. SameLease(frozen[v], frozen[w]) BY <2>4 DEF HoldsLease, SameLease
  <2> QED BY <2>5 DEF IInv, Slots
<1> QED BY <1>1, <1>2, <1>3, <1>4 DEF IInv, Rows

LEMMA InitInv == Init => IInv
<1> SUFFICES ASSUME Init PROVE IInv OBVIOUS
<1> USE BoundsAssumption
<1>1. Rows
  <2>1. run \in [Runs -> RunRecord] /\ job \in [Runs -> JobRecord]
    BY DEF Init, RunRecord, JobRecord, QueuedRun, NoRun, AvailableJob, NoJob
  <2>2. \A r \in Runs : RowFits(r) /\ InChain(r)
    BY DEF Init, RowFits, InChain, QueuedRun, NoRun, AvailableJob, NoJob, Runs
  <2>3. ReviewOnlyWhenSpent
    BY DEF Init, ReviewOnlyWhenSpent, QueuedRun, Runs
  <2>4. currentRun \in Runs /\ closeIntent \in 0 .. MaxRuns
    BY DEF Init, Runs
  <2>5. attempt \in {"OPEN", "CLOSED"} /\ startReceipt \subseteq Runs BY DEF Init
  <2> QED BY <2>1, <2>2, <2>3, <2>4, <2>5 DEF Rows
<1>2. Slots
  <2>1. frozen \in [Workers -> ClaimRecord] /\ pc \in [Workers -> PCs]
    BY DEF Init, NoClaim, ClaimRecord, PCs
  <2>2. failures \in [Workers -> 0 .. MaxFailures] BY DEF Init
  <2>3. \A w \in Workers : SlotFits(w)
    <3>1. 0 < MaxFailures BY BoundsAssumption
    <3>2. \A w \in Workers : frozen[w] = NoClaim /\ pc[w] = "idle" /\ failures[w] = 0
      BY DEF Init
    <3>3. \A w \in Workers : Issued(frozen[w]) BY <3>2 DEF Issued, NoClaim
    <3> QED BY <3>1, <3>2, <3>3 DEF SlotFits
  <2>4. \A v, w \in Workers : ~SameLease(frozen[v], frozen[w])
    BY DEF Init, SameLease, NoClaim
  <2> QED BY <2>1, <2>2, <2>3, <2>4 DEF Slots
<1> QED BY <1>1, <1>2 DEF IInv
-----------------------------------------------------------------------------
(* The workers' slots.  A step concerns one worker; the jobs' fences grow.   *)

JobsGrow ==
    \A r \in Runs :
        /\ job[r].fence \in Nat /\ job'[r].fence \in Nat
        /\ job'[r].fence >= job[r].fence
        /\ job[r].status # "NONE" => job'[r].status # "NONE"

\* The loop of worker w, and of nobody else, has moved.
LoopMoves(w) ==
    /\ pc' \in [Workers -> PCs]
    /\ failures' \in [Workers -> 0 .. MaxFailures]
    /\ \A v \in Workers \ {w} : pc'[v] = pc[v] /\ failures'[v] = failures[v]
    /\ pc'[w] # "down" => failures'[w] < MaxFailures

LEMMA RaisesMoves ==
  ASSUME Slots, NEW w \in Workers, pc[w] # "down", CycleRaises(w)
  PROVE  LoopMoves(w) /\ pc'[w] \in {"idle", "down"}
<1>1. failures[w] \in 0 .. MaxFailures /\ failures[w] < MaxFailures
  BY DEF Slots, SlotFits
<1>2. failures[w] + 1 \in 0 .. MaxFailures BY <1>1, BoundsAssumption
<1>3. failures' \in [Workers -> 0 .. MaxFailures] /\ failures'[w] = failures[w] + 1
  BY <1>2 DEF CycleRaises, Slots
<1>4. pc' \in [Workers -> PCs] BY DEF CycleRaises, Slots, PCs
<1>5. \A v \in Workers \ {w} : pc'[v] = pc[v] /\ failures'[v] = failures[v]
  BY DEF CycleRaises, Slots
<1>6. pc'[w] = IF failures[w] + 1 >= MaxFailures THEN "down" ELSE "idle"
  BY DEF CycleRaises, Slots
<1> QED BY <1>1, <1>3, <1>4, <1>5, <1>6, BoundsAssumption DEF LoopMoves

LEMMA ReturnsMoves ==
  ASSUME Slots, NEW w \in Workers, pc[w] # "down", TickReturns(w)
  PROVE  LoopMoves(w) /\ pc'[w] \in {"idle", "down"}
         /\ frozen' = [frozen EXCEPT ![w] = NoClaim]
<1>1. CASE pc' = [pc EXCEPT ![w] = "idle"] /\ failures' = [failures EXCEPT ![w] = 0]
  BY <1>1, BoundsAssumption DEF LoopMoves, Slots, PCs, TickReturns
<1>2. CASE CycleRaises(w) BY <1>2, RaisesMoves DEF TickReturns
<1> QED BY <1>1, <1>2 DEF TickReturns

LEMMA ProceedsMoves ==
  ASSUME Slots, NEW w \in Workers, pc[w] # "down", NEW acked \in BOOLEAN,
         NEW next \in {"claimed", "started"}, Proceeds(w, acked, next)
  PROVE  LoopMoves(w)
<1>1. CASE acked
  BY <1>1, BoundsAssumption DEF Proceeds, LoopMoves, Slots, SlotFits, PCs
<1>2. CASE ~acked BY <1>2, RaisesMoves DEF Proceeds
<1> QED BY <1>1, <1>2

\* The slot is kept.
LEMMA SlotKept ==
  ASSUME Slots, NEW w \in Workers, JobsGrow, LoopMoves(w), UNCHANGED frozen,
         pc'[w] \in {"claimed", "started"} => frozen[w].status = "LEASED"
  PROVE  Slots'
<1>1. \A v \in Workers : SlotFits(v)'
  <2> SUFFICES ASSUME NEW v \in Workers PROVE SlotFits(v)' OBVIOUS
  <2>1. Issued(frozen[v]) BY DEF Slots, SlotFits
  <2>2. Issued(frozen[v])'
    BY <2>1 DEF Issued, JobsGrow, Slots, ClaimRecord
  <2> QED BY <2>2 DEF Slots, SlotFits, LoopMoves
<1> QED BY <1>1 DEF Slots, LoopMoves, SameLease

IssuedNext(c) ==
    c.status = "LEASED" =>
        /\ c.run \in Runs
        /\ job'[c.run].status # "NONE"
        /\ c.fence <= job'[c.run].fence

\* The slot receives a claim: no lease, or one with a fence above all that the
\* job had given out.
LEMMA SlotFilled ==
  ASSUME Slots, NEW w \in Workers, JobsGrow, LoopMoves(w),
         NEW c \in ClaimRecord, frozen' = [frozen EXCEPT ![w] = c],
         IssuedNext(c),
         pc'[w] \in {"claimed", "started"} => c.status = "LEASED",
         c.status = "LEASED" =>
            job[c.run].status = "NONE" \/ c.fence > job[c.run].fence
  PROVE  Slots'
<1>1. frozen' \in [Workers -> ClaimRecord] /\ frozen'[w] = c
      /\ \A v \in Workers \ {w} : frozen'[v] = frozen[v]
  BY DEF Slots
<1>2. \A v \in Workers : SlotFits(v)'
  <2> SUFFICES ASSUME NEW v \in Workers PROVE SlotFits(v)' OBVIOUS
  <2>1. CASE v = w BY <1>1, <2>1 DEF SlotFits, LoopMoves, Issued, IssuedNext
  <2>2. CASE v # w
    <3>1. Issued(frozen[v]) BY DEF Slots, SlotFits
    <3>2. frozen'[v] = frozen[v] /\ frozen[v] \in ClaimRecord
      BY <1>1, <2>2 DEF Slots
    <3>3. Issued(frozen[v])'
      BY <3>1, <3>2 DEF Issued, JobsGrow, ClaimRecord
    <3> QED BY <2>2, <3>2, <3>3 DEF Slots, SlotFits, LoopMoves
  <2> QED BY <2>1, <2>2
<1>3. \A v \in Workers \ {w} : ~SameLease(c, frozen[v])
  <2> SUFFICES ASSUME NEW v \in Workers \ {w}, SameLease(c, frozen[v])
               PROVE  FALSE
    OBVIOUS
  <2>1. Issued(frozen[v]) BY DEF Slots, SlotFits
  <2>2. frozen[v].run \in Runs /\ job[frozen[v].run].status # "NONE"
        /\ frozen[v].fence <= job[frozen[v].run].fence
    BY <2>1 DEF Issued, SameLease
  <2>3. frozen[v].fence > job[frozen[v].run].fence BY <2>2 DEF SameLease
  <2>4. c.fence \in Nat BY DEF ClaimRecord
  <2>5. frozen[v].fence \in Nat BY DEF Slots, ClaimRecord
  <2>6. job[frozen[v].run].fence \in Nat BY <2>2 DEF JobsGrow
  <2> QED BY <2>2, <2>3, <2>5, <2>6
<1>4. \A v, u \in Workers : SameLease(frozen[v], frozen[u])' => v = u
  BY <1>1, <1>3 DEF Slots, SameLease
<1> QED BY <1>1, <1>2, <1>4 DEF Slots, LoopMoves
-----------------------------------------------------------------------------
(* The rows.  A step ends the live run, replaces it by its successor, or     *)
(* changes its lease.                                                        *)

LEMMA LiveRun ==
  ASSUME Rows, NEW r \in Runs, Live(r)
  PROVE  /\ r = currentRun
         /\ run[r] \in RunRecord /\ job[r] \in JobRecord
         /\ \A q \in Runs : q < r => run[q].status = "FAILED"
         /\ \A q \in Runs : q > r => run[q] = NoRun /\ job[q] = NoJob
<1>1. r = currentRun BY DEF Rows, InChain, Live, NoRun, Runs
<1>2. \A q \in Runs : q > r => run[q] = NoRun BY <1>1 DEF Rows, InChain
<1>3. \A q \in Runs : q > r => job[q] = NoJob
  BY <1>2 DEF Rows, RowFits, NoRun
<1> QED BY <1>1, <1>2, <1>3 DEF Rows, InChain

\* The live run r is written as x and its job as y.
RowWritten(r, x, y) ==
    /\ run' = [run EXCEPT ![r] = x]
    /\ job' = [job EXCEPT ![r] = y]
    /\ UNCHANGED <<attempt, currentRun>>
    /\ closeIntent' \in 0 .. MaxRuns
    /\ startReceipt' \subseteq Runs
    /\ \A q \in Runs \ {r} : q \in startReceipt' <=> q \in startReceipt

LEMMA RowWrittenStep ==
  ASSUME Rows, NEW r \in Runs, Live(r),
         NEW x \in RunRecord, NEW y \in JobRecord, RowWritten(r, x, y),
         x.next = 0, x.status # "NONE", y.status # "NONE",
         y.fence >= job[r].fence,
         x.status = "QUEUED" => /\ y.status \in {"AVAILABLE", "LEASED"}
                                /\ x.fence = 0 /\ r \notin startReceipt',
         x.status = "RUNNING" => y.status = "LEASED" /\ x.fence = y.fence,
         x.status \in {"COMPLETED", "FAILED"} => y.status = x.status,
         y.status = "AVAILABLE" => y.claims = 0,
         x.status = "FAILED" /\ attempt = "OPEN" =>
            r = MaxRuns \/ (r \notin startReceipt' /\ y.claims = MaxClaims)
  PROVE  Rows' /\ JobsGrow
<1>1. /\ run' \in [Runs -> RunRecord] /\ job' \in [Runs -> JobRecord]
      /\ run'[r] = x /\ job'[r] = y
      /\ \A q \in Runs \ {r} : run'[q] = run[q] /\ job'[q] = job[q]
  BY DEF Rows, RowWritten
<1>2. r = currentRun BY LiveRun
<1>3. \A q \in Runs : RowFits(q)'
  <2> SUFFICES ASSUME NEW q \in Runs PROVE RowFits(q)' OBVIOUS
  <2>1. CASE q = r BY <1>1, <2>1 DEF RowFits
  <2>2. CASE q # r BY <1>1, <2>2 DEF RowFits, Rows, RowWritten
  <2> QED BY <2>1, <2>2
<1>4. \A q \in Runs : InChain(q)'
  <2> SUFFICES ASSUME NEW q \in Runs PROVE InChain(q)' OBVIOUS
  <2>1. CASE q = r BY <1>1, <1>2, <2>1 DEF InChain, RowWritten, Runs
  <2>2. CASE q # r BY <1>1, <1>2, <2>2 DEF InChain, Rows, RowWritten
  <2> QED BY <2>1, <2>2
<1>5. ReviewOnlyWhenSpent' BY <1>1, <1>2 DEF ReviewOnlyWhenSpent, RowWritten
<1>6. JobsGrow BY <1>1 DEF JobsGrow, Rows, JobRecord
<1> QED BY <1>1, <1>3, <1>4, <1>5, <1>6 DEF Rows, RowWritten

\* The live run r fails as x, its job as y, and the next run is queued with job z.
Succeeded(r, x, y, z) ==
    /\ run' = [run EXCEPT ![r] = x, ![r + 1] = QueuedRun]
    /\ job' = [job EXCEPT ![r] = y, ![r + 1] = z]
    /\ currentRun' = r + 1
    /\ UNCHANGED <<attempt, closeIntent, startReceipt>>

LEMMA SucceededStep ==
  ASSUME Rows, NEW r \in Runs, Live(r), r < MaxRuns,
         NEW x \in RunRecord, NEW y \in JobRecord, NEW z \in JobRecord,
         Succeeded(r, x, y, z),
         x.status = "FAILED", x.next = r + 1,
         y.status = "FAILED", y.fence >= job[r].fence,
         z.status \in {"AVAILABLE", "LEASED"},
         z.status = "AVAILABLE" => z.claims = 0
  PROVE  Rows' /\ JobsGrow
<1>1. r + 1 \in Runs /\ r + 1 # r BY BoundsAssumption DEF Runs
<1>2. r = currentRun /\ run[r + 1] = NoRun /\ job[r + 1] = NoJob
  BY <1>1, LiveRun DEF Runs
<1>3. QueuedRun \in RunRecord BY DEF QueuedRun, RunRecord
<1>4. /\ run' \in [Runs -> RunRecord] /\ job' \in [Runs -> JobRecord]
      /\ run'[r] = x /\ job'[r] = y /\ run'[r + 1] = QueuedRun /\ job'[r + 1] = z
      /\ \A q \in Runs \ {r, r + 1} : run'[q] = run[q] /\ job'[q] = job[q]
  BY <1>1, <1>3 DEF Rows, Succeeded
<1>5. r + 1 \notin startReceipt
  BY <1>1, <1>2 DEF Rows, RowFits, NoRun
<1>6. \A q \in Runs : RowFits(q)'
  <2> SUFFICES ASSUME NEW q \in Runs PROVE RowFits(q)' OBVIOUS
  <2>1. CASE q = r BY <1>4, <2>1 DEF RowFits
  <2>2. CASE q = r + 1 BY <1>4, <1>5, <2>2 DEF RowFits, QueuedRun, Succeeded
  <2>3. CASE q \notin {r, r + 1}
    BY <1>4, <2>3 DEF RowFits, Rows, Succeeded
  <2> QED BY <2>1, <2>2, <2>3
<1>7. \A q \in Runs : InChain(q)'
  <2> SUFFICES ASSUME NEW q \in Runs PROVE InChain(q)' OBVIOUS
  <2>1. CASE q = r BY <1>1, <1>4, <2>1 DEF InChain, Succeeded, Runs
  <2>2. CASE q = r + 1
    BY <1>1, <1>4, <2>2 DEF InChain, Succeeded, QueuedRun, Runs
  <2>3. CASE q < r
    BY <1>1, <1>2, <1>4, <2>3 DEF InChain, Rows, Succeeded, Runs
  <2>4. CASE q > r + 1
    BY <1>1, <1>2, <1>4, <2>4 DEF InChain, Rows, Succeeded, Runs
  <2> QED BY <2>1, <2>2, <2>3, <2>4 DEF Runs
<1>8. ReviewOnlyWhenSpent'
  BY <1>1, <1>4 DEF ReviewOnlyWhenSpent, Succeeded, QueuedRun
<1>9. JobsGrow
  <2> SUFFICES ASSUME NEW q \in Runs
               PROVE  /\ job[q].fence \in Nat /\ job'[q].fence \in Nat
                      /\ job'[q].fence >= job[q].fence
                      /\ job[q].status # "NONE" => job'[q].status # "NONE"
    BY DEF JobsGrow
  <2>1. job[q] \in JobRecord /\ job'[q] \in JobRecord BY <1>4 DEF Rows
  <2>2. CASE q = r BY <1>4, <2>1, <2>2 DEF JobRecord
  <2>3. CASE q = r + 1 BY <1>2, <1>4, <2>1, <2>3 DEF JobRecord, NoJob
  <2>4. CASE q \notin {r, r + 1} BY <1>4, <2>1, <2>4 DEF JobRecord
  <2> QED BY <2>2, <2>3, <2>4
<1> QED BY <1>1, <1>4, <1>6, <1>7, <1>8, <1>9 DEF Rows, Succeeded

\* Nothing in the database changes.
LEMMA SameRowsStep ==
  ASSUME Rows, UNCHANGED dbVars
  PROVE  Rows' /\ JobsGrow
<1>1. JobsGrow BY DEF JobsGrow, Rows, JobRecord, dbVars
<1>2. \A r \in Runs : RowFits(r)' /\ InChain(r)'
  BY DEF Rows, RowFits, InChain, dbVars
<1>3. ReviewOnlyWhenSpent' BY DEF Rows, ReviewOnlyWhenSpent, dbVars
<1> QED BY <1>1, <1>2, <1>3 DEF Rows, dbVars
-----------------------------------------------------------------------------
(* The actions.  FreshClaim: the run is live, and the worker up.             *)

LEMMA ClaimableLive ==
  ASSUME IInv, NEW w \in Workers, NEW r \in Runs, FreshClaim(w, r)
  PROVE  /\ Live(r) /\ run[r] \in RunRecord /\ job[r] \in JobRecord
         /\ job[r].fence + 1 \in Nat /\ job[r].fence + 1 > job[r].fence
         /\ job[r].status # "NONE"
         /\ pc[w] = "idle" /\ frozen[w].status = "NONE"
  BY DEF IInv, Rows, FreshClaim, Claimable, Live, JobRecord

LEMMA ClaimQueuedStep ==
  ASSUME IInv, NEW w \in Workers, NEW r \in Runs, NEW acked \in BOOLEAN,
         ClaimQueued(w, r, acked)
  PROVE  IInv'
<1> DEFINE f == job[r].fence + 1
           y == LeasedJob(f, job[r].claims + 1)
<1>1. FreshClaim(w, r) BY DEF ClaimQueued
<1>2. /\ Live(r) /\ run[r] \in RunRecord /\ job[r] \in JobRecord
      /\ f \in Nat /\ f > job[r].fence /\ job[r].status # "NONE" /\ pc[w] = "idle"
  BY <1>1, ClaimableLive
<1>3. job[r].claims + 1 \in 0 .. MaxClaims
  <2>1. job[r].claims = 0 \/ job[r].claims < MaxClaims
    <3>1. job[r].claims \in 0 .. MaxClaims BY <1>2 DEF JobRecord
    <3> QED BY <1>1, <3>1, BoundsAssumption
         DEF ClaimQueued, ClaimsSpent, FreshClaim, Claimable, IInv, Rows, RowFits
  <2> QED BY <1>2, <2>1, BoundsAssumption DEF JobRecord
<1>4. /\ y \in JobRecord /\ y.status = "LEASED" /\ y.fence = f
  BY <1>2, <1>3 DEF LeasedJob, JobRecord
<1>5. run[r].status = "QUEUED" /\ job' = [job EXCEPT ![r] = y]
      /\ frozen' = [frozen EXCEPT ![w] = LeasedClaim(r, f)]
      /\ Proceeds(w, acked, "claimed")
      /\ UNCHANGED <<attempt, currentRun, run, closeIntent, startReceipt>>
  BY DEF ClaimQueued
<1> HIDE DEF y
<1>6. RowWritten(r, run[r], y)
  BY <1>5 DEF RowWritten, IInv, Rows
<1>7. run[r].next = 0 /\ run[r].fence = 0 /\ r \notin startReceipt
  BY <1>2, <1>5, LiveRun DEF IInv, Rows, RowFits, InChain
<1>8. Rows' /\ JobsGrow
  <2>1. r \notin startReceipt' /\ y.fence >= job[r].fence
    BY <1>2, <1>4, <1>5, <1>7 DEF JobRecord
  <2> QED BY <1>2, <1>4, <1>5, <1>6, <1>7, <2>1, RowWrittenStep DEF IInv
<1>9. Slots'
  <2> DEFINE c == LeasedClaim(r, f)
  <2>1. c \in ClaimRecord /\ c.status = "LEASED" /\ c.run = r /\ c.fence = f
    BY <1>2 DEF LeasedClaim, ClaimRecord, Runs
  <2> HIDE DEF c, f
  <2>2. LoopMoves(w) BY <1>2, <1>5, ProceedsMoves DEF IInv
  <2>3. job'[r] = y BY <1>5 DEF IInv, Rows
  <2>4. IssuedNext(c)
    <3>1. job'[c.run].status # "NONE" /\ job'[c.run].fence = c.fence
      BY <1>4, <2>1, <2>3
    <3> QED BY <2>1, <3>1 DEF IssuedNext, ClaimRecord
  <2>5. frozen' = [frozen EXCEPT ![w] = c] BY <1>5 DEF c, f
  <2> QED BY <1>2, <1>8, <2>1, <2>2, <2>4, <2>5, SlotFilled DEF IInv
<1> QED BY <1>8, <1>9 DEF IInv

\* A live run ends and the tick returns, or raises with the slot filled by the
\* answer or kept.
LEMMA EndedStep ==
  ASSUME IInv, NEW w \in Workers, pc[w] # "down", NEW r \in Runs, Live(r),
         NEW status \in {"COMPLETED", "FAILED"},
         NEW g \in Nat, NEW f \in Nat, f >= job[r].fence,
         status = "FAILED" /\ attempt = "OPEN" =>
            r = MaxRuns \/ (r \notin startReceipt /\ job[r].claims = MaxClaims),
         RowWritten(r, [status |-> status, fence |-> g, next |-> 0],
                       EndedJob(job[r], status, f)),
         startReceipt' = startReceipt,
         \/ TickReturns(w)
         \/ CycleRaises(w) /\ UNCHANGED frozen
         \/ CycleRaises(w) /\ frozen' = [frozen EXCEPT ![w] = FailedClaim(r, f)]
  PROVE  IInv'
<1> DEFINE x == [status |-> status, fence |-> g, next |-> 0]
           y == EndedJob(job[r], status, f)
<1>1. job[r] \in JobRecord BY DEF IInv, Rows
<1>2. x \in RunRecord /\ x.status = status /\ x.next = 0 BY DEF RunRecord
<1>3. y \in JobRecord /\ y.status = status /\ y.fence = f /\ y.claims = job[r].claims
  BY <1>1 DEF JobRecord, EndedJob
<1>4. RowWritten(r, x, y) OBVIOUS
<1> HIDE DEF x, y
<1>5. Rows' /\ JobsGrow
  BY <1>2, <1>3, <1>4, RowWrittenStep DEF IInv
<1>6. Slots'
  <2>1. CASE TickReturns(w)
    <3>1. LoopMoves(w) /\ pc'[w] \in {"idle", "down"}
          /\ frozen' = [frozen EXCEPT ![w] = NoClaim]
      BY <2>1, ReturnsMoves DEF IInv
    <3>2. NoClaim \in ClaimRecord /\ NoClaim.status # "LEASED" /\ IssuedNext(NoClaim)
      BY DEF NoClaim, ClaimRecord, IssuedNext
    <3> QED BY <1>5, <3>1, <3>2, SlotFilled DEF IInv
  <2>2. CASE CycleRaises(w) /\ UNCHANGED frozen
    <3>1. LoopMoves(w) /\ pc'[w] \in {"idle", "down"}
      BY <2>2, RaisesMoves DEF IInv
    <3> QED BY <1>5, <2>2, <3>1, SlotKept DEF IInv
  <2>3. CASE CycleRaises(w) /\ frozen' = [frozen EXCEPT ![w] = FailedClaim(r, f)]
    <3>1. LoopMoves(w) /\ pc'[w] \in {"idle", "down"}
      BY <2>3, RaisesMoves DEF IInv
    <3> DEFINE c == FailedClaim(r, f)
    <3>2. c \in ClaimRecord /\ c.status # "LEASED" /\ IssuedNext(c)
      BY DEF FailedClaim, ClaimRecord, IssuedNext, Runs
    <3>3. frozen' = [frozen EXCEPT ![w] = c] BY <2>3
    <3> HIDE DEF c
    <3> QED BY <1>5, <3>1, <3>2, <3>3, SlotFilled DEF IInv
  <2> QED BY <2>1, <2>2, <2>3
<1> QED BY <1>5, <1>6 DEF IInv

LEMMA ExhaustClaimsStep ==
  ASSUME IInv, NEW w \in Workers, NEW r \in Runs, NEW acked \in BOOLEAN,
         ExhaustClaims(w, r, acked)
  PROVE  IInv'
<1> DEFINE f == job[r].fence + 1
<1>1. /\ Live(r) /\ job[r] \in JobRecord /\ f \in Nat /\ f >= job[r].fence
      /\ pc[w] = "idle"
  BY ClaimableLive DEF ExhaustClaims, JobRecord
<1>2. r \notin startReceipt BY DEF IInv, Rows, RowFits, ExhaustClaims
<1>3. job[r].claims = MaxClaims
  BY <1>1, BoundsAssumption DEF ExhaustClaims, ClaimsSpent, JobRecord
<1>4. RowWritten(r, [status |-> "FAILED", fence |-> f, next |-> 0],
                    EndedJob(job[r], "FAILED", f))
  BY DEF ExhaustClaims, RowWritten, IInv, Rows
<1>5. \/ TickReturns(w)
      \/ CycleRaises(w) /\ frozen' = [frozen EXCEPT ![w] = FailedClaim(r, f)]
  BY DEF ExhaustClaims
<1>6. startReceipt' = startReceipt BY DEF ExhaustClaims
<1> HIDE DEF f
<1> QED BY <1>1, <1>2, <1>3, <1>4, <1>5, <1>6, EndedStep

LEMMA RecoverAndGiveUpStep ==
  ASSUME IInv, NEW w \in Workers, NEW r \in Runs, NEW acked \in BOOLEAN,
         RecoverAndGiveUp(w, r, acked)
  PROVE  IInv'
<1> DEFINE f == job[r].fence + 1
<1>1. /\ Live(r) /\ job[r] \in JobRecord /\ f \in Nat /\ f >= job[r].fence
      /\ pc[w] = "idle"
  BY ClaimableLive DEF RecoverAndGiveUp, JobRecord
<1>2. r = currentRun BY <1>1, LiveRun DEF IInv
<1>3. attempt = "OPEN" => r = MaxRuns
  BY <1>2, BoundsAssumption DEF RecoverAndGiveUp, RetryAllowed, Runs
<1>4. RowWritten(r, [status |-> "FAILED", fence |-> f, next |-> 0],
                    EndedJob(job[r], "FAILED", f))
  BY DEF RecoverAndGiveUp, RowWritten, IInv, Rows
<1>5. \/ TickReturns(w)
      \/ CycleRaises(w) /\ frozen' = [frozen EXCEPT ![w] = FailedClaim(r, f)]
  BY DEF RecoverAndGiveUp
<1>6. startReceipt' = startReceipt BY DEF RecoverAndGiveUp
<1> HIDE DEF f
<1> QED BY <1>1, <1>3, <1>4, <1>5, <1>6, EndedStep

LEMMA RecoverAndRetryStep ==
  ASSUME IInv, NEW w \in Workers, NEW r \in Runs, NEW acked \in BOOLEAN,
         RecoverAndRetry(w, r, acked)
  PROVE  IInv'
<1> DEFINE f == job[r].fence + 1
           x == [status |-> "FAILED", fence |-> f, next |-> r + 1]
           y == EndedJob(job[r], "FAILED", f)
           z == LeasedJob(1, 1)
           c == LeasedClaim(r + 1, 1)
<1>1. /\ Live(r) /\ job[r] \in JobRecord /\ f \in Nat /\ f >= job[r].fence
      /\ pc[w] = "idle"
  BY ClaimableLive DEF RecoverAndRetry, JobRecord
<1>2. r < MaxRuns BY DEF RecoverAndRetry, RetryAllowed
<1>3. x \in RunRecord /\ x.status = "FAILED" /\ x.next = r + 1
  BY <1>1 DEF RunRecord, Runs
<1>4. y \in JobRecord /\ y.status = "FAILED" /\ y.fence = f
  BY <1>1 DEF EndedJob, JobRecord
<1>5. z \in JobRecord /\ z.status = "LEASED" /\ z.fence = 1
  BY BoundsAssumption DEF LeasedJob, JobRecord
<1>6. Succeeded(r, x, y, z) /\ Proceeds(w, acked, "claimed")
      /\ frozen' = [frozen EXCEPT ![w] = c]
  BY DEF RecoverAndRetry, Succeeded
<1>7. c \in ClaimRecord /\ c.status = "LEASED" /\ c.run = r + 1 /\ c.fence = 1
  BY DEF LeasedClaim, ClaimRecord, Runs
<1> HIDE DEF f, x, y, z, c
<1>8. Rows' /\ JobsGrow
  <2>1. y.fence >= job[r].fence BY <1>1, <1>4
  <2> QED BY <1>1, <1>2, <1>3, <1>4, <1>5, <1>6, <2>1, SucceededStep DEF IInv
<1>9. Slots'
  <2>1. LoopMoves(w) BY <1>1, <1>6, ProceedsMoves DEF IInv
  <2>2. r + 1 \in Runs BY <1>2, BoundsAssumption DEF Runs
  <2>3. job[r + 1].status = "NONE"
    BY <1>1, <2>2, LiveRun DEF IInv, Runs, NoJob
  <2>4. job'[r + 1] = z BY <1>6, <2>2 DEF Succeeded, IInv, Rows
  <2>5. IssuedNext(c) BY <1>5, <1>7, <2>2, <2>4 DEF IssuedNext
  <2> QED BY <1>6, <1>7, <1>8, <2>1, <2>3, <2>5, SlotFilled DEF IInv
<1> QED BY <1>8, <1>9 DEF IInv

LEMMA HoldsLive ==
  ASSUME IInv, NEW w \in Workers, HoldsLease(w)
  PROVE  /\ frozen[w].run \in Runs /\ Live(frozen[w].run)
         /\ frozen[w].fence \in Nat /\ frozen[w].fence = job[frozen[w].run].fence
         /\ job[frozen[w].run].status = "LEASED"
         /\ run[frozen[w].run] \in RunRecord /\ job[frozen[w].run] \in JobRecord
<1>1. frozen[w].run \in Runs /\ frozen[w].fence \in Nat
  BY DEF IInv, Slots, SlotFits, Issued, HoldsLease, ClaimRecord
<1>2. job[frozen[w].run].status = "LEASED" /\ frozen[w].fence = job[frozen[w].run].fence
  BY DEF HoldsLease
<1>3. run[frozen[w].run] \in RunRecord /\ job[frozen[w].run] \in JobRecord
  BY <1>1 DEF IInv, Rows
<1>4. Live(frozen[w].run)
  BY <1>1, <1>2, <1>3 DEF IInv, Rows, RowFits, Live, RunRecord, NoJob
<1> QED BY <1>1, <1>2, <1>3, <1>4

LEMMA StartRunStep ==
  ASSUME IInv, NEW w \in Workers, NEW acked \in BOOLEAN, StartRun(w, acked)
  PROVE  IInv'
<1> DEFINE r == frozen[w].run
           x == [status |-> "RUNNING", fence |-> frozen[w].fence, next |-> 0]
<1>1. /\ r \in Runs /\ Live(r) /\ frozen[w].fence \in Nat
      /\ frozen[w].fence = job[r].fence /\ job[r].status = "LEASED"
      /\ job[r] \in JobRecord
  BY HoldsLive DEF StartRun
<1>2. x \in RunRecord /\ x.status = "RUNNING" /\ x.fence = job[r].fence /\ x.next = 0
  BY <1>1 DEF RunRecord
<1>3. /\ pc[w] = "claimed" /\ run' = [run EXCEPT ![r] = x]
      /\ startReceipt' = startReceipt \cup {r} /\ Proceeds(w, acked, "started")
      /\ UNCHANGED <<attempt, currentRun, job, closeIntent, frozen>>
  BY DEF StartRun
<1> HIDE DEF x
<1>4. RowWritten(r, x, job[r])
  <2>1. startReceipt' \subseteq Runs BY <1>1, <1>3 DEF IInv, Rows
  <2> QED BY <1>3, <2>1 DEF RowWritten, IInv, Rows
<1>5. Rows' /\ JobsGrow
  <2> HIDE DEF r
  <2>1. job[r].fence >= job[r].fence BY <1>1 DEF JobRecord
  <2> QED BY <1>1, <1>2, <1>4, <2>1, RowWrittenStep DEF IInv
<1>6. Slots'
  <2>1. LoopMoves(w) BY <1>3, ProceedsMoves DEF IInv
  <2>2. frozen[w].status = "LEASED" BY DEF StartRun, HoldsLease
  <2> QED BY <1>3, <1>5, <2>1, <2>2, SlotKept DEF IInv
<1> QED BY <1>5, <1>6 DEF IInv

LEMMA EndTickEnds ==
  ASSUME NEW w \in Workers, NEW acked \in BOOLEAN, EndTick(w, acked)
  PROVE  TickReturns(w) \/ (CycleRaises(w) /\ UNCHANGED frozen)
  BY DEF EndTick

LEMMA CompleteRunStep ==
  ASSUME IInv, NEW w \in Workers, NEW acked \in BOOLEAN, NEW eligible \in BOOLEAN,
         CompleteRun(w, eligible, acked)
  PROVE  IInv'
<1> DEFINE r == frozen[w].run
           g == run[r].fence
           f == job[r].fence
<1>1. /\ r \in Runs /\ Live(r) /\ g \in Nat /\ f \in Nat /\ f >= job[r].fence
      /\ pc[w] # "down"
  BY HoldsLive DEF CompleteRun, Finishing, HoldsRun, RunRecord, JobRecord
<1>2. RowWritten(r, [status |-> "COMPLETED", fence |-> g, next |-> 0],
                    EndedJob(job[r], "COMPLETED", f))
  <2>1. closeIntent' \in 0 .. MaxRuns
    BY <1>1, BoundsAssumption DEF CompleteRun, Runs
  <2> QED BY <2>1 DEF CompleteRun, RowWritten, IInv, Rows
<1>3. startReceipt' = startReceipt /\ EndTick(w, acked) BY DEF CompleteRun
<1> HIDE DEF r, g, f
<1> QED BY <1>1, <1>2, <1>3, EndTickEnds, EndedStep

LEMMA FailForReviewStep ==
  ASSUME IInv, NEW w \in Workers, NEW acked \in BOOLEAN, FailForReview(w, acked)
  PROVE  IInv'
<1> DEFINE r == frozen[w].run
           g == run[r].fence
           f == job[r].fence
<1>1. /\ r \in Runs /\ Live(r) /\ g \in Nat /\ f \in Nat /\ f >= job[r].fence
      /\ pc[w] # "down"
  BY HoldsLive DEF FailForReview, Finishing, HoldsRun, RunRecord, JobRecord
<1>2. r = MaxRuns BY <1>1, BoundsAssumption DEF FailForReview, Runs
<1>3. RowWritten(r, [status |-> "FAILED", fence |-> g, next |-> 0],
                    EndedJob(job[r], "FAILED", f))
  BY DEF FailForReview, RowWritten, IInv, Rows
<1>4. startReceipt' = startReceipt /\ EndTick(w, acked) BY DEF FailForReview
<1> HIDE DEF r, g, f
<1> QED BY <1>1, <1>2, <1>3, <1>4, EndTickEnds, EndedStep

LEMMA FailAndRetryStep ==
  ASSUME IInv, NEW w \in Workers, NEW acked \in BOOLEAN, FailAndRetry(w, acked)
  PROVE  IInv'
<1> DEFINE r == frozen[w].run
           x == [status |-> "FAILED", fence |-> run[r].fence, next |-> r + 1]
           y == EndedJob(job[r], "FAILED", job[r].fence)
           z == AvailableJob(FALSE)
<1>1. /\ r \in Runs /\ Live(r) /\ pc[w] # "down" /\ r < MaxRuns
      /\ run[r] \in RunRecord /\ job[r] \in JobRecord
  BY HoldsLive DEF FailAndRetry, Finishing, HoldsRun
<1>2. Succeeded(r, x, y, z) /\ EndTick(w, acked)
  BY DEF FailAndRetry, Succeeded
<1> HIDE DEF r
<1>3. x \in RunRecord /\ x.status = "FAILED" /\ x.next = r + 1
  BY <1>1 DEF RunRecord, Runs
<1>4. y \in JobRecord /\ y.status = "FAILED" /\ y.fence >= job[r].fence
  BY <1>1 DEF EndedJob, JobRecord
<1>5. z \in JobRecord /\ z.status = "AVAILABLE" /\ z.claims = 0
  BY BoundsAssumption DEF AvailableJob, JobRecord
<1> HIDE DEF x, y, z
<1>6. Rows' /\ JobsGrow
  BY <1>1, <1>2, <1>3, <1>4, <1>5, SucceededStep DEF IInv
<1>7. Slots'
  <2>1. CASE TickReturns(w)
    <3>1. LoopMoves(w) /\ pc'[w] \in {"idle", "down"}
          /\ frozen' = [frozen EXCEPT ![w] = NoClaim]
      BY <1>1, <2>1, ReturnsMoves DEF IInv
    <3>2. NoClaim \in ClaimRecord /\ NoClaim.status # "LEASED" /\ IssuedNext(NoClaim)
      BY DEF NoClaim, ClaimRecord, IssuedNext
    <3> QED BY <1>6, <3>1, <3>2, SlotFilled DEF IInv
  <2>2. CASE CycleRaises(w) /\ UNCHANGED frozen
    <3>1. LoopMoves(w) /\ pc'[w] \in {"idle", "down"}
      BY <1>1, <2>2, RaisesMoves DEF IInv
    <3> QED BY <1>6, <2>2, <3>1, SlotKept DEF IInv
  <2> QED BY <1>2, <2>1, <2>2, EndTickEnds
<1> QED BY <1>6, <1>7 DEF IInv

LEMMA TimePassesStep ==
  ASSUME IInv, NEW r \in Runs, TimePasses(r)
  PROVE  IInv'
<1> DEFINE y == [job[r] EXCEPT !.ripe = TRUE]
<1>1. job[r] \in JobRecord /\ run[r] \in RunRecord /\ job[r].status \in {"AVAILABLE", "LEASED"}
  BY DEF IInv, Rows, TimePasses
<1>2. Live(r) BY <1>1 DEF IInv, Rows, RowFits, Live, RunRecord, NoJob
<1>3. /\ y \in JobRecord /\ y.status = job[r].status /\ y.fence = job[r].fence
      /\ y.claims = job[r].claims
  BY <1>1 DEF JobRecord
<1>4. job' = [job EXCEPT ![r] = y]
      /\ UNCHANGED <<attempt, currentRun, run, closeIntent, startReceipt,
                     frozen, pc, failures>>
  BY DEF TimePasses
<1> HIDE DEF y
<1>5. RowWritten(r, run[r], y) BY <1>4 DEF RowWritten, IInv, Rows
<1>6. RowFits(r) /\ run[r].next = 0
  BY <1>2, LiveRun DEF IInv, Rows, InChain
<1>7. Rows' /\ JobsGrow
  <2>1. y.fence >= job[r].fence BY <1>1, <1>3 DEF JobRecord
  <2>2. startReceipt' = startReceipt BY <1>4
  <2>3. run[r].status \in {"QUEUED", "RUNNING"} BY <1>2 DEF Live
  <2> QED BY <1>1, <1>2, <1>3, <1>5, <1>6, <2>1, <2>2, <2>3, RowWrittenStep
       DEF IInv, RowFits
<1>8. Slots'
  <2>1. \A v \in Workers : SlotFits(v)'
    <3> SUFFICES ASSUME NEW v \in Workers PROVE SlotFits(v)' OBVIOUS
    <3>1. SlotFits(v) /\ frozen[v] \in ClaimRecord BY DEF IInv, Slots
    <3> QED BY <1>4, <1>7, <3>1 DEF SlotFits, Issued, JobsGrow, ClaimRecord
  <2> QED BY <1>4, <2>1 DEF IInv, Slots, SameLease
<1> QED BY <1>7, <1>8 DEF IInv

\* The steps that leave the database alone: the tick returns, or raises.
LEMMA TickOnlyStep ==
  ASSUME IInv, NEW w \in Workers, pc[w] # "down", UNCHANGED dbVars,
         TickReturns(w) \/ (CycleRaises(w) /\ UNCHANGED frozen)
  PROVE  IInv'
<1>1. Rows' /\ JobsGrow BY SameRowsStep DEF IInv, Rows
<1>2. CASE TickReturns(w)
  <2>1. LoopMoves(w) /\ pc'[w] \in {"idle", "down"}
        /\ frozen' = [frozen EXCEPT ![w] = NoClaim]
    BY <1>2, ReturnsMoves DEF IInv
  <2>2. NoClaim \in ClaimRecord /\ NoClaim.status # "LEASED" /\ IssuedNext(NoClaim)
    BY DEF NoClaim, ClaimRecord, IssuedNext
  <2> QED BY <1>1, <2>1, <2>2, SlotFilled DEF IInv
<1>3. CASE CycleRaises(w) /\ UNCHANGED frozen
  <2>1. LoopMoves(w) /\ pc'[w] \in {"idle", "down"}
    BY <1>3, RaisesMoves DEF IInv
  <2> QED BY <1>1, <1>3, <2>1, SlotKept DEF IInv
<1> QED BY <1>2, <1>3

LEMMA ForgetStep ==
  ASSUME IInv, NEW w \in Workers, Forget(w)
  PROVE  IInv'
<1>1. Rows' /\ JobsGrow BY SameRowsStep DEF IInv, Rows, Forget
<1>2. LoopMoves(w) /\ pc'[w] = "idle" /\ frozen' = [frozen EXCEPT ![w] = NoClaim]
  BY BoundsAssumption DEF Forget, LoopMoves, IInv, Slots, PCs
<1>3. NoClaim \in ClaimRecord /\ NoClaim.status # "LEASED" /\ IssuedNext(NoClaim)
  BY DEF NoClaim, ClaimRecord, IssuedNext
<1> QED BY <1>1, <1>2, <1>3, SlotFilled DEF IInv

LEMMA ReplayClaimStep ==
  ASSUME IInv, NEW w \in Workers, ReplayClaim(w)
  PROVE  IInv'
<1>1. UNCHANGED dbVars /\ pc[w] = "idle" BY DEF ReplayClaim
<1>2. CASE TickReturns(w) BY <1>1, <1>2, TickOnlyStep
<1>3. CASE /\ frozen[w].status = "LEASED" /\ UNCHANGED <<frozen, failures>>
           /\ pc' = [pc EXCEPT ![w] = "claimed"]
  <2>1. Rows' /\ JobsGrow BY <1>1, SameRowsStep DEF IInv, Rows
  <2>2. LoopMoves(w) BY <1>1, <1>3 DEF LoopMoves, IInv, Slots, SlotFits, PCs
  <2> QED BY <1>3, <2>1, <2>2, SlotKept DEF IInv
<1> QED BY <1>2, <1>3 DEF ReplayClaim

LEMMA DeliveryTickStep ==
  ASSUME IInv, NEW w \in Workers, DeliveryTick(w)
  PROVE  IInv'
<1>1. Rows' /\ JobsGrow BY SameRowsStep DEF IInv, DeliveryTick
<1>2. LoopMoves(w) /\ pc'[w] = "idle"
  BY BoundsAssumption DEF DeliveryTick, LoopMoves, IInv, Slots, SlotFits, PCs
<1> QED BY <1>1, <1>2, SlotKept DEF IInv, DeliveryTick

LEMMA CloseAttemptStep ==
  ASSUME IInv, CloseAttempt
  PROVE  IInv'
<1>1. \A r \in Runs : RowFits(r)' /\ InChain(r)'
  BY DEF IInv, Rows, RowFits, InChain, CloseAttempt
<1>2. ReviewOnlyWhenSpent' BY DEF CloseAttempt, ReviewOnlyWhenSpent
<1>3. Rows' BY <1>1, <1>2 DEF IInv, Rows, CloseAttempt
<1>4. Slots' BY DEF IInv, Slots, SlotFits, Issued, SameLease, CloseAttempt
<1> QED BY <1>3, <1>4 DEF IInv

LEMMA StutterStep ==
  ASSUME IInv, UNCHANGED vars
  PROVE  IInv'
<1>1. Rows' BY SameRowsStep DEF IInv, Rows, vars, dbVars
<1>2. Slots' BY DEF IInv, Slots, SlotFits, Issued, SameLease, vars
<1> QED BY <1>1, <1>2 DEF IInv

LEMMA NextInv == IInv /\ [Next]_vars => IInv'
<1> SUFFICES ASSUME IInv, [Next]_vars PROVE IInv' OBVIOUS
<1>1. ASSUME NEW w \in Workers, Claim(w) PROVE IInv'
  BY <1>1, ClaimQueuedStep, ExhaustClaimsStep, RecoverAndRetryStep,
     RecoverAndGiveUpStep DEF Claim
<1>2. ASSUME NEW w \in Workers, Execute(w) PROVE IInv'
  <2>1. CASE \E acked \in BOOLEAN : StartRun(w, acked) BY <2>1, StartRunStep
  <2>2. CASE StartRefused(w) \/ StartLeaseLost(w) \/ FinishLeaseLost(w)
    BY <2>2, TickOnlyStep DEF StartRefused, StartLeaseLost, FinishLeaseLost
  <2>3. CASE \E acked \in BOOLEAN, eligible \in BOOLEAN :
                CompleteRun(w, eligible, acked)
    BY <2>3, CompleteRunStep
  <2>4. CASE \E acked \in BOOLEAN : FailAndRetry(w, acked) BY <2>4, FailAndRetryStep
  <2>5. CASE \E acked \in BOOLEAN : FailForReview(w, acked) BY <2>5, FailForReviewStep
  <2> QED BY <1>2, <2>1, <2>2, <2>3, <2>4, <2>5 DEF Execute
<1>3. ASSUME NEW w \in Workers, Tick(w) PROVE IInv'
  <2>1. CASE ReplayClaim(w) BY <2>1, ReplayClaimStep
  <2>2. CASE IdleTick(w) BY <2>2, TickOnlyStep DEF IdleTick
  <2>3. CASE StepFails(w) BY <2>3, TickOnlyStep DEF StepFails
  <2> QED BY <1>1, <1>2, <1>3, <2>1, <2>2, <2>3 DEF Tick
<1>4. ASSUME NEW w \in Workers, Restart(w) \/ Crash(w) PROVE IInv'
  BY <1>4, ForgetStep DEF Restart, Crash
<1> QED BY <1>3, <1>4, DeliveryTickStep, TimePassesStep, CloseAttemptStep,
           StutterStep DEF Next
-----------------------------------------------------------------------------
(* The theorems.                                                             *)

LEMMA InvAlways == Spec => []IInv
BY InitInv, NextInv, PTL DEF Spec

\* Rows and slots keep their shapes, and no job is claimed more often than
\* the table's CHECK allows.
THEOREM TypeCorrect == Spec => []TypeOK
<1>1. IInv => TypeOK BY InvProperties
<1> QED BY <1>1, InvAlways, PTL

\* The runs of an attempt are a chain with one live end at most: neither way
\* of retrying forks it.
THEOREM ChainOfRuns == Spec => []OneLiveRun
<1>1. IInv => OneLiveRun BY InvProperties
<1> QED BY <1>1, InvAlways, PTL

\* match_runs and match_jobs agree after every transaction.
THEOREM RunAndJobAgree == Spec => []JobMirrorsRun
<1>1. IInv => JobMirrorsRun BY InvProperties
<1> QED BY <1>1, InvAlways, PTL

\* The fence excludes: two workers never hold the lease of the attempt's job.
THEOREM LeaseExcludes == Spec => []OneHolder
<1>1. IInv => OneHolder BY InvProperties
<1> QED BY <1>1, InvAlways, PTL

\* A reviewer receives an open attempt only when the runs, or the claims of an
\* unstarted last one, are used up.
THEOREM ReviewIsLast == Spec => []ReviewOnlyWhenSpent
<1>1. IInv => ReviewOnlyWhenSpent BY InvProperties
<1> QED BY <1>1, InvAlways, PTL
-----------------------------------------------------------------------------
(* The refinement.                                                           *)

AbstractVars == <<currentRun, ResultOfRun>>

LEMMA SameResult ==
  ASSUME UNCHANGED <<currentRun, run, closeIntent>>
  PROVE  UNCHANGED AbstractVars
BY DEF AbstractVars, ResultOfRun

LEMMA RetryMaps ==
  ASSUME IInv, NEW r \in Runs, Live(r), r < MaxRuns, currentRun' = r + 1,
         NEW x, run' = [run EXCEPT ![r] = x, ![r + 1] = QueuedRun]
  PROVE  Abstract!Retry
<1>1. r = currentRun BY LiveRun DEF IInv
<1>2. r + 1 \in Runs BY BoundsAssumption DEF Runs
<1>3. run'[r + 1].status = "QUEUED" BY <1>2 DEF IInv, Rows, QueuedRun
<1>4. ResultOfRun = "open" /\ ResultOfRun' = "open"
  BY <1>1, <1>3 DEF ResultOfRun, Live
<1> QED BY <1>1, <1>4 DEF Abstract!Retry

LEMMA DecideMaps ==
  ASSUME IInv, NEW r \in Runs, Live(r), UNCHANGED currentRun,
         NEW status \in {"COMPLETED", "FAILED"}, NEW g,
         run' = [run EXCEPT ![r] = [status |-> status, fence |-> g, next |-> 0]]
  PROVE  Abstract!Decide
<1>1. r = currentRun BY LiveRun DEF IInv
<1>2. run'[currentRun'].status = status BY <1>1 DEF IInv, Rows
<1>3. ResultOfRun = "open" BY <1>1 DEF ResultOfRun, Live
<1>4. ResultOfRun' \in {"candidates", "no_candidates", "review"}
  BY <1>2 DEF ResultOfRun
<1> QED BY <1>3, <1>4 DEF Abstract!Decide, Abstract!Results

LEMMA StepMaps == IInv /\ [Next]_vars => [Abstract!Next]_AbstractVars
<1> SUFFICES ASSUME IInv, [Next]_vars PROVE [Abstract!Next]_AbstractVars OBVIOUS
<1>1. ASSUME UNCHANGED dbVars PROVE UNCHANGED AbstractVars
  BY <1>1, SameResult DEF dbVars
<1>2. ASSUME NEW w \in Workers, NEW r \in Runs, NEW acked \in BOOLEAN,
             ClaimQueued(w, r, acked)
      PROVE  UNCHANGED AbstractVars
  BY <1>2, SameResult DEF ClaimQueued
<1>3. ASSUME NEW w \in Workers, NEW r \in Runs, NEW acked \in BOOLEAN,
             ExhaustClaims(w, r, acked) \/ RecoverAndGiveUp(w, r, acked)
      PROVE  Abstract!Decide
  <2> DEFINE g == job[r].fence + 1
  <2>1. run' = [run EXCEPT ![r] = [status |-> "FAILED", fence |-> g, next |-> 0]]
        /\ UNCHANGED currentRun
    BY <1>3 DEF ExhaustClaims, RecoverAndGiveUp
  <2>2. Live(r) BY <1>3 DEF Live, ExhaustClaims, RecoverAndGiveUp
  <2> HIDE DEF g
  <2> QED BY <2>1, <2>2, DecideMaps
<1>4. ASSUME NEW w \in Workers, NEW r \in Runs, NEW acked \in BOOLEAN,
             RecoverAndRetry(w, r, acked)
      PROVE  Abstract!Retry
  <2>1. Live(r) /\ r < MaxRuns BY <1>4 DEF Live, RecoverAndRetry, RetryAllowed
  <2> QED BY <1>4, <2>1, RetryMaps DEF RecoverAndRetry
<1>5. ASSUME NEW w \in Workers, NEW acked \in BOOLEAN, StartRun(w, acked)
      PROVE  UNCHANGED AbstractVars
  <2> DEFINE r == frozen[w].run
  <2>1. r \in Runs /\ Live(r) BY <1>5, HoldsLive DEF StartRun
  <2>2. r = currentRun BY <2>1, LiveRun DEF IInv
  <2>3. run'[currentRun].status = "RUNNING" /\ UNCHANGED <<currentRun, closeIntent>>
    BY <1>5, <2>1, <2>2 DEF StartRun, IInv, Rows
  <2>4. run[currentRun].status = "QUEUED" BY <1>5, <2>2 DEF StartRun
  <2> QED BY <2>3, <2>4 DEF AbstractVars, ResultOfRun
<1>6. ASSUME NEW w \in Workers, NEW acked \in BOOLEAN, NEW eligible \in BOOLEAN,
             CompleteRun(w, eligible, acked)
      PROVE  Abstract!Decide
  <2> DEFINE r == frozen[w].run
             g == run[r].fence
  <2>1. r \in Runs /\ Live(r)
    BY <1>6, HoldsLive DEF CompleteRun, Finishing, HoldsRun
  <2>2. run' = [run EXCEPT ![r] = [status |-> "COMPLETED", fence |-> g, next |-> 0]]
        /\ UNCHANGED currentRun
    BY <1>6 DEF CompleteRun
  <2> HIDE DEF r, g
  <2> QED BY <2>1, <2>2, DecideMaps
<1>7. ASSUME NEW w \in Workers, NEW acked \in BOOLEAN, FailForReview(w, acked)
      PROVE  Abstract!Decide
  <2> DEFINE r == frozen[w].run
             g == run[r].fence
  <2>1. r \in Runs /\ Live(r)
    BY <1>7, HoldsLive DEF FailForReview, Finishing, HoldsRun
  <2>2. run' = [run EXCEPT ![r] = [status |-> "FAILED", fence |-> g, next |-> 0]]
        /\ UNCHANGED currentRun
    BY <1>7 DEF FailForReview
  <2> HIDE DEF r, g
  <2> QED BY <2>1, <2>2, DecideMaps
<1>8. ASSUME NEW w \in Workers, NEW acked \in BOOLEAN, FailAndRetry(w, acked)
      PROVE  Abstract!Retry
  <2> DEFINE r == frozen[w].run
             x == [status |-> "FAILED", fence |-> run[r].fence, next |-> r + 1]
  <2>1. r \in Runs /\ Live(r) /\ r < MaxRuns
    BY <1>8, HoldsLive DEF FailAndRetry, Finishing, HoldsRun
  <2>2. run' = [run EXCEPT ![r] = x, ![r + 1] = QueuedRun] /\ currentRun' = r + 1
    BY <1>8 DEF FailAndRetry
  <2> HIDE DEF r, x
  <2> QED BY <2>1, <2>2, RetryMaps
<1>9. ASSUME NEW w \in Workers, Execute(w) PROVE [Abstract!Next]_AbstractVars
  <2>1. CASE StartRefused(w) \/ StartLeaseLost(w) \/ FinishLeaseLost(w)
    BY <1>1, <2>1 DEF StartRefused, StartLeaseLost, FinishLeaseLost
  <2> QED BY <1>5, <1>6, <1>7, <1>8, <1>9, <2>1 DEF Execute, Abstract!Next
<1>10. ASSUME NEW w \in Workers, Tick(w) PROVE [Abstract!Next]_AbstractVars
  <2>1. CASE Claim(w)
    BY <1>2, <1>3, <1>4, <2>1 DEF Claim, Abstract!Next
  <2>2. CASE ReplayClaim(w) \/ IdleTick(w) \/ StepFails(w)
    BY <1>1, <2>2 DEF ReplayClaim, IdleTick, StepFails
  <2> QED BY <1>9, <1>10, <2>1, <2>2 DEF Tick
<1>11. ASSUME NEW w \in Workers, DeliveryTick(w) \/ Restart(w) \/ Crash(w)
       PROVE  UNCHANGED AbstractVars
  BY <1>1, <1>11 DEF DeliveryTick, Restart, Crash, Forget
<1>12. ASSUME CloseAttempt \/ \E r \in Runs : TimePasses(r)
       PROVE  UNCHANGED AbstractVars
  BY <1>12, SameResult DEF CloseAttempt, TimePasses
<1>13. ASSUME UNCHANGED vars PROVE UNCHANGED AbstractVars
  BY <1>13, SameResult DEF vars
<1> QED BY <1>10, <1>11, <1>12, <1>13 DEF Next

\* The match workers implement the abstract attempt: bounded tries, one result.
THEOREM Refinement == Spec => ImplementsOneResult
<1>1. Init => Abstract!Init
  BY BoundsAssumption DEF Init, Abstract!Init, ResultOfRun, QueuedRun, Runs
<1> QED BY <1>1, InvAlways, StepMaps, PTL
         DEF Spec, ImplementsOneResult, Abstract!Spec, AbstractVars
=============================================================================
