-------------------------- MODULE IamSessionsProofs ---------------------------
(***************************************************************************)
(* Proofs of the safety properties of IamSessions, for any users, login    *)
(* transactions and requests at work, and any bounds.  The argument is     *)
(* about locks: a request changes only rows it has locked, so what another *)
(* request saw under its own locks stays true until it commits.            *)
(***************************************************************************)
EXTENDS IamSessions, TLAPS

Known(s) == s \in Sessions /\ family[s[1]].status # None

\* What the fields of a request say about each other.
ShapeOK(j) ==
    /\ j.kind = None => j.stage = None /\ j.held = {} /\ j.todo = {} /\ j.transaction = 0
    /\ j.kind # None => j.stage # None
    /\ j.stage \in {"CLAIM", "ANSWER"} => Callback(j) /\ j.held = {} /\ j.todo = {}
    /\ j.stage = "FAMILIES" => j.kind = "ADMIN"
    /\ j.stage = "SESSIONS" => j.kind \in {"ADMIN", "REPLAY"}
    /\ IF Callback(j) THEN j.transaction \in Transactions
                      ELSE j.transaction = 0 /\ j.valid
    /\ j.kind = "LOGIN" /\ j.stage = "LOCK" => j.user \in Users
    /\ j.kind \notin {None, "LOGIN"} => Known(j.session)
    /\ j.kind \in {"STEP_UP", "ACCEPT"} => j.session[2] < MaxGeneration
    /\ j.kind = "REVOKE" => Known(j.target)
    /\ j.kind = "ADMIN" =>
         /\ j.user \in Users /\ j.command \in Command
         /\ Owner(j.session) \in Admins /\ j.user # Owner(j.session)

\* Which rows a request has locked, and that it misses none of those it read.
RowsOK(j) ==
    /\ j.stage = "LOCK" => Rows(j) \subseteq j.todo \cup j.held
    /\ j.kind = "ADMIN" /\ j.stage \in {"FAMILIES", "SESSIONS"} =>
         /\ Rows(j) \subseteq j.held
         /\ \A f \in ActiveFamilies(j.user) : FamilyRow(<<f, 0>>) \in j.todo \cup j.held
    /\ j.kind = "ADMIN" /\ j.stage = "SESSIONS" =>
         /\ \A f \in ActiveFamilies(j.user) : FamilyRow(<<f, 0>>) \in j.held
         /\ \A s \in ActiveSessions(j.user) : SessionRow(s) \in j.todo \cup j.held
    /\ j.kind = "REPLAY" /\ j.stage = "SESSIONS" =>
         /\ FamilyRow(j.session) \in j.held
         /\ j.target = <<j.session[1], family[j.session[1]].generation>>
         /\ j.target \in Sessions /\ session[j.target].status # None
         /\ SessionRow(j.target) \in j.todo \cup j.held

\* What a request saw in a row holds for as long as it keeps the row locked.
FactsOK(j) ==
    j.valid =>
      /\ \A u \in Users :
           UserRow(u) \in j.held /\ ~(j.kind = "ADMIN" /\ u = j.user) =>
             user[u] = "ACTIVE" \/ (j.kind = "ACCEPT" /\ user[u] = "PENDING_ENROLLMENT")
      /\ j.kind \in {"STEP_UP", "ADMIN", "ACCEPT"} /\ FamilyRow(j.session) \in j.held
           => Current(j.session)
      /\ NeedsLive(j) /\ SessionRow(j.session) \in j.held
           => session[j.session].status = "ACTIVE"

Exclusive ==
    \A v, w \in Workers : v # w => job[v].held \cap job[w].held = {}

Requests ==
    /\ \A w \in Workers : ShapeOK(job[w]) /\ RowsOK(job[w]) /\ FactsOK(job[w])
    /\ Exclusive

Accounts ==
    /\ OneLiveSession /\ SuspendedLockedOut /\ AdminRemains
    /\ \A s \in Sessions : session[s].status # None =>
         family[s[1]].status # None /\ s[2] <= family[s[1]].generation
    /\ \A f \in Families : family[f].status # None =>
         family[f].owner \in Users /\ family[f].generation \in 1 .. MaxGeneration

Exchanging(j, t) == j.transaction = t /\ j.stage \in {"ANSWER", "LOCK"}

Logins ==
    /\ \A t \in Transactions :
         /\ auth[t].session # NoSession =>
              Known(auth[t].session) /\ auth[t].session[2] < MaxGeneration
         /\ \A w \in Workers : Exchanging(job[w], t) => auth[t].status = "EXCHANGING"
         /\ family[t].status # None => auth[t].status = "SUCCEEDED"
    /\ \A s \in Sessions : session[s].status = None => session[s].origin = 0
    /\ OneLoginPerCallback

IInv == TypeOK /\ Requests /\ Accounts /\ Logins
-----------------------------------------------------------------------------
(* Names of rows, families and sessions                                      *)

LEMMA Names ==
  /\ Users \subseteq Nat /\ 0 \notin Users
  /\ Transactions \subseteq Nat /\ 0 \notin Transactions
  /\ Families \subseteq Nat /\ 0 \notin Families
  /\ Users \subseteq Families /\ Transactions \subseteq Families
  /\ Admins \subseteq Users /\ MaxGeneration \in Nat /\ MaxGeneration >= 1
BY NamesAssumption, BoundsAssumption DEF Families

LEMMA Parts ==
  \A s \in Sessions : s[1] \in Families /\ s[2] \in 1 .. MaxGeneration
BY DEF Sessions

LEMMA Numbers ==
  \A s \in Sessions : s[1] \in Nat /\ s[2] \in Nat /\ s[1] # 0
<1> SUFFICES ASSUME NEW s \in Sessions PROVE s[1] \in Nat /\ s[2] \in Nat /\ s[1] # 0
  OBVIOUS
<1>1. s[1] \in Nat /\ s[1] # 0 BY Parts, Names
<1>2. s[2] \in 1 .. MaxGeneration BY Parts
<1>3. s[2] \in Nat BY <1>2, Names
<1> QED BY <1>1, <1>3

LEMMA Pairs ==
  /\ \A s \in Sessions : /\ s = <<s[1], s[2]>> /\ s # NoSession
                         /\ FamilyRow(s) = FamilyRow(<<s[1], 0>>)
  /\ \A f \in Families, n \in 1 .. MaxGeneration : <<f, n>> \in Sessions
<1>1. \A s \in Sessions : s = <<s[1], s[2]>> BY DEF Sessions
<1>2. \A s \in Sessions : s # NoSession BY Numbers DEF NoSession
<1>3. \A f \in Families, n \in 1 .. MaxGeneration : <<f, n>> \in Sessions
  BY DEF Sessions
<1> QED BY <1>1, <1>2, <1>3 DEF FamilyRow

LEMMA RowNames ==
  /\ \A u, x : UserRow(u) = UserRow(x) => u = x
  /\ \A f, g : FamilyRow(<<f, 0>>) = FamilyRow(<<g, 0>>) => f = g
  /\ \A r, s \in Sessions : SessionRow(r) = SessionRow(s) => r = s
<1>1. \A u, x : UserRow(u) = UserRow(x) => u = x BY DEF UserRow
<1>2. \A f, g : FamilyRow(<<f, 0>>) = FamilyRow(<<g, 0>>) => f = g BY DEF FamilyRow
<1>3. \A r, s \in Sessions : SessionRow(r) = SessionRow(s) => r = s
  <2>1. SUFFICES ASSUME NEW r \in Sessions, NEW s \in Sessions,
                        SessionRow(r) = SessionRow(s)
                 PROVE  r = s
    OBVIOUS
  <2>2. r[1] = s[1] /\ r[2] = s[2] BY <2>1 DEF SessionRow
  <2> QED BY <2>2, Pairs
<1> QED BY <1>1, <1>2, <1>3

LEMMA RowTypes ==
  /\ \A u \in Nat : UserRow(u) \in Row /\ AuthRow(u) \in Row /\ InvitationRow(u) \in Row
  /\ \A f \in Nat : FamilyRow(<<f, 0>>) \in Row
  /\ \A s \in Sessions : FamilyRow(s) \in Row /\ SessionRow(s) \in Row
  /\ PlatformRow \in Row
<1> QED BY Numbers DEF Row, UserRow, AuthRow, InvitationRow, FamilyRow, SessionRow, PlatformRow
-----------------------------------------------------------------------------
LEMMA InvProperties ==
  ASSUME IInv
  PROVE  /\ TypeOK /\ OneLiveSession /\ SuspendedLockedOut /\ OneLoginPerCallback
         /\ AdminRemains /\ Exclusive
BY DEF IInv, Requests, Accounts, Logins

LEMMA IdleOK ==
  /\ Idle \in Job /\ ShapeOK(Idle) /\ RowsOK(Idle) /\ FactsOK(Idle)
  /\ Idle.held = {} /\ \A t \in Transactions : ~Exchanging(Idle, t)
<1>1. Idle \in Job
  BY DEF Idle, Job, Kind, Stage, Command, None
<1>2. ShapeOK(Idle) BY DEF Idle, ShapeOK, Callback, None
<1>3. RowsOK(Idle) BY DEF Idle, RowsOK, None
<1>4. FactsOK(Idle) BY DEF Idle, FactsOK, None
<1>5. Idle.held = {} /\ \A t \in Transactions : ~Exchanging(Idle, t)
  BY DEF Idle, Exchanging, None
<1> QED BY <1>1, <1>2, <1>3, <1>4, <1>5

LEMMA InitInv == Init => IInv
<1> SUFFICES ASSUME Init PROVE IInv OBVIOUS
<1>1. /\ \A f \in Users : family[f].owner = f /\ family[f].status = "ACTIVE"
                             /\ family[f].generation = 1
      /\ \A f \in Families \ Users : family[f].status = None
  BY Names DEF Init
<1>2. /\ \A s \in Sessions : session[s].origin = 0
      /\ \A s \in Sessions : session[s].status # None =>
           session[s].status = "ACTIVE" /\ s[1] \in Users /\ s[2] = 1
  BY DEF Init, None
<1>3. TypeOK
  <2>1. user \in [Users -> {"PENDING_ENROLLMENT", "ACTIVE", "SUSPENDED"}]
        /\ invitation \in [Users -> {"NONE", "ISSUED", "ACCEPTED"}]
    BY DEF Init, None
  <2>2. family \in [Families -> [owner : Users \cup {0},
                                 status : {"NONE", "ACTIVE", "REVOKED"},
                                 generation : 0 .. MaxGeneration]]
    BY Names DEF Init, None
  <2>3. session \in [Sessions -> [status : {"NONE", "ACTIVE", "REVOKED", "EXPIRED"},
                                  origin : Transactions \cup {0}]]
    BY DEF Init, None
  <2>4. auth \in [Transactions ->
                    [status : {"NONE", "PENDING", "EXCHANGING", "SUCCEEDED",
                               "FAILED", "RESULT_UNKNOWN"},
                     session : Sessions \cup {NoSession}]]
    BY DEF Init, None
  <2>5. lapsed \subseteq Sessions /\ late \subseteq Transactions /\ job \in [Workers -> Job]
    BY IdleOK DEF Init
  <2> QED BY <2>1, <2>2, <2>3, <2>4, <2>5 DEF TypeOK
<1>4. Requests
  BY IdleOK DEF Init, Requests, Exclusive
<1>5. Accounts
  <2>1. OneLiveSession
    BY <1>1, <1>2 DEF OneLiveSession, Current, None
  <2>2. \A u \in Users : user[u] # "SUSPENDED" BY DEF Init
  <2>3. AdminRemains BY Names DEF Init, AdminRemains
  <2>4. \A s \in Sessions : session[s].status # None =>
          family[s[1]].status # None /\ s[2] <= family[s[1]].generation
    BY <1>1, <1>2 DEF None
  <2>5. 1 \in 1 .. MaxGeneration BY Names
  <2>6. \A f \in Families : family[f].status # None =>
          family[f].owner \in Users /\ family[f].generation \in 1 .. MaxGeneration
    BY <1>1, <2>5
  <2> QED BY <2>1, <2>2, <2>3, <2>4, <2>6 DEF Accounts, SuspendedLockedOut
<1>6. Logins
  <2>1. \A t \in Transactions : t \notin Users /\ t \in Families /\ t # 0
    BY NamesAssumption, Names
  <2>2. \A t \in Transactions : auth[t].status = None /\ auth[t].session = NoSession
    BY DEF Init
  <2>3. \A w \in Workers, t \in Transactions : ~Exchanging(job[w], t)
    BY IdleOK DEF Init
  <2>4. OneLoginPerCallback
    <3> SUFFICES ASSUME NEW t \in Transactions
                 PROVE  /\ \A v, w \in Workers :
                             /\ Exchanging(job[v], t) /\ Exchanging(job[w], t)
                             => v = w
                        /\ \A s \in Sessions : session[s].origin # t
                        /\ auth[t].status # "SUCCEEDED"
      BY DEF OneLoginPerCallback, Exchanging
    <3>1. \A s \in Sessions : session[s].origin # t BY <1>2, <2>1
    <3> QED BY <2>2, <2>3, <3>1 DEF None
  <2>5. \A t \in Transactions : family[t].status = None BY <1>1, <2>1
  <2> QED BY <1>2, <2>2, <2>3, <2>4, <2>5 DEF Logins
<1> QED BY <1>3, <1>4, <1>5, <1>6 DEF IInv
-----------------------------------------------------------------------------
(* A request moves on and the database stays as it is                        *)

\* A request that knows as much in the next state as in this one.
LEMMA SameKnowledge ==
  ASSUME UNCHANGED <<user, family, session>>,
         NEW v \in Workers, NEW x, job'[v] = x, ShapeOK(x), RowsOK(x), FactsOK(x)
  PROVE  (ShapeOK(job[v]) /\ RowsOK(job[v]) /\ FactsOK(job[v]))'
<1>1. ShapeOK(job[v])' BY DEF ShapeOK, Known, Callback, Owner
<1>2. RowsOK(job[v])'
  BY DEF RowsOK, Rows, OtherRows, Owner, ActiveFamilies, ActiveSessions
<1>3. FactsOK(job[v])' BY DEF FactsOK, NeedsLive, Current
<1> QED BY <1>1, <1>2, <1>3

LEMMA JobStep ==
  ASSUME IInv, NEW w \in Workers, NEW x \in Job, SetJob(w, x), UNCHANGED iamVars,
         ShapeOK(x), RowsOK(x), FactsOK(x),
         \A v \in Workers : v # w => x.held \cap job[v].held = {},
         \A t \in Transactions : Exchanging(x, t) => Exchanging(job[w], t)
  PROVE  IInv'
<1>1. job \in [Workers -> Job] BY DEF IInv, TypeOK
<1>2. job' \in [Workers -> Job] /\ job'[w] = x
      /\ \A v \in Workers : v # w => job'[v] = job[v]
  BY <1>1 DEF SetJob
<1>3. UNCHANGED <<user, invitation, family, session, lapsed, auth, late>>
  BY DEF iamVars
<1>4. TypeOK' BY <1>2, <1>3 DEF IInv, TypeOK
<1>5. Requests'
  <2>1. \A v \in Workers : (ShapeOK(job[v]) /\ RowsOK(job[v]) /\ FactsOK(job[v]))'
    <3> SUFFICES ASSUME NEW v \in Workers
                 PROVE  (ShapeOK(job[v]) /\ RowsOK(job[v]) /\ FactsOK(job[v]))'
      OBVIOUS
    <3>1. ShapeOK(job[v]) /\ RowsOK(job[v]) /\ FactsOK(job[v]) BY DEF IInv, Requests
    <3>2. CASE v = w BY <1>2, <1>3, <3>2, SameKnowledge
    <3>3. CASE v # w BY <1>2, <1>3, <3>1, <3>3, SameKnowledge
    <3> QED BY <3>2, <3>3
  <2>2. Exclusive' BY <1>2 DEF IInv, Requests, Exclusive
  <2> QED BY <2>1, <2>2 DEF Requests
<1>6. Accounts'
  BY <1>3 DEF IInv, Accounts, OneLiveSession, Current, SuspendedLockedOut,
     ActiveFamilies, ActiveSessions, Owner, AdminRemains
<1>7. Logins'
  <2>1. \A v \in Workers, t \in Transactions :
          Exchanging(job[v], t)' => Exchanging(job[v], t)
    BY <1>2 DEF Exchanging
  <2>2. OneLoginPerCallback'
    BY <1>3, <2>1 DEF IInv, Logins, OneLoginPerCallback, Exchanging
  <2> QED BY <1>3, <2>1, <2>2 DEF IInv, Logins, Known
<1> QED BY <1>4, <1>5, <1>6, <1>7 DEF IInv

LEMMA IdleStep ==
  ASSUME IInv, NEW w \in Workers, SetJob(w, Idle), UNCHANGED iamVars
  PROVE  IInv'
BY IdleOK, JobStep

\* The rows of a request exist, so what it sets out to lock is well typed.
LEMMA RowsTyped ==
  ASSUME IInv, NEW j \in Job, j.kind # None, ShapeOK(j),
         j.kind = "LOGIN" => j.user \in Users
  PROVE  Rows(j) \subseteq Row
<1>1. Known(j.session) => j.session \in Sessions /\ Owner(j.session) \in Nat
  <2> SUFFICES ASSUME Known(j.session) PROVE Owner(j.session) \in Nat
    BY DEF Known
  <2>1. j.session[1] \in Families BY Parts DEF Known
  <2>2. family[j.session[1]].owner \in Users
    BY <2>1 DEF Known, IInv, Accounts
  <2> QED BY <2>2, Names DEF Owner
<1>2. CASE j.kind = "LOGIN"
  <2>1. j.user \in Nat /\ j.transaction \in Nat
    BY <1>2, Names DEF ShapeOK, Callback
  <2> QED BY <1>2, <2>1, RowTypes DEF Rows, OtherRows
<1>3. CASE j.kind = "STEP_UP"
  <2>1. j.transaction \in Nat /\ Known(j.session)
    BY <1>3, Names DEF ShapeOK, Callback, None
  <2> QED BY <1>1, <1>3, <2>1, RowTypes DEF Rows, OtherRows
<1>4. CASE j.kind = "REVOKE"
  <2>1. Known(j.session) /\ j.target \in Sessions
    BY <1>4 DEF ShapeOK, Known, None
  <2> QED BY <1>1, <1>4, <2>1, RowTypes DEF Rows, OtherRows
<1>5. CASE j.kind = "REPLAY"
  <2>1. Known(j.session) BY <1>5 DEF ShapeOK, None
  <2> QED BY <1>1, <1>5, <2>1, RowTypes DEF Rows, OtherRows
<1>6. CASE j.kind = "ADMIN"
  <2>1. Known(j.session) /\ j.user \in Nat BY <1>6, Names DEF ShapeOK, None
  <2> QED BY <1>1, <1>6, <2>1, RowTypes DEF Rows, OtherRows
<1>7. CASE j.kind = "ACCEPT"
  <2>1. Known(j.session) BY <1>7 DEF ShapeOK, None
  <2> QED BY <1>1, <1>7, <2>1, RowTypes DEF Rows, OtherRows
<1> QED BY <1>2, <1>3, <1>4, <1>5, <1>6, <1>7 DEF Job, Kind

LEMMA StartOK ==
  ASSUME IInv, NEW j \in Job, j.kind # None, ShapeOK(StartTransaction(j))
  PROVE  LET x == StartTransaction(j) IN
         /\ x \in Job /\ RowsOK(x) /\ FactsOK(x) /\ x.held = {}
<1> DEFINE x == StartTransaction(j)
<1>1. /\ x.kind = j.kind /\ x.session = j.session /\ x.target = j.target
      /\ x.user = j.user /\ x.transaction = j.transaction /\ x.command = j.command
      /\ x.stage = "LOCK" /\ x.todo = Rows(j) /\ x.held = {} /\ x.valid = TRUE
  BY DEF StartTransaction, Job
<1>2. Rows(x) = Rows(j) BY <1>1 DEF Rows, OtherRows
<1>3. x.kind = "LOGIN" => x.user \in Users BY <1>1 DEF ShapeOK
<1>4. x \in Job
  <2> DEFINE y == [j EXCEPT !.stage = "LOCK", !.valid = TRUE]
  <2>1. y \in Job /\ y.kind = j.kind /\ y.stage = "LOCK" /\ y.session = j.session
        /\ y.target = j.target /\ y.user = j.user /\ y.transaction = j.transaction
        /\ y.command = j.command /\ y.valid
    BY DEF Job, Stage
  <2>2. Rows(y) = Rows(j) BY <2>1 DEF Rows, OtherRows
  <2>3. Rows(j) \subseteq Row
    <3>1. CASE y.held = {} /\ y.todo = {}
      <4>1. ShapeOK(y) BY <1>1, <2>1, <3>1 DEF ShapeOK, Callback
      <4> QED BY <1>1, <1>3, <2>1, <2>2, <4>1, RowsTyped
    <3>2. CASE ~(y.held = {} /\ y.todo = {})
      <4>1. ShapeOK(y) BY <1>1, <2>1, <3>2 DEF ShapeOK, Callback
      <4> QED BY <1>1, <1>3, <2>1, <2>2, <4>1, RowsTyped
    <3> QED BY <3>1, <3>2
  <2> QED BY <2>3 DEF StartTransaction, Job, Stage
<1>5. RowsOK(x) BY <1>1, <1>2 DEF RowsOK
<1>6. FactsOK(x) BY <1>1 DEF FactsOK
<1> QED BY <1>1, <1>4, <1>5, <1>6

LEMMA BeginStep ==
  ASSUME IInv, NEW w \in Workers, NEW j \in Job, j.kind # None,
         ShapeOK(StartTransaction(j)), SetJob(w, StartTransaction(j)), UNCHANGED iamVars,
         \A t \in Transactions :
           j.transaction = t => Exchanging(job[w], t)
  PROVE  IInv'
<1> DEFINE x == StartTransaction(j)
<1>1. x \in Job /\ RowsOK(x) /\ FactsOK(x) /\ x.held = {} BY StartOK
<1>2. x.transaction = j.transaction BY DEF StartTransaction, Job
<1>3. \A t \in Transactions : Exchanging(x, t) => Exchanging(job[w], t)
  BY <1>2 DEF Exchanging
<1> HIDE DEF x
<1>4. ShapeOK(x) /\ SetJob(w, x) BY DEF x
<1> QED BY <1>1, <1>3, <1>4, JobStep

LEMMA AbortStep ==
  ASSUME IInv, NEW w \in Workers, Abort(w)
  PROVE  IInv'
<1> DEFINE j == job[w]
<1>1. CASE SetJob(w, Idle) BY <1>1, IdleStep DEF Abort
<1>2. CASE ~Callback(j) /\ SetJob(w, StartTransaction(j))
  <2>1. j \in Job /\ ShapeOK(j) /\ j.todo # {}
    BY DEF IInv, TypeOK, Requests, Abort, NextRow
  <2>2. j.kind # None /\ ~Callback(j) /\ j.transaction = 0
    BY <1>2, <2>1 DEF ShapeOK
  <2> DEFINE x == StartTransaction(j)
  <2>3. /\ x.kind = j.kind /\ x.session = j.session /\ x.target = j.target
        /\ x.user = j.user /\ x.transaction = j.transaction /\ x.command = j.command
        /\ x.stage = "LOCK" /\ x.valid = TRUE
    BY <2>1 DEF StartTransaction, Job
  <2>4. ShapeOK(x)
    <3> HIDE DEF x, j
    <3> QED BY <2>1, <2>2, <2>3 DEF ShapeOK, Callback, None
  <2>5. \A t \in Transactions : j.transaction # t BY <2>2, Names
  <2> QED BY <1>2, <2>1, <2>2, <2>4, <2>5, BeginStep DEF Abort
<1> QED BY <1>1, <1>2 DEF Abort

LEMMA LockStep ==
  ASSUME IInv, NEW w \in Workers, NEW row \in job[w].todo, Lock(w, row)
  PROVE  IInv'
<1> DEFINE j == job[w]
           x == [j EXCEPT !.todo = @ \ {row}, !.held = @ \cup {row},
                          !.valid = @ /\ StillTrue(j, row)]
<1>1. CASE SetJob(w, Idle) BY <1>1, IdleStep DEF Lock
<1>2. CASE SetJob(w, x) /\ (StillTrue(j, row) \/ Callback(j))
  <2>1. j \in Job /\ ShapeOK(j) /\ RowsOK(j) /\ FactsOK(j) /\ row \in Row
    BY DEF IInv, TypeOK, Requests, Job
  <2>2. StillTrue(j, row) \in BOOLEAN BY DEF StillTrue, InTime
  <2>3. /\ x.kind = j.kind /\ x.stage = j.stage /\ x.session = j.session
        /\ x.target = j.target /\ x.user = j.user
        /\ x.transaction = j.transaction /\ x.command = j.command
        /\ x.todo = j.todo \ {row} /\ x.held = j.held \cup {row}
        /\ x.valid = (j.valid /\ StillTrue(j, row))
    BY <2>1 DEF Job
  <2>4. x \in Job BY <2>1, <2>2 DEF Job
  <2>5. j.valid \in BOOLEAN BY <2>1 DEF Job
  <2> HIDE DEF x
  <2>6. ShapeOK(x)
    <3>1. j.stage \notin {None, "CLAIM", "ANSWER"} /\ j.kind # None
      BY <2>1 DEF ShapeOK
    <3>2. ~Callback(j) => x.valid BY <1>2, <2>1, <2>3 DEF ShapeOK
    <3> QED BY <2>1, <2>3, <3>1, <3>2 DEF ShapeOK, Callback
  <2>7. RowsOK(x)
    <3>1. Rows(x) = Rows(j) BY <2>3 DEF Rows, OtherRows
    <3>2. x.todo \cup x.held = j.todo \cup j.held /\ j.held \subseteq x.held BY <2>3
    <3> QED BY <2>1, <2>3, <3>1, <3>2 DEF RowsOK
  <2>8. FactsOK(x)
    <3> SUFFICES ASSUME x.valid PROVE FactsOK(x) BY DEF FactsOK
    <3>1. j.valid /\ StillTrue(j, row) BY <2>3
    <3>2. ASSUME NEW u \in Users, UserRow(u) \in x.held, ~(x.kind = "ADMIN" /\ u = x.user)
          PROVE  user[u] = "ACTIVE" \/ (x.kind = "ACCEPT" /\ user[u] = "PENDING_ENROLLMENT")
      <4>1. CASE UserRow(u) = row
        <5>1. row[1] = "user" /\ row[2] = u BY <4>1 DEF UserRow
        <5>2. Admitted(j, u) BY <3>1, <5>1 DEF StillTrue
        <5> QED BY <2>3, <3>2, <5>2 DEF Admitted
      <4>2. CASE UserRow(u) \in j.held
        BY <2>1, <2>3, <3>1, <3>2, <4>2 DEF FactsOK
      <4> QED BY <2>3, <3>2, <4>1, <4>2
    <3>3. ASSUME x.kind \in {"STEP_UP", "ADMIN", "ACCEPT"}, FamilyRow(x.session) \in x.held
          PROVE  Current(x.session)
      BY <2>1, <2>3, <3>1, <3>3 DEF FactsOK, StillTrue
    <3>4. ASSUME NeedsLive(x), SessionRow(x.session) \in x.held
          PROVE  session[x.session].status = "ACTIVE"
      <4>1. NeedsLive(j) BY <2>3, <3>4 DEF NeedsLive
      <4> QED BY <2>1, <2>3, <3>1, <3>4, <4>1 DEF FactsOK, StillTrue, Unexpired
    <3> QED BY <3>2, <3>3, <3>4 DEF FactsOK
  <2>9. \A v \in Workers : v # w => x.held \cap job[v].held = {}
    BY <2>3 DEF IInv, Requests, Exclusive, Lock, HeldElsewhere
  <2>10. \A t \in Transactions : Exchanging(x, t) => Exchanging(job[w], t)
    BY <2>3 DEF Exchanging
  <2> QED BY <1>2, <2>4, <2>6, <2>7, <2>8, <2>9, <2>10, JobStep DEF Lock
<1> QED BY <1>1, <1>2 DEF Lock

LEMMA UsableKnown ==
  ASSUME IInv, NEW s \in Sessions, Usable(s)
  PROVE  Known(s)
BY DEF IInv, Accounts, Usable, Unexpired, Known, None

LEMMA StartCallbackStep ==
  ASSUME IInv, NEW w \in Workers, NEW t \in Transactions, StartCallback(w, t)
  PROVE  IInv'
<1> DEFINE s == auth[t].session
           x == [Idle EXCEPT !.kind = IF s = NoSession THEN "LOGIN" ELSE "STEP_UP",
                             !.stage = "CLAIM", !.session = s, !.transaction = t]
<1>1. s \in Sessions \cup {NoSession}
      /\ (s # NoSession => Known(s) /\ s[2] < MaxGeneration)
  BY DEF IInv, TypeOK, Logins
<1>2. /\ x.kind = (IF s = NoSession THEN "LOGIN" ELSE "STEP_UP")
      /\ x.stage = "CLAIM" /\ x.session = s /\ x.transaction = t
      /\ x.todo = {} /\ x.held = {} /\ x.valid = TRUE
  BY DEF Idle
<1>3. x \in Job BY <1>1, IdleOK DEF Job, Kind, Stage
<1>4. SetJob(w, x) /\ UNCHANGED iamVars BY DEF StartCallback
<1> HIDE DEF x, s
<1>5. ShapeOK(x) BY <1>1, <1>2 DEF ShapeOK, Callback, None
<1>6. RowsOK(x) BY <1>2 DEF RowsOK
<1>7. FactsOK(x) BY <1>2 DEF FactsOK
<1>8. \A r \in Transactions : ~Exchanging(x, r) BY <1>2 DEF Exchanging
<1> QED BY <1>2, <1>3, <1>4, <1>5, <1>6, <1>7, <1>8, JobStep

LEMMA ExchangeSucceedsStep ==
  ASSUME IInv, NEW w \in Workers, NEW u \in Users, ExchangeSucceeds(w, u)
  PROVE  IInv'
<1> DEFINE j == job[w]
           y == [j EXCEPT !.user = u]
<1>1. CASE SetJob(w, Idle) BY <1>1, IdleStep DEF ExchangeSucceeds
<1>2. CASE SetJob(w, StartTransaction(y))
  <2>1. j \in Job /\ ShapeOK(j) /\ j.stage = "ANSWER"
    BY DEF IInv, TypeOK, Requests, ExchangeSucceeds
  <2>2. Callback(j) BY <2>1 DEF ShapeOK
  <2>3. y \in Job /\ y.kind = j.kind /\ y.transaction = j.transaction
    BY <2>1 DEF Job
  <2> DEFINE x == StartTransaction(y)
  <2>4. /\ x.kind = j.kind /\ x.session = j.session /\ x.target = j.target
        /\ x.user = u /\ x.transaction = j.transaction /\ x.command = j.command
        /\ x.stage = "LOCK" /\ x.valid = TRUE
    BY <2>1 DEF StartTransaction, Job
  <2>5. ShapeOK(x)
    <3> HIDE DEF x, j
    <3> QED BY <2>1, <2>2, <2>4 DEF ShapeOK, Callback, None
  <2>6. y.kind # None BY <2>2, <2>3 DEF Callback, None
  <2>7. \A t \in Transactions : y.transaction = t => Exchanging(job[w], t)
    BY <2>1, <2>3 DEF Exchanging
  <2> HIDE DEF y
  <2> QED BY <1>2, <2>3, <2>5, <2>6, <2>7, BeginStep DEF ExchangeSucceeds
<1> QED BY <1>1, <1>2 DEF ExchangeSucceeds

\* A request that does not come from the provider begins.
LEMMA ArriveStep ==
  ASSUME IInv, NEW w \in Workers, NEW j \in Job, Begin(w, j),
         j.transaction = 0, Known(j.session),
         j.kind \in {"REVOKE", "REPLAY", "ADMIN", "ACCEPT"},
         j.kind = "ACCEPT" => j.session[2] < MaxGeneration,
         j.kind = "REVOKE" => Known(j.target),
         j.kind = "ADMIN" =>
           /\ j.user \in Users /\ j.command \in Command
           /\ Owner(j.session) \in Admins /\ j.user # Owner(j.session)
  PROVE  IInv'
<1> DEFINE x == StartTransaction(j)
<1>1. /\ x.kind = j.kind /\ x.session = j.session /\ x.target = j.target
      /\ x.user = j.user /\ x.transaction = j.transaction /\ x.command = j.command
      /\ x.stage = "LOCK" /\ x.valid = TRUE
  BY DEF StartTransaction, Job
<1>2. ShapeOK(x)
  <2> HIDE DEF x
  <2> QED BY <1>1 DEF ShapeOK, Callback, None
<1>3. \A t \in Transactions : j.transaction # t BY Names
<1>4. j.kind # None BY DEF None
<1> QED BY <1>2, <1>3, <1>4, BeginStep DEF Begin

LEMMA StartRevokeStep ==
  ASSUME IInv, NEW w \in Workers, NEW s \in Sessions, NEW target \in Sessions,
         StartRevoke(w, s, target)
  PROVE  IInv'
<1> DEFINE j == [Idle EXCEPT !.kind = "REVOKE", !.session = s, !.target = target]
<1>1. j.kind = "REVOKE" /\ j.session = s /\ j.target = target /\ j.transaction = 0
  BY DEF Idle
<1>2. j \in Job BY IdleOK DEF Job, Kind
<1>3. Known(s) BY UsableKnown DEF StartRevoke
<1>4. Known(target) BY DEF StartRevoke, Known, IInv, Accounts
<1>5. Begin(w, j) BY DEF StartRevoke
<1> HIDE DEF j
<1> QED BY <1>1, <1>2, <1>3, <1>4, <1>5, ArriveStep

LEMMA StartReplayStep ==
  ASSUME IInv, NEW w \in Workers, NEW s \in Sessions, StartReplay(w, s)
  PROVE  IInv'
<1> DEFINE j == [Idle EXCEPT !.kind = "REPLAY", !.session = s]
<1>1. j.kind = "REPLAY" /\ j.session = s /\ j.transaction = 0 BY DEF Idle
<1>2. j \in Job BY IdleOK DEF Job, Kind
<1>3. Known(s) BY DEF StartReplay, Known, IInv, Accounts, None
<1>4. Begin(w, j) BY DEF StartReplay
<1> HIDE DEF j
<1> QED BY <1>1, <1>2, <1>3, <1>4, ArriveStep

LEMMA StartAdminStep ==
  ASSUME IInv, NEW w \in Workers, NEW s \in Sessions, NEW command \in Command,
         NEW u \in Users, StartAdmin(w, s, command, u)
  PROVE  IInv'
<1> DEFINE j == [Idle EXCEPT !.kind = "ADMIN", !.session = s, !.user = u,
                             !.command = command]
<1>1. j.kind = "ADMIN" /\ j.session = s /\ j.user = u /\ j.command = command
      /\ j.transaction = 0
  BY DEF Idle
<1>2. j \in Job BY IdleOK DEF Job, Kind
<1>3. Known(s) BY UsableKnown DEF StartAdmin
<1>4. Begin(w, j) /\ Owner(s) \in Admins /\ u # Owner(s) BY DEF StartAdmin
<1> HIDE DEF j
<1> QED BY <1>1, <1>2, <1>3, <1>4, ArriveStep

LEMMA StartAcceptStep ==
  ASSUME IInv, NEW w \in Workers, NEW s \in Sessions, StartAccept(w, s)
  PROVE  IInv'
<1> DEFINE j == [Idle EXCEPT !.kind = "ACCEPT", !.session = s]
<1>1. j.kind = "ACCEPT" /\ j.session = s /\ j.transaction = 0 BY DEF Idle
<1>2. j \in Job BY IdleOK DEF Job, Kind
<1>3. Known(s) /\ s[2] < MaxGeneration BY UsableKnown DEF StartAccept
<1>4. Begin(w, j) BY DEF StartAccept
<1> HIDE DEF j
<1> QED BY <1>1, <1>2, <1>3, <1>4, ArriveStep

LEMMA LockFamiliesStep ==
  ASSUME IInv, NEW w \in Workers, LockFamilies(w)
  PROVE  IInv'
<1> DEFINE j == job[w]
           x == [j EXCEPT !.stage = "FAMILIES",
                          !.todo = {FamilyRow(<<f, 0>>) : f \in ActiveFamilies(j.user)}]
<1>1. /\ j \in Job /\ ShapeOK(j) /\ RowsOK(j) /\ FactsOK(j)
      /\ j.kind = "ADMIN" /\ j.stage = "LOCK" /\ j.todo = {}
  BY DEF IInv, TypeOK, Requests, LockFamilies
<1>2. /\ x.kind = j.kind /\ x.session = j.session /\ x.target = j.target
      /\ x.user = j.user /\ x.transaction = j.transaction /\ x.command = j.command
      /\ x.stage = "FAMILIES" /\ x.held = j.held /\ x.valid = j.valid
      /\ x.todo = {FamilyRow(<<f, 0>>) : f \in ActiveFamilies(j.user)}
  BY <1>1 DEF Job
<1>3. x \in Job
  <2>1. {FamilyRow(<<f, 0>>) : f \in ActiveFamilies(j.user)} \subseteq Row
    BY RowTypes, Names DEF ActiveFamilies
  <2> QED BY <1>1, <2>1 DEF Job, Stage
<1>4. SetJob(w, x) /\ UNCHANGED iamVars BY DEF LockFamilies
<1> HIDE DEF x
<1>5. ShapeOK(x) BY <1>1, <1>2 DEF ShapeOK, Callback, None
<1>6. RowsOK(x)
  <2>1. Rows(x) = Rows(j) BY <1>2 DEF Rows, OtherRows
  <2>2. Rows(j) \subseteq j.held BY <1>1 DEF RowsOK
  <2> QED BY <1>1, <1>2, <2>1, <2>2 DEF RowsOK
<1>7. FactsOK(x) BY <1>1, <1>2 DEF FactsOK, NeedsLive
<1>8. \A v \in Workers : v # w => x.held \cap job[v].held = {}
  BY <1>2 DEF IInv, Requests, Exclusive
<1>9. \A r \in Transactions : ~Exchanging(x, r) BY <1>2 DEF Exchanging
<1> QED BY <1>3, <1>4, <1>5, <1>6, <1>7, <1>8, <1>9, JobStep

LEMMA LockSessionsStep ==
  ASSUME IInv, NEW w \in Workers, LockSessions(w)
  PROVE  IInv'
<1> DEFINE j == job[w]
           x == [j EXCEPT !.stage = "SESSIONS",
                          !.todo = {SessionRow(s) : s \in ActiveSessions(j.user)}]
<1>1. /\ j \in Job /\ ShapeOK(j) /\ RowsOK(j) /\ FactsOK(j)
      /\ j.kind = "ADMIN" /\ j.stage = "FAMILIES" /\ j.todo = {}
  BY DEF IInv, TypeOK, Requests, LockSessions
<1>2. /\ x.kind = j.kind /\ x.session = j.session /\ x.target = j.target
      /\ x.user = j.user /\ x.transaction = j.transaction /\ x.command = j.command
      /\ x.stage = "SESSIONS" /\ x.held = j.held /\ x.valid = j.valid
      /\ x.todo = {SessionRow(s) : s \in ActiveSessions(j.user)}
  BY <1>1 DEF Job
<1>3. x \in Job
  <2>1. {SessionRow(s) : s \in ActiveSessions(j.user)} \subseteq Row
    BY RowTypes DEF ActiveSessions
  <2> QED BY <1>1, <2>1 DEF Job, Stage
<1>4. SetJob(w, x) /\ UNCHANGED iamVars BY DEF LockSessions
<1> HIDE DEF x
<1>5. ShapeOK(x) BY <1>1, <1>2 DEF ShapeOK, Callback, None
<1>6. RowsOK(x)
  <2>1. Rows(x) = Rows(j) BY <1>2 DEF Rows, OtherRows
  <2>2. Rows(j) \subseteq j.held
        /\ \A f \in ActiveFamilies(j.user) : FamilyRow(<<f, 0>>) \in j.held
    BY <1>1 DEF RowsOK
  <2> QED BY <1>1, <1>2, <2>1, <2>2 DEF RowsOK
<1>7. FactsOK(x) BY <1>1, <1>2 DEF FactsOK, NeedsLive
<1>8. \A v \in Workers : v # w => x.held \cap job[v].held = {}
  BY <1>2 DEF IInv, Requests, Exclusive
<1>9. \A r \in Transactions : ~Exchanging(x, r) BY <1>2 DEF Exchanging
<1> QED BY <1>3, <1>4, <1>5, <1>6, <1>7, <1>8, <1>9, JobStep

LEMMA FindSuccessorStep ==
  ASSUME IInv, NEW w \in Workers, FindSuccessor(w)
  PROVE  IInv'
<1> DEFINE j == job[w]
           f == j.session[1]
           successor == <<f, family[f].generation>>
           x == [j EXCEPT !.stage = "SESSIONS", !.target = successor,
                          !.todo = {SessionRow(successor)}]
<1>1. CASE SetJob(w, Idle) BY <1>1, IdleStep DEF FindSuccessor
<1>2. CASE SetJob(w, x)
  <2>1. /\ j \in Job /\ ShapeOK(j) /\ RowsOK(j) /\ FactsOK(j)
        /\ j.kind = "REPLAY" /\ j.stage = "LOCK" /\ j.todo = {}
    BY DEF IInv, TypeOK, Requests, FindSuccessor
  <2>2. Known(j.session) /\ j.transaction = 0 /\ j.valid
    BY <2>1 DEF ShapeOK, Callback, None
  <2>3. successor \in Sessions
    <3>1. f \in Families BY <2>2, Parts DEF Known
    <3>2. family[f].generation \in 1 .. MaxGeneration
      BY <2>2, <3>1 DEF Known, IInv, Accounts
    <3> QED BY <3>1, <3>2, Pairs
  <2>4. /\ x.kind = j.kind /\ x.session = j.session /\ x.target = successor
        /\ x.user = j.user /\ x.transaction = j.transaction /\ x.command = j.command
        /\ x.stage = "SESSIONS" /\ x.held = j.held /\ x.valid = j.valid
        /\ x.todo = {SessionRow(successor)}
    BY <2>1 DEF Job
  <2>5. x \in Job BY <2>1, <2>3, RowTypes DEF Job, Stage
  <2>6. UNCHANGED iamVars BY DEF FindSuccessor
  <2>7. FamilyRow(j.session) \in j.held BY <2>1 DEF RowsOK, Rows, OtherRows
  <2>0. session[successor].status # None
    <3>1. x # Idle BY <2>1 DEF Job, Idle, None
    <3>2. job'[w] = x BY <1>2 DEF SetJob, IInv, TypeOK
    <3>3. session[successor].status # "ACTIVE" => SetJob(w, Idle)
      BY DEF FindSuccessor
    <3>4. SetJob(w, Idle) => job'[w] = Idle BY DEF SetJob, IInv, TypeOK
    <3> QED BY <3>1, <3>2, <3>3, <3>4 DEF None
  <2> HIDE DEF x, successor
  <2>8. ShapeOK(x) BY <2>1, <2>2, <2>4 DEF ShapeOK, Callback, None
  <2>9. RowsOK(x) BY <2>0, <2>1, <2>3, <2>4, <2>7 DEF RowsOK, successor
  <2>10. FactsOK(x) BY <2>1, <2>4 DEF FactsOK, NeedsLive
  <2>11. \A v \in Workers : v # w => x.held \cap job[v].held = {}
    BY <2>4 DEF IInv, Requests, Exclusive
  <2>12. \A r \in Transactions : ~Exchanging(x, r) BY <2>4 DEF Exchanging
  <2> QED BY <1>2, <2>5, <2>6, <2>8, <2>9, <2>10, <2>11, <2>12, JobStep
<1> QED BY <1>1, <1>2 DEF FindSuccessor
-----------------------------------------------------------------------------
(* The clock runs and auth transactions advance; no row of an account moves  *)

LEMMA AuthStep ==
  ASSUME IInv, UNCHANGED <<user, invitation, family, session>>,
         lapsed' \subseteq Sessions, late' \subseteq Transactions,
         auth' \in [Transactions ->
                      [status : {"NONE", "PENDING", "EXCHANGING", "SUCCEEDED",
                                 "FAILED", "RESULT_UNKNOWN"},
                       session : Sessions \cup {NoSession}]],
         NEW w \in Workers, NEW x \in Job, SetJob(w, x), x.held \subseteq job[w].held,
         ShapeOK(x), RowsOK(x), FactsOK(x),
         \A t \in Transactions : auth'[t].session = auth[t].session,
         \A t \in Transactions :
           auth'[t].status = "SUCCEEDED" <=> auth[t].status = "SUCCEEDED",
         \A t \in Transactions : Exchanging(x, t) => auth'[t].status = "EXCHANGING",
         \A t \in Transactions : \A v \in Workers \ {w} :
           Exchanging(job[v], t) => auth'[t].status = "EXCHANGING" /\ ~Exchanging(x, t)
  PROVE  IInv'
<1>1. job \in [Workers -> Job] BY DEF IInv, TypeOK
<1>2. job' \in [Workers -> Job] /\ job'[w] = x
      /\ \A v \in Workers : v # w => job'[v] = job[v]
  BY <1>1 DEF SetJob
<1>3. UNCHANGED user /\ UNCHANGED invitation /\ UNCHANGED family /\ UNCHANGED session
  OBVIOUS
<1>4. TypeOK' BY <1>2, <1>3 DEF IInv, TypeOK
<1>5. Requests'
  <2>1. \A v \in Workers : (ShapeOK(job[v]) /\ RowsOK(job[v]) /\ FactsOK(job[v]))'
    <3> SUFFICES ASSUME NEW v \in Workers
                 PROVE  (ShapeOK(job[v]) /\ RowsOK(job[v]) /\ FactsOK(job[v]))'
      OBVIOUS
    <3>1. ShapeOK(job[v]) /\ RowsOK(job[v]) /\ FactsOK(job[v]) BY DEF IInv, Requests
    <3>2. CASE v = w BY <1>2, <1>3, <3>2, SameKnowledge
    <3>3. CASE v # w BY <1>2, <1>3, <3>1, <3>3, SameKnowledge
    <3> QED BY <3>2, <3>3
  <2>2. Exclusive' BY <1>2 DEF IInv, Requests, Exclusive
  <2> QED BY <2>1, <2>2 DEF Requests
<1>6. Accounts'
  BY <1>3 DEF IInv, Accounts, OneLiveSession, Current, SuspendedLockedOut,
     ActiveFamilies, ActiveSessions, Owner, AdminRemains
<1>7. Logins'
  <2>1. \A v \in Workers, t \in Transactions :
          Exchanging(job[v], t)' => auth'[t].status = "EXCHANGING"
    BY <1>2 DEF Exchanging
  <2>2. \A t \in Transactions : \A v1, v2 \in Workers :
          Exchanging(job[v1], t)' /\ Exchanging(job[v2], t)' => v1 = v2
    BY <1>2 DEF IInv, Logins, OneLoginPerCallback, Exchanging
  <2>3. OneLoginPerCallback'
    BY <1>3, <2>2 DEF IInv, Logins, OneLoginPerCallback, Exchanging
  <2>4. \A t \in Transactions : auth'[t].session # NoSession =>
          /\ auth'[t].session \in Sessions /\ family[auth'[t].session[1]].status # None
          /\ auth'[t].session[2] < MaxGeneration
    BY DEF IInv, Logins, Known
  <2> QED BY <1>3, <2>1, <2>3, <2>4 DEF IInv, Logins, Known
<1> QED BY <1>4, <1>5, <1>6, <1>7 DEF IInv

\* No request moves.
LEMMA StillStep ==
  ASSUME IInv, UNCHANGED <<user, invitation, family, session, job>>,
         lapsed' \subseteq Sessions, late' \subseteq Transactions,
         auth' \in [Transactions ->
                      [status : {"NONE", "PENDING", "EXCHANGING", "SUCCEEDED",
                                 "FAILED", "RESULT_UNKNOWN"},
                       session : Sessions \cup {NoSession}]],
         \A t \in Transactions : auth'[t].session \notin {auth[t].session, NoSession} =>
           Known(auth'[t].session) /\ auth'[t].session[2] < MaxGeneration,
         \A t \in Transactions :
           auth'[t].status # auth[t].status =>
             auth'[t].status # "SUCCEEDED"
             /\ auth[t].status \notin {"SUCCEEDED", "EXCHANGING"}
  PROVE  IInv'
<1>1. UNCHANGED user /\ UNCHANGED invitation /\ UNCHANGED family /\ UNCHANGED session
      /\ UNCHANGED job
  OBVIOUS
<1>2. TypeOK' BY <1>1 DEF IInv, TypeOK
<1>3. Requests'
  <2>1. \A v \in Workers : (ShapeOK(job[v]) /\ RowsOK(job[v]) /\ FactsOK(job[v]))'
    BY <1>1, SameKnowledge DEF IInv, Requests
  <2>2. Exclusive' BY <1>1 DEF IInv, Requests, Exclusive
  <2> QED BY <2>1, <2>2 DEF Requests
<1>4. Accounts'
  BY <1>1 DEF IInv, Accounts, OneLiveSession, Current, SuspendedLockedOut,
     ActiveFamilies, ActiveSessions, Owner, AdminRemains
<1>5. Logins'
  <2>1. \A t \in Transactions :
          auth'[t].status = "SUCCEEDED" <=> auth[t].status = "SUCCEEDED"
    OBVIOUS
  <2>2. OneLoginPerCallback'
    BY <1>1, <2>1 DEF IInv, Logins, OneLoginPerCallback
  <2>3. \A t \in Transactions : auth'[t].session # NoSession =>
          /\ auth'[t].session \in Sessions /\ family[auth'[t].session[1]].status # None
          /\ auth'[t].session[2] < MaxGeneration
    BY DEF IInv, Logins, Known
  <2>4. \A t \in Transactions, v \in Workers :
          Exchanging(job[v], t)' => auth'[t].status = "EXCHANGING"
    BY <1>1 DEF IInv, Logins, Exchanging
  <2> QED BY <1>1, <2>1, <2>2, <2>3, <2>4 DEF IInv, Logins, Known
<1> QED BY <1>2, <1>3, <1>4, <1>5 DEF IInv

LEMMA LapseStep ==
  ASSUME IInv, NEW s \in Sessions, Lapse(s)
  PROVE  IInv'
<1>1. auth' = auth /\ lapsed' \subseteq Sessions /\ late' \subseteq Transactions
  BY DEF Lapse, IInv, TypeOK
<1> QED BY <1>1, StillStep DEF Lapse, IInv, TypeOK

LEMMA TransactionLapsesStep ==
  ASSUME IInv, NEW t \in Transactions, TransactionLapses(t)
  PROVE  IInv'
<1>1. auth' = auth /\ lapsed' \subseteq Sessions /\ late' \subseteq Transactions
  BY DEF TransactionLapses, IInv, TypeOK
<1> QED BY <1>1, StillStep DEF TransactionLapses, IInv, TypeOK

\* A transaction begins: a login, or the step-up of a session.
LEMMA TransactionStep ==
  ASSUME IInv, NEW t \in Transactions, NEW s \in Sessions \cup {NoSession},
         auth[t].status = None,
         s # NoSession => Known(s) /\ s[2] < MaxGeneration,
         auth' = [auth EXCEPT ![t] = [status |-> "PENDING", session |-> s]],
         UNCHANGED <<user, invitation, family, session, lapsed, late, job>>
  PROVE  IInv'
<1>1. auth' \in [Transactions ->
                   [status : {"NONE", "PENDING", "EXCHANGING", "SUCCEEDED",
                              "FAILED", "RESULT_UNKNOWN"},
                    session : Sessions \cup {NoSession}]]
  BY DEF IInv, TypeOK
<1>2. auth'[t] = [status |-> "PENDING", session |-> s]
      /\ \A r \in Transactions : r # t => auth'[r] = auth[r]
  BY DEF IInv, TypeOK
<1>3. lapsed' \subseteq Sessions /\ late' \subseteq Transactions
  BY DEF IInv, TypeOK
<1>4. \A r \in Transactions : auth'[r].status # auth[r].status =>
        auth'[r].status # "SUCCEEDED" /\ auth[r].status \notin {"SUCCEEDED", "EXCHANGING"}
  BY <1>2 DEF None
<1>5. \A r \in Transactions : auth'[r].session \notin {auth[r].session, NoSession} =>
        Known(auth'[r].session) /\ auth'[r].session[2] < MaxGeneration
  BY <1>2
<1> QED BY <1>1, <1>3, <1>4, <1>5, StillStep

LEMMA BeginTransactionStep ==
  ASSUME IInv, NEW t \in Transactions,
         BeginLogin(t) \/ \E s \in Sessions : BeginStepUp(t, s)
  PROVE  IInv'
<1>1. CASE BeginLogin(t) BY <1>1, TransactionStep DEF BeginLogin
<1>2. ASSUME NEW s \in Sessions, BeginStepUp(t, s) PROVE IInv'
  BY <1>2, UsableKnown, TransactionStep DEF BeginStepUp
<1> QED BY <1>1, <1>2

\* The request has the callback of this transaction, and nobody else has.
LEMMA CallbackAlone ==
  ASSUME IInv, NEW w \in Workers, job[w].stage \in {"ANSWER", "LOCK"},
         Callback(job[w])
  PROVE  LET t == job[w].transaction IN
         /\ t \in Transactions /\ Exchanging(job[w], t)
         /\ auth[t].status = "EXCHANGING"
         /\ \A v \in Workers \ {w} : ~Exchanging(job[v], t)
<1> DEFINE t == job[w].transaction
<1>1. t \in Transactions BY DEF IInv, Requests, ShapeOK
<1>2. Exchanging(job[w], t) BY DEF Exchanging
<1>3. auth[t].status = "EXCHANGING" BY <1>1, <1>2 DEF IInv, Logins
<1>4. \A v \in Workers \ {w} : ~Exchanging(job[v], t)
  BY <1>1, <1>2 DEF IInv, Logins, OneLoginPerCallback, Exchanging
<1> QED BY <1>1, <1>2, <1>3, <1>4

LEMMA ResolveTypes ==
  ASSUME IInv, NEW t \in Transactions,
         NEW status \in {"EXCHANGING", "FAILED", "RESULT_UNKNOWN"}, Resolve(t, status)
  PROVE  /\ auth' \in [Transactions ->
                      [status : {"NONE", "PENDING", "EXCHANGING", "SUCCEEDED",
                                 "FAILED", "RESULT_UNKNOWN"},
                       session : Sessions \cup {NoSession}]]
         /\ \A r \in Transactions : auth'[r].session = auth[r].session
         /\ auth'[t].status = status
         /\ \A r \in Transactions \ {t} : auth'[r] = auth[r]
         /\ UNCHANGED <<user, invitation, family, session>>
         /\ lapsed' \subseteq Sessions /\ late' \subseteq Transactions
BY DEF Resolve, IInv, TypeOK

\* The callback ends without a login.
LEMMA GiveUpStep ==
  ASSUME IInv, NEW w \in Workers,
         NEW status \in {"FAILED", "RESULT_UNKNOWN"},
         job[w].stage \in {"ANSWER", "LOCK"}, Callback(job[w]),
         SetJob(w, Idle), Resolve(job[w].transaction, status)
  PROVE  IInv'
<1> DEFINE t == job[w].transaction
<1>1. t \in Transactions /\ auth[t].status = "EXCHANGING"
      /\ \A v \in Workers \ {w} : ~Exchanging(job[v], t)
  BY CallbackAlone
<1> HIDE DEF t
<1>2. Resolve(t, status) BY DEF t
<1>3. /\ \A r \in Transactions : auth'[r].session = auth[r].session
      /\ auth'[t].status = status
      /\ \A r \in Transactions \ {t} : auth'[r] = auth[r]
  BY <1>1, <1>2, ResolveTypes
<1>4. \A r \in Transactions :
        auth'[r].status = "SUCCEEDED" <=> auth[r].status = "SUCCEEDED"
  BY <1>1, <1>3
<1>5. \A r \in Transactions : \A v \in Workers \ {w} :
        Exchanging(job[v], r) => auth'[r].status = "EXCHANGING" /\ ~Exchanging(Idle, r)
  BY <1>1, <1>3, IdleOK DEF IInv, Logins
<1> QED BY <1>1, <1>2, <1>4, <1>5, IdleOK, ResolveTypes, AuthStep

LEMMA ProviderErrorStep ==
  ASSUME IInv, NEW w \in Workers, ProviderError(w)
  PROVE  IInv'
<1> DEFINE t == job[w].transaction
<1>1. t \in Transactions BY DEF ProviderError, IInv, Requests, ShapeOK
<1>2. CASE auth[t].status = "PENDING"
  <2> HIDE DEF t
  <2>1. Resolve(t, "FAILED") /\ SetJob(w, Idle) BY <1>2 DEF ProviderError, t
  <2>2. /\ \A r \in Transactions : auth'[r].session = auth[r].session
        /\ auth'[t].status = "FAILED"
        /\ \A r \in Transactions \ {t} : auth'[r] = auth[r]
    BY <1>1, <2>1, ResolveTypes
  <2>3. \A r \in Transactions :
          auth'[r].status = "SUCCEEDED" <=> auth[r].status = "SUCCEEDED"
    BY <1>2, <2>2
  <2>4. \A r \in Transactions : \A v \in Workers \ {w} :
          Exchanging(job[v], r) => auth'[r].status = "EXCHANGING" /\ ~Exchanging(Idle, r)
    BY <1>2, <2>2, IdleOK DEF IInv, Logins
  <2> QED BY <1>1, <2>1, <2>3, <2>4, IdleOK, ResolveTypes, AuthStep
<1>3. CASE auth[t].status # "PENDING" BY <1>3, IdleStep DEF ProviderError
<1> QED BY <1>2, <1>3

LEMMA ClaimStep ==
  ASSUME IInv, NEW w \in Workers, Claim(w)
  PROVE  IInv'
<1> DEFINE t == job[w].transaction
           x == [job[w] EXCEPT !.stage = "ANSWER"]
<1>1. job[w] \in Job /\ ShapeOK(job[w]) /\ RowsOK(job[w]) /\ FactsOK(job[w])
      /\ job[w].stage = "CLAIM"
  BY DEF Claim, IInv, TypeOK, Requests
<1>2. t \in Transactions /\ Callback(job[w]) BY <1>1 DEF ShapeOK
<1>3. CASE auth[t].status = "PENDING" /\ t \notin late
  <2>1. Resolve(t, "EXCHANGING") /\ SetJob(w, x) BY <1>3 DEF Claim
  <2>2. /\ x.kind = job[w].kind /\ x.session = job[w].session
        /\ x.transaction = t /\ x.stage = "ANSWER" /\ x.valid = job[w].valid
        /\ x.held = job[w].held /\ x.todo = job[w].todo
    BY <1>1 DEF Job
  <2>3. x \in Job BY <1>1 DEF Job, Stage
  <2> HIDE DEF x, t
  <2>4. job[w].kind \in {"LOGIN", "STEP_UP"} /\ job[w].held = {} /\ job[w].todo = {}
    BY <1>1, <1>2 DEF ShapeOK, Callback
  <2>5. ShapeOK(x)
    BY <1>1, <1>2, <2>2, <2>4 DEF ShapeOK, Callback, None
  <2>6. RowsOK(x) /\ FactsOK(x) BY <2>2, <2>4 DEF RowsOK, FactsOK
  <2>7. /\ \A r \in Transactions : auth'[r].session = auth[r].session
        /\ auth'[t].status = "EXCHANGING"
        /\ \A r \in Transactions \ {t} : auth'[r] = auth[r]
    BY <1>2, <2>1, ResolveTypes
  <2>8. \A r \in Transactions :
          auth'[r].status = "SUCCEEDED" <=> auth[r].status = "SUCCEEDED"
    BY <1>3, <2>7
  <2>9. \A r \in Transactions : Exchanging(x, r) => r = t BY <2>2 DEF Exchanging
  <2>10. \A v \in Workers, r \in Transactions : Exchanging(job[v], r) =>
           auth[r].status = "EXCHANGING"
    BY DEF IInv, Logins
  <2>11. \A r \in Transactions : \A v \in Workers \ {w} :
           Exchanging(job[v], r) => auth'[r].status = "EXCHANGING" /\ ~Exchanging(x, r)
    BY <1>3, <2>7, <2>9, <2>10
  <2>12. \A r \in Transactions : Exchanging(x, r) => auth'[r].status = "EXCHANGING"
    BY <2>7, <2>9
  <2>13. x.held \subseteq job[w].held BY <2>2
  <2> QED BY <1>2, <2>1, <2>3, <2>5, <2>6, <2>8, <2>11, <2>12, <2>13, ResolveTypes, AuthStep
<1>4. CASE ~(auth[t].status = "PENDING" /\ t \notin late)
  BY <1>4, IdleStep DEF Claim
<1> QED BY <1>3, <1>4

LEMMA ExchangeFailsStep ==
  ASSUME IInv, NEW w \in Workers, NEW status \in {"FAILED", "RESULT_UNKNOWN"},
         ExchangeFails(w, status)
  PROVE  IInv'
<1>1. job[w].stage = "ANSWER" /\ Callback(job[w])
  BY DEF ExchangeFails, IInv, Requests, ShapeOK
<1> QED BY <1>1, GiveUpStep DEF ExchangeFails

LEMMA FailCallbackStep ==
  ASSUME IInv, NEW w \in Workers, FailCallback(w)
  PROVE  IInv'
<1>1. job[w].stage = "LOCK" /\ Callback(job[w]) /\ SetJob(w, Idle)
  BY DEF FailCallback, Commits, Callback
<1> QED BY <1>1, GiveUpStep DEF FailCallback
-----------------------------------------------------------------------------
(* A request commits                                                         *)

\* Every row that a step changes is locked.  A family or a session that comes
\* to be live has the row of its owner locked.
Covered(held) ==
    /\ \A u \in Users : user'[u] = user[u] \/ UserRow(u) \in held
    /\ \A f \in Families :
         /\ family'[f] = family[f] \/ FamilyRow(<<f, 0>>) \in held \/ family[f].status = None
         /\ family[f].status # None =>
              family'[f].status # None /\ family'[f].owner = family[f].owner
         /\ family'[f].status = "ACTIVE" =>
              family[f].status = "ACTIVE" \/ UserRow(family'[f].owner) \in held
    /\ \A s \in Sessions :
         /\ session[s].status # None => session'[s].status # None
         /\ session[s].status = "ACTIVE" =>
              session'[s].status = "ACTIVE" \/ SessionRow(s) \in held
         /\ session'[s].status = "ACTIVE" =>
              session[s].status = "ACTIVE" \/ UserRow(family'[s[1]].owner) \in held

LEMMA OthersStay ==
  ASSUME IInv, NEW w \in Workers, NEW v \in Workers, v # w, job'[v] = job[v],
         Covered(job[w].held)
  PROVE  (ShapeOK(job[v]) /\ RowsOK(job[v]) /\ FactsOK(job[v]))'
<1> DEFINE j == job[v]
<1>1. /\ j \in Job /\ ShapeOK(j) /\ RowsOK(j) /\ FactsOK(j) /\ job'[v] = j
      /\ j.held \cap job[w].held = {}
  BY DEF IInv, TypeOK, Requests, Exclusive
<1>2. \A s : Known(s) =>
        /\ s \in Sessions /\ s[1] \in Families /\ family[s[1]].status # None
        /\ Known(s)' /\ Owner(s)' = Owner(s)
        /\ (FamilyRow(s) \in j.held => family'[s[1]] = family[s[1]])
  <2> SUFFICES ASSUME NEW s, Known(s)
               PROVE  /\ s \in Sessions /\ s[1] \in Families /\ family[s[1]].status # None
                      /\ family'[s[1]].status # None
                      /\ family'[s[1]].owner = family[s[1]].owner
                      /\ (FamilyRow(s) \in j.held => family'[s[1]] = family[s[1]])
    BY DEF Known, Owner
  <2>1. s \in Sessions /\ s[1] \in Families /\ family[s[1]].status # None
    BY Parts DEF Known
  <2>2. FamilyRow(s) = FamilyRow(<<s[1], 0>>) BY <2>1, Pairs
  <2> QED BY <1>1, <2>1, <2>2 DEF Covered
<1>3. \A u \in Users : UserRow(u) \in j.held =>
        /\ user'[u] = user[u]
        /\ ActiveFamilies(u)' \subseteq ActiveFamilies(u)
        /\ ActiveSessions(u)' \subseteq ActiveSessions(u)
  <2> SUFFICES ASSUME NEW u \in Users, UserRow(u) \in j.held
               PROVE  /\ user'[u] = user[u]
                      /\ ActiveFamilies(u)' \subseteq ActiveFamilies(u)
                      /\ ActiveSessions(u)' \subseteq ActiveSessions(u)
    OBVIOUS
  <2>1. UserRow(u) \notin job[w].held BY <1>1
  <2>2. user'[u] = user[u] BY <2>1 DEF Covered
  <2>3. ASSUME NEW f \in Families, family'[f].owner = u, family'[f].status = "ACTIVE"
        PROVE  family[f].owner = u /\ family[f].status = "ACTIVE"
    <3>1. family[f].status = "ACTIVE" BY <2>1, <2>3 DEF Covered
    <3>2. family[f].status # None BY <3>1 DEF None
    <3> QED BY <2>3, <3>1, <3>2 DEF Covered
  <2>4. ASSUME NEW s \in Sessions, family'[s[1]].owner = u, session'[s].status = "ACTIVE"
        PROVE  family[s[1]].owner = u /\ session[s].status = "ACTIVE"
    <3>1. session[s].status = "ACTIVE" BY <2>1, <2>4 DEF Covered
    <3>2. s[1] \in Families /\ family[s[1]].status # None
      BY <3>1, Parts DEF IInv, Accounts, None
    <3> QED BY <2>4, <3>1, <3>2 DEF Covered
  <2> QED BY <2>2, <2>3, <2>4 DEF ActiveFamilies, ActiveSessions, Owner
<1> HIDE DEF j
<1>4. ShapeOK(j)'
  <2>1. (j.kind \notin {None, "LOGIN"} => Known(j.session))
        /\ (j.kind = "REVOKE" => Known(j.target))
    BY <1>1 DEF ShapeOK
  <2>2. j.kind = "ADMIN" =>
          Owner(j.session) \in Admins /\ j.user # Owner(j.session)
          /\ j.user \in Users /\ j.command \in Command
    BY <1>1 DEF ShapeOK
  <2>3. (j.kind \notin {None, "LOGIN"} => Known(j.session)')
        /\ (j.kind = "REVOKE" => Known(j.target)')
    BY <1>1, <1>2, <2>1 DEF j
  <2>4. j.kind = "ADMIN" =>
          Owner(j.session)' \in Admins /\ j.user # Owner(j.session)'
    BY <1>1, <1>2, <2>1, <2>2 DEF j, None
  <2> QED BY <1>1, <2>2, <2>3, <2>4 DEF ShapeOK, Callback, j
<1>5. RowsOK(j)'
  <2>1. j.kind \notin {None, "LOGIN"} => Known(j.session) BY <1>1 DEF ShapeOK
  <2>2. j.stage # None => j.kind # None BY <1>1 DEF ShapeOK
  <2>3. j.kind # None => Rows(j)' = Rows(j)
    <3>1. j.kind \notin {None, "LOGIN"} => Owner(j.session)' = Owner(j.session)
      BY <1>1, <1>2, <2>1 DEF j
    <3>2. CASE j.kind = "LOGIN" BY <1>1, <3>2 DEF Rows, OtherRows, j
    <3>3. CASE j.kind = "STEP_UP" BY <1>1, <3>1, <3>3 DEF Rows, OtherRows, None, j
    <3>4. CASE j.kind = "REVOKE" BY <1>1, <3>1, <3>4 DEF Rows, OtherRows, None, j
    <3>5. CASE j.kind = "REPLAY" BY <1>1, <3>1, <3>5 DEF Rows, OtherRows, None, j
    <3>6. CASE j.kind = "ADMIN" BY <1>1, <3>1, <3>6 DEF Rows, OtherRows, None, j
    <3>7. CASE j.kind = "ACCEPT" BY <1>1, <3>1, <3>7 DEF Rows, OtherRows, None, j
    <3> QED BY <1>1, <3>2, <3>3, <3>4, <3>5, <3>6, <3>7 DEF Job, Kind
  <2>4. j.kind = "ADMIN" /\ j.stage \in {"FAMILIES", "SESSIONS"} =>
          /\ j.user \in Users /\ UserRow(j.user) \in j.held
          /\ ActiveFamilies(j.user)' \subseteq ActiveFamilies(j.user)
          /\ ActiveSessions(j.user)' \subseteq ActiveSessions(j.user)
    <3> SUFFICES ASSUME j.kind = "ADMIN", j.stage \in {"FAMILIES", "SESSIONS"}
                 PROVE  j.user \in Users /\ UserRow(j.user) \in j.held
      BY <1>1, <1>3 DEF j
    <3>1. j.user \in Users BY <1>1 DEF ShapeOK
    <3>2. Rows(j) \subseteq j.held BY <1>1 DEF RowsOK
    <3> QED BY <3>1, <3>2 DEF Rows
  <2>5. (j.stage = "LOCK" => Rows(j) \subseteq j.todo \cup j.held)'
    BY <1>1, <2>2, <2>3 DEF RowsOK, None, j
  <2>6. (j.kind = "ADMIN" /\ j.stage \in {"FAMILIES", "SESSIONS"} =>
           /\ Rows(j) \subseteq j.held
           /\ \A f \in ActiveFamilies(j.user) : FamilyRow(<<f, 0>>) \in j.todo \cup j.held)'
    BY <1>1, <2>3, <2>4 DEF RowsOK, None, FamilyRow, j
  <2>7. (j.kind = "ADMIN" /\ j.stage = "SESSIONS" =>
           /\ \A f \in ActiveFamilies(j.user) : FamilyRow(<<f, 0>>) \in j.held
           /\ \A s \in ActiveSessions(j.user) : SessionRow(s) \in j.todo \cup j.held)'
    BY <1>1, <2>4 DEF RowsOK, FamilyRow, SessionRow, j
  <2>8. (j.kind = "REPLAY" /\ j.stage = "SESSIONS" =>
           /\ FamilyRow(j.session) \in j.held
           /\ j.target = <<j.session[1], family[j.session[1]].generation>>
           /\ j.target \in Sessions /\ session[j.target].status # None
           /\ SessionRow(j.target) \in j.todo \cup j.held)'
    BY <1>1, <1>2, <2>1 DEF RowsOK, None, FamilyRow, SessionRow, Covered, j
  <2> QED BY <2>5, <2>6, <2>7, <2>8 DEF RowsOK, j
<1>6. FactsOK(j)'
  <2> SUFFICES ASSUME j'.valid PROVE FactsOK(j)' BY DEF FactsOK, j
  <2>0. j' = j BY <1>1 DEF j
  <2>1. \A u \in Users :
           UserRow(u) \in j.held /\ ~(j.kind = "ADMIN" /\ u = j.user) =>
             user'[u] = "ACTIVE" \/ (j.kind = "ACCEPT" /\ user'[u] = "PENDING_ENROLLMENT")
    BY <1>1, <1>3, <2>0 DEF FactsOK
  <2>2. j.kind \in {"STEP_UP", "ADMIN", "ACCEPT"} /\ FamilyRow(j.session) \in j.held
           => Current(j.session)'
    <3> SUFFICES ASSUME j.kind \in {"STEP_UP", "ADMIN", "ACCEPT"},
                        FamilyRow(j.session) \in j.held
                 PROVE  /\ family'[j.session[1]].status = "ACTIVE"
                        /\ family'[j.session[1]].generation = j.session[2]
      BY <2>0 DEF Current
    <3>1. Known(j.session) BY <1>1 DEF ShapeOK, None
    <3>2. family'[j.session[1]] = family[j.session[1]] BY <1>2, <3>1
    <3>3. Current(j.session) BY <1>1, <2>0 DEF FactsOK
    <3> QED BY <3>2, <3>3 DEF Current
  <2>3. NeedsLive(j) /\ SessionRow(j.session) \in j.held
           => session'[j.session].status = "ACTIVE"
    <3> SUFFICES ASSUME NeedsLive(j), SessionRow(j.session) \in j.held
                 PROVE  session'[j.session].status = "ACTIVE"
      OBVIOUS
    <3>1. j.session \in Sessions BY <1>1 DEF ShapeOK, NeedsLive, Known, None
    <3>2. session[j.session].status = "ACTIVE" BY <1>1, <2>0 DEF FactsOK
    <3> QED BY <1>1, <3>1, <3>2 DEF Covered
  <2> QED BY <2>0, <2>1, <2>2, <2>3 DEF FactsOK, NeedsLive, UserRow, FamilyRow, SessionRow
<1> QED BY <1>4, <1>5, <1>6 DEF j

LEMMA CommitStep ==
  ASSUME IInv, NEW w \in Workers, SetJob(w, Idle), Covered(job[w].held),
         UNCHANGED <<lapsed, late>>,
         user' \in [Users -> {"PENDING_ENROLLMENT", "ACTIVE", "SUSPENDED"}],
         invitation' \in [Users -> {"NONE", "ISSUED", "ACCEPTED"}],
         family' \in [Families -> [owner : Users \cup {0},
                                   status : {"NONE", "ACTIVE", "REVOKED"},
                                   generation : 0 .. MaxGeneration]],
         session' \in [Sessions -> [status : {"NONE", "ACTIVE", "REVOKED", "EXPIRED"},
                                    origin : Transactions \cup {0}]],
         auth' \in [Transactions ->
                      [status : {"NONE", "PENDING", "EXCHANGING", "SUCCEEDED",
                                 "FAILED", "RESULT_UNKNOWN"},
                       session : Sessions \cup {NoSession}]],
         Accounts', Logins'
  PROVE  IInv'
<1>1. job' \in [Workers -> Job] /\ job'[w] = Idle
      /\ \A v \in Workers : v # w => job'[v] = job[v]
  BY IdleOK DEF SetJob, IInv, TypeOK
<1>2. TypeOK' BY <1>1 DEF IInv, TypeOK
<1>3. \A v \in Workers : (ShapeOK(job[v]) /\ RowsOK(job[v]) /\ FactsOK(job[v]))'
  <2> SUFFICES ASSUME NEW v \in Workers
               PROVE  (ShapeOK(job[v]) /\ RowsOK(job[v]) /\ FactsOK(job[v]))'
    OBVIOUS
  <2>1. CASE v # w BY <1>1, <2>1, OthersStay
  <2>2. CASE v = w
    <3>1. job'[v] = Idle BY <1>1, <2>2
    <3>2. ShapeOK(job[v])' BY <3>1 DEF Idle, ShapeOK, Callback, None
    <3>3. RowsOK(job[v])' BY <3>1 DEF Idle, RowsOK, None
    <3>4. FactsOK(job[v])' BY <3>1 DEF Idle, FactsOK, None
    <3> QED BY <3>2, <3>3, <3>4
  <2> QED BY <2>1, <2>2
<1>4. Exclusive' BY <1>1, IdleOK DEF IInv, Requests, Exclusive
<1> QED BY <1>2, <1>3, <1>4 DEF IInv, Requests

\* The step makes no login.
LEMMA LoginsStay ==
  ASSUME IInv, NEW w \in Workers, SetJob(w, Idle), UNCHANGED auth,
         \A s \in Sessions : /\ session'[s].origin = session[s].origin
                             /\ session'[s].status = None => session[s].status = None,
         \A f \in Families : family[f].status # None <=> family'[f].status # None
  PROVE  Logins'
<1>1. job'[w] = Idle /\ \A v \in Workers : v # w => job'[v] = job[v]
  BY DEF SetJob, IInv, TypeOK
<1>2. \A v \in Workers, t \in Transactions : Exchanging(job[v], t)' => Exchanging(job[v], t)
  BY <1>1, IdleOK DEF Exchanging
<1>3. OneLoginPerCallback'
  BY <1>2 DEF IInv, Logins, OneLoginPerCallback, Exchanging
<1>4. \A s \in Sessions : Known(s) => Known(s)' BY Parts DEF Known
<1>5. \A t \in Transactions :
        auth'[t].session # NoSession =>
          Known(auth[t].session)' /\ auth'[t].session[2] < MaxGeneration
  BY <1>4 DEF IInv, Logins, Known
<1>6. \A t \in Transactions : family'[t].status # None => auth'[t].status = "SUCCEEDED"
  BY Names DEF IInv, Logins
<1> QED BY <1>2, <1>3, <1>5, <1>6 DEF IInv, Logins

\* The step makes the session s of the transaction t.
LEMMA LoginMade ==
  ASSUME IInv, NEW w \in Workers, SetJob(w, Idle), NEW n \in Sessions,
         job[w].stage = "LOCK", Callback(job[w]),
         auth' = [auth EXCEPT ![job[w].transaction].status = "SUCCEEDED"],
         session[n].status = None,
         session'[n].origin = job[w].transaction, session'[n].status = "ACTIVE",
         \A s \in Sessions \ {n} :
           /\ session'[s].origin = session[s].origin
           /\ session'[s].status = None => session[s].status = None,
         \A f \in Families \ {job[w].transaction} :
           family[f].status # None <=> family'[f].status # None,
         family[job[w].transaction].status # None =>
           family'[job[w].transaction].status # None
  PROVE  Logins'
<1> DEFINE t == job[w].transaction
<1>1. job'[w] = Idle /\ \A v \in Workers : v # w => job'[v] = job[v]
  BY DEF SetJob, IInv, TypeOK
<1>2. t \in Transactions /\ auth[t].status = "EXCHANGING" /\ t # 0
      /\ \A v \in Workers \ {w} : ~Exchanging(job[v], t)
  BY CallbackAlone, Names
<1>3. /\ auth'[t].status = "SUCCEEDED" /\ auth'[t].session = auth[t].session
      /\ \A r \in Transactions : r # t => auth'[r] = auth[r]
  BY <1>2 DEF IInv, TypeOK
<1> HIDE DEF t
<1>4. \A v \in Workers, r \in Transactions :
        Exchanging(job[v], r)' => Exchanging(job[v], r) /\ r # t
  BY <1>1, <1>2, IdleOK DEF Exchanging
<1>5. \A s \in Sessions : session[s].origin # t
  BY <1>2 DEF IInv, Logins, OneLoginPerCallback
<1>6. session[n].origin = 0 BY DEF IInv, Logins
<1>7. OneLoginPerCallback'
  <2> SUFFICES ASSUME NEW r \in Transactions
               PROVE  /\ \A v1, v2 \in Workers :
                           Exchanging(job[v1], r)' /\ Exchanging(job[v2], r)' => v1 = v2
                      /\ \A s1, s2 \in Sessions :
                           session'[s1].origin = r /\ session'[s2].origin = r => s1 = s2
                      /\ auth'[r].status = "SUCCEEDED"
                           <=> \E s \in Sessions : session'[s].origin = r
    BY DEF OneLoginPerCallback, Exchanging
  <2>1. /\ \A v1, v2 \in Workers :
             Exchanging(job[v1], r) /\ Exchanging(job[v2], r) => v1 = v2
        /\ \A s1, s2 \in Sessions :
             session[s1].origin = r /\ session[s2].origin = r => s1 = s2
        /\ auth[r].status = "SUCCEEDED" <=> \E s \in Sessions : session[s].origin = r
    BY DEF IInv, Logins, OneLoginPerCallback, Exchanging
  <2>2. \A v1, v2 \in Workers :
          Exchanging(job[v1], r)' /\ Exchanging(job[v2], r)' => v1 = v2
    BY <1>4, <2>1
  <2>3. r # 0 BY Names
  <2>4. session'[n].origin = t BY DEF t
  <2>5. CASE r = t
    BY <1>3, <1>5, <2>2, <2>4, <2>5
  <2>6. CASE r # t
    <3>1. auth'[r] = auth[r] BY <1>3, <2>6
    <3>2. \A s \in Sessions : session'[s].origin = r <=> session[s].origin = r
      BY <1>6, <2>3, <2>4, <2>6
    <3> QED BY <2>1, <2>2, <3>1, <3>2
  <2> QED BY <2>5, <2>6
<1>8. \A f \in Families : family[f].status # None => family'[f].status # None
  BY DEF t
<1>9. \A s \in Sessions : Known(s) => Known(s)' BY <1>8, Parts DEF Known
<1>10. \A r \in Transactions :
        auth'[r].session # NoSession =>
          /\ auth'[r].session \in Sessions
          /\ family'[auth'[r].session[1]].status # None
          /\ auth'[r].session[2] < MaxGeneration
  <2> SUFFICES ASSUME NEW r \in Transactions, auth'[r].session # NoSession
               PROVE  /\ auth'[r].session \in Sessions
                      /\ family'[auth'[r].session[1]].status # None
                      /\ auth'[r].session[2] < MaxGeneration
    OBVIOUS
  <2>1. auth'[r].session = auth[r].session BY <1>3
  <2>2. Known(auth[r].session) /\ auth[r].session[2] < MaxGeneration
    BY <2>1 DEF IInv, Logins
  <2>3. auth[r].session \in Sessions /\ family'[auth[r].session[1]].status # None
    BY <1>8, <2>2, Parts DEF Known
  <2> QED BY <2>1, <2>2, <2>3
<1>11. \A r \in Transactions : family'[r].status # None => auth'[r].status = "SUCCEEDED"
  BY <1>3, Names DEF IInv, Logins, t
<1>12. \A s \in Sessions : session'[s].status = None => session'[s].origin = 0
  BY DEF IInv, Logins, None
<1>13. \A v \in Workers, r \in Transactions :
         Exchanging(job[v], r)' => auth'[r].status = "EXCHANGING"
  BY <1>3, <1>4 DEF IInv, Logins
<1> QED BY <1>7, <1>10, <1>11, <1>12, <1>13 DEF Logins, Known

\* What a request knows when it commits.
LEMMA Locked ==
  ASSUME IInv, NEW w \in Workers, job[w].stage = "LOCK", job[w].todo = {}
  PROVE  /\ job[w] \in Job /\ ShapeOK(job[w]) /\ FactsOK(job[w])
         /\ Rows(job[w]) \subseteq job[w].held
BY DEF IInv, TypeOK, Requests, RowsOK

\* A live session of a live family is succeeded by one of the next generation.
LEMMA RotateStep ==
  ASSUME IInv, NEW s \in Sessions, NEW t \in Transactions \cup {0}, Rotate(s, t),
         Current(s), session[s].status = "ACTIVE", s[2] < MaxGeneration,
         user' \in [Users -> {"PENDING_ENROLLMENT", "ACTIVE", "SUSPENDED"}],
         \A u \in Users : user'[u] = "SUSPENDED" => user[u] = "SUSPENDED",
         user'[Owner(s)] # "SUSPENDED", AdminRemains'
  PROVE  LET n == <<s[1], s[2] + 1>> IN
         /\ Accounts'
         /\ n \in Sessions /\ n # s /\ session[n].status = None
         /\ session'[n] = [status |-> "ACTIVE", origin |-> t]
         /\ session'[s].status = "REVOKED" /\ session'[s].origin = session[s].origin
         /\ \A x \in Sessions \ {s, n} : session'[x] = session[x]
         /\ session' \in [Sessions -> [status : {"NONE", "ACTIVE", "REVOKED", "EXPIRED"},
                                       origin : Transactions \cup {0}]]
         /\ family' \in [Families -> [owner : Users \cup {0},
                                      status : {"NONE", "ACTIVE", "REVOKED"},
                                      generation : 0 .. MaxGeneration]]
         /\ \A f \in Families : family'[f].status = family[f].status
                                /\ family'[f].owner = family[f].owner
         /\ \A f \in Families \ {s[1]} : family'[f] = family[f]
<1> DEFINE n == <<s[1], s[2] + 1>>
           f0 == s[1]
<1>1. f0 \in Families /\ s[2] \in 1 .. MaxGeneration BY Parts
<1>2. s[2] + 1 \in 1 .. MaxGeneration /\ s[2] + 1 # s[2] BY <1>1, Names
<1>3. n \in Sessions BY <1>1, <1>2, Pairs
<1>4. n[1] = f0 /\ n[2] = s[2] + 1 OBVIOUS
<1>5. n # s BY <1>2, <1>4
<1>6. family \in [Families -> [owner : Users \cup {0},
                               status : {"NONE", "ACTIVE", "REVOKED"},
                               generation : 0 .. MaxGeneration]]
      /\ session \in [Sessions -> [status : {"NONE", "ACTIVE", "REVOKED", "EXPIRED"},
                                   origin : Transactions \cup {0}]]
  BY DEF IInv, TypeOK
<1>7. family[f0].status = "ACTIVE" /\ family[f0].generation = s[2] BY DEF Current
<1>8. session[n].status = None
  <2>1. ~(n[2] <= family[n[1]].generation) BY <1>1, <1>4, <1>7, Names
  <2> QED BY <1>3, <2>1 DEF IInv, Accounts
<1> HIDE DEF n
<1>9. /\ session' = [session EXCEPT ![s].status = "REVOKED",
                                    ![n] = [status |-> "ACTIVE", origin |-> t]]
      /\ family' = [family EXCEPT ![f0].generation = s[2] + 1]
  BY DEF Rotate, n
<1>10. /\ session'[n] = [status |-> "ACTIVE", origin |-> t]
       /\ session'[s].status = "REVOKED" /\ session'[s].origin = session[s].origin
       /\ \A x \in Sessions \ {s, n} : session'[x] = session[x]
  BY <1>3, <1>5, <1>6, <1>9
<1>11. session' \in [Sessions -> [status : {"NONE", "ACTIVE", "REVOKED", "EXPIRED"},
                                  origin : Transactions \cup {0}]]
  BY <1>6, <1>9
<1>12. s[2] + 1 \in 0 .. MaxGeneration BY <1>1, <1>2, Names
<1>13. /\ family' \in [Families -> [owner : Users \cup {0},
                                    status : {"NONE", "ACTIVE", "REVOKED"},
                                    generation : 0 .. MaxGeneration]]
       /\ family'[f0].generation = s[2] + 1
       /\ \A f \in Families : family'[f].status = family[f].status
                              /\ family'[f].owner = family[f].owner
       /\ \A f \in Families \ {f0} : family'[f] = family[f]
  BY <1>1, <1>6, <1>9, <1>12
<1> HIDE DEF f0
<1>14. Accounts'
  <2>1. \A x \in Sessions : x[1] = f0 /\ session[x].status = "ACTIVE" => x = s
    <3> SUFFICES ASSUME NEW x \in Sessions, x[1] = f0, session[x].status = "ACTIVE"
                 PROVE  x = s
      OBVIOUS
    <3>1. Current(x) BY DEF IInv, Accounts, OneLiveSession
    <3>2. x[1] = s[1] /\ x[2] = s[2] BY <1>7, <3>1 DEF Current, f0
    <3> QED BY <3>2, Pairs
  <2>2. OneLiveSession'
    <3> SUFFICES ASSUME NEW x \in Sessions, session'[x].status = "ACTIVE"
                 PROVE  family'[x[1]].status = "ACTIVE" /\ family'[x[1]].generation = x[2]
      BY DEF OneLiveSession, Current
    <3>1. CASE x = n BY <1>1, <1>4, <1>7, <1>13, <3>1
    <3>2. CASE x # n
      <4>1. x # s BY <1>10
      <4>2. session[x].status = "ACTIVE" BY <1>10, <3>2, <4>1
      <4>3. x[1] # f0 BY <2>1, <4>1, <4>2
      <4>4. Current(x) BY <4>2 DEF IInv, Accounts, OneLiveSession
      <4> QED BY <1>13, <4>3, <4>4, Parts DEF Current
    <3> QED BY <3>1, <3>2
  <2>3. SuspendedLockedOut'
    <3> SUFFICES ASSUME NEW u \in Users, user'[u] = "SUSPENDED"
                 PROVE  ActiveFamilies(u)' = {} /\ ActiveSessions(u)' = {}
      BY DEF SuspendedLockedOut
    <3>1. ActiveFamilies(u) = {} /\ ActiveSessions(u) = {}
      BY DEF IInv, Accounts, SuspendedLockedOut
    <3>2. ActiveFamilies(u)' = {} BY <1>13, <3>1 DEF ActiveFamilies
    <3>3. ASSUME NEW x \in Sessions, family'[x[1]].owner = u, session'[x].status = "ACTIVE"
          PROVE  FALSE
      <4>1. x[1] \in Families BY Parts
      <4>2. family[x[1]].owner = u BY <1>13, <3>3, <4>1
      <4>3. x # s BY <1>10, <3>3
      <4>4. CASE x = n BY <1>4, <4>2, <4>4 DEF Owner, f0
      <4>5. CASE x # n
        BY <1>10, <3>1, <3>3, <4>2, <4>3, <4>5 DEF ActiveSessions, Owner
      <4> QED BY <4>4, <4>5
    <3> QED BY <3>2, <3>3 DEF ActiveSessions, Owner
  <2>4. \A x \in Sessions : session'[x].status # None =>
          family'[x[1]].status # None /\ x[2] <= family'[x[1]].generation
    <3> SUFFICES ASSUME NEW x \in Sessions, session'[x].status # None
                 PROVE  family'[x[1]].status # None /\ x[2] <= family'[x[1]].generation
      OBVIOUS
    <3>1. x[1] \in Families /\ x[2] \in 1 .. MaxGeneration BY Parts
    <3>2. CASE x = n BY <1>1, <1>4, <1>7, <1>13, <3>2, Names DEF None
    <3>3. CASE x # n
      <4>1. session[x].status # None
        <5>1. CASE x = s BY <5>1 DEF None
        <5>2. CASE x # s BY <1>10, <3>3, <5>2
        <5> QED BY <5>1, <5>2
      <4>2. family[x[1]].status # None /\ x[2] <= family[x[1]].generation
        BY <4>1 DEF IInv, Accounts
      <4>3. CASE x[1] = f0
        <5>1. x[2] <= s[2] BY <1>7, <4>2, <4>3
        <5>2. x[2] <= s[2] + 1 BY <1>1, <3>1, <5>1, Names
        <5> QED BY <1>1, <1>13, <4>2, <4>3, <5>2
      <4>4. CASE x[1] # f0 BY <1>13, <3>1, <4>2, <4>4
      <4> QED BY <4>3, <4>4
    <3> QED BY <3>2, <3>3
  <2>5. \A f \in Families : family'[f].status # None =>
          family'[f].owner \in Users /\ family'[f].generation \in 1 .. MaxGeneration
    BY <1>2, <1>13 DEF IInv, Accounts
  <2> QED BY <2>2, <2>3, <2>4, <2>5 DEF Accounts
<1> QED BY <1>3, <1>5, <1>8, <1>10, <1>11, <1>13, <1>14 DEF n, f0

LEMMA FinishStepUpStep ==
  ASSUME IInv, NEW w \in Workers, FinishStepUp(w)
  PROVE  IInv'
<1> DEFINE j == job[w]
           s == j.session
           t == j.transaction
           n == <<s[1], s[2] + 1>>
<1>1. j.kind = "STEP_UP" /\ j.stage = "LOCK" /\ j.todo = {} /\ j.valid
      /\ Rotate(s, t) /\ SetJob(w, Idle)
      /\ auth' = [auth EXCEPT ![t].status = "SUCCEEDED"]
      /\ UNCHANGED user /\ UNCHANGED invitation /\ UNCHANGED <<lapsed, late>>
  BY DEF FinishStepUp, Commits
<1>2. ShapeOK(j) /\ FactsOK(j) /\ Rows(j) \subseteq j.held BY <1>1, Locked
<1>3. Known(s) /\ s \in Sessions /\ s[1] \in Families /\ s[2] < MaxGeneration
      /\ t \in Transactions
  BY <1>1, <1>2, Parts DEF ShapeOK, Callback, Known, None
<1>4. FamilyRow(s) \in j.held /\ SessionRow(s) \in j.held /\ UserRow(Owner(s)) \in j.held
  BY <1>1, <1>2 DEF Rows, OtherRows
<1>5. Owner(s) \in Users BY <1>3 DEF Known, Owner, IInv, Accounts
<1>6. Current(s) /\ session[s].status = "ACTIVE" /\ user[Owner(s)] = "ACTIVE"
  BY <1>1, <1>2, <1>4, <1>5 DEF FactsOK, NeedsLive
<1>7. AdminRemains' BY <1>1 DEF IInv, Accounts, AdminRemains
<1> HIDE DEF n, s, t, j
<1>8. /\ Accounts'
      /\ n \in Sessions /\ n # s /\ session[n].status = None
      /\ session'[n] = [status |-> "ACTIVE", origin |-> t]
      /\ session'[s].status = "REVOKED" /\ session'[s].origin = session[s].origin
      /\ \A x \in Sessions \ {s, n} : session'[x] = session[x]
      /\ session' \in [Sessions -> [status : {"NONE", "ACTIVE", "REVOKED", "EXPIRED"},
                                    origin : Transactions \cup {0}]]
      /\ family' \in [Families -> [owner : Users \cup {0},
                                   status : {"NONE", "ACTIVE", "REVOKED"},
                                   generation : 0 .. MaxGeneration]]
      /\ \A f \in Families : family'[f].status = family[f].status
                             /\ family'[f].owner = family[f].owner
      /\ \A f \in Families \ {s[1]} : family'[f] = family[f]
  <2>1. user' \in [Users -> {"PENDING_ENROLLMENT", "ACTIVE", "SUSPENDED"}]
        /\ user'[Owner(s)] # "SUSPENDED"
        /\ \A u \in Users : user'[u] = "SUSPENDED" => user[u] = "SUSPENDED"
    BY <1>1, <1>6 DEF IInv, TypeOK
  <2>2. t \in Transactions \cup {0} BY <1>3
  <2> QED BY <1>1, <1>3, <1>6, <1>7, <2>1, <2>2, RotateStep DEF n
<1>9. n[1] = s[1] BY DEF n
<1>10. Covered(j.held)
  <2>1. FamilyRow(s) = FamilyRow(<<s[1], 0>>) BY <1>3, Pairs
  <2>2. \A f \in Families : family'[f] = family[f] \/ FamilyRow(<<f, 0>>) \in j.held
    BY <1>4, <1>8, <2>1
  <2>3. \A x \in Sessions :
          /\ session[x].status # None => session'[x].status # None
          /\ session[x].status = "ACTIVE" =>
               session'[x].status = "ACTIVE" \/ SessionRow(x) \in j.held
          /\ session'[x].status = "ACTIVE" =>
               session[x].status = "ACTIVE" \/ x = n
    <3> SUFFICES ASSUME NEW x \in Sessions
                 PROVE  /\ session[x].status # None => session'[x].status # None
                        /\ session[x].status = "ACTIVE" =>
                             session'[x].status = "ACTIVE" \/ SessionRow(x) \in j.held
                        /\ session'[x].status = "ACTIVE" =>
                             session[x].status = "ACTIVE" \/ x = n
      OBVIOUS
    <3>1. CASE x = s BY <1>4, <1>8, <3>1 DEF None
    <3>2. CASE x = n BY <1>8, <3>2 DEF None
    <3>3. CASE x \notin {s, n} BY <1>8, <3>3
    <3> QED BY <3>1, <3>2, <3>3
  <2>4. family'[n[1]].owner = Owner(s) BY <1>3, <1>8, <1>9 DEF Owner
  <2> QED BY <1>1, <1>4, <1>8, <2>2, <2>3, <2>4 DEF Covered
<1>11. Logins'
  <2>1. \A x \in Sessions \ {n} :
          /\ session'[x].origin = session[x].origin
          /\ session'[x].status = None => session[x].status = None
    <3> SUFFICES ASSUME NEW x \in Sessions \ {n}
                 PROVE  /\ session'[x].origin = session[x].origin
                        /\ session'[x].status = None => session[x].status = None
      OBVIOUS
    <3>1. CASE x = s BY <1>8, <3>1 DEF None
    <3>2. CASE x # s BY <1>8, <3>2
    <3> QED BY <3>1, <3>2
  <2>2. t \in Families BY <1>3, Names
  <2>3. Callback(job[w]) BY <1>1 DEF Callback, j
  <2>4. session'[n].origin = t /\ session'[n].status = "ACTIVE" BY <1>8
  <2>5. \A f \in Families : family[f].status # None <=> family'[f].status # None
    BY <1>8
  <2>6. t = job[w].transaction /\ j = job[w] BY DEF t, j
  <2>7. SetJob(w, Idle) /\ job[w].stage = "LOCK" /\ n \in Sessions
        /\ session[n].status = None
        /\ auth' = [auth EXCEPT ![t].status = "SUCCEEDED"]
    BY <1>1, <1>8, <2>6
  <2> QED BY <2>1, <2>2, <2>3, <2>4, <2>5, <2>6, <2>7, LoginMade
<1>12. auth' \in [Transactions ->
                    [status : {"NONE", "PENDING", "EXCHANGING", "SUCCEEDED",
                               "FAILED", "RESULT_UNKNOWN"},
                     session : Sessions \cup {NoSession}]]
  BY <1>1, <1>3 DEF IInv, TypeOK
<1>13. user' \in [Users -> {"PENDING_ENROLLMENT", "ACTIVE", "SUSPENDED"}]
       /\ invitation' \in [Users -> {"NONE", "ISSUED", "ACCEPTED"}]
  BY <1>1 DEF IInv, TypeOK
<1> QED BY <1>1, <1>8, <1>10, <1>11, <1>12, <1>13, CommitStep DEF j

LEMMA FinishAcceptStep ==
  ASSUME IInv, NEW w \in Workers, FinishAccept(w)
  PROVE  IInv'
<1> DEFINE j == job[w]
           s == j.session
           n == <<s[1], s[2] + 1>>
<1>1. j.kind = "ACCEPT" /\ j.stage = "LOCK" /\ j.todo = {}
      /\ Rotate(s, 0) /\ SetJob(w, Idle)
      /\ user' = [user EXCEPT ![Owner(s)] = "ACTIVE"]
      /\ invitation' = [invitation EXCEPT ![Owner(s)] = "ACCEPTED"]
      /\ UNCHANGED auth /\ UNCHANGED <<lapsed, late>>
  BY DEF FinishAccept, Commits
<1>2. ShapeOK(j) /\ FactsOK(j) /\ Rows(j) \subseteq j.held /\ j.valid
  BY <1>1, Locked DEF ShapeOK, Callback
<1>3. Known(s) /\ s \in Sessions /\ s[1] \in Families /\ s[2] < MaxGeneration
  BY <1>1, <1>2, Parts DEF ShapeOK, Known, None
<1>4. FamilyRow(s) \in j.held /\ SessionRow(s) \in j.held /\ UserRow(Owner(s)) \in j.held
  BY <1>1, <1>2 DEF Rows, OtherRows
<1>5. Owner(s) \in Users BY <1>3 DEF Known, Owner, IInv, Accounts
<1>6. Current(s) /\ session[s].status = "ACTIVE"
  BY <1>1, <1>2, <1>4 DEF FactsOK, NeedsLive
<1>7. user' \in [Users -> {"PENDING_ENROLLMENT", "ACTIVE", "SUSPENDED"}]
      /\ user'[Owner(s)] = "ACTIVE"
      /\ (\A u \in Users : u # Owner(s) => user'[u] = user[u])
      /\ invitation' \in [Users -> {"NONE", "ISSUED", "ACCEPTED"}]
  <2> HIDE DEF s
  <2> QED BY <1>1, <1>5 DEF IInv, TypeOK
<1>8. AdminRemains'
  <2> HIDE DEF s
  <2> QED BY <1>7, Names DEF IInv, Accounts, AdminRemains
<1> HIDE DEF n, s, j
<1>9. /\ Accounts'
      /\ n \in Sessions /\ n # s /\ session[n].status = None
      /\ session'[n] = [status |-> "ACTIVE", origin |-> 0]
      /\ session'[s].status = "REVOKED" /\ session'[s].origin = session[s].origin
      /\ \A x \in Sessions \ {s, n} : session'[x] = session[x]
      /\ session' \in [Sessions -> [status : {"NONE", "ACTIVE", "REVOKED", "EXPIRED"},
                                    origin : Transactions \cup {0}]]
      /\ family' \in [Families -> [owner : Users \cup {0},
                                   status : {"NONE", "ACTIVE", "REVOKED"},
                                   generation : 0 .. MaxGeneration]]
      /\ \A f \in Families : family'[f].status = family[f].status
                             /\ family'[f].owner = family[f].owner
      /\ \A f \in Families \ {s[1]} : family'[f] = family[f]
  <2>1. user'[Owner(s)] # "SUSPENDED"
        /\ \A u \in Users : user'[u] = "SUSPENDED" => user[u] = "SUSPENDED"
    BY <1>7
  <2>2. 0 \in Transactions \cup {0} OBVIOUS
  <2> QED BY <1>1, <1>3, <1>6, <1>7, <1>8, <2>1, <2>2, RotateStep DEF n
<1>10. n[1] = s[1] BY DEF n
<1>11. Covered(j.held)
  <2>1. FamilyRow(s) = FamilyRow(<<s[1], 0>>) BY <1>3, Pairs
  <2>2. \A f \in Families : family'[f] = family[f] \/ FamilyRow(<<f, 0>>) \in j.held
    BY <1>4, <1>9, <2>1
  <2>3. \A x \in Sessions :
          /\ session[x].status # None => session'[x].status # None
          /\ session[x].status = "ACTIVE" =>
               session'[x].status = "ACTIVE" \/ SessionRow(x) \in j.held
          /\ session'[x].status = "ACTIVE" =>
               session[x].status = "ACTIVE" \/ x = n
    <3> SUFFICES ASSUME NEW x \in Sessions
                 PROVE  /\ session[x].status # None => session'[x].status # None
                        /\ session[x].status = "ACTIVE" =>
                             session'[x].status = "ACTIVE" \/ SessionRow(x) \in j.held
                        /\ session'[x].status = "ACTIVE" =>
                             session[x].status = "ACTIVE" \/ x = n
      OBVIOUS
    <3>1. CASE x = s BY <1>4, <1>9, <3>1 DEF None
    <3>2. CASE x = n BY <1>9, <3>2 DEF None
    <3>3. CASE x \notin {s, n} BY <1>9, <3>3
    <3> QED BY <3>1, <3>2, <3>3
  <2>4. family'[n[1]].owner = Owner(s) BY <1>3, <1>9, <1>10 DEF Owner
  <2>5. \A u \in Users : user'[u] = user[u] \/ UserRow(u) \in j.held BY <1>4, <1>7
  <2> QED BY <1>4, <1>9, <2>2, <2>3, <2>4, <2>5 DEF Covered
<1>12. Logins'
  <2>1. session[n].origin = 0 BY <1>9 DEF IInv, Logins
  <2>2. \A x \in Sessions :
          /\ session'[x].origin = session[x].origin
          /\ session'[x].status = None => session[x].status = None
    <3> SUFFICES ASSUME NEW x \in Sessions
                 PROVE  /\ session'[x].origin = session[x].origin
                        /\ session'[x].status = None => session[x].status = None
      OBVIOUS
    <3>1. CASE x = s BY <1>9, <3>1 DEF None
    <3>2. CASE x = n BY <1>9, <2>1, <3>2
    <3>3. CASE x \notin {s, n} BY <1>9, <3>3
    <3> QED BY <3>1, <3>2, <3>3
  <2> QED BY <1>1, <1>9, <2>2, LoginsStay
<1>13. auth' \in [Transactions ->
                    [status : {"NONE", "PENDING", "EXCHANGING", "SUCCEEDED",
                               "FAILED", "RESULT_UNKNOWN"},
                     session : Sessions \cup {NoSession}]]
  BY <1>1 DEF IInv, TypeOK
<1> QED BY <1>1, <1>7, <1>9, <1>11, <1>12, <1>13, CommitStep DEF j

LEMMA FinishLoginStep ==
  ASSUME IInv, NEW w \in Workers, FinishLogin(w)
  PROVE  IInv'
<1> DEFINE j == job[w]
           u == j.user
           t == j.transaction
           n == <<t, 1>>
<1>1. j.kind = "LOGIN" /\ j.stage = "LOCK" /\ j.todo = {} /\ j.valid
      /\ family' = [family EXCEPT ![t] = [owner |-> u, status |-> "ACTIVE",
                                          generation |-> 1]]
      /\ session' = [session EXCEPT ![n] = [status |-> "ACTIVE", origin |-> t]]
      /\ auth' = [auth EXCEPT ![t].status = "SUCCEEDED"]
      /\ SetJob(w, Idle) /\ UNCHANGED user /\ UNCHANGED invitation
      /\ UNCHANGED <<lapsed, late>>
  BY DEF FinishLogin, Commits
<1>2. ShapeOK(j) /\ FactsOK(j) /\ Rows(j) \subseteq j.held BY <1>1, Locked
<1>3. u \in Users /\ t \in Transactions /\ t \in Families /\ u \in Families
  BY <1>1, <1>2, Names DEF ShapeOK, Callback
<1>4. UserRow(u) \in j.held BY <1>1, <1>2 DEF Rows, OtherRows
<1>5. user[u] = "ACTIVE" BY <1>1, <1>2, <1>3, <1>4 DEF FactsOK
<1>6. auth[t].status = "EXCHANGING" BY <1>1, CallbackAlone DEF Callback
<1>7. family[t].status = None BY <1>3, <1>6 DEF IInv, Logins
<1>8. \A x \in Sessions : x[1] = t => session[x].status = None
  BY <1>7 DEF IInv, Accounts
<1>9. 1 \in 1 .. MaxGeneration /\ 1 \in 0 .. MaxGeneration BY Names
<1>10. n \in Sessions BY <1>3, <1>9, Pairs
<1>11. n[1] = t /\ n[2] = 1 OBVIOUS
<1> HIDE DEF n, t, u, j
<1>12. session[n].status = None BY <1>8, <1>10, <1>11
<1>13. family \in [Families -> [owner : Users \cup {0},
                                status : {"NONE", "ACTIVE", "REVOKED"},
                                generation : 0 .. MaxGeneration]]
       /\ session \in [Sessions -> [status : {"NONE", "ACTIVE", "REVOKED", "EXPIRED"},
                                    origin : Transactions \cup {0}]]
  BY DEF IInv, TypeOK
<1>14. /\ family' \in [Families -> [owner : Users \cup {0},
                                    status : {"NONE", "ACTIVE", "REVOKED"},
                                    generation : 0 .. MaxGeneration]]
       /\ family'[t].owner = u /\ family'[t].status = "ACTIVE" /\ family'[t].generation = 1
       /\ \A f \in Families \ {t} : family'[f] = family[f]
  BY <1>1, <1>3, <1>9, <1>13
<1>15. /\ session' \in [Sessions -> [status : {"NONE", "ACTIVE", "REVOKED", "EXPIRED"},
                                     origin : Transactions \cup {0}]]
       /\ session'[n].status = "ACTIVE" /\ session'[n].origin = t
       /\ \A x \in Sessions \ {n} : session'[x] = session[x]
  BY <1>1, <1>3, <1>10, <1>13
<1>16. \A x \in Sessions \ {n} : x[1] = t => session'[x].status = None
  BY <1>8, <1>15
<1>17. Covered(j.held)
  <2>1. \A f \in Families :
         /\ family'[f] = family[f] \/ family[f].status = None
         /\ family[f].status # None =>
              family'[f].status # None /\ family'[f].owner = family[f].owner
         /\ family'[f].status = "ACTIVE" =>
              family[f].status = "ACTIVE" \/ UserRow(family'[f].owner) \in j.held
    BY <1>4, <1>7, <1>14
  <2>2. \A x \in Sessions :
         /\ session[x].status # None => session'[x].status # None
         /\ session[x].status = "ACTIVE" => session'[x].status = "ACTIVE"
         /\ session'[x].status = "ACTIVE" => session[x].status = "ACTIVE" \/ x = n
    BY <1>15 DEF None
  <2>3. UserRow(family'[n[1]].owner) \in j.held BY <1>4, <1>11, <1>14
  <2> QED BY <1>1, <2>1, <2>2, <2>3 DEF Covered
<1>18. Accounts'
  <2>1. OneLiveSession'
    <3> SUFFICES ASSUME NEW x \in Sessions, session'[x].status = "ACTIVE"
                 PROVE  family'[x[1]].status = "ACTIVE" /\ family'[x[1]].generation = x[2]
      BY DEF OneLiveSession, Current
    <3>1. CASE x = n BY <1>11, <1>14, <3>1
    <3>2. CASE x # n
      <4>1. x[1] # t BY <1>16, <3>2 DEF None
      <4>2. session[x].status = "ACTIVE" BY <1>15, <3>2
      <4> QED BY <1>14, <4>1, <4>2, Parts DEF IInv, Accounts, OneLiveSession, Current
    <3> QED BY <3>1, <3>2
  <2>2. SuspendedLockedOut'
    <3> SUFFICES ASSUME NEW v \in Users, user'[v] = "SUSPENDED"
                 PROVE  ActiveFamilies(v)' = {} /\ ActiveSessions(v)' = {}
      BY DEF SuspendedLockedOut
    <3>1. user[v] = "SUSPENDED" /\ v # u BY <1>1, <1>5
    <3>2. ActiveFamilies(v) = {} /\ ActiveSessions(v) = {}
      BY <3>1 DEF IInv, Accounts, SuspendedLockedOut
    <3>3. ActiveFamilies(v)' = {} BY <1>14, <3>1, <3>2 DEF ActiveFamilies
    <3>4. ASSUME NEW x \in Sessions, family'[x[1]].owner = v, session'[x].status = "ACTIVE"
          PROVE  FALSE
      <4>1. CASE x = n BY <1>11, <1>14, <3>1, <3>4, <4>1
      <4>2. CASE x # n
        <5>1. x[1] # t BY <1>16, <3>4, <4>2 DEF None
        <5>2. family[x[1]].owner = v BY <1>14, <3>4, <5>1, Parts
        <5> QED BY <1>15, <3>2, <3>4, <4>2, <5>2 DEF ActiveSessions, Owner
      <4> QED BY <4>1, <4>2
    <3> QED BY <3>3, <3>4 DEF ActiveSessions, Owner
  <2>3. AdminRemains' BY <1>1 DEF IInv, Accounts, AdminRemains
  <2>4. \A x \in Sessions : session'[x].status # None =>
          family'[x[1]].status # None /\ x[2] <= family'[x[1]].generation
    <3> SUFFICES ASSUME NEW x \in Sessions, session'[x].status # None
                 PROVE  family'[x[1]].status # None /\ x[2] <= family'[x[1]].generation
      OBVIOUS
    <3>1. CASE x = n BY <1>11, <1>14, <3>1 DEF None
    <3>2. CASE x # n
      <4>1. x[1] # t BY <1>16, <3>2
      <4>2. session[x].status # None BY <1>15, <3>2
      <4> QED BY <1>14, <4>1, <4>2, Parts DEF IInv, Accounts
    <3> QED BY <3>1, <3>2
  <2>5. \A f \in Families : family'[f].status # None =>
          family'[f].owner \in Users /\ family'[f].generation \in 1 .. MaxGeneration
    BY <1>3, <1>9, <1>14 DEF IInv, Accounts
  <2> QED BY <2>1, <2>2, <2>3, <2>4, <2>5 DEF Accounts
<1>19. Logins'
  <2>1. t = job[w].transaction /\ j = job[w] BY DEF t, j
  <2>2. Callback(job[w]) /\ SetJob(w, Idle) /\ job[w].stage = "LOCK"
        /\ auth' = [auth EXCEPT ![t].status = "SUCCEEDED"]
    BY <1>1, <2>1 DEF Callback
  <2>3. \A x \in Sessions \ {n} :
          /\ session'[x].origin = session[x].origin
          /\ session'[x].status = None => session[x].status = None
    BY <1>15
  <2>4. \A f \in Families \ {t} : family[f].status # None <=> family'[f].status # None
    BY <1>14
  <2> QED BY <1>7, <1>10, <1>12, <1>15, <2>1, <2>2, <2>3, <2>4, LoginMade
<1>20. auth' \in [Transactions ->
                    [status : {"NONE", "PENDING", "EXCHANGING", "SUCCEEDED",
                               "FAILED", "RESULT_UNKNOWN"},
                     session : Sessions \cup {NoSession}]]
  BY <1>1, <1>3 DEF IInv, TypeOK
<1>21. user' \in [Users -> {"PENDING_ENROLLMENT", "ACTIVE", "SUSPENDED"}]
       /\ invitation' \in [Users -> {"NONE", "ISSUED", "ACCEPTED"}]
  BY <1>1 DEF IInv, TypeOK
<1> QED BY <1>1, <1>14, <1>15, <1>17, <1>18, <1>19, <1>20, <1>21, CommitStep DEF j

\* The step ends live sessions and families, and makes none.
LEMMA EndStep ==
  ASSUME IInv, NEW w \in Workers, SetJob(w, Idle), UNCHANGED auth, UNCHANGED invitation,
         UNCHANGED <<lapsed, late>>,
         user' \in [Users -> {"PENDING_ENROLLMENT", "ACTIVE", "SUSPENDED"}],
         family' \in [Families -> [owner : Users \cup {0},
                                   status : {"NONE", "ACTIVE", "REVOKED"},
                                   generation : 0 .. MaxGeneration]],
         session' \in [Sessions -> [status : {"NONE", "ACTIVE", "REVOKED", "EXPIRED"},
                                    origin : Transactions \cup {0}]],
         \A u \in Users : user'[u] = user[u] \/ UserRow(u) \in job[w].held,
         \A u \in Users : user'[u] = "SUSPENDED" => user[u] = "SUSPENDED"
           \/ (ActiveFamilies(u)' = {} /\ ActiveSessions(u)' = {}),
         AdminRemains',
         \A f \in Families :
           /\ family'[f].owner = family[f].owner
           /\ family'[f].generation = family[f].generation
           /\ \/ family'[f] = family[f]
              \/ /\ FamilyRow(<<f, 0>>) \in job[w].held
                 /\ family[f].status # None /\ family'[f].status = "REVOKED"
                 /\ \A x \in Sessions : x[1] = f => session'[x].status # "ACTIVE",
         \A x \in Sessions :
           /\ session'[x].origin = session[x].origin
           /\ \/ session'[x] = session[x]
              \/ /\ SessionRow(x) \in job[w].held
                 /\ session[x].status # None
                 /\ session'[x].status \in {"REVOKED", "EXPIRED"}
  PROVE  IInv'
<1>1. Covered(job[w].held) BY DEF Covered, None
<1>2. Accounts'
  <2>1. OneLiveSession'
    <3> SUFFICES ASSUME NEW x \in Sessions, session'[x].status = "ACTIVE"
                 PROVE  family'[x[1]].status = "ACTIVE" /\ family'[x[1]].generation = x[2]
      BY DEF OneLiveSession, Current
    <3>1. session[x].status = "ACTIVE" OBVIOUS
    <3>2. family[x[1]].status = "ACTIVE" /\ family[x[1]].generation = x[2]
      BY <3>1 DEF IInv, Accounts, OneLiveSession, Current
    <3>3. x[1] \in Families BY Parts
    <3> QED BY <3>2, <3>3
  <2>2. SuspendedLockedOut'
    <3> SUFFICES ASSUME NEW u \in Users, user[u] = "SUSPENDED"
                 PROVE  ActiveFamilies(u)' = {} /\ ActiveSessions(u)' = {}
      BY DEF SuspendedLockedOut
    <3>1. ActiveFamilies(u) = {} /\ ActiveSessions(u) = {}
      BY DEF IInv, Accounts, SuspendedLockedOut
    <3>2. ActiveFamilies(u)' = {}
      <4>1. \A f \in Families : family'[f].owner = u /\ family'[f].status = "ACTIVE" =>
              family[f].owner = u /\ family[f].status = "ACTIVE"
        OBVIOUS
      <4> QED BY <3>1, <4>1 DEF ActiveFamilies
    <3>3. ASSUME NEW x \in Sessions, family'[x[1]].owner = u, session'[x].status = "ACTIVE"
          PROVE  FALSE
      <4>1. family[x[1]].owner = u /\ session[x].status = "ACTIVE" BY <3>3, Parts
      <4> QED BY <3>1, <4>1 DEF ActiveSessions, Owner
    <3> QED BY <3>2, <3>3 DEF ActiveSessions, Owner
  <2>3. \A x \in Sessions : session'[x].status # None =>
          family'[x[1]].status # None /\ x[2] <= family'[x[1]].generation
    <3> SUFFICES ASSUME NEW x \in Sessions, session'[x].status # None
                 PROVE  family'[x[1]].status # None /\ x[2] <= family'[x[1]].generation
      OBVIOUS
    <3>1. session[x].status # None BY DEF None
    <3>2. family[x[1]].status # None /\ x[2] <= family[x[1]].generation
      BY <3>1 DEF IInv, Accounts
    <3>3. x[1] \in Families BY Parts
    <3>4. family'[x[1]].generation = family[x[1]].generation BY <3>3
    <3>5. family'[x[1]].status # None BY <3>2, <3>3 DEF None
    <3> QED BY <3>2, <3>4, <3>5
  <2>4. \A f \in Families : family'[f].status # None =>
          family'[f].owner \in Users /\ family'[f].generation \in 1 .. MaxGeneration
    BY DEF IInv, Accounts, None
  <2> QED BY <2>1, <2>2, <2>3, <2>4 DEF Accounts
<1>3. Logins' BY LoginsStay DEF None
<1>4. invitation' \in [Users -> {"NONE", "ISSUED", "ACCEPTED"}]
      /\ auth' \in [Transactions ->
                      [status : {"NONE", "PENDING", "EXCHANGING", "SUCCEEDED",
                                 "FAILED", "RESULT_UNKNOWN"},
                       session : Sessions \cup {NoSession}]]
  BY DEF IInv, TypeOK
<1> QED BY <1>1, <1>2, <1>3, <1>4, CommitStep

LEMMA FinishRevokeStep ==
  ASSUME IInv, NEW w \in Workers, FinishRevoke(w)
  PROVE  IInv'
<1> DEFINE j == job[w]
           s == j.target
<1>1. j.kind = "REVOKE" /\ j.stage = "LOCK" /\ j.todo = {}
      /\ SetJob(w, Idle) /\ UNCHANGED user /\ UNCHANGED invitation
      /\ UNCHANGED family /\ UNCHANGED auth /\ UNCHANGED <<lapsed, late>>
      /\ session' = [session EXCEPT ![s].status =
                       IF @ # "ACTIVE" THEN @
                       ELSE IF s \in lapsed THEN "EXPIRED" ELSE "REVOKED"]
  BY DEF FinishRevoke, Commits
<1>2. s \in Sessions /\ Rows(j) \subseteq j.held
  BY <1>1, Locked DEF ShapeOK, Known
<1>3. SessionRow(s) \in j.held BY <1>1, <1>2 DEF Rows, OtherRows
<1> HIDE DEF s, j
<1>4. session \in [Sessions -> [status : {"NONE", "ACTIVE", "REVOKED", "EXPIRED"},
                                origin : Transactions \cup {0}]]
  BY DEF IInv, TypeOK
<1>5. session' \in [Sessions -> [status : {"NONE", "ACTIVE", "REVOKED", "EXPIRED"},
                                 origin : Transactions \cup {0}]]
  BY <1>1, <1>2, <1>4
<1>6. \A x \in Sessions :
        /\ session'[x].origin = session[x].origin
        /\ \/ session'[x] = session[x]
           \/ /\ SessionRow(x) \in j.held
              /\ session[x].status # None
              /\ session'[x].status \in {"REVOKED", "EXPIRED"}
  <2>1. \A x \in Sessions \ {s} : session'[x] = session[x] BY <1>1, <1>2, <1>4
  <2>2. session'[s] = [session[s] EXCEPT !.status =
                         IF @ # "ACTIVE" THEN @
                         ELSE IF s \in lapsed THEN "EXPIRED" ELSE "REVOKED"]
    BY <1>1, <1>2, <1>4
  <2>3. session[s] \in [status : {"NONE", "ACTIVE", "REVOKED", "EXPIRED"},
                        origin : Transactions \cup {0}]
    BY <1>2, <1>4
  <2>4. session'[s].origin = session[s].origin BY <2>2, <2>3
  <2>5. CASE session[s].status = "ACTIVE"
    <3>1. session'[s].status \in {"REVOKED", "EXPIRED"} BY <2>2, <2>3, <2>5
    <3> QED BY <1>3, <2>1, <2>4, <2>5, <3>1 DEF None
  <2>6. CASE session[s].status # "ACTIVE"
    <3>1. session'[s] = session[s] BY <2>2, <2>3, <2>6
    <3> QED BY <2>1, <3>1
  <2> QED BY <2>5, <2>6
<1>7. AdminRemains' BY <1>1 DEF IInv, Accounts, AdminRemains
<1>8. user' \in [Users -> {"PENDING_ENROLLMENT", "ACTIVE", "SUSPENDED"}]
      /\ family' \in [Families -> [owner : Users \cup {0},
                                   status : {"NONE", "ACTIVE", "REVOKED"},
                                   generation : 0 .. MaxGeneration]]
  BY <1>1 DEF IInv, TypeOK
<1> QED BY <1>1, <1>5, <1>6, <1>7, <1>8, EndStep DEF j

LEMMA FinishReplayStep ==
  ASSUME IInv, NEW w \in Workers, FinishReplay(w)
  PROVE  IInv'
<1> DEFINE j == job[w]
           s == j.target
           f0 == s[1]
<1>1. j.kind = "REPLAY" /\ j.stage = "SESSIONS" /\ j.todo = {}
      /\ SetJob(w, Idle) /\ UNCHANGED user /\ UNCHANGED invitation
      /\ UNCHANGED auth /\ UNCHANGED <<lapsed, late>>
      /\ session' = [session EXCEPT ![s].status = "REVOKED"]
      /\ family' = [family EXCEPT ![f0].status = "REVOKED"]
  BY DEF FinishReplay, Commits
<1>2. /\ FamilyRow(j.session) \in j.held /\ SessionRow(s) \in j.held
      /\ s = <<j.session[1], family[j.session[1]].generation>> /\ s \in Sessions
      /\ session[s].status # None
      /\ Known(j.session)
  BY <1>1 DEF IInv, Requests, RowsOK, ShapeOK, None
<1>3. f0 = j.session[1] /\ s[2] = family[f0].generation BY <1>2
<1>4. FamilyRow(<<f0, 0>>) \in j.held BY <1>2, <1>3, Pairs DEF Known
<1>5. f0 \in Families BY <1>2, Parts
<1>6. \A x \in Sessions : x[1] = f0 /\ session[x].status = "ACTIVE" => x = s
  <2> SUFFICES ASSUME NEW x \in Sessions, x[1] = f0, session[x].status = "ACTIVE"
               PROVE  x = s
    OBVIOUS
  <2>1. x[2] = family[f0].generation
    BY DEF IInv, Accounts, OneLiveSession, Current
  <2> QED BY <1>2, <1>3, <2>1, Pairs
<1>7. family \in [Families -> [owner : Users \cup {0},
                               status : {"NONE", "ACTIVE", "REVOKED"},
                               generation : 0 .. MaxGeneration]]
      /\ session \in [Sessions -> [status : {"NONE", "ACTIVE", "REVOKED", "EXPIRED"},
                                   origin : Transactions \cup {0}]]
  BY DEF IInv, TypeOK
<1> HIDE DEF f0, s, j
<1>8. /\ session' \in [Sessions -> [status : {"NONE", "ACTIVE", "REVOKED", "EXPIRED"},
                                    origin : Transactions \cup {0}]]
      /\ session'[s].status = "REVOKED" /\ session'[s].origin = session[s].origin
      /\ \A x \in Sessions \ {s} : session'[x] = session[x]
  BY <1>1, <1>2, <1>7
<1>9. /\ family' \in [Families -> [owner : Users \cup {0},
                                   status : {"NONE", "ACTIVE", "REVOKED"},
                                   generation : 0 .. MaxGeneration]]
      /\ family'[f0].status = "REVOKED" /\ family'[f0].owner = family[f0].owner
      /\ family'[f0].generation = family[f0].generation
      /\ \A f \in Families \ {f0} : family'[f] = family[f]
  BY <1>1, <1>5, <1>7
<1>10. \A x \in Sessions :
         /\ session'[x].origin = session[x].origin
         /\ \/ session'[x] = session[x]
            \/ /\ SessionRow(x) \in j.held
               /\ session[x].status # None
               /\ session'[x].status \in {"REVOKED", "EXPIRED"}
  BY <1>2, <1>8
<1>11. \A f \in Families :
         /\ family'[f].owner = family[f].owner
         /\ family'[f].generation = family[f].generation
         /\ \/ family'[f] = family[f]
            \/ /\ FamilyRow(<<f, 0>>) \in j.held
               /\ family[f].status # None /\ family'[f].status = "REVOKED"
               /\ \A x \in Sessions : x[1] = f => session'[x].status # "ACTIVE"
  <2>1. \A x \in Sessions : x[1] = f0 => session'[x].status # "ACTIVE" BY <1>6, <1>8
  <2>2. family[f0].status # None BY <1>2, <1>3 DEF Known
  <2> QED BY <1>4, <1>9, <2>1, <2>2
<1>12. AdminRemains' BY <1>1 DEF IInv, Accounts, AdminRemains
<1>13. user' \in [Users -> {"PENDING_ENROLLMENT", "ACTIVE", "SUSPENDED"}]
  BY <1>1 DEF IInv, TypeOK
<1> QED BY <1>1, <1>8, <1>9, <1>10, <1>11, <1>12, <1>13, EndStep DEF j

LEMMA FinishAdminStep ==
  ASSUME IInv, NEW w \in Workers, FinishAdmin(w)
  PROVE  IInv'
<1> DEFINE j == job[w]
           u == j.user
           a == Owner(j.session)
<1>1. /\ j.kind = "ADMIN" /\ j.stage = "SESSIONS" /\ j.todo = {}
      /\ SetJob(w, Idle) /\ UNCHANGED invitation /\ UNCHANGED auth
      /\ UNCHANGED <<lapsed, late>> /\ RevokeAll(u)
      /\ user' = [user EXCEPT ![u] = CASE j.command = "SUSPEND" -> "SUSPENDED"
                                       [] j.command = "RESUME" -> "ACTIVE"
                                       [] OTHER -> @]
  BY DEF FinishAdmin, Commits
<1>2. ShapeOK(j) /\ RowsOK(j) /\ FactsOK(j) BY DEF IInv, Requests
<1>3. /\ j.valid /\ u \in Users /\ a \in Admins /\ u # a /\ j.command \in Command
      /\ Rows(j) \subseteq j.held
      /\ \A f \in ActiveFamilies(u) : FamilyRow(<<f, 0>>) \in j.held
      /\ \A s \in ActiveSessions(u) : SessionRow(s) \in j.held
  BY <1>1, <1>2 DEF ShapeOK, RowsOK, Callback
<1>4. UserRow(a) \in j.held /\ UserRow(u) \in j.held BY <1>1, <1>3 DEF Rows
<1>5. a \in Users /\ user[a] = "ACTIVE" BY <1>1, <1>2, <1>3, <1>4, Names DEF FactsOK
<1> HIDE DEF a, u, j
<1>6. /\ user \in [Users -> {"PENDING_ENROLLMENT", "ACTIVE", "SUSPENDED"}]
      /\ family \in [Families -> [owner : Users \cup {0},
                                  status : {"NONE", "ACTIVE", "REVOKED"},
                                  generation : 0 .. MaxGeneration]]
      /\ session \in [Sessions -> [status : {"NONE", "ACTIVE", "REVOKED", "EXPIRED"},
                                   origin : Transactions \cup {0}]]
  BY DEF IInv, TypeOK
<1>7. /\ user' \in [Users -> {"PENDING_ENROLLMENT", "ACTIVE", "SUSPENDED"}]
      /\ \A v \in Users \ {u} : user'[v] = user[v]
  BY <1>1, <1>3, <1>6
<1>8. \A f \in Families :
        family'[f] = IF f \in ActiveFamilies(u) THEN [family[f] EXCEPT !.status = "REVOKED"]
                                                ELSE family[f]
  BY <1>1 DEF RevokeAll
<1>9. \A s \in Sessions :
        session'[s] = IF s \in ActiveSessions(u) THEN [session[s] EXCEPT !.status = "REVOKED"]
                                                 ELSE session[s]
  BY <1>1 DEF RevokeAll
<1>10. family' \in [Families -> [owner : Users \cup {0},
                                 status : {"NONE", "ACTIVE", "REVOKED"},
                                 generation : 0 .. MaxGeneration]]
  BY <1>1, <1>6 DEF RevokeAll
<1>11. session' \in [Sessions -> [status : {"NONE", "ACTIVE", "REVOKED", "EXPIRED"},
                                  origin : Transactions \cup {0}]]
  BY <1>1, <1>6 DEF RevokeAll
<1>12. \A x \in Sessions :
         /\ session'[x].origin = session[x].origin
         /\ x \in ActiveSessions(u) => session'[x].status = "REVOKED"
         /\ \/ session'[x] = session[x]
            \/ /\ SessionRow(x) \in j.held
               /\ session[x].status # None
               /\ session'[x].status \in {"REVOKED", "EXPIRED"}
  <2> SUFFICES ASSUME NEW x \in Sessions
               PROVE  /\ session'[x].origin = session[x].origin
                      /\ x \in ActiveSessions(u) => session'[x].status = "REVOKED"
                      /\ \/ session'[x] = session[x]
                         \/ /\ SessionRow(x) \in j.held
                            /\ session[x].status # None
                            /\ session'[x].status \in {"REVOKED", "EXPIRED"}
    OBVIOUS
  <2>1. CASE x \in ActiveSessions(u)
    <3>1. session'[x] = [session[x] EXCEPT !.status = "REVOKED"] BY <1>9, <2>1
    <3>2. session'[x].origin = session[x].origin /\ session'[x].status = "REVOKED"
      BY <1>6, <3>1
    <3>3. session[x].status # None BY <2>1 DEF ActiveSessions, None
    <3> QED BY <1>3, <2>1, <3>2, <3>3
  <2>2. CASE x \notin ActiveSessions(u) BY <1>9, <2>2
  <2> QED BY <2>1, <2>2
<1>13. \A x \in Sessions : session'[x].status = "ACTIVE" => x \notin ActiveSessions(u)
                           /\ session[x].status = "ACTIVE"
  BY <1>12
<1>14. \A f \in Families :
         /\ family'[f].owner = family[f].owner
         /\ family'[f].generation = family[f].generation
         /\ f \in ActiveFamilies(u) => family'[f].status = "REVOKED"
         /\ \/ family'[f] = family[f]
            \/ /\ FamilyRow(<<f, 0>>) \in j.held
               /\ family[f].status # None /\ family'[f].status = "REVOKED"
               /\ \A x \in Sessions : x[1] = f => session'[x].status # "ACTIVE"
  <2> SUFFICES ASSUME NEW f \in Families
               PROVE  /\ family'[f].owner = family[f].owner
                      /\ family'[f].generation = family[f].generation
                      /\ f \in ActiveFamilies(u) => family'[f].status = "REVOKED"
                      /\ \/ family'[f] = family[f]
                         \/ /\ FamilyRow(<<f, 0>>) \in j.held
                            /\ family[f].status # None /\ family'[f].status = "REVOKED"
                            /\ \A x \in Sessions : x[1] = f => session'[x].status # "ACTIVE"
    OBVIOUS
  <2>1. CASE f \in ActiveFamilies(u)
    <3>1. family'[f] = [family[f] EXCEPT !.status = "REVOKED"] BY <1>8, <2>1
    <3>2. /\ family'[f].owner = family[f].owner /\ family'[f].status = "REVOKED"
          /\ family'[f].generation = family[f].generation
      BY <1>6, <3>1
    <3>3. family[f].status # None /\ family[f].owner = u
      BY <2>1 DEF ActiveFamilies, None
    <3>4. \A x \in Sessions : x[1] = f => session'[x].status # "ACTIVE"
      BY <1>13, <3>3 DEF ActiveSessions, Owner
    <3> QED BY <1>3, <2>1, <3>2, <3>3, <3>4
  <2>2. CASE f \notin ActiveFamilies(u) BY <1>8, <2>2
  <2> QED BY <2>1, <2>2
<1>15. \A v \in Users : user'[v] = "SUSPENDED" =>
         user[v] = "SUSPENDED" \/ (ActiveFamilies(v)' = {} /\ ActiveSessions(v)' = {})
  <2> SUFFICES ASSUME NEW v \in Users, v = u
               PROVE  ActiveFamilies(v)' = {} /\ ActiveSessions(v)' = {}
    BY <1>7
  <2>1. \A f \in Families : ~(family'[f].owner = v /\ family'[f].status = "ACTIVE")
    <3> SUFFICES ASSUME NEW f \in Families, family'[f].owner = v,
                        family'[f].status = "ACTIVE"
                 PROVE  FALSE
      OBVIOUS
    <3>1. f \notin ActiveFamilies(u) BY <1>14
    <3>2. family'[f] = family[f] BY <1>8, <3>1
    <3> QED BY <3>1, <3>2 DEF ActiveFamilies
  <2>2. \A x \in Sessions : ~(family'[x[1]].owner = v /\ session'[x].status = "ACTIVE")
    <3> SUFFICES ASSUME NEW x \in Sessions, family'[x[1]].owner = v,
                        session'[x].status = "ACTIVE"
                 PROVE  FALSE
      OBVIOUS
    <3>1. x \notin ActiveSessions(u) /\ session[x].status = "ACTIVE" BY <1>13
    <3>2. family[x[1]].owner = u BY <1>14, Parts
    <3> QED BY <3>1, <3>2 DEF ActiveSessions, Owner
  <2> QED BY <2>1, <2>2 DEF ActiveFamilies, ActiveSessions, Owner
<1>16. AdminRemains'
  <2>1. user'[a] = "ACTIVE" BY <1>3, <1>5, <1>7
  <2>2. \E b \in Admins : user'[b] = "ACTIVE" BY <1>3, <2>1
  <2> QED BY <2>2 DEF AdminRemains
<1>17. \A v \in Users : user'[v] = user[v] \/ UserRow(v) \in j.held BY <1>4, <1>7
<1>18. j = job[w] BY DEF j
<1> QED BY <1>1, <1>7, <1>10, <1>11, <1>12, <1>14, <1>15, <1>16, <1>17, <1>18, EndStep
-----------------------------------------------------------------------------
LEMMA CrashStep ==
  ASSUME IInv, NEW w \in Workers, Crash(w)
  PROVE  IInv'
BY IdleStep DEF Crash

LEMMA WorkerStep ==
  ASSUME IInv, NEW w \in Workers, Arrive(w) \/ Proceed(w) \/ Crash(w)
  PROVE  IInv'
<1>1. CASE Arrive(w)
  BY <1>1, StartCallbackStep, StartRevokeStep, StartReplayStep, StartAdminStep,
     StartAcceptStep DEF Arrive
<1>2. CASE Proceed(w)
  <2>1. ASSUME NEW row \in job[w].todo, Lock(w, row) PROVE IInv' BY <2>1, LockStep
  <2>2. CASE Abort(w) BY <2>2, AbortStep
  <2>3. CASE ProviderError(w) \/ Claim(w) BY <2>3, ProviderErrorStep, ClaimStep
  <2>4. ASSUME NEW status \in {"FAILED", "RESULT_UNKNOWN"}, ExchangeFails(w, status)
        PROVE  IInv'
    BY <2>4, ExchangeFailsStep
  <2>5. ASSUME NEW u \in Users, ExchangeSucceeds(w, u) PROVE IInv'
    BY <2>5, ExchangeSucceedsStep
  <2>6. CASE FailCallback(w) \/ FinishLogin(w) \/ FinishStepUp(w)
    BY <2>6, FailCallbackStep, FinishLoginStep, FinishStepUpStep
  <2>7. CASE FinishRevoke(w) \/ FindSuccessor(w) \/ FinishReplay(w)
    BY <2>7, FinishRevokeStep, FindSuccessorStep, FinishReplayStep
  <2>8. CASE LockFamilies(w) \/ LockSessions(w) \/ FinishAdmin(w)
    BY <2>8, LockFamiliesStep, LockSessionsStep, FinishAdminStep
  <2>9. CASE FinishAccept(w) BY <2>9, FinishAcceptStep
  <2> QED BY <1>2, <2>1, <2>2, <2>3, <2>4, <2>5, <2>6, <2>7, <2>8, <2>9 DEF Proceed
<1>3. CASE Crash(w) BY <1>3, CrashStep
<1> QED BY <1>1, <1>2, <1>3

LEMMA StutterStep ==
  ASSUME IInv, UNCHANGED vars
  PROVE  IInv'
<1>1. auth' = auth /\ lapsed' \subseteq Sessions /\ late' \subseteq Transactions
  BY DEF vars, IInv, TypeOK
<1> QED BY <1>1, StillStep DEF vars, IInv, TypeOK

LEMMA NextInv ==
  ASSUME IInv, [Next]_vars
  PROVE  IInv'
<1>1. CASE Time BY <1>1, LapseStep, TransactionLapsesStep DEF Time
<1>2. ASSUME NEW t \in Transactions, BeginLogin(t) PROVE IInv'
  BY <1>2, BeginTransactionStep
<1>3. ASSUME NEW t \in Transactions, NEW s \in Sessions, BeginStepUp(t, s) PROVE IInv'
  BY <1>3, BeginTransactionStep
<1>4. ASSUME NEW w \in Workers, Arrive(w) \/ Proceed(w) \/ Crash(w) PROVE IInv'
  BY <1>4, WorkerStep
<1>5. CASE UNCHANGED vars BY <1>5, StutterStep
<1> QED BY <1>1, <1>2, <1>3, <1>4, <1>5 DEF Next

\* The invariant that the properties below follow from.
THEOREM Invariance == Spec => []IInv
BY InitInv, NextInv, PTL DEF Spec

\* Every reachable state has the types of the tables and of the requests.
THEOREM TypeCorrect == Spec => []TypeOK
<1>1. IInv => TypeOK BY InvProperties
<1> QED BY Invariance, <1>1, PTL

\* No two requests at work hold a lock on the same row.
THEOREM LocksExclusive == Spec => []Exclusive
<1>1. IInv => Exclusive BY InvProperties
<1> QED BY Invariance, <1>1, PTL

\* A family has at most one live session, of its current generation, whatever
\* rotations, revocations and logouts overlap: the deferred consistency
\* trigger of the schema is never met.
THEOREM OneLive == Spec => []OneLiveSession
<1>1. IInv => OneLiveSession BY InvProperties
<1> QED BY Invariance, <1>1, PTL

\* A login or a rotation that was half way when its user was suspended leaves
\* no live session or family behind.
THEOREM SuspendedOut == Spec => []SuspendedLockedOut
<1>1. IInv => SuspendedLockedOut BY InvProperties
<1> QED BY Invariance, <1>1, PTL

\* A code is exchanged by one delivery of the callback, which makes one
\* session if it succeeds and none otherwise.
THEOREM OneLogin == Spec => []OneLoginPerCallback
<1>1. IInv => OneLoginPerCallback BY InvProperties
<1> QED BY Invariance, <1>1, PTL

\* However many administrators suspend each other at once, one stays ACTIVE.
THEOREM AdministratorRemains == Spec => []AdminRemains
<1>1. IInv => AdminRemains BY InvProperties
<1> QED BY Invariance, <1>1, PTL
-----------------------------------------------------------------------------
(* Under what authority a request commits                                    *)

\* The session of a request, and its owner, as AuthorityAtCommit wants them.
InAuthority(j) ==
    /\ session[j.session].status = "ACTIVE"
    /\ Current(j.session)
    /\ user[Owner(j.session)] \in {"PENDING_ENROLLMENT", "ACTIVE"}

\* A request that has locked the rows of its session and its owner, and found
\* them in order, is in authority.
LEMMA HeldInAuthority ==
  ASSUME IInv, NEW w \in Workers, NeedsLive(job[w]), job[w].valid,
         job[w].stage # None, Rows(job[w]) \subseteq job[w].held
  PROVE  InAuthority(job[w])
<1> DEFINE j == job[w]
           s == j.session
<1>1. ShapeOK(j) /\ FactsOK(j) BY DEF IInv, Requests
<1>2. j.kind \in {"STEP_UP", "ADMIN", "ACCEPT", "REVOKE"} BY DEF NeedsLive
<1>3. Known(s) /\ s \in Sessions BY <1>1, <1>2 DEF ShapeOK, Known, None
<1>4. SessionRow(s) \in j.held /\ UserRow(Owner(s)) \in j.held
  <2>1. CASE j.kind = "STEP_UP" BY <2>1 DEF Rows, OtherRows
  <2>2. CASE j.kind = "ADMIN" BY <2>2 DEF Rows, OtherRows
  <2>3. CASE j.kind = "ACCEPT" BY <2>3 DEF Rows, OtherRows
  <2>4. CASE j.kind = "REVOKE" BY <2>4 DEF Rows, OtherRows
  <2> QED BY <1>2, <2>1, <2>2, <2>3, <2>4
<1>5. session[s].status = "ACTIVE" BY <1>1, <1>4 DEF FactsOK
<1>6. Current(s) BY <1>3, <1>5 DEF IInv, Accounts, OneLiveSession
<1>7. Owner(s) \in Users BY <1>3, Parts DEF Known, Owner, IInv, Accounts
<1>8. ~(j.kind = "ADMIN" /\ Owner(s) = j.user) BY <1>1 DEF ShapeOK
<1>9. user[Owner(s)] \in {"PENDING_ENROLLMENT", "ACTIVE"}
  BY <1>1, <1>4, <1>7, <1>8 DEF FactsOK
<1> QED BY <1>5, <1>6, <1>9 DEF InAuthority

\* A step that leaves the accounts alone, or is the commit of a request.
LEMMA CommitOrQuiet ==
  ASSUME IInv, [Next]_vars
  PROVE  \/ UNCHANGED <<user, invitation, family, session>>
         \/ \E w \in Workers :
              /\ SetJob(w, Idle)
              /\ NeedsLive(job[w]) => InAuthority(job[w])
<1>1. CASE Time BY <1>1 DEF Time, Lapse, TransactionLapses
<1>2. CASE \E t \in Transactions : BeginLogin(t) BY <1>2 DEF BeginLogin
<1>3. CASE \E t \in Transactions, s \in Sessions : BeginStepUp(t, s)
  BY <1>3 DEF BeginStepUp
<1>4. CASE UNCHANGED vars BY <1>4 DEF vars
<1>5. ASSUME NEW w \in Workers, Arrive(w) \/ Crash(w)
      PROVE  UNCHANGED <<user, invitation, family, session>>
  BY <1>5 DEF Arrive, StartCallback, StartRevoke, StartReplay, StartAdmin, StartAccept,
     Begin, Crash, iamVars
<1>6. ASSUME NEW w \in Workers, Proceed(w)
      PROVE  \/ UNCHANGED <<user, invitation, family, session>>
             \/ SetJob(w, Idle) /\ (NeedsLive(job[w]) => InAuthority(job[w]))
  <2>1. CASE (\E row \in job[w].todo : Lock(w, row)) \/ Abort(w) \/ FindSuccessor(w)
             \/ LockFamilies(w) \/ LockSessions(w)
             \/ \E u \in Users : ExchangeSucceeds(w, u)
    BY <2>1 DEF Lock, Abort, FindSuccessor, LockFamilies, LockSessions,
       ExchangeSucceeds, iamVars
  <2>2. CASE ProviderError(w) \/ Claim(w) \/ FailCallback(w)
             \/ \E status \in {"FAILED", "RESULT_UNKNOWN"} : ExchangeFails(w, status)
    BY <2>2 DEF ProviderError, Claim, FailCallback, ExchangeFails, Resolve, iamVars
  <2>3. CASE FinishLogin(w)
    BY <2>3 DEF FinishLogin, Commits, NeedsLive
  <2>4. CASE FinishReplay(w)
    BY <2>4 DEF FinishReplay, Commits, NeedsLive
  <2>5. CASE FinishStepUp(w) \/ FinishRevoke(w) \/ FinishAccept(w)
    <3>1. /\ SetJob(w, Idle) /\ job[w].stage = "LOCK" /\ job[w].todo = {}
          /\ \/ job[w].kind = "STEP_UP" /\ job[w].valid
             \/ job[w].kind \in {"REVOKE", "ACCEPT"}
      BY <2>5 DEF FinishStepUp, FinishRevoke, FinishAccept, Commits
    <3>2. ShapeOK(job[w]) /\ Rows(job[w]) \subseteq job[w].held BY <3>1, Locked
    <3>3. job[w].valid BY <3>1, <3>2 DEF ShapeOK, Callback
    <3> QED BY <3>1, <3>2, <3>3, HeldInAuthority DEF None
  <2>6. CASE FinishAdmin(w)
    <3>1. SetJob(w, Idle) /\ job[w].stage = "SESSIONS" /\ job[w].kind = "ADMIN"
      BY <2>6 DEF FinishAdmin, Commits
    <3>2. ShapeOK(job[w]) /\ RowsOK(job[w]) BY DEF IInv, Requests
    <3>3. job[w].valid /\ Rows(job[w]) \subseteq job[w].held
      BY <3>1, <3>2 DEF ShapeOK, RowsOK, Callback
    <3> QED BY <3>1, <3>3, HeldInAuthority DEF None
  <2> QED BY <1>6, <2>1, <2>2, <2>3, <2>4, <2>5, <2>6 DEF Proceed
<1> QED BY <1>1, <1>2, <1>3, <1>4, <1>5, <1>6 DEF Next

\* What a request commits in the name of a session it commits while the
\* session is live and its owner is not suspended, for any requests at once.
THEOREM Authority == Spec => AuthorityAtCommit
<1>1. ASSUME IInv, [Next]_vars
      PROVE  \A w \in Workers :
               /\ NeedsLive(job[w]) /\ job[w] # job'[w]
               /\ <<user, invitation, family, session>>' # <<user, invitation, family, session>>
               => /\ session[job[w].session].status = "ACTIVE"
                  /\ Current(job[w].session)
                  /\ user[Owner(job[w].session)] \in {"PENDING_ENROLLMENT", "ACTIVE"}
  <2> SUFFICES ASSUME NEW w \in Workers, NeedsLive(job[w]), job[w] # job'[w],
                      ~UNCHANGED <<user, invitation, family, session>>
               PROVE  InAuthority(job[w])
    BY DEF InAuthority
  <2>1. PICK v \in Workers : SetJob(v, Idle) /\ (NeedsLive(job[v]) => InAuthority(job[v]))
    BY <1>1, CommitOrQuiet
  <2>2. v = w BY <1>1, <2>1 DEF SetJob, IInv, TypeOK
  <2> QED BY <2>1, <2>2
<1> QED BY Invariance, <1>1, PTL DEF Spec, AuthorityAtCommit
-----------------------------------------------------------------------------
(* What has ended stays as it ended                                          *)

\* The session that a replayed handle leads to is still live when it is locked.
ReplayTargets ==
    \A w \in Workers :
        job[w].kind = "REPLAY" /\ job[w].stage = "SESSIONS" =>
            session[job[w].target].status = "ACTIVE"

\* The steps that write accounts.
Commit(w) ==
    FinishLogin(w) \/ FinishStepUp(w) \/ FinishRevoke(w) \/ FinishReplay(w)
    \/ FinishAdmin(w) \/ FinishAccept(w)

\* Existing sessions and families are written by who has locked the family, and
\* those that have ended not at all.
Kept(held) ==
    /\ \A s \in Sessions :
         \/ session'[s] = session[s]
         \/ session[s].status = None
         \/ session[s].status = "ACTIVE" /\ FamilyRow(s) \in held
    /\ \A f \in Families :
         \/ family'[f] = family[f]
         \/ family[f].status = None
         \/ /\ family[f].status = "ACTIVE"
            /\ family'[f].owner = family[f].owner
            /\ family'[f].generation \in {family[f].generation, family[f].generation + 1}
    /\ \/ UNCHANGED invitation
       \/ \E u \in Users : invitation' = [invitation EXCEPT ![u] = "ACCEPTED"]

LEMMA RotateKeeps ==
  ASSUME IInv, NEW w \in Workers, NEW t \in Transactions \cup {0},
         job[w].kind \in {"STEP_UP", "ACCEPT"}, job[w].stage = "LOCK", job[w].todo = {},
         job[w].valid, Rotate(job[w].session, t),
         UNCHANGED invitation
         \/ \E u \in Users : invitation' = [invitation EXCEPT ![u] = "ACCEPTED"]
  PROVE  Kept(job[w].held)
<1> DEFINE s == job[w].session
           n == <<s[1], s[2] + 1>>
<1>1. ShapeOK(job[w]) /\ FactsOK(job[w]) /\ Rows(job[w]) \subseteq job[w].held
  BY Locked
<1>2. Known(s) /\ s \in Sessions /\ s[1] \in Families
  BY <1>1, Parts DEF ShapeOK, Known, None
<1>3. FamilyRow(s) \in job[w].held /\ SessionRow(s) \in job[w].held
  BY <1>1 DEF Rows, OtherRows
<1>4. Current(s) /\ session[s].status = "ACTIVE" BY <1>1, <1>3 DEF FactsOK, NeedsLive
<1>5. FamilyRow(n) = FamilyRow(s) BY DEF FamilyRow
<1>6. session[n].status = None \/ n \notin Sessions
  <2>1. ~(n[2] <= family[n[1]].generation)
    BY <1>2, <1>4, Numbers DEF Current
  <2> QED BY <2>1 DEF IInv, Accounts
<1> HIDE DEF n, s
<1>7. /\ session' = [session EXCEPT ![s].status = "REVOKED",
                                    ![n] = [status |-> "ACTIVE", origin |-> t]]
      /\ family' = [family EXCEPT ![s[1]].generation = s[2] + 1]
  BY DEF Rotate, n, s
<1>8. \A x \in Sessions \ {s, n} : session'[x] = session[x]
  BY <1>7 DEF IInv, TypeOK
<1>9. /\ \A f \in Families \ {s[1]} : family'[f] = family[f]
      /\ family'[s[1]].owner = family[s[1]].owner
      /\ family'[s[1]].generation = s[2] + 1
  BY <1>2, <1>7 DEF IInv, TypeOK
<1>10. family[s[1]].status = "ACTIVE" /\ family[s[1]].generation = s[2]
  BY <1>4 DEF Current
<1> QED BY <1>3, <1>4, <1>6, <1>8, <1>9, <1>10 DEF Kept, s

LEMMA LoginKeeps ==
  ASSUME IInv, NEW w \in Workers, FinishLogin(w)
  PROVE  Kept(job[w].held)
<1> DEFINE t == job[w].transaction
<1>1. job[w].kind = "LOGIN" /\ job[w].stage = "LOCK" /\ job[w].todo = {}
      /\ family' = [family EXCEPT ![t] = [owner |-> job[w].user, status |-> "ACTIVE",
                                          generation |-> 1]]
      /\ session' = [session EXCEPT ![<<t, 1>>] = [status |-> "ACTIVE", origin |-> t]]
      /\ UNCHANGED invitation
  BY DEF FinishLogin, Commits
<1>2. t \in Transactions /\ t \in Families
  BY <1>1, Locked, Names DEF ShapeOK, Callback
<1>3. auth[t].status = "EXCHANGING" BY <1>1, CallbackAlone DEF Callback
<1>4. family[t].status = None BY <1>2, <1>3 DEF IInv, Logins
<1>5. <<t, 1>> \in Sessions => session[<<t, 1>>].status = None
  BY <1>4 DEF IInv, Accounts
<1> QED BY <1>1, <1>4, <1>5 DEF Kept, IInv, TypeOK

LEMMA RevokeKeeps ==
  ASSUME IInv, NEW w \in Workers, FinishRevoke(w)
  PROVE  Kept(job[w].held)
<1> DEFINE s == job[w].target
<1>1. job[w].kind = "REVOKE" /\ job[w].stage = "LOCK" /\ job[w].todo = {}
      /\ UNCHANGED family /\ UNCHANGED invitation
      /\ session' = [session EXCEPT ![s].status =
                       IF @ # "ACTIVE" THEN @
                       ELSE IF s \in lapsed THEN "EXPIRED" ELSE "REVOKED"]
  BY DEF FinishRevoke, Commits
<1>2. Rows(job[w]) \subseteq job[w].held /\ s \in Sessions
  BY <1>1, Locked DEF ShapeOK, Known, None
<1>3. FamilyRow(s) \in job[w].held BY <1>1, <1>2 DEF Rows, OtherRows
<1>4. \A x \in Sessions \ {s} : session'[x] = session[x]
  BY <1>1 DEF IInv, TypeOK
<1>5. session[s].status # "ACTIVE" => session'[s] = session[s]
  BY <1>1, <1>2 DEF IInv, TypeOK
<1> QED BY <1>1, <1>3, <1>4, <1>5 DEF Kept

LEMMA ReplayKeeps ==
  ASSUME IInv, ReplayTargets, NEW w \in Workers, FinishReplay(w)
  PROVE  Kept(job[w].held)
<1> DEFINE s == job[w].target
<1>1. job[w].kind = "REPLAY" /\ job[w].stage = "SESSIONS" /\ UNCHANGED invitation
      /\ session' = [session EXCEPT ![s].status = "REVOKED"]
      /\ family' = [family EXCEPT ![s[1]].status = "REVOKED"]
  BY DEF FinishReplay, Commits
<1>2. s \in Sessions /\ FamilyRow(job[w].session) \in job[w].held
      /\ s[1] = job[w].session[1]
  BY <1>1 DEF IInv, Requests, RowsOK
<1>3. FamilyRow(s) \in job[w].held BY <1>2 DEF FamilyRow
<1>4. session[s].status = "ACTIVE" BY <1>1 DEF ReplayTargets
<1>5. family[s[1]].status = "ACTIVE" BY <1>2, <1>4 DEF IInv, Accounts, OneLiveSession, Current
<1>6. s[1] \in Families BY <1>2, Parts
<1>7. \A x \in Sessions \ {s} : session'[x] = session[x]
  BY <1>1 DEF IInv, TypeOK
<1>8. /\ \A f \in Families \ {s[1]} : family'[f] = family[f]
      /\ family'[s[1]].owner = family[s[1]].owner
      /\ family'[s[1]].generation = family[s[1]].generation
  BY <1>1, <1>6 DEF IInv, TypeOK
<1> QED BY <1>1, <1>3, <1>4, <1>5, <1>7, <1>8 DEF Kept

LEMMA AdminKeeps ==
  ASSUME IInv, NEW w \in Workers, FinishAdmin(w)
  PROVE  Kept(job[w].held)
<1> DEFINE u == job[w].user
<1>1. job[w].kind = "ADMIN" /\ job[w].stage = "SESSIONS" /\ RevokeAll(u)
      /\ UNCHANGED invitation
  BY DEF FinishAdmin, Commits
<1>2. \A f \in ActiveFamilies(u) : FamilyRow(<<f, 0>>) \in job[w].held
  BY <1>1 DEF IInv, Requests, RowsOK
<1>3. ASSUME NEW s \in ActiveSessions(u) PROVE FamilyRow(s) \in job[w].held
  <2>1. s \in Sessions /\ s[1] \in Families /\ Owner(s) = u /\ session[s].status = "ACTIVE"
    BY Parts DEF ActiveSessions
  <2>2. s[1] \in ActiveFamilies(u)
    BY <2>1 DEF ActiveFamilies, Owner, IInv, Accounts, OneLiveSession, Current
  <2> QED BY <1>2, <2>1, <2>2, Pairs
<1>4. \A s \in Sessions : s \notin ActiveSessions(u) => session'[s] = session[s]
  BY <1>1 DEF RevokeAll
<1>5. \A f \in Families :
        /\ f \notin ActiveFamilies(u) => family'[f] = family[f]
        /\ f \in ActiveFamilies(u) =>
             family'[f].owner = family[f].owner
             /\ family'[f].generation = family[f].generation
  BY <1>1 DEF RevokeAll, IInv, TypeOK
<1>6. /\ \A s \in ActiveSessions(u) : session[s].status = "ACTIVE"
      /\ \A f \in ActiveFamilies(u) : family[f].status = "ACTIVE"
  BY DEF ActiveSessions, ActiveFamilies
<1> QED BY <1>1, <1>3, <1>4, <1>5, <1>6 DEF Kept

LEMMA CommitKeeps ==
  ASSUME IInv, ReplayTargets, NEW w \in Workers, Commit(w)
  PROVE  Kept(job[w].held) /\ SetJob(w, Idle)
<1>1. SetJob(w, Idle)
  BY DEF Commit, FinishLogin, FinishStepUp, FinishRevoke, FinishReplay, FinishAdmin,
         FinishAccept, Commits
<1>2. CASE FinishStepUp(w)
  <2>1. job[w].kind = "STEP_UP" /\ job[w].stage = "LOCK" /\ job[w].todo = {}
        /\ job[w].valid /\ Rotate(job[w].session, job[w].transaction) /\ UNCHANGED invitation
    BY <1>2 DEF FinishStepUp, Commits
  <2>2. job[w].transaction \in Transactions
    BY <2>1, Locked DEF ShapeOK, Callback
  <2> QED BY <1>1, <2>1, <2>2, RotateKeeps
<1>3. CASE FinishAccept(w)
  <2>1. job[w].kind = "ACCEPT" /\ job[w].stage = "LOCK" /\ job[w].todo = {}
        /\ Rotate(job[w].session, 0)
        /\ invitation' = [invitation EXCEPT ![Owner(job[w].session)] = "ACCEPTED"]
    BY <1>3 DEF FinishAccept, Commits
  <2>2. ShapeOK(job[w]) BY <2>1, Locked
  <2>3. job[w].valid /\ Known(job[w].session) BY <2>1, <2>2 DEF ShapeOK, Callback, None
  <2>4. Owner(job[w].session) \in Users
    BY <2>3, Parts DEF Known, Owner, IInv, Accounts
  <2> QED BY <1>1, <2>1, <2>3, <2>4, RotateKeeps
<1> QED BY <1>1, <1>2, <1>3, LoginKeeps, RevokeKeeps, ReplayKeeps, AdminKeeps DEF Commit

\* Every other step writes no account.
LEMMA QuietStep ==
  ASSUME [Next]_vars, \A w \in Workers : ~Commit(w)
  PROVE  UNCHANGED <<user, invitation, family, session>>
<1>1. CASE Time BY <1>1 DEF Time, Lapse, TransactionLapses
<1>2. CASE \E t \in Transactions : BeginLogin(t) BY <1>2 DEF BeginLogin
<1>3. CASE \E t \in Transactions, s \in Sessions : BeginStepUp(t, s)
  BY <1>3 DEF BeginStepUp
<1>4. CASE UNCHANGED vars BY <1>4 DEF vars
<1>5. ASSUME NEW w \in Workers, Arrive(w) \/ Crash(w)
      PROVE  UNCHANGED <<user, invitation, family, session>>
  BY <1>5 DEF Arrive, StartCallback, StartRevoke, StartReplay, StartAdmin, StartAccept,
     Begin, Crash, iamVars
<1>6. ASSUME NEW w \in Workers, Proceed(w)
      PROVE  UNCHANGED <<user, invitation, family, session>>
  <2>1. CASE (\E row \in job[w].todo : Lock(w, row)) \/ Abort(w) \/ FindSuccessor(w)
             \/ LockFamilies(w) \/ LockSessions(w)
             \/ \E u \in Users : ExchangeSucceeds(w, u)
    BY <2>1 DEF Lock, Abort, FindSuccessor, LockFamilies, LockSessions,
       ExchangeSucceeds, iamVars
  <2>2. CASE ProviderError(w) \/ Claim(w) \/ FailCallback(w)
             \/ \E status \in {"FAILED", "RESULT_UNKNOWN"} : ExchangeFails(w, status)
    BY <2>2 DEF ProviderError, Claim, FailCallback, ExchangeFails, Resolve, iamVars
  <2> QED BY <1>6, <2>1, <2>2 DEF Proceed, Commit
<1> QED BY <1>1, <1>2, <1>3, <1>4, <1>5, <1>6 DEF Next

\* What becomes of a request j that goes on as x.
Moves(j, x) ==
    \/ x.stage \in {None, "CLAIM", "ANSWER"} /\ x.todo = {} /\ x.held = {}
    \/ x.stage = "LOCK" /\ x.kind \in Kind /\ x.todo = Rows(x) /\ x.held = {}
    \/ /\ x.kind = j.kind /\ x.stage = j.stage
       /\ x.session = j.session /\ x.target = j.target
       /\ \E row : /\ NextRow(j, row)
                  /\ x.todo = j.todo \ {row} /\ x.held = j.held \cup {row}
    \/ /\ j.kind = "REPLAY" /\ j.stage = "LOCK" /\ x.kind = "REPLAY" /\ x.stage = "SESSIONS"
       /\ x.session = j.session /\ x.target[1] = j.session[1]
       /\ session[x.target].status = "ACTIVE"
       /\ x.todo = {SessionRow(x.target)} /\ x.held = j.held
    \/ /\ j.kind = "ADMIN" /\ x.kind = "ADMIN"
       /\ x.session = j.session /\ x.held = j.held
       /\ \/ /\ j.stage = "LOCK" /\ x.stage = "FAMILIES"
             /\ \A row \in x.todo : row[1] = "family"
          \/ /\ j.stage = "FAMILIES" /\ x.stage = "SESSIONS"
             /\ \A row \in x.todo : row[1] = "session"

LEMMA StartMoves ==
  ASSUME NEW i, NEW j \in Job, j.kind # None
  PROVE  Moves(i, StartTransaction(j))
<1> DEFINE x == StartTransaction(j)
<1>1. /\ x.kind = j.kind /\ x.session = j.session /\ x.target = j.target
      /\ x.user = j.user /\ x.transaction = j.transaction
      /\ x.stage = "LOCK" /\ x.todo = Rows(j) /\ x.held = {}
  BY DEF StartTransaction, Job
<1>2. Rows(x) = Rows(j) BY <1>1 DEF Rows, OtherRows
<1>3. x.kind \in Kind BY <1>1 DEF Job
<1> HIDE DEF x
<1>4. x.stage = "LOCK" /\ x.kind \in Kind /\ x.todo = Rows(x) /\ x.held = {}
  BY <1>1, <1>2, <1>3
<1> QED BY <1>4 DEF Moves, x

LEMMA ArriveMoves ==
  ASSUME IInv, NEW w \in Workers, Arrive(w)
  PROVE  \E x : SetJob(w, x) /\ Moves(job[w], x)
<1>1. ASSUME NEW t \in Transactions, StartCallback(w, t)
      PROVE  \E x : SetJob(w, x) /\ Moves(job[w], x)
  <2> DEFINE s == auth[t].session
             x == [Idle EXCEPT !.kind = IF s = NoSession THEN "LOGIN" ELSE "STEP_UP",
                               !.stage = "CLAIM", !.session = s, !.transaction = t]
  <2>1. SetJob(w, x) BY <1>1 DEF StartCallback
  <2>2. x.stage = "CLAIM" /\ x.todo = {} /\ x.held = {} BY DEF Idle
  <2> HIDE DEF x
  <2> QED BY <2>1, <2>2 DEF Moves
<1>2. ASSUME NEW j \in Job, j.kind # None, Begin(w, j)
      PROVE  \E x : SetJob(w, x) /\ Moves(job[w], x)
  BY <1>2, StartMoves DEF Begin
<1>3. ASSUME NEW s \in Sessions, NEW target \in Sessions
      PROVE  LET j == [Idle EXCEPT !.kind = "REVOKE", !.session = s, !.target = target]
             IN  j \in Job /\ j.kind # None
  BY IdleOK DEF Idle, Job, Kind, None
<1>4. ASSUME NEW s \in Sessions, NEW kind \in {"REPLAY", "ACCEPT"}
      PROVE  LET j == [Idle EXCEPT !.kind = kind, !.session = s]
             IN  j \in Job /\ j.kind # None
  BY IdleOK DEF Idle, Job, Kind, None
<1>5. ASSUME NEW s \in Sessions, NEW command \in Command, NEW u \in Users
      PROVE  LET j == [Idle EXCEPT !.kind = "ADMIN", !.session = s, !.user = u,
                                   !.command = command]
             IN  j \in Job /\ j.kind # None
  BY IdleOK DEF Idle, Job, Kind, None
<1>6. ASSUME NEW s \in Sessions, NEW target \in Sessions, StartRevoke(w, s, target)
      PROVE  \E x : SetJob(w, x) /\ Moves(job[w], x)
  BY <1>2, <1>3, <1>6 DEF StartRevoke
<1>7. ASSUME NEW s \in Sessions, StartReplay(w, s) \/ StartAccept(w, s)
      PROVE  \E x : SetJob(w, x) /\ Moves(job[w], x)
  BY <1>2, <1>4, <1>7 DEF StartReplay, StartAccept
<1>8. ASSUME NEW s \in Sessions, NEW command \in Command, NEW u \in Users,
             StartAdmin(w, s, command, u)
      PROVE  \E x : SetJob(w, x) /\ Moves(job[w], x)
  BY <1>2, <1>5, <1>8 DEF StartAdmin
<1> QED BY <1>1, <1>6, <1>7, <1>8 DEF Arrive

LEMMA ProceedMoves ==
  ASSUME IInv, NEW w \in Workers, Proceed(w) \/ Crash(w)
  PROVE  \E x : SetJob(w, x) /\ Moves(job[w], x)
<1> DEFINE j == job[w]
           Goal == \E x : SetJob(w, x) /\ Moves(j, x)
<1>1. j \in Job /\ ShapeOK(j) BY DEF IInv, TypeOK, Requests
<1>2. SetJob(w, Idle) => Goal
  <2>1. Moves(j, Idle) BY DEF Moves, Idle, None
  <2> QED BY <2>1
<1>3. ASSUME NEW row \in j.todo, Lock(w, row) PROVE Goal
  <2> DEFINE x == [j EXCEPT !.todo = @ \ {row}, !.held = @ \cup {row},
                            !.valid = @ /\ StillTrue(j, row)]
  <2>1. SetJob(w, x) \/ SetJob(w, Idle) BY <1>3 DEF Lock
  <2>2. NextRow(j, row) BY <1>3 DEF Lock
  <2>3. /\ x.kind = j.kind /\ x.stage = j.stage
        /\ x.session = j.session /\ x.target = j.target
        /\ x.todo = j.todo \ {row} /\ x.held = j.held \cup {row}
    BY <1>1 DEF Job
  <2> HIDE DEF x
  <2>4. Moves(j, x) BY <2>2, <2>3 DEF Moves
  <2> QED BY <1>2, <2>1, <2>4
<1>4. CASE Abort(w)
  <2>1. j.kind # None BY <1>1, <1>4 DEF Abort, ShapeOK
  <2> QED BY <1>1, <1>2, <1>4, <2>1, StartMoves DEF Abort
<1>5. CASE \/ Crash(w) \/ ProviderError(w) \/ FailCallback(w) \/ Commit(w)
           \/ \E status \in {"FAILED", "RESULT_UNKNOWN"} : ExchangeFails(w, status)
  <2>1. SetJob(w, Idle)
    BY <1>5 DEF Crash, ProviderError, FailCallback, ExchangeFails, Commit, FinishLogin,
       FinishStepUp, FinishRevoke, FinishReplay, FinishAdmin, FinishAccept, Commits
  <2> QED BY <1>2, <2>1
<1>6. CASE Claim(w)
  <2> DEFINE x == [j EXCEPT !.stage = "ANSWER"]
  <2>1. SetJob(w, x) \/ SetJob(w, Idle) BY <1>6 DEF Claim
  <2>2. x.stage = "ANSWER" /\ x.todo = {} /\ x.held = {}
    BY <1>1, <1>6 DEF Claim, ShapeOK, Job
  <2>3. Moves(j, x)
    <3> HIDE DEF x, j
    <3> QED BY <2>2 DEF Moves
  <2> HIDE DEF x
  <2> QED BY <1>2, <2>1, <2>3
<1>7. ASSUME NEW u \in Users, ExchangeSucceeds(w, u) PROVE Goal
  <2> DEFINE y == [j EXCEPT !.user = u]
  <2>1. SetJob(w, StartTransaction(y)) \/ SetJob(w, Idle) BY <1>7 DEF ExchangeSucceeds
  <2>2. j.kind # None BY <1>1, <1>7 DEF ExchangeSucceeds, ShapeOK, None
  <2>3. y \in Job /\ y.kind # None BY <1>1, <2>2 DEF Job
  <2> HIDE DEF y
  <2> QED BY <1>2, <2>1, <2>3, StartMoves
<1>8. CASE FindSuccessor(w)
  <2> DEFINE successor == <<j.session[1], family[j.session[1]].generation>>
             x == [j EXCEPT !.stage = "SESSIONS", !.target = successor,
                            !.todo = {SessionRow(successor)}]
  <2>1. \/ SetJob(w, x) /\ session[successor].status = "ACTIVE"
        \/ SetJob(w, Idle)
    BY <1>8 DEF FindSuccessor
  <2>2. j.kind = "REPLAY" /\ j.stage = "LOCK" BY <1>8 DEF FindSuccessor
  <2>3. /\ x.kind = "REPLAY" /\ x.stage = "SESSIONS" /\ x.target = successor
        /\ x.session = j.session /\ x.todo = {SessionRow(x.target)} /\ x.held = j.held
    BY <1>1, <2>2 DEF Job
  <2>4. successor[1] = j.session[1] OBVIOUS
  <2>5. session[successor].status = "ACTIVE" => Moves(j, x)
    <3> HIDE DEF x, j, successor
    <3> QED BY <2>2, <2>3, <2>4 DEF Moves
  <2> HIDE DEF x, successor
  <2> QED BY <1>2, <2>1, <2>5
<1>9. CASE LockFamilies(w)
  <2> DEFINE x == [j EXCEPT !.stage = "FAMILIES",
                            !.todo = {FamilyRow(<<f, 0>>) : f \in ActiveFamilies(j.user)}]
  <2>1. SetJob(w, x) /\ j.kind = "ADMIN" /\ j.stage = "LOCK"
    BY <1>9 DEF LockFamilies
  <2>2. /\ x.kind = "ADMIN" /\ x.stage = "FAMILIES"
        /\ x.session = j.session /\ x.held = j.held
        /\ x.todo = {FamilyRow(<<f, 0>>) : f \in ActiveFamilies(j.user)}
    BY <1>1, <2>1 DEF Job
  <2>3. \A row \in x.todo : row[1] = "family" BY <2>2 DEF FamilyRow
  <2>4. Moves(j, x)
    <3> HIDE DEF x, j
    <3> QED BY <2>1, <2>2, <2>3 DEF Moves
  <2> HIDE DEF x
  <2> QED BY <2>1, <2>4
<1>10. CASE LockSessions(w)
  <2> DEFINE x == [j EXCEPT !.stage = "SESSIONS",
                            !.todo = {SessionRow(s) : s \in ActiveSessions(j.user)}]
  <2>1. SetJob(w, x) /\ j.kind = "ADMIN" /\ j.stage = "FAMILIES"
    BY <1>10 DEF LockSessions
  <2>2. /\ x.kind = "ADMIN" /\ x.stage = "SESSIONS"
        /\ x.session = j.session /\ x.held = j.held
        /\ x.todo = {SessionRow(s) : s \in ActiveSessions(j.user)}
    BY <1>1, <2>1 DEF Job
  <2>3. \A row \in x.todo : row[1] = "session" BY <2>2 DEF SessionRow
  <2>4. Moves(j, x)
    <3> HIDE DEF x, j
    <3> QED BY <2>1, <2>2, <2>3 DEF Moves
  <2> HIDE DEF x
  <2> QED BY <2>1, <2>4
<1> QED
  BY <1>3, <1>4, <1>5, <1>6, <1>7, <1>8, <1>9, <1>10 DEF Proceed, Commit

LEMMA JobMoves ==
  ASSUME IInv, [Next]_vars, NEW v \in Workers
  PROVE  job'[v] = job[v] \/ Moves(job[v], job'[v])
<1>1. CASE UNCHANGED job BY <1>1
<1>2. CASE ~UNCHANGED job
  <2>1. PICK w \in Workers : Arrive(w) \/ Proceed(w) \/ Crash(w)
    BY <1>2 DEF Next, Time, Lapse, TransactionLapses, BeginLogin, BeginStepUp, vars
  <2>2. PICK x : SetJob(w, x) /\ Moves(job[w], x) BY <2>1, ArriveMoves, ProceedMoves
  <2>3. job \in [Workers -> Job] BY DEF IInv, TypeOK
  <2> QED BY <2>2, <2>3 DEF SetJob
<1> QED BY <1>1, <1>2

\* A request that revokes what a replayed handle leads to has found it live, or
\* was at it before.
LEMMA ReplayFound ==
  ASSUME IInv, [Next]_vars, NEW v \in Workers,
         job'[v].kind = "REPLAY", job'[v].stage = "SESSIONS"
  PROVE  \/ /\ job[v].kind = "REPLAY" /\ job[v].stage = "SESSIONS"
            /\ job'[v].target = job[v].target
         \/ session[job'[v].target].status = "ACTIVE"
BY JobMoves DEF Moves, None

LEMMA ReplayTargetsStep ==
  ASSUME IInv, ReplayTargets, [Next]_vars
  PROVE  ReplayTargets'
<1> SUFFICES ASSUME NEW v \in Workers, job'[v].kind = "REPLAY", job'[v].stage = "SESSIONS"
             PROVE  session'[job'[v].target].status = "ACTIVE"
  BY DEF ReplayTargets
<1>1. session[job'[v].target].status = "ACTIVE" BY ReplayFound DEF ReplayTargets
<1>2. CASE \A w \in Workers : ~Commit(w) BY <1>1, <1>2, QuietStep
<1>3. ASSUME NEW w \in Workers, Commit(w)
      PROVE  session'[job'[v].target].status = "ACTIVE"
  <2>1. Kept(job[w].held) /\ SetJob(w, Idle) BY <1>3, CommitKeeps
  <2>2. v # w /\ job'[v] = job[v] BY <2>1 DEF SetJob, Idle, None, IInv, TypeOK
  <2> DEFINE s == job[v].target
  <2>3. s \in Sessions /\ FamilyRow(s) \in job[v].held
    <3>1. job[v].kind = "REPLAY" /\ job[v].stage = "SESSIONS" /\ RowsOK(job[v])
      BY <2>2 DEF IInv, Requests
    <3>2. s \in Sessions /\ s[1] = job[v].session[1]
          /\ FamilyRow(job[v].session) \in job[v].held
      BY <3>1 DEF RowsOK
    <3> QED BY <3>2 DEF FamilyRow
  <2>4. FamilyRow(s) \notin job[w].held
    BY <2>2, <2>3 DEF IInv, Requests, Exclusive
  <2>5. session'[s] = session[s] BY <1>1, <2>1, <2>2, <2>3, <2>4 DEF Kept, None
  <2> QED BY <1>1, <2>2, <2>5
<1> QED BY <1>2, <1>3

\* A settled login transaction is settled.
LEMMA SettledStays ==
  ASSUME IInv, [Next]_vars, NEW t \in Transactions,
         auth[t].status \in {"SUCCEEDED", "FAILED", "RESULT_UNKNOWN"}
  PROVE  auth'[t] = auth[t]
<1>0. CASE UNCHANGED auth BY <1>0
<1>1. ASSUME NEW r \in Transactions, NEW x, auth[r].status \in {None, "PENDING", "EXCHANGING"},
             auth' = [auth EXCEPT ![r] = x]
      PROVE  auth'[t] = auth[t]
  BY <1>1 DEF None, IInv, TypeOK
<1>2. ASSUME NEW r \in Transactions, NEW x, auth[r].status \in {"PENDING", "EXCHANGING"},
             auth' = [auth EXCEPT ![r].status = x]
      PROVE  auth'[t] = auth[t]
  BY <1>2 DEF None, IInv, TypeOK
<1>3. CASE \E r \in Transactions :
             BeginLogin(r) \/ \E s \in Sessions : BeginStepUp(r, s)
  BY <1>1, <1>3 DEF BeginLogin, BeginStepUp
<1>4. ASSUME NEW w \in Workers, ProviderError(w) \/ Claim(w) PROVE auth'[t] = auth[t]
  <2>1. job[w].transaction \in Transactions
    BY <1>4 DEF ProviderError, Claim, IInv, Requests, ShapeOK
  <2> QED BY <1>2, <1>4, <2>1 DEF ProviderError, Claim, Resolve, iamVars
<1>5. ASSUME NEW w \in Workers, NEW status \in {"FAILED", "RESULT_UNKNOWN"},
             ExchangeFails(w, status)
      PROVE  auth'[t] = auth[t]
  <2>1. job[w].stage = "ANSWER" /\ Callback(job[w])
    BY <1>5 DEF ExchangeFails, IInv, Requests, ShapeOK
  <2> QED BY <1>2, <1>5, <2>1, CallbackAlone DEF ExchangeFails, Resolve
<1>6. ASSUME NEW w \in Workers, FailCallback(w) \/ FinishLogin(w) \/ FinishStepUp(w)
      PROVE  auth'[t] = auth[t]
  <2>1. job[w].stage = "LOCK" /\ Callback(job[w])
    BY <1>6 DEF FailCallback, FinishLogin, FinishStepUp, Commits, Callback
  <2> QED BY <1>2, <1>6, <2>1, CallbackAlone
          DEF FailCallback, FinishLogin, FinishStepUp, Resolve
<1>7. ASSUME NEW w \in Workers, Arrive(w) \/ Crash(w) PROVE UNCHANGED auth
  BY <1>7 DEF Arrive, StartCallback, StartRevoke, StartReplay, StartAdmin, StartAccept,
     Begin, Crash, iamVars
<1>8. ASSUME NEW w \in Workers, Proceed(w) PROVE auth'[t] = auth[t]
  <2>1. CASE (\E row \in job[w].todo : Lock(w, row)) \/ Abort(w) \/ FindSuccessor(w)
             \/ LockFamilies(w) \/ LockSessions(w)
             \/ \E u \in Users : ExchangeSucceeds(w, u)
    BY <2>1 DEF Lock, Abort, FindSuccessor, LockFamilies, LockSessions,
       ExchangeSucceeds, iamVars
  <2>2. CASE FinishRevoke(w) \/ FinishReplay(w) \/ FinishAdmin(w) \/ FinishAccept(w)
    BY <2>2 DEF FinishRevoke, FinishReplay, FinishAdmin, FinishAccept
  <2> QED BY <1>4, <1>5, <1>6, <1>8, <2>1, <2>2 DEF Proceed
<1>9. CASE Time \/ UNCHANGED vars
  BY <1>9 DEF Time, Lapse, TransactionLapses, vars
<1> QED BY <1>3, <1>7, <1>8, <1>9 DEF Next

\* An ended session or family, a settled login transaction and an accepted
\* invitation stay as they are, whatever request still had them in hand.
THEOREM NoRevival == Spec => NothingRevives
<1>1. Init => ReplayTargets BY DEF Init, ReplayTargets, Idle, None
<1>2. ASSUME IInv, ReplayTargets, [Next]_vars
      PROVE  /\ \A s \in Sessions :
                  session[s].status \in {"REVOKED", "EXPIRED"} => session'[s] = session[s]
             /\ \A f \in Families :
                  /\ family[f].status = "REVOKED" => family'[f] = family[f]
                  /\ family[f].status # None =>
                       /\ family'[f].owner = family[f].owner
                       /\ family'[f].generation \in
                            {family[f].generation, family[f].generation + 1}
             /\ \A t \in Transactions :
                  auth[t].status \in {"SUCCEEDED", "FAILED", "RESULT_UNKNOWN"}
                    => auth'[t] = auth[t]
             /\ \A u \in Users : invitation[u] = "ACCEPTED" => invitation'[u] = "ACCEPTED"
  <2>1. CASE \A w \in Workers : ~Commit(w) BY <1>2, <2>1, QuietStep, SettledStays
  <2>2. ASSUME NEW held, Kept(held)
        PROVE  /\ \A s \in Sessions :
                    session[s].status \in {"REVOKED", "EXPIRED"} => session'[s] = session[s]
               /\ \A f \in Families :
                    /\ family[f].status = "REVOKED" => family'[f] = family[f]
                    /\ family[f].status # None =>
                         /\ family'[f].owner = family[f].owner
                         /\ family'[f].generation \in
                              {family[f].generation, family[f].generation + 1}
               /\ \A u \in Users :
                    invitation[u] = "ACCEPTED" => invitation'[u] = "ACCEPTED"
    <3>1. \A u \in Users : invitation[u] = "ACCEPTED" => invitation'[u] = "ACCEPTED"
      BY <1>2, <2>2 DEF Kept, IInv, TypeOK
    <3>2. \A s \in Sessions :
            session[s].status \in {"REVOKED", "EXPIRED"} => session'[s] = session[s]
      BY <2>2 DEF Kept, None
    <3>3. \A f \in Families : family'[f] = family[f] =>
            /\ family'[f].owner = family[f].owner
            /\ family'[f].generation = family[f].generation
      OBVIOUS
    <3>4. \A f \in Families :
            /\ family[f].status = "REVOKED" => family'[f] = family[f]
            /\ family[f].status # None =>
                 /\ family'[f].owner = family[f].owner
                 /\ family'[f].generation \in
                      {family[f].generation, family[f].generation + 1}
      BY <2>2, <3>3 DEF Kept, None
    <3> QED BY <3>1, <3>2, <3>4
  <2>3. ASSUME NEW w \in Workers, Commit(w) PROVE \E held : Kept(held)
    BY <1>2, <2>3, CommitKeeps
  <2> QED BY <1>2, <2>1, <2>2, <2>3, SettledStays
<1> QED BY Invariance, <1>1, <1>2, ReplayTargetsStep, PTL DEF Spec, NothingRevives
-----------------------------------------------------------------------------
(* Who can wait for whom                                                     *)

WaitsFor(v, w) ==
    \E row \in job[v].todo : NextRow(job[v], row) /\ row \in job[w].held

\* The kinds of requests whose lock orders cross.
Crosses(k, l) ==
    \/ k = "STEP_UP" /\ l \in {"REVOKE", "REPLAY", "ADMIN", "ACCEPT"}
    \/ k = "REVOKE" /\ l \in {"ADMIN", "ACCEPT"}
    \/ k = "ADMIN" /\ l = "ACCEPT"

DeadlocksKnown ==
    \A v, w \in Workers :
        v # w /\ WaitsFor(v, w) /\ WaitsFor(w, v) =>
            Crosses(job[v].kind, job[w].kind) \/ Crosses(job[w].kind, job[v].kind)

Tables(kind) == {LockOrder[kind][n] : n \in DOMAIN LockOrder[kind]}

Precedes(kind, s, t) ==
    \E m, n \in DOMAIN LockOrder[kind] :
        LockOrder[kind][m] = s /\ LockOrder[kind][n] = t /\ m < n

\* A request locks its rows in order; an administrator's does as long as the
\* user's families and sessions are still to come.
Ordered(j) ==
    /\ \A row \in j.todo \cup j.held : row[1] \in Tables(j.kind)
    /\ j.stage = "LOCK" \/ j.kind # "ADMIN" =>
         \A mine \in j.held, next \in j.todo : ~Before(j.kind, next, mine)
    /\ j.kind = "ADMIN" /\ j.stage \in {"LOCK", "FAMILIES"} =>
         \A row \in j.todo \cup j.held : row[1] = "session" => row = SessionRow(j.session)
    /\ j.stage = "FAMILIES" => \A row \in j.todo : row[1] = "family"
    /\ j.kind = "ADMIN" /\ j.stage = "SESSIONS" => \A row \in j.todo : row[1] = "session"
    /\ j.kind = "REPLAY" /\ j.stage = "LOCK" =>
         j.todo \cup j.held \subseteq {FamilyRow(j.session)}
    /\ j.kind = "REPLAY" /\ j.stage = "SESSIONS" =>
         /\ j.todo \subseteq {SessionRow(j.target)}
         /\ j.held \subseteq {FamilyRow(j.session), SessionRow(j.target)}
         /\ FamilyRow(j.target) = FamilyRow(j.session)

LEMMA Orders ==
  /\ \A s, t : Precedes("LOGIN", s, t) <=> s = "auth" /\ t = "user"
  /\ \A s, t : Precedes("STEP_UP", s, t) <=>
       \/ s = "auth" /\ t \in {"session", "family", "user"}
       \/ s = "session" /\ t \in {"family", "user"}
       \/ s = "family" /\ t = "user"
  /\ \A s, t : Precedes("REVOKE", s, t) <=>
       \/ s = "user" /\ t \in {"family", "session"}
       \/ s = "family" /\ t = "session"
  /\ \A s, t : Precedes("REPLAY", s, t) <=> s = "family" /\ t = "session"
  /\ \A s, t : Precedes("ADMIN", s, t) <=>
       \/ s = "platform" /\ t \in {"family", "session", "user"}
       \/ s = "family" /\ t \in {"session", "user"}
       \/ s = "session" /\ t = "user"
  /\ \A s, t : Precedes("ACCEPT", s, t) <=>
       \/ s = "family" /\ t \in {"session", "invitation", "user"}
       \/ s = "session" /\ t \in {"invitation", "user"}
       \/ s = "invitation" /\ t = "user"
<1>1. \A s, t : Precedes("LOGIN", s, t) <=> s = "auth" /\ t = "user"
  <2>1. LockOrder["LOGIN"] = <<"auth", "user">> BY DEF LockOrder
  <2> QED BY <2>1 DEF Precedes
<1>2. \A s, t : Precedes("STEP_UP", s, t) <=>
       \/ s = "auth" /\ t \in {"session", "family", "user"}
       \/ s = "session" /\ t \in {"family", "user"}
       \/ s = "family" /\ t = "user"
  <2>1. LockOrder["STEP_UP"] = <<"auth", "session", "family", "user">> BY DEF LockOrder
  <2>2. DOMAIN LockOrder["STEP_UP"] = {1, 2, 3, 4} BY <2>1
  <2> QED BY <2>1, <2>2 DEF Precedes
<1>3. \A s, t : Precedes("REVOKE", s, t) <=>
       \/ s = "user" /\ t \in {"family", "session"}
       \/ s = "family" /\ t = "session"
  <2>1. LockOrder["REVOKE"] = <<"user", "family", "session">> BY DEF LockOrder
  <2>2. DOMAIN LockOrder["REVOKE"] = {1, 2, 3} BY <2>1
  <2> QED BY <2>1, <2>2 DEF Precedes
<1>4. \A s, t : Precedes("REPLAY", s, t) <=> s = "family" /\ t = "session"
  <2>1. LockOrder["REPLAY"] = <<"family", "session">> BY DEF LockOrder
  <2> QED BY <2>1 DEF Precedes
<1>5. \A s, t : Precedes("ADMIN", s, t) <=>
       \/ s = "platform" /\ t \in {"family", "session", "user"}
       \/ s = "family" /\ t \in {"session", "user"}
       \/ s = "session" /\ t = "user"
  <2>1. LockOrder["ADMIN"] = <<"platform", "family", "session", "user">> BY DEF LockOrder
  <2>2. DOMAIN LockOrder["ADMIN"] = {1, 2, 3, 4} BY <2>1
  <2> QED BY <2>1, <2>2 DEF Precedes
<1>6. \A s, t : Precedes("ACCEPT", s, t) <=>
       \/ s = "family" /\ t \in {"session", "invitation", "user"}
       \/ s = "session" /\ t \in {"invitation", "user"}
       \/ s = "invitation" /\ t = "user"
  <2>1. LockOrder["ACCEPT"] = <<"family", "session", "invitation", "user">> BY DEF LockOrder
  <2>2. DOMAIN LockOrder["ACCEPT"] = {1, 2, 3, 4} BY <2>1
  <2> QED BY <2>1, <2>2 DEF Precedes
<1> QED BY <1>1, <1>2, <1>3, <1>4, <1>5, <1>6

\* The tables a kind of request locks, in what order.
LEMMA TableSets ==
  /\ Tables("LOGIN") = {"auth", "user"}
  /\ Tables("STEP_UP") = {"auth", "session", "family", "user"}
  /\ Tables("REVOKE") = {"user", "family", "session"}
  /\ Tables("REPLAY") = {"family", "session"}
  /\ Tables("ADMIN") = {"platform", "family", "session", "user"}
  /\ Tables("ACCEPT") = {"family", "session", "invitation", "user"}
<1>1. Tables("LOGIN") = {"auth", "user"} BY DEF Tables, LockOrder
<1>2. Tables("STEP_UP") = {"auth", "session", "family", "user"} BY DEF Tables, LockOrder
<1>3. Tables("REVOKE") = {"user", "family", "session"} BY DEF Tables, LockOrder
<1>4. Tables("REPLAY") = {"family", "session"} BY DEF Tables, LockOrder
<1>5. Tables("ADMIN") = {"platform", "family", "session", "user"} BY DEF Tables, LockOrder
<1>6. Tables("ACCEPT") = {"family", "session", "invitation", "user"} BY DEF Tables, LockOrder
<1> QED BY <1>1, <1>2, <1>3, <1>4, <1>5, <1>6

\* The orders of two kinds that do not cross agree.
LEMMA OrdersAgree ==
  ASSUME NEW k \in Kind, NEW l \in Kind, ~Crosses(k, l), ~Crosses(l, k),
         NEW s, NEW t, Precedes(k, s, t)
  PROVE  ~Precedes(l, t, s) /\ s # t
<1>1. CASE k = "LOGIN" BY <1>1, Orders DEF Kind
<1>2. CASE k = "STEP_UP" BY <1>2, Orders DEF Kind, Crosses
<1>3. CASE k = "REVOKE" BY <1>3, Orders DEF Kind, Crosses
<1>4. CASE k = "REPLAY" BY <1>4, Orders DEF Kind, Crosses
<1>5. CASE k = "ADMIN" BY <1>5, Orders DEF Kind, Crosses
<1>6. CASE k = "ACCEPT" BY <1>6, Orders DEF Kind, Crosses
<1> QED BY <1>1, <1>2, <1>3, <1>4, <1>5, <1>6 DEF Kind

\* Of two rows of the tables it locks, a request knows which one comes first.
LEMMA Total ==
  ASSUME NEW k \in Kind, NEW x \in Row, NEW y \in Row, x # y,
         x[1] \in Tables(k), y[1] \in Tables(k), ~Before(k, x, y)
  PROVE  Before(k, y, x)
<1> DEFINE order == LockOrder[k]
<1>1. DOMAIN order \subseteq Nat BY DEF Kind, LockOrder
<1>2. PICK m \in DOMAIN order : order[m] = x[1] BY DEF Tables
<1>3. PICK n \in DOMAIN order : order[n] = y[1] BY DEF Tables
<1>4. m \in Nat /\ n \in Nat BY <1>1
<1>5. x[2] \in Nat /\ x[3] \in Nat /\ y[2] \in Nat /\ y[3] \in Nat BY DEF Row
<1>6. x = <<x[1], x[2], x[3]>> /\ y = <<y[1], y[2], y[3]>> BY DEF Row
<1> HIDE DEF order
<1>7. ~(m < n) BY <1>2, <1>3 DEF Before, order
<1>8. CASE n < m BY <1>2, <1>3, <1>8 DEF Before, order
<1>9. CASE m = n
  <2>1. x[2] # y[2] \/ x[3] # y[3] BY <1>2, <1>3, <1>6, <1>9
  <2>2. ~(x[2] < y[2]) /\ ~(x[2] = y[2] /\ x[3] < y[3])
    BY <1>2, <1>3, <1>9 DEF Before, order
  <2>3. y[2] < x[2] \/ (y[2] = x[2] /\ y[3] < x[3]) BY <1>5, <2>1, <2>2
  <2> QED BY <1>2, <1>3, <1>9, <2>3 DEF Before, order
<1> QED BY <1>4, <1>7, <1>8, <1>9

LEMMA BeforeParts ==
  ASSUME NEW k \in Kind, NEW x \in Row, NEW y \in Row, Before(k, x, y)
  PROVE  \/ Precedes(k, x[1], y[1])
         \/ /\ x[1] = y[1]
            /\ x[2] < y[2] \/ (x[2] = y[2] /\ x[3] < y[3])
BY DEF Before, Precedes

LEMMA NotBothBefore ==
  ASSUME NEW k \in Kind, NEW l \in Kind, ~Crosses(k, l), ~Crosses(l, k),
         NEW x \in Row, NEW y \in Row, Before(k, x, y), Before(l, y, x)
  PROVE  FALSE
<1>1. x[2] \in Nat /\ x[3] \in Nat /\ y[2] \in Nat /\ y[3] \in Nat BY DEF Row
<1>2. CASE Precedes(k, x[1], y[1]) BY <1>2, BeforeParts, OrdersAgree
<1>3. CASE Precedes(l, y[1], x[1]) BY <1>3, BeforeParts, OrdersAgree
<1>4. CASE ~Precedes(k, x[1], y[1]) /\ ~Precedes(l, y[1], x[1])
  <2>1. x[2] < y[2] \/ (x[2] = y[2] /\ x[3] < y[3]) BY <1>4, BeforeParts
  <2>2. y[2] < x[2] \/ (y[2] = x[2] /\ y[3] < x[3]) BY <1>4, BeforeParts
  <2> QED BY <1>1, <2>1, <2>2
<1> QED BY <1>2, <1>3, <1>4

LEMMA RowTables ==
  ASSUME NEW j, j.kind \in Kind, NEW row \in Rows(j)
  PROVE  /\ row[1] \in Tables(j.kind)
         /\ j.kind = "ADMIN" /\ row[1] = "session" => row = SessionRow(j.session)
         /\ j.kind = "REPLAY" => row = FamilyRow(j.session)
<1> USE DEF Rows, OtherRows, UserRow, FamilyRow, SessionRow, AuthRow, InvitationRow, PlatformRow
<1>1. CASE j.kind = "LOGIN" BY <1>1, TableSets
<1>2. CASE j.kind = "STEP_UP" BY <1>2, TableSets
<1>3. CASE j.kind = "REVOKE" BY <1>3, TableSets
<1>4. CASE j.kind = "REPLAY" BY <1>4, TableSets
<1>5. CASE j.kind = "ADMIN" BY <1>5, TableSets
<1>6. CASE j.kind = "ACCEPT" BY <1>6, TableSets
<1> QED BY <1>1, <1>2, <1>3, <1>4, <1>5, <1>6 DEF Kind

LEMMA MovesOrdered ==
  ASSUME NEW j \in Job, NEW x, Ordered(j), Moves(j, x), ShapeOK(j)
  PROVE  Ordered(x)
<1>1. CASE x.stage \in {None, "CLAIM", "ANSWER"} /\ x.todo = {} /\ x.held = {}
  BY <1>1 DEF Ordered, None
<1>2. CASE x.stage = "LOCK" /\ x.kind \in Kind /\ x.todo = Rows(x) /\ x.held = {}
  BY <1>2, RowTables DEF Ordered
<1>3. CASE /\ x.kind = j.kind /\ x.stage = j.stage
           /\ x.session = j.session /\ x.target = j.target
           /\ \E row : /\ NextRow(j, row)
                       /\ x.todo = j.todo \ {row} /\ x.held = j.held \cup {row}
  <2>1. PICK row : /\ NextRow(j, row)
                   /\ x.todo = j.todo \ {row} /\ x.held = j.held \cup {row}
    BY <1>3
  <2>2. row \in j.todo /\ \A other \in j.todo : ~Before(j.kind, other, row)
    BY <2>1 DEF NextRow
  <2>3. x.todo \cup x.held = j.todo \cup j.held /\ x.todo \subseteq j.todo BY <2>1, <2>2
  <2>4. j.stage = "LOCK" \/ j.kind # "ADMIN" =>
          \A mine \in x.held, next \in x.todo : ~Before(j.kind, next, mine)
    BY <2>1, <2>2 DEF Ordered
  <2>5. j.kind = "REPLAY" /\ j.stage = "SESSIONS" =>
          x.held \subseteq {FamilyRow(j.session), SessionRow(j.target)}
    BY <2>1, <2>2 DEF Ordered
  <2> QED BY <1>3, <2>3, <2>4, <2>5 DEF Ordered
<1>4. CASE /\ j.kind = "REPLAY" /\ j.stage = "LOCK" /\ x.kind = "REPLAY" /\ x.stage = "SESSIONS"
           /\ x.session = j.session /\ x.target[1] = j.session[1]
           /\ x.todo = {SessionRow(x.target)} /\ x.held = j.held
  <2>1. j.held \subseteq {FamilyRow(j.session)} BY <1>4 DEF Ordered
  <2>2. SessionRow(x.target)[1] = "session" /\ FamilyRow(j.session)[1] = "family"
    BY DEF SessionRow, FamilyRow
  <2>3. ~Before("REPLAY", SessionRow(x.target), FamilyRow(j.session))
    BY <2>2, Orders DEF Before, Precedes
  <2>4. FamilyRow(x.target) = FamilyRow(j.session) BY <1>4 DEF FamilyRow
  <2> QED BY <1>4, <2>1, <2>2, <2>3, <2>4, TableSets DEF Ordered
<1>5. CASE /\ j.kind = "ADMIN" /\ x.kind = "ADMIN" /\ x.session = j.session /\ x.held = j.held
           /\ j.stage = "LOCK" /\ x.stage = "FAMILIES"
           /\ \A row \in x.todo : row[1] = "family"
  BY <1>5, TableSets DEF Ordered
<1>6. CASE /\ j.kind = "ADMIN" /\ x.kind = "ADMIN" /\ x.session = j.session /\ x.held = j.held
           /\ j.stage = "FAMILIES" /\ x.stage = "SESSIONS"
           /\ \A row \in x.todo : row[1] = "session"
  BY <1>6, TableSets DEF Ordered
<1> QED BY <1>1, <1>2, <1>3, <1>4, <1>5, <1>6 DEF Moves

LEMMA OrderedStep ==
  ASSUME IInv, \A w \in Workers : Ordered(job[w]), [Next]_vars, NEW v \in Workers
  PROVE  Ordered(job'[v])
BY JobMoves, MovesOrdered DEF IInv, TypeOK, Requests

\* An administrator's request takes the platform's lock before any other.
LEMMA PlatformFirst ==
  ASSUME NEW j \in Job, j.kind = "ADMIN", j.held # {}, ShapeOK(j), RowsOK(j), Ordered(j)
  PROVE  PlatformRow \in j.held
<1>1. PlatformRow \in Rows(j) BY DEF Rows, OtherRows
<1>2. CASE j.stage = "LOCK"
  <2>1. PICK mine \in j.held : TRUE OBVIOUS
  <2>2. mine \in Row /\ PlatformRow \in Row BY RowTypes DEF Job
  <2>3. PlatformRow[1] = "platform" /\ PlatformRow[2] = 0 /\ PlatformRow[3] = 0
    BY DEF PlatformRow
  <2>4. ~Before("ADMIN", mine, PlatformRow)
    <3>1. ~Precedes("ADMIN", mine[1], "platform") BY Orders
    <3>2. mine[2] \in Nat /\ mine[3] \in Nat BY <2>2 DEF Row
    <3> QED BY <2>2, <2>3, <3>1, <3>2, BeforeParts DEF Kind
  <2>5. PlatformRow \in j.todo => mine = PlatformRow
    <3> SUFFICES ASSUME PlatformRow \in j.todo, mine # PlatformRow PROVE FALSE
      OBVIOUS
    <3>1. ~Before("ADMIN", PlatformRow, mine) BY <1>2, <2>1 DEF Ordered
    <3>2. mine[1] \in Tables("ADMIN") /\ PlatformRow[1] \in Tables("ADMIN")
      BY <2>1 DEF Ordered
    <3> QED BY <2>2, <2>4, <3>1, <3>2, Total DEF Kind
  <2> QED BY <1>1, <1>2, <2>1, <2>5 DEF RowsOK
<1>3. CASE j.stage \in {"FAMILIES", "SESSIONS"} BY <1>1, <1>3 DEF RowsOK
<1>4. j.stage \in {"LOCK", "FAMILIES", "SESSIONS"} BY DEF ShapeOK, Job, Stage, None
<1> QED BY <1>2, <1>3, <1>4

\* Two requests that lock in order, in orders that agree.
LEMMA InOrder ==
  ASSUME NEW j \in Job, NEW k \in Job, j.kind \in Kind, k.kind \in Kind,
         ~Crosses(j.kind, k.kind), ~Crosses(k.kind, j.kind), Ordered(j), Ordered(k),
         j.stage = "LOCK" \/ j.kind # "ADMIN", k.stage = "LOCK" \/ k.kind # "ADMIN",
         NEW a \in j.todo \cap k.held, NEW b \in k.todo \cap j.held, a # b
  PROVE  FALSE
<1>1. a \in Row /\ b \in Row BY DEF Job
<1>2. ~Before(j.kind, a, b) /\ ~Before(k.kind, b, a) BY DEF Ordered
<1>3. /\ a[1] \in Tables(j.kind) /\ b[1] \in Tables(j.kind)
      /\ a[1] \in Tables(k.kind) /\ b[1] \in Tables(k.kind)
  BY DEF Ordered
<1>4. Before(j.kind, b, a) /\ Before(k.kind, a, b) BY <1>1, <1>2, <1>3, Total
<1> QED BY <1>1, <1>4, NotBothBefore

\* An administrator's request that is at the user's families and sessions.
LEMMA LateAdmin ==
  ASSUME IInv, \A u \in Workers : Ordered(job[u]),
         NEW v \in Workers, NEW w \in Workers, v # w,
         job[v].kind = "ADMIN", job[v].stage \in {"FAMILIES", "SESSIONS"},
         job[w].kind \in {"LOGIN", "REPLAY", "ADMIN"},
         NEW a \in job[v].todo \cap job[w].held, NEW b \in job[w].todo \cap job[v].held
  PROVE  FALSE
<1> DEFINE j == job[v]
           k == job[w]
<1>1. /\ j \in Job /\ k \in Job /\ ShapeOK(j) /\ ShapeOK(k) /\ RowsOK(j) /\ RowsOK(k)
      /\ Ordered(j) /\ Ordered(k) /\ j.held \cap k.held = {}
  BY DEF IInv, TypeOK, Requests, Exclusive
<1>2. a \in j.todo /\ a \in k.held /\ b \in k.todo /\ b \in j.held /\ a # b BY <1>1
<1>3. j.kind = "ADMIN" /\ j.stage \in {"FAMILIES", "SESSIONS"} OBVIOUS
<1>4. k.kind \in {"LOGIN", "REPLAY", "ADMIN"} OBVIOUS
<1> HIDE DEF j, k
<1>5. a[1] \in {"family", "session"} BY <1>1, <1>2, <1>3 DEF Ordered
<1>6. CASE k.kind = "LOGIN"
  <2>1. a[1] \in {"auth", "user"} BY <1>1, <1>2, <1>6, TableSets DEF Ordered
  <2> QED BY <1>5, <2>1
<1>7. CASE k.kind = "ADMIN"
  <2>1. PlatformRow \in j.held /\ PlatformRow \in k.held
    BY <1>1, <1>2, <1>3, <1>7, PlatformFirst
  <2> QED BY <1>1, <2>1
<1>8. CASE k.kind = "REPLAY"
  <2>1. k.stage \in {"LOCK", "SESSIONS"}
    BY <1>1, <1>8 DEF ShapeOK, Job, Stage, Callback, None
  <2>2. k.stage = "SESSIONS" BY <1>1, <1>2, <1>8, <2>1 DEF Ordered
  <2>3. /\ b = SessionRow(k.target) /\ a = FamilyRow(k.session)
        /\ FamilyRow(k.target) = FamilyRow(k.session)
    BY <1>1, <1>2, <1>8, <2>2 DEF Ordered
  <2>4. a[1] = "family" /\ b[1] = "session" BY <2>3 DEF FamilyRow, SessionRow
  <2>5. j.stage = "FAMILIES" BY <1>1, <1>2, <1>3, <2>4 DEF Ordered
  <2>6. b = SessionRow(j.session) BY <1>1, <1>2, <1>3, <2>4, <2>5 DEF Ordered
  <2>7. FamilyRow(j.session) \in j.held
    <3>1. FamilyRow(j.session) \in Rows(j) BY <1>3 DEF Rows, OtherRows
    <3> QED BY <1>1, <1>3, <3>1 DEF RowsOK
  <2>8. FamilyRow(k.target) = FamilyRow(j.session)
    BY <2>3, <2>6 DEF SessionRow, FamilyRow
  <2> QED BY <1>1, <1>2, <2>3, <2>7, <2>8
<1> QED BY <1>4, <1>6, <1>7, <1>8

LEMMA DeadlocksFound ==
  ASSUME IInv, \A w \in Workers : Ordered(job[w])
  PROVE  DeadlocksKnown
<1> SUFFICES ASSUME NEW v \in Workers, NEW w \in Workers, v # w,
                    WaitsFor(v, w), WaitsFor(w, v),
                    ~Crosses(job[v].kind, job[w].kind), ~Crosses(job[w].kind, job[v].kind)
             PROVE  FALSE
  BY DEF DeadlocksKnown
<1>1. PICK a \in job[v].todo \cap job[w].held : TRUE BY DEF WaitsFor
<1>2. PICK b \in job[w].todo \cap job[v].held : TRUE BY DEF WaitsFor
<1>3. /\ job[v] \in Job /\ job[w] \in Job /\ ShapeOK(job[v]) /\ ShapeOK(job[w])
      /\ job[v].held \cap job[w].held = {}
  BY DEF IInv, TypeOK, Requests, Exclusive
<1>4. a # b BY <1>1, <1>2, <1>3
<1>5. job[v].kind \in Kind /\ job[w].kind \in Kind BY <1>1, <1>2, <1>3 DEF ShapeOK, Job
<1>6. /\ job[v].stage \in {"LOCK", "FAMILIES", "SESSIONS"}
      /\ job[w].stage \in {"LOCK", "FAMILIES", "SESSIONS"}
  BY <1>1, <1>2, <1>3, <1>5 DEF ShapeOK, Job, Stage, Kind, None
<1>7. CASE job[v].kind = "ADMIN" /\ job[v].stage # "LOCK"
  <2>1. job[w].kind \in {"LOGIN", "REPLAY", "ADMIN"} BY <1>5, <1>7 DEF Kind, Crosses
  <2> QED BY <1>1, <1>2, <1>6, <1>7, <2>1, LateAdmin
<1>8. CASE job[w].kind = "ADMIN" /\ job[w].stage # "LOCK"
  <2>1. job[v].kind \in {"LOGIN", "REPLAY", "ADMIN"} BY <1>5, <1>8 DEF Kind, Crosses
  <2> QED BY <1>1, <1>2, <1>6, <1>8, <2>1, LateAdmin
<1>9. CASE /\ job[v].stage = "LOCK" \/ job[v].kind # "ADMIN"
           /\ job[w].stage = "LOCK" \/ job[w].kind # "ADMIN"
  BY <1>1, <1>2, <1>3, <1>4, <1>5, <1>9, InOrder
<1> QED BY <1>7, <1>8, <1>9

\* Two requests that wait for each other, so that PostgreSQL has to abort one
\* (40P01), are always of two kinds whose orders of locking cross: two of one
\* kind never do, a login never does, and the answer to a replayed handle
\* does only with a step-up.
THEOREM Deadlocks == Spec => []DeadlocksKnown
<1> DEFINE AllOrdered == \A w \in Workers : Ordered(job[w])
<1>1. Init => AllOrdered BY DEF Init, Idle, Ordered, None
<1>2. IInv /\ AllOrdered /\ [Next]_vars => AllOrdered' BY OrderedStep
<1>3. IInv /\ AllOrdered => DeadlocksKnown BY DeadlocksFound
<1> HIDE DEF AllOrdered
<1> QED BY <1>1, <1>2, <1>3, Invariance, PTL DEF Spec
-----------------------------------------------------------------------------
(* Login transactions nobody finishes                                        *)

\* The code was claimed, and the request that claimed it is gone.
Abandoned(t) ==
    auth[t].status = "EXCHANGING" /\ \A w \in Workers : ~Exchanging(job[w], t)

LEMMA StillAbandoned ==
  ASSUME IInv, NEW t \in Transactions, Abandoned(t), auth'[t] = auth[t],
         NEW w \in Workers, NEW x, SetJob(w, x), ~Exchanging(x, t)
  PROVE  Abandoned(t)'
BY DEF Abandoned, Exchanging, SetJob, IInv, TypeOK

LEMMA AbandonedArrive ==
  ASSUME IInv, NEW t \in Transactions, Abandoned(t), NEW w \in Workers, Arrive(w)
  PROVE  auth'[t] = auth[t] /\ Abandoned(t)'
<1>1. t # 0 /\ UNCHANGED auth
  BY Names DEF Arrive, StartCallback, StartRevoke, StartReplay, StartAdmin, StartAccept,
               Begin, iamVars
<1>2. ASSUME NEW c \in Transactions, StartCallback(w, c) PROVE Abandoned(t)'
  <2> DEFINE s == auth[c].session
             x == [Idle EXCEPT !.kind = IF s = NoSession THEN "LOGIN" ELSE "STEP_UP",
                               !.stage = "CLAIM", !.session = s, !.transaction = c]
  <2>1. SetJob(w, x) BY <1>2 DEF StartCallback
  <2>2. ~Exchanging(x, t) BY DEF Exchanging, Idle
  <2> HIDE DEF x
  <2> QED BY <1>1, <2>1, <2>2, StillAbandoned
<1>3. ASSUME NEW j, j.transaction = 0, Begin(w, j),
             StartTransaction(j).transaction = j.transaction
      PROVE  Abandoned(t)'
  <2>1. ~Exchanging(StartTransaction(j), t) BY <1>1, <1>3 DEF Exchanging
  <2> QED BY <1>1, <1>3, <2>1, StillAbandoned DEF Begin
<1>4. ASSUME NEW s \in Sessions, NEW target \in Sessions, StartRevoke(w, s, target)
      PROVE  Abandoned(t)'
  BY <1>3, <1>4 DEF StartRevoke, StartTransaction, Idle
<1>5. ASSUME NEW s \in Sessions, StartReplay(w, s) \/ StartAccept(w, s)
      PROVE  Abandoned(t)'
  BY <1>3, <1>5 DEF StartReplay, StartAccept, StartTransaction, Idle
<1>6. ASSUME NEW s \in Sessions, NEW command \in Command, NEW u \in Users,
             StartAdmin(w, s, command, u)
      PROVE  Abandoned(t)'
  BY <1>3, <1>6 DEF StartAdmin, StartTransaction, Idle
<1> QED BY <1>1, <1>2, <1>4, <1>5, <1>6 DEF Arrive

LEMMA AbandonedProceed ==
  ASSUME IInv, NEW t \in Transactions, Abandoned(t), NEW w \in Workers,
         Proceed(w) \/ Crash(w)
  PROVE  auth'[t] = auth[t] /\ Abandoned(t)'
<1> DEFINE j == job[w]
           Goal == auth'[t] = auth[t] /\ Abandoned(t)'
<1>1. /\ j \in Job /\ ShapeOK(j) /\ ~Exchanging(j, t) /\ ~Exchanging(Idle, t) /\ t # 0
      /\ DOMAIN auth = Transactions /\ auth[t].status = "EXCHANGING"
  BY Names DEF IInv, TypeOK, Requests, Abandoned, Exchanging, Idle, None
<1>2. ASSUME NEW status, Resolve(j.transaction, status), j.transaction # t
      PROVE  auth'[t] = auth[t]
  BY <1>1, <1>2 DEF Resolve
<1>3. ASSUME auth'[t] = auth[t], SetJob(w, Idle) PROVE Goal
  BY <1>1, <1>3, StillAbandoned
<1>4. ASSUME UNCHANGED auth, NEW x, SetJob(w, x), x.transaction = j.transaction,
             x.stage = j.stage \/ x.stage \notin {"ANSWER", "LOCK"}
      PROVE  Goal
  <2>1. ~Exchanging(x, t) BY <1>1, <1>4 DEF Exchanging
  <2> QED BY <1>4, <2>1, StillAbandoned
<1>5. ASSUME NEW row \in j.todo, Lock(w, row) PROVE Goal
  <2> DEFINE x == [j EXCEPT !.todo = @ \ {row}, !.held = @ \cup {row},
                            !.valid = @ /\ StillTrue(j, row)]
  <2>1. UNCHANGED auth /\ (SetJob(w, x) \/ SetJob(w, Idle)) BY <1>5 DEF Lock, iamVars
  <2>2. x.transaction = j.transaction /\ x.stage = j.stage BY <1>1 DEF Job
  <2> HIDE DEF x
  <2> QED BY <1>3, <1>4, <2>1, <2>2
<1>6. CASE Abort(w)
  <2> DEFINE x == StartTransaction(j)
  <2>1. UNCHANGED auth /\ (SetJob(w, Idle) \/ (~Callback(j) /\ SetJob(w, x)))
    BY <1>6 DEF Abort, iamVars
  <2>2. ~Callback(j) => x.transaction = 0
    BY <1>1 DEF ShapeOK, StartTransaction, Job
  <2>3. ~Callback(j) => ~Exchanging(x, t) BY <1>1, <2>2 DEF Exchanging
  <2> HIDE DEF x
  <2> QED BY <1>3, <2>1, <2>3, StillAbandoned
<1>7. CASE ProviderError(w)
  <2>1. SetJob(w, Idle) BY <1>7 DEF ProviderError
  <2>2. CASE j.transaction = t BY <1>1, <1>3, <1>7, <2>1, <2>2 DEF ProviderError, iamVars
  <2>3. CASE j.transaction # t BY <1>2, <1>3, <1>7, <2>1, <2>3 DEF ProviderError, iamVars
  <2> QED BY <2>2, <2>3
<1>8. CASE Claim(w)
  <2> DEFINE x == [j EXCEPT !.stage = "ANSWER"]
  <2>1. \/ SetJob(w, Idle) /\ UNCHANGED auth
        \/ /\ SetJob(w, x) /\ auth[j.transaction].status = "PENDING"
           /\ Resolve(j.transaction, "EXCHANGING")
    BY <1>8 DEF Claim, iamVars
  <2>2. x.transaction = j.transaction BY <1>1 DEF Job
  <2> HIDE DEF x
  <2>3. auth[j.transaction].status = "PENDING" => j.transaction # t /\ ~Exchanging(x, t)
    BY <1>1, <2>2 DEF Exchanging
  <2> QED BY <1>2, <1>3, <2>1, <2>3, StillAbandoned
<1>9. ASSUME j.stage \in {"ANSWER", "LOCK"} PROVE j.transaction # t
  BY <1>1, <1>9 DEF Exchanging
<1>10. ASSUME NEW status \in {"FAILED", "RESULT_UNKNOWN"}, ExchangeFails(w, status)
       PROVE  Goal
  BY <1>2, <1>3, <1>9, <1>10 DEF ExchangeFails
<1>11. ASSUME NEW u \in Users, ExchangeSucceeds(w, u) PROVE Goal
  <2> DEFINE x == StartTransaction([j EXCEPT !.user = u])
  <2>1. UNCHANGED auth /\ j.stage = "ANSWER" /\ (SetJob(w, x) \/ SetJob(w, Idle))
    BY <1>11 DEF ExchangeSucceeds, iamVars
  <2>2. x.transaction = j.transaction BY <1>1 DEF StartTransaction, Job
  <2> HIDE DEF x
  <2>3. ~Exchanging(x, t) BY <1>9, <2>1, <2>2 DEF Exchanging
  <2> QED BY <1>3, <2>1, <2>3, StillAbandoned
<1>12. CASE FailCallback(w) \/ FinishLogin(w) \/ FinishStepUp(w)
  <2>1. SetJob(w, Idle) /\ j.stage = "LOCK"
    BY <1>12 DEF FailCallback, FinishLogin, FinishStepUp, Commits
  <2>2. auth'[t] = auth[t]
    BY <1>1, <1>2, <1>9, <1>12, <2>1 DEF FailCallback, FinishLogin, FinishStepUp
  <2> QED BY <1>3, <2>1, <2>2
<1>13. CASE \/ FinishRevoke(w) \/ FinishReplay(w) \/ FinishAdmin(w) \/ FinishAccept(w)
            \/ Crash(w)
  BY <1>3, <1>13 DEF FinishRevoke, FinishReplay, FinishAdmin, FinishAccept, Crash, Commits,
                     iamVars
<1>14. CASE FindSuccessor(w)
  <2> DEFINE successor == <<j.session[1], family[j.session[1]].generation>>
             x == [j EXCEPT !.stage = "SESSIONS", !.target = successor,
                            !.todo = {SessionRow(successor)}]
  <2>1. UNCHANGED auth /\ (SetJob(w, x) \/ SetJob(w, Idle))
    BY <1>14 DEF FindSuccessor, iamVars
  <2>2. x.transaction = j.transaction /\ x.stage = "SESSIONS" BY <1>1 DEF Job
  <2> HIDE DEF x
  <2> QED BY <1>3, <1>4, <2>1, <2>2
<1>15. CASE LockFamilies(w)
  <2> DEFINE x == [j EXCEPT !.stage = "FAMILIES",
                            !.todo = {FamilyRow(<<f, 0>>) : f \in ActiveFamilies(j.user)}]
  <2>1. UNCHANGED auth /\ SetJob(w, x) BY <1>15 DEF LockFamilies, iamVars
  <2>2. x.transaction = j.transaction /\ x.stage = "FAMILIES" BY <1>1 DEF Job
  <2> HIDE DEF x
  <2> QED BY <1>4, <2>1, <2>2
<1>16. CASE LockSessions(w)
  <2> DEFINE x == [j EXCEPT !.stage = "SESSIONS",
                            !.todo = {SessionRow(s) : s \in ActiveSessions(j.user)}]
  <2>1. UNCHANGED auth /\ SetJob(w, x) BY <1>16 DEF LockSessions, iamVars
  <2>2. x.transaction = j.transaction /\ x.stage = "SESSIONS" BY <1>1 DEF Job
  <2> HIDE DEF x
  <2> QED BY <1>4, <2>1, <2>2
<1> QED
  BY <1>5, <1>6, <1>7, <1>8, <1>10, <1>11, <1>12, <1>13, <1>14, <1>15, <1>16 DEF Proceed

\* A login transaction whose callback has died after it claimed the code, or has
\* given a step-up up, stays EXCHANGING: no redelivered callback takes it over,
\* and it never gets a result.
THEOREM AbandonedForGood ==
  Spec => [][\A t \in Transactions : Abandoned(t) => Abandoned(t)']_vars
<1>1. ASSUME IInv, [Next]_vars, NEW t \in Transactions, Abandoned(t)
      PROVE  Abandoned(t)'
  <2>1. CASE \E w \in Workers : Arrive(w) BY <1>1, <2>1, AbandonedArrive
  <2>2. CASE \E w \in Workers : Proceed(w) \/ Crash(w) BY <1>1, <2>2, AbandonedProceed
  <2>3. CASE UNCHANGED job /\ auth'[t] = auth[t] BY <1>1, <2>3 DEF Abandoned
  <2>4. ASSUME NEW c \in Transactions,
               BeginLogin(c) \/ \E s \in Sessions : BeginStepUp(c, s)
        PROVE  UNCHANGED job /\ auth'[t] = auth[t]
    <3>1. auth[c].status = None /\ auth[t].status = "EXCHANGING"
      BY <1>1, <2>4 DEF BeginLogin, BeginStepUp, Abandoned
    <3>2. c # t BY <3>1 DEF None
    <3> QED BY <1>1, <2>4, <3>2 DEF BeginLogin, BeginStepUp, IInv, TypeOK
  <2>5. CASE Time \/ UNCHANGED vars
    BY <2>3, <2>5 DEF Time, Lapse, TransactionLapses, vars
  <2> QED BY <1>1, <2>1, <2>2, <2>3, <2>4, <2>5 DEF Next
<1>2. IInv /\ [Next]_vars =>
        [\A t \in Transactions : Abandoned(t) => Abandoned(t)']_vars
  BY <1>1
<1> QED BY <1>2, Invariance, PTL DEF Spec
=============================================================================
