---------------------------- MODULE IamSessions ----------------------------
(***************************************************************************)
(* Login sessions of the identity context and the requests that change     *)
(* them: the OIDC callback of a login or of a generic step-up, a user who  *)
(* revokes an own session, an access administrator who suspends, resumes   *)
(* or logs out a user, an invitation that is accepted, and an old session  *)
(* handle that is presented again.                                         *)
(*                                                                         *)
(* Each request runs one READ COMMITTED transaction that locks rows in an  *)
(* order of its own, looks at each row once it has the lock, and writes    *)
(* when it has them all.  What it wrote shows with its commit, so writing, *)
(* committing and releasing the locks are one step.  The orders differ     *)
(* from request to request: a blocked one may be aborted as a deadlock     *)
(* victim (40P01) or by lock_timeout (55P03).                              *)
(*                                                                         *)
(* Numbers name users, transactions and families: user u had family u when *)
(* this begins, and the family that login transaction t creates is t.      *)
(* Idempotency receipts, If-Match versions, the MFA age of an              *)
(* administrator and the rows that no two of these requests share are left *)
(* out.                                                                    *)
(***************************************************************************)
EXTENDS Integers, FiniteSets

CONSTANTS
    Users,         \* users with an identity
    Admins,        \* users with a live ACCESS_ADMIN duty grant
    Invited,       \* users enrolled through an invitation not yet accepted
    Transactions,  \* identifiers of OIDC auth transactions
    Workers,       \* requests in progress at the same time
    MaxGeneration, \* bound on the rotations of a session family
    MaxLapsed      \* bound on the sessions that run out

ASSUME NamesAssumption ==
    /\ Users \subseteq Nat \ {0} /\ Transactions \subseteq Nat \ {0}
    /\ Users \cap Transactions = {}
    /\ Admins \subseteq Users /\ Invited \subseteq Users

ASSUME BoundsAssumption ==
    MaxGeneration \in Nat \ {0} /\ MaxLapsed \in Nat

Families == Users \cup Transactions
Sessions == Families \X (1 .. MaxGeneration)  \* <<family, generation>>

None == "NONE"
NoSession == <<0, 0>>

VARIABLES
    user,        \* users.status
    invitation,  \* access_invitations.status, by invited user
    family,      \* session_families: owner, status, current_generation
    session,     \* sessions: status and auth_transaction_id
    lapsed,      \* sessions past their idle or absolute expiry
    auth,        \* auth_transactions: status and initiating_session_id
    late,        \* auth transactions past their deadline
    job          \* the request each worker executes

iamVars == <<user, invitation, family, session, lapsed, auth, late>>
vars == <<user, invitation, family, session, lapsed, auth, late, job>>

(***************************************************************************)
(* Rows that are locked FOR UPDATE.  "platform" stands for the advisory    *)
(* lock of the internal sandbox's administration and the ACCESS_ADMIN      *)
(* grants, which only administrators lock.                                 *)
(***************************************************************************)
UserRow(u) == <<"user", u, 0>>
FamilyRow(s) == <<"family", s[1], 0>>
SessionRow(s) == <<"session", s[1], s[2]>>
AuthRow(t) == <<"auth", t, 0>>
InvitationRow(u) == <<"invitation", u, 0>>
PlatformRow == <<"platform", 0, 0>>

Row == {"user", "family", "session", "auth", "invitation", "platform"}
       \X Nat \X Nat

Kind == {"LOGIN", "STEP_UP", "REVOKE", "ADMIN", "ACCEPT", "REPLAY"}
Command == {"SUSPEND", "RESUME", "REVOKE_ALL"}
Stage == {"CLAIM", "ANSWER", "LOCK", "FAMILIES", "SESSIONS"}

Job == [kind : Kind \cup {None}, stage : Stage \cup {None},
        session : Sessions \cup {NoSession},  \* of the actor, or the old one
        target : Sessions \cup {NoSession},   \* to be revoked
        user : Users \cup {0},                \* who logs in, or is managed
        transaction : Transactions \cup {0},
        command : Command \cup {None},
        todo : SUBSET Row, held : SUBSET Row, \* rows to lock, rows locked
        valid : BOOLEAN]

Idle == [kind |-> None, stage |-> None, session |-> NoSession,
         target |-> NoSession, user |-> 0, transaction |-> 0,
         command |-> None, todo |-> {}, held |-> {}, valid |-> TRUE]

TypeOK ==
    /\ user \in [Users -> {"PENDING_ENROLLMENT", "ACTIVE", "SUSPENDED"}]
    /\ invitation \in [Users -> {"NONE", "ISSUED", "ACCEPTED"}]
    /\ family \in [Families -> [owner : Users \cup {0},
                                status : {"NONE", "ACTIVE", "REVOKED"},
                                generation : 0 .. MaxGeneration]]
    /\ session \in [Sessions -> [status : {"NONE", "ACTIVE", "REVOKED", "EXPIRED"},
                                 origin : Transactions \cup {0}]]
    /\ lapsed \subseteq Sessions
    /\ auth \in [Transactions ->
                   [status : {"NONE", "PENDING", "EXCHANGING", "SUCCEEDED",
                              "FAILED", "RESULT_UNKNOWN"},
                    session : Sessions \cup {NoSession}]]
    /\ late \subseteq Transactions
    /\ job \in [Workers -> Job]

\* Everybody is logged in once.
Init ==
    /\ user = [u \in Users |-> IF u \in Invited \ Admins THEN "PENDING_ENROLLMENT" ELSE "ACTIVE"]
    /\ invitation = [u \in Users |-> IF u \in Invited THEN "ISSUED" ELSE None]
    /\ family = [f \in Families |->
                   IF f \in Users
                   THEN [owner |-> f, status |-> "ACTIVE", generation |-> 1]
                   ELSE [owner |-> 0, status |-> None, generation |-> 0]]
    /\ session = [s \in Sessions |->
                    [status |-> IF s[1] \in Users /\ s[2] = 1 THEN "ACTIVE" ELSE None,
                     origin |-> 0]]
    /\ lapsed = {} /\ late = {}
    /\ auth = [t \in Transactions |-> [status |-> None, session |-> NoSession]]
    /\ job = [w \in Workers |-> Idle]

Owner(s) == family[s[1]].owner
Unexpired(s) == session[s].status = "ACTIVE" /\ s \notin lapsed
Current(s) == family[s[1]].status = "ACTIVE" /\ family[s[1]].generation = s[2]

\* A request with this session's handle gets past authentication.
Usable(s) ==
    /\ Unexpired(s) /\ Current(s)
    /\ user[Owner(s)] \in {"PENDING_ENROLLMENT", "ACTIVE"}
-----------------------------------------------------------------------------
(* Time                                                                      *)

Lapse(s) ==
    /\ session[s].status = "ACTIVE" /\ s \notin lapsed
    /\ Cardinality(lapsed) < MaxLapsed
    /\ lapsed' = lapsed \cup {s}
    /\ UNCHANGED <<user, invitation, family, session, auth, late, job>>

TransactionLapses(t) ==
    /\ auth[t].status \in {"PENDING", "EXCHANGING"} /\ t \notin late
    /\ late' = late \cup {t}
    /\ UNCHANGED <<user, invitation, family, session, lapsed, auth, job>>
-----------------------------------------------------------------------------
(* Locking                                                                   *)

SetJob(w, j) == job' = [job EXCEPT ![w] = j]

Callback(j) == j.kind \in {"LOGIN", "STEP_UP"}

\* The rows a transaction of this request sets out to lock, but for users.
OtherRows(j) ==
    CASE j.kind = "LOGIN" -> {AuthRow(j.transaction)}
      [] j.kind = "STEP_UP" -> {AuthRow(j.transaction), SessionRow(j.session), FamilyRow(j.session)}
      [] j.kind = "REVOKE" -> {FamilyRow(j.session), FamilyRow(j.target),
                               SessionRow(j.session), SessionRow(j.target)}
      [] j.kind = "REPLAY" -> {FamilyRow(j.session)}
      [] j.kind = "ADMIN" -> {PlatformRow, FamilyRow(j.session), SessionRow(j.session)}
      [] j.kind = "ACCEPT" -> {FamilyRow(j.session), SessionRow(j.session),
                               InvitationRow(Owner(j.session))}

Rows(j) ==
    OtherRows(j) \cup
    CASE j.kind = "LOGIN" -> {UserRow(j.user)}
      [] j.kind = "ADMIN" -> {UserRow(Owner(j.session)), UserRow(j.user)}
      [] j.kind = "REPLAY" -> {}
      [] OTHER -> {UserRow(Owner(j.session))}

LockOrder ==
    [LOGIN   |-> <<"auth", "user">>,
     STEP_UP |-> <<"auth", "session", "family", "user">>,
     REVOKE  |-> <<"user", "family", "session">>,
     REPLAY  |-> <<"family", "session">>,
     ADMIN   |-> <<"platform", "family", "session", "user">>,
     ACCEPT  |-> <<"family", "session", "invitation", "user">>]

\* Within a table, rows are locked in the order of their identifiers.
Before(kind, x, y) ==
    \E m, n \in DOMAIN LockOrder[kind] :
        /\ LockOrder[kind][m] = x[1] /\ LockOrder[kind][n] = y[1]
        /\ \/ m < n
           \/ m = n /\ x[2] < y[2]
           \/ m = n /\ x[2] = y[2] /\ x[3] < y[3]

\* A login found to be late does not go on to the user's row.
NextRow(j, row) ==
    /\ row \in j.todo
    /\ j.kind = "LOGIN" => j.valid
    /\ \A other \in j.todo : ~Before(j.kind, other, row)

HeldElsewhere(w, row) == \E v \in Workers \ {w} : row \in job[v].held

AdminTakes == [SUSPEND |-> {"ACTIVE"}, RESUME |-> {"SUSPENDED"},
               REVOKE_ALL |-> {"ACTIVE", "SUSPENDED"}]

\* The account's status lets the request go on.
Admitted(j, u) ==
    CASE j.kind = "ACCEPT" -> user[u] \in {"PENDING_ENROLLMENT", "ACTIVE"}
      [] j.kind = "ADMIN" /\ u = j.user ->
            /\ user[u] \in AdminTakes[j.command]
            /\ j.command = "SUSPEND" =>
                 \E a \in Admins \ {u} : user[a] = "ACTIVE"
      [] OTHER -> user[u] = "ACTIVE"

\* The actor's session must be alive, except to log itself out.
NeedsLive(j) ==
    \/ j.kind \in {"STEP_UP", "ADMIN", "ACCEPT"}
    \/ j.kind = "REVOKE" /\ j.target # j.session

\* Deadlines are compared with the start of the transaction.  The auth row is
\* looked at right then: a callback locks it first, and it is the only one that
\* has exchanged the code, so it never waits for it.
InTime(j, row) == row[1] = "auth" => j.transaction \notin late

\* What the request looks at in a row, once it has locked it.
StillTrue(j, row) ==
    /\ InTime(j, row)
    /\ row[1] = "user" => Admitted(j, row[2])
    /\ row[1] = "invitation" => invitation[row[2]] = "ISSUED"
    /\ row = FamilyRow(j.session) /\ j.kind \in {"STEP_UP", "ADMIN", "ACCEPT"}
          => Current(j.session)
    /\ row = SessionRow(j.session) /\ NeedsLive(j) => Unexpired(j.session)

\* A refusal rolls back, but for a callback's, which fails its transaction; a
\* step-up first locks the rest.
Lock(w, row) ==
    LET j == job[w] IN
    /\ NextRow(j, row)
    /\ ~HeldElsewhere(w, row)
    /\ SetJob(w, IF StillTrue(j, row) \/ Callback(j)
                 THEN [j EXCEPT !.todo = @ \ {row}, !.held = @ \cup {row},
                                !.valid = @ /\ StillTrue(j, row)]
                 ELSE Idle)
    /\ UNCHANGED iamVars

StartTransaction(j) ==
    [j EXCEPT !.stage = "LOCK", !.todo = Rows(j), !.held = {}, !.valid = TRUE]

\* The transaction is aborted while it waits for a row.  It is tried again,
\* a bounded number of times; the finalization of a callback never is.
Abort(w) ==
    LET j == job[w] IN
    /\ \E row \in j.todo : NextRow(j, row) /\ HeldElsewhere(w, row)
    /\ \/ SetJob(w, Idle)
       \/ ~Callback(j) /\ SetJob(w, StartTransaction(j))
    /\ UNCHANGED iamVars

\* The process dies, or its connection; the database rolls back.
Crash(w) ==
    /\ job[w] # Idle
    /\ SetJob(w, Idle)
    /\ UNCHANGED iamVars

Begin(w, j) ==
    /\ job[w] = Idle
    /\ SetJob(w, StartTransaction(j))
    /\ UNCHANGED iamVars

\* Everything is locked: the writes are committed and the request ends.
Commits(w, kind, stage) ==
    /\ job[w].kind = kind /\ job[w].stage = stage /\ job[w].todo = {}
    /\ SetJob(w, Idle)
    /\ UNCHANGED <<lapsed, late>>

RotateSkipping(s, t) ==
    /\ session' = [session EXCEPT ![s].status = "REVOKED",
                                  ![<<s[1], s[2] + 1>>] = [status |-> "ACTIVE", origin |-> t]]
    /\ family' = [family EXCEPT ![s[1]].generation = @ + 2]

\* The session is succeeded by one of the next generation.
Rotate(s, t) ==
    /\ session' = [session EXCEPT ![s].status = "REVOKED",
                                  ![<<s[1], s[2] + 1>>] = [status |-> "ACTIVE", origin |-> t]]
    /\ family' = [family EXCEPT ![s[1]].generation = s[2] + 1]
-----------------------------------------------------------------------------
(* The OIDC callback                                                         *)

BeginLogin(t) ==
    /\ auth[t].status = None
    /\ auth' = [auth EXCEPT ![t] = [status |-> "PENDING", session |-> NoSession]]
    /\ UNCHANGED <<user, invitation, family, session, lapsed, late, job>>

BeginStepUp(t, s) ==
    /\ auth[t].status = None
    /\ Usable(s) /\ s[2] < MaxGeneration
    /\ auth' = [auth EXCEPT ![t] = [status |-> "PENDING", session |-> s]]
    /\ UNCHANGED <<user, invitation, family, session, lapsed, late, job>>

\* The pending transaction is looked up; a step-up needs the cookie of the
\* session that began it.
StartCallback(w, t) ==
    LET s == auth[t].session IN
    /\ job[w] = Idle
    /\ auth[t].status = "PENDING" /\ t \notin late
    /\ s # NoSession => Usable(s)
    /\ SetJob(w, [Idle EXCEPT !.kind = IF s = NoSession THEN "LOGIN" ELSE "STEP_UP",
                              !.stage = "CLAIM", !.session = s, !.transaction = t])
    /\ UNCHANGED iamVars

Resolve(t, status) ==
    /\ auth' = [auth EXCEPT ![t].status = status]
    /\ UNCHANGED <<user, invitation, family, session, lapsed, late>>

\* The provider redirected with an error instead of a code.
ProviderError(w) ==
    LET t == job[w].transaction IN
    /\ job[w].stage = "CLAIM"
    /\ SetJob(w, Idle)
    /\ IF auth[t].status = "PENDING" THEN Resolve(t, "FAILED") ELSE UNCHANGED iamVars

ClaimUnchecked(w) ==
    /\ job[w].stage = "CLAIM"
    /\ SetJob(w, [job[w] EXCEPT !.stage = "ANSWER"])
    /\ Resolve(job[w].transaction, "EXCHANGING")

\* PENDING -> EXCHANGING by compare and swap.  The one that gets it calls the
\* provider with the code, outside any transaction.
Claim(w) ==
    LET t == job[w].transaction IN
    /\ job[w].stage = "CLAIM"
    /\ IF auth[t].status = "PENDING" /\ t \notin late
       THEN /\ SetJob(w, [job[w] EXCEPT !.stage = "ANSWER"])
            /\ Resolve(t, "EXCHANGING")
       ELSE SetJob(w, Idle) /\ UNCHANGED iamVars

\* The provider rejects the code, answers nothing usable or names a subject
\* that does not fit.
ExchangeFails(w, status) ==
    /\ job[w].stage = "ANSWER"
    /\ SetJob(w, Idle)
    /\ Resolve(job[w].transaction, status)

\* The provider names the subject.  A step-up whose session has ended in the
\* meantime is given up here, and the transaction stays EXCHANGING.
ExchangeSucceeds(w, u) ==
    LET j == job[w] IN
    /\ j.stage = "ANSWER"
    /\ j.kind = "STEP_UP" => u = Owner(j.session)
    /\ SetJob(w, IF \/ j.kind = "LOGIN"
                    \/ /\ j.transaction \notin late
                       /\ Unexpired(j.session) /\ Current(j.session)
                 THEN StartTransaction([j EXCEPT !.user = u])
                 ELSE Idle)
    /\ UNCHANGED iamVars

FailCallback(w) ==
    LET j == job[w] IN
    /\ Callback(j) /\ j.stage = "LOCK" /\ ~j.valid
    /\ j.kind = "STEP_UP" => j.todo = {}
    /\ SetJob(w, Idle)
    /\ Resolve(j.transaction, "FAILED")

FinishLogin(w) ==
    LET t == job[w].transaction IN
    /\ job[w].valid
    /\ Commits(w, "LOGIN", "LOCK")
    /\ family' = [family EXCEPT ![t] = [owner |-> job[w].user, status |-> "ACTIVE",
                                        generation |-> 1]]
    /\ session' = [session EXCEPT ![<<t, 1>>] = [status |-> "ACTIVE", origin |-> t]]
    /\ auth' = [auth EXCEPT ![t].status = "SUCCEEDED"]
    /\ UNCHANGED <<user, invitation>>

FinishStepUp(w) ==
    LET t == job[w].transaction IN
    /\ job[w].valid
    /\ Commits(w, "STEP_UP", "LOCK")
    /\ Rotate(job[w].session, t)
    /\ auth' = [auth EXCEPT ![t].status = "SUCCEEDED"]
    /\ UNCHANGED <<user, invitation>>
-----------------------------------------------------------------------------
(* A user revokes one of the own sessions, the current one or another        *)

StartRevoke(w, s, target) ==
    /\ Usable(s)
    /\ session[target].status # None /\ Owner(target) = Owner(s)
    /\ Begin(w, [Idle EXCEPT !.kind = "REVOKE", !.session = s, !.target = target])

\* The family stays ACTIVE.  A session that has ended already stays as it is.
FinishRevoke(w) ==
    /\ Commits(w, "REVOKE", "LOCK")
    /\ LET s == job[w].target IN
       session' = [session EXCEPT ![s].status =
                     IF @ # "ACTIVE" THEN @
                     ELSE IF s \in lapsed THEN "EXPIRED" ELSE "REVOKED"]
    /\ UNCHANGED <<user, invitation, family, auth>>
-----------------------------------------------------------------------------
(* A handle that a rotation has replaced is presented again                  *)

StartReplay(w, s) ==
    /\ session[s].status = "REVOKED" /\ s[2] < family[s[1]].generation
    /\ Begin(w, [Idle EXCEPT !.kind = "REPLAY", !.session = s])

\* The family is locked.  Of an ACTIVE family, the session of the current
\* generation is looked for among the ACTIVE ones; when there is none the
\* program raises and nothing is written.
FindSuccessor(w) ==
    LET j == job[w]
        successor == <<j.session[1], family[j.session[1]].generation>> IN
    /\ j.kind = "REPLAY" /\ j.stage = "LOCK" /\ j.todo = {}
    /\ SetJob(w, IF /\ family[j.session[1]].status = "ACTIVE"
                    /\ session[successor].status = "ACTIVE"
                 THEN [j EXCEPT !.stage = "SESSIONS", !.target = successor,
                                !.todo = {SessionRow(successor)}]
                 ELSE Idle)
    /\ UNCHANGED iamVars

FinishReplay(w) ==
    /\ Commits(w, "REPLAY", "SESSIONS")
    /\ session' = [session EXCEPT ![job[w].target].status = "REVOKED"]
    /\ family' = [family EXCEPT ![job[w].target[1]].status = "REVOKED"]
    /\ UNCHANGED <<user, invitation, auth>>
-----------------------------------------------------------------------------
(* An access administrator manages another user                              *)

StartAdmin(w, s, command, u) ==
    /\ Usable(s)
    /\ Owner(s) \in Admins /\ u # Owner(s)
    /\ Begin(w, [Idle EXCEPT !.kind = "ADMIN", !.session = s, !.user = u,
                             !.command = command])

ActiveFamilies(u) == {f \in Families : family[f].owner = u /\ family[f].status = "ACTIVE"}
ActiveSessions(u) == {s \in Sessions : Owner(s) = u /\ session[s].status = "ACTIVE"}

LockFamilies(w) ==
    LET j == job[w] IN
    /\ j.kind = "ADMIN" /\ j.stage = "LOCK" /\ j.todo = {}
    /\ SetJob(w, [j EXCEPT !.stage = "FAMILIES",
                           !.todo = {FamilyRow(<<f, 0>>) : f \in ActiveFamilies(j.user)}])
    /\ UNCHANGED iamVars

LockSessions(w) ==
    LET j == job[w] IN
    /\ j.kind = "ADMIN" /\ j.stage = "FAMILIES" /\ j.todo = {}
    /\ SetJob(w, [j EXCEPT !.stage = "SESSIONS",
                           !.todo = {SessionRow(s) : s \in ActiveSessions(j.user)}])
    /\ UNCHANGED iamVars

RevokeFamilies(u) ==
    /\ family' = [f \in Families |-> IF f \in ActiveFamilies(u)
                                     THEN [family[f] EXCEPT !.status = "REVOKED"] ELSE family[f]]
    /\ UNCHANGED session

\* Each command ends every session of the user; they are read again under
\* the locks.
RevokeAll(u) ==
    /\ family' = [f \in Families |-> IF f \in ActiveFamilies(u)
                                     THEN [family[f] EXCEPT !.status = "REVOKED"] ELSE family[f]]
    /\ session' = [s \in Sessions |-> IF s \in ActiveSessions(u)
                                      THEN [session[s] EXCEPT !.status = "REVOKED"] ELSE session[s]]

FinishAdmin(w) ==
    LET j == job[w] IN
    /\ Commits(w, "ADMIN", "SESSIONS")
    /\ RevokeAll(j.user)
    /\ user' = [user EXCEPT ![j.user] =
                  CASE j.command = "SUSPEND" -> "SUSPENDED"
                    [] j.command = "RESUME" -> "ACTIVE"
                    [] OTHER -> @]
    /\ UNCHANGED <<invitation, auth>>
-----------------------------------------------------------------------------
(* An invitation is accepted, in the session that was verified for it        *)

StartAccept(w, s) ==
    /\ Usable(s)
    /\ Owner(s) \in Invited /\ s[1] \in Users /\ s[2] = 1 /\ s[2] < MaxGeneration
    /\ Begin(w, [Idle EXCEPT !.kind = "ACCEPT", !.session = s])

FinishAccept(w) ==
    LET u == Owner(job[w].session) IN
    /\ Commits(w, "ACCEPT", "LOCK")
    /\ user' = [user EXCEPT ![u] = "ACTIVE"]
    /\ invitation' = [invitation EXCEPT ![u] = "ACCEPTED"]
    /\ Rotate(job[w].session, 0)
    /\ UNCHANGED auth
-----------------------------------------------------------------------------
Time ==
    \/ \E s \in Sessions : Lapse(s)
    \/ \E t \in Transactions : TransactionLapses(t)

Arrive(w) ==
    \/ \E t \in Transactions : StartCallback(w, t)
    \/ \E s, target \in Sessions : StartRevoke(w, s, target)
    \/ \E s \in Sessions : StartReplay(w, s)
    \/ \E s \in Sessions, command \in Command, u \in Users : StartAdmin(w, s, command, u)
    \/ \E s \in Sessions : StartAccept(w, s)

Proceed(w) ==
    \/ \E row \in job[w].todo : Lock(w, row)
    \/ Abort(w)
    \/ ProviderError(w) \/ Claim(w)
    \/ \E status \in {"FAILED", "RESULT_UNKNOWN"} : ExchangeFails(w, status)
    \/ \E u \in Users : ExchangeSucceeds(w, u)
    \/ FailCallback(w) \/ FinishLogin(w) \/ FinishStepUp(w)
    \/ FinishRevoke(w)
    \/ FindSuccessor(w) \/ FinishReplay(w)
    \/ LockFamilies(w) \/ LockSessions(w) \/ FinishAdmin(w)
    \/ FinishAccept(w)

Next ==
    \/ Time
    \/ \E t \in Transactions : BeginLogin(t)
    \/ \E t \in Transactions, s \in Sessions : BeginStepUp(t, s)
    \/ \E w \in Workers : Arrive(w) \/ Proceed(w) \/ Crash(w)

Spec == Init /\ [][Next]_vars
-----------------------------------------------------------------------------
\* At most one session of a family is ACTIVE; it is the one of the current
\* generation, and its family is not REVOKED.  The deferred constraint
\* trigger enforce_session_family_consistent checks just this, so no commit
\* of these requests is refused by it.
OneLiveSession ==
    \A s \in Sessions : session[s].status = "ACTIVE" => Current(s)

\* A suspended user has neither a live session nor a live family, although a
\* login or a rotation may have been half way when the suspension came.
SuspendedLockedOut ==
    \A u \in Users : user[u] = "SUSPENDED" =>
        ActiveFamilies(u) = {} /\ ActiveSessions(u) = {}

\* Administrators who suspend each other never leave the platform without an
\* active one (LAST_ACTIVE_ACCESS_ADMIN).
AdminRemains == Admins = {} \/ \E a \in Admins : user[a] = "ACTIVE"

\* What has ended stays as it ended: a session that was revoked or has expired,
\* a family that was revoked, an invitation that was accepted and a login
\* transaction that has its result.  A family keeps its owner and counts its
\* generations one by one.
NothingRevives ==
    [][/\ \A s \in Sessions :
            session[s].status \in {"REVOKED", "EXPIRED"} => session'[s] = session[s]
       /\ \A f \in Families :
            /\ family[f].status = "REVOKED" => family'[f] = family[f]
            /\ family[f].status # None =>
                 /\ family'[f].owner = family[f].owner
                 /\ family'[f].generation \in {family[f].generation, family[f].generation + 1}
       /\ \A t \in Transactions :
            auth[t].status \in {"SUCCEEDED", "FAILED", "RESULT_UNKNOWN"} => auth'[t] = auth[t]
       /\ \A u \in Users : invitation[u] = "ACCEPTED" => invitation'[u] = "ACCEPTED"]_vars

\* However often the callback of a transaction is delivered, its code is
\* exchanged by one delivery, and it makes one session if it succeeds and
\* none if it does not.
OneLoginPerCallback ==
    \A t \in Transactions :
        /\ \A v, w \in Workers :
             /\ job[v].transaction = t /\ job[v].stage \in {"ANSWER", "LOCK"}
             /\ job[w].transaction = t /\ job[w].stage \in {"ANSWER", "LOCK"}
             => v = w
        /\ \A r, s \in Sessions :
             session[r].origin = t /\ session[s].origin = t => r = s
        /\ auth[t].status = "SUCCEEDED" <=> \E s \in Sessions : session[s].origin = t

\* The old handle of a family that is still ACTIVE finds the session to
\* revoke: the program's own check that raises "active session family is
\* inconsistent" is never met.
SuccessorFound ==
    \A w \in Workers :
        LET f == job[w].session[1] IN
        /\ job[w].kind = "REPLAY" /\ job[w].stage = "LOCK" /\ job[w].todo = {}
        /\ family[f].status = "ACTIVE"
        => session[<<f, family[f].generation>>].status = "ACTIVE"

\* What a request commits in the name of a session, it commits while the
\* session is alive (but for the clock) and its owner is not suspended: a
\* request does not outlive the revocation of the session it came with.
AuthorityAtCommit ==
    [][\A w \in Workers :
         /\ NeedsLive(job[w]) /\ job[w] # job'[w]
         /\ <<user, invitation, family, session>>' # <<user, invitation, family, session>>
         => /\ session[job[w].session].status = "ACTIVE"
            /\ Current(job[w].session)
            /\ user[Owner(job[w].session)] \in {"PENDING_ENROLLMENT", "ACTIVE"}]_vars
=============================================================================
