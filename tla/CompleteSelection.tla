--------------------------- MODULE CompleteSelection ---------------------------
(***************************************************************************)
(* One matching attempt from its completed run to its decision: the        *)
(* invitation and selection commands of matching/application/handlers.py   *)
(* over matching/domain/model.py, the owner's cancellation of the demand,  *)
(* and the calls of CompleteSelectionCoordinator.handle                    *)
(* (coordination/complete_selection.py), which turn a recorded choice into *)
(* a selected Selection and Attempt, a matched Demand and a Project.       *)
(*                                                                         *)
(* A matching command is one transaction, one step.  A coordinator call    *)
(* takes several: it reads a snapshot, reads the clock again once it holds *)
(* its locks, and commits; the unit of work is external and refuses a      *)
(* commit when another one came between, as the store of                   *)
(* platform/tests/coordination/test_complete_selection_red.py does.        *)
(*                                                                         *)
(* An invitation's version grows with every change of its status, so the   *)
(* status stands for both, and the digest of an invitation set is the set. *)
(* Time shows only in the deadlines that have passed.                      *)
(***************************************************************************)
EXTENDS Integers, FiniteSets

CONSTANTS Creators,  \* eligible candidates of the completed run
          Rounds,    \* invitations a creator may be sent
          Calls,     \* calls of the coordinator; each allocates its project id
          None       \* an absent fact

ASSUME SelectionAssumption ==
  /\ Rounds \in Nat \ {0}
  /\ None \notin Calls \cup {"refused", "unknown"}
  /\ {"refused", "unknown"} \cap Calls = {}

VARIABLES db,       \* the committed rows
          call,     \* the coordinator calls
          expired,  \* invitations past their expires_at
          lapsed    \* "hold", "selector", "system": validity that has ended

vars == <<db, call, expired, lapsed>>

Invitations == Creators \X (1..Rounds)

InvitationStatus ==
  {"NONE", "CREATED", "SENT", "ACCEPTED", "DECLINED", "WITHDRAWN"}

\* what current_invitation_set_sha256 digests: every invitation that was sent
InvitationSet(d) ==
  [i \in {j \in Invitations : d.invitation[j] \notin {"NONE", "CREATED"}} |->
     d.invitation[i]]

Sets == UNION {[I -> InvitationStatus] : I \in SUBSET Invitations}

NoneSent == [i \in {} |-> "NONE"]

Intent == [invitation : Invitations, selection : Nat, attempt : Nat, set : Sets]

\* the attempt is bound to the demand as it was when matching was requested
BoundDemandVersion == 1

Init ==
  /\ db = [invitation |-> [i \in Invitations |-> "NONE"],
           selection  |-> [status |-> "NONE", version |-> 0,
                           set |-> NoneSent, chosen |-> None],
           attempt    |-> [status |-> "OPEN", version |-> 1],
           demand     |-> [status |-> "MATCHING", version |-> BoundDemandVersion],
           selector   |-> "ACTIVE",
           intent     |-> None,
           project    |-> None,
           record     |-> None]
  /\ call = [q \in Calls |-> [pc |-> "idle", view |-> None, answer |-> None]]
  /\ expired = {}
  /\ lapsed = {}
-----------------------------------------------------------------------------
(* Invitations *)

Write(d) == db' = d /\ UNCHANGED <<call, expired, lapsed>>

WithStatus(i, status) == [db EXCEPT !.invitation[i] = status]

\* Selection.refresh_invitation_set
RefreshInvitationSet(d) ==
  /\ d.selection.status = "OPEN"
  /\ Write([d EXCEPT !.selection.version = @ + 1,
                     !.selection.set = InvitationSet(d)])

\* no second invitation while one to the same creator is unanswered
CreateInvitation(i) ==
  /\ db.invitation[i] = "NONE"
  /\ \A n \in 1..Rounds :
       db.invitation[<<i[1], n>>] \notin {"CREATED", "SENT"}
  /\ Write(WithStatus(i, "CREATED"))

\* the first one sent opens the Selection, which the attempt then names
OpenSelection(d) ==
  Write([d EXCEPT !.selection = [status |-> "OPEN", version |-> 1,
                                 set |-> InvitationSet(d), chosen |-> None],
                  !.attempt.version = @ + 1])

PublishInvitation(i) ==
  /\ db.invitation[i] = "CREATED"
  /\ i \notin expired
  /\ IF db.selection.status = "NONE"
     THEN OpenSelection(WithStatus(i, "SENT"))
     ELSE RefreshInvitationSet(WithStatus(i, "SENT"))

\* RespondWithoutRefresh and, below it, CloseDespiteChoice,
\* ReplayWhateverIsPresent, ForgetsAttempt, LostCommitIsSuccess and
\* RecoverNamingTheCause are variants with a plausible bug.
RespondWithoutRefresh(i, status) ==
  /\ db.invitation[i] = "SENT"
  /\ i \notin expired
  /\ Write(WithStatus(i, status))

RespondInvitation(i, status) ==
  /\ db.invitation[i] = "SENT"
  /\ i \notin expired
  /\ RefreshInvitationSet(WithStatus(i, status))

WithdrawAccepted(i) ==
  /\ db.invitation[i] = "ACCEPTED"
  /\ db.intent = None
  /\ RefreshInvitationSet(WithStatus(i, "WITHDRAWN"))
-----------------------------------------------------------------------------
(* The candidate selector's decision, and what the owner may do meanwhile *)

SelectorLive(d) == d.selector = "ACTIVE" /\ "selector" \notin lapsed

\* Choose leaves the Selection as it is: the intent is the coordinator's trigger.
ChooseCreator(i) ==
  /\ SelectorLive(db)
  /\ db.selection.status # "NONE"
  /\ db.invitation[i] = "ACCEPTED"
  /\ db.selection.set = InvitationSet(db)
  /\ db.intent = None
  /\ Write([db EXCEPT !.intent = [invitation |-> i,
                                  selection  |-> db.selection.version,
                                  attempt    |-> db.attempt.version,
                                  set        |-> db.selection.set]])

CloseDespiteChoice ==
  /\ SelectorLive(db)
  /\ db.selection.set = InvitationSet(db)
  /\ \A i \in Invitations : db.invitation[i] \notin {"CREATED", "SENT"}
  /\ db.selection.status = "OPEN"
  /\ db.attempt.status = "OPEN"
  /\ Write([db EXCEPT !.selection.status = "CLOSED_NO_SELECTION",
                      !.selection.version = @ + 1,
                      !.attempt.status = "CLOSED_NO_SELECTION",
                      !.attempt.version = @ + 1])

CloseWithoutChoice ==
  /\ SelectorLive(db)
  /\ db.intent = None
  /\ db.selection.set = InvitationSet(db)
  /\ \A i \in Invitations : db.invitation[i] \notin {"CREATED", "SENT"}
  /\ db.selection.status = "OPEN"
  /\ db.attempt.status = "OPEN"
  /\ Write([db EXCEPT !.selection.status = "CLOSED_NO_SELECTION",
                      !.selection.version = @ + 1,
                      !.attempt.status = "CLOSED_NO_SELECTION",
                      !.attempt.version = @ + 1])

CancelDemand ==
  /\ db.demand.status \notin {"MATCHED", "CANCELLED"}
  /\ Write([db EXCEPT !.demand = [status |-> "CANCELLED",
                                  version |-> @.version + 1]])

\* external: the identity context revokes the selector's assignment
RevokeSelector ==
  /\ db.selector = "ACTIVE"
  /\ Write([db EXCEPT !.selector = "REVOKED"])

Expire(i) ==
  /\ db.invitation[i] \in {"CREATED", "SENT"} /\ i \notin expired
  /\ expired' = expired \cup {i}
  /\ UNCHANGED <<db, call, lapsed>>

\* the hold decision is dated from the choice it was made for
Lapse(x) ==
  /\ x \notin lapsed
  /\ x = "hold" => db.intent # None
  /\ lapsed' = lapsed \cup {x}
  /\ UNCHANGED <<db, call, expired>>
-----------------------------------------------------------------------------
(* The coordinator.  What it reads of the database is d; the clock is now.  *)

TriggerValid(d) == SelectorLive(d) /\ "system" \notin lapsed

ChainHolds(d) ==
  /\ d.invitation[d.intent.invitation] = "ACCEPTED"
  /\ d.selection.set = InvitationSet(d)

CompletionIsPresent(d) ==
  \/ d.selection.status # "OPEN"
  \/ d.attempt.status # "OPEN"
  \/ d.demand.status # "MATCHING"
  \/ d.record # None
  \/ d.project # None

\* every fact of a finished completion, each one version past the choice
ChainComplete(d) ==
  /\ d.project # None /\ d.record = d.project
  /\ d.selection.status = "SELECTED"
  /\ d.selection.version = d.intent.selection + 1
  /\ d.selection.chosen = d.intent.invitation
  /\ d.attempt = [status |-> "SELECTED", version |-> d.intent.attempt + 1]
  /\ d.demand = [status |-> "MATCHED", version |-> BoundDemandVersion + 1]

OpenPreconditions(d) ==
  /\ ~CompletionIsPresent(d)
  /\ d.selection.version = d.intent.selection
  /\ d.attempt.version = d.intent.attempt
  /\ d.demand.version = BoundDemandVersion
  /\ d.selection.set = d.intent.set
  /\ "hold" \notin lapsed

ReplayWhateverIsPresent(d) == CompletionIsPresent(d)

Replay(d) == CompletionIsPresent(d) /\ ChainComplete(d)

ForgetsAttempt(d, q) ==
  [d EXCEPT !.selection = [status |-> "SELECTED", version |-> @.version + 1,
                           set |-> @.set, chosen |-> d.intent.invitation],
            !.demand    = [status |-> "MATCHED", version |-> @.version + 1],
            !.project   = q,
            !.record    = q]

\* what one commit writes
Completed(d, q) ==
  [d EXCEPT !.selection = [status |-> "SELECTED", version |-> @.version + 1,
                           set |-> @.set, chosen |-> d.intent.invitation],
            !.attempt   = [status |-> "SELECTED", version |-> @.version + 1],
            !.demand    = [status |-> "MATCHED", version |-> @.version + 1],
            !.project   = q,
            !.record    = q]

At(q, pc) == call[q].pc = pc

Goto(q, pc) == call' = [call EXCEPT ![q].pc = pc]

Answer(q, a) ==
  call' = [call EXCEPT ![q] = [pc |-> "done", view |-> None, answer |-> a]]

\* the trigger is delivered; the snapshot is what the transaction reads
Begin(q) ==
  /\ At(q, "idle") /\ db.intent # None
  /\ IF TriggerValid(db)
     THEN call' = [call EXCEPT ![q] =
                     [pc |-> "begun", view |-> db, answer |-> None]]
     ELSE Answer(q, "refused")
  /\ UNCHANGED <<db, expired, lapsed>>

\* every lock is held: the clock is read again and everything validated
Check(q) ==
  LET d == call[q].view
      sound == TriggerValid(d) /\ ChainHolds(d)
  IN /\ At(q, "begun")
     /\ \/ sound /\ OpenPreconditions(d) /\ Goto(q, "checked")
        \/ sound /\ Replay(d) /\ Answer(q, d.project)
        \/ ~(sound /\ (OpenPreconditions(d) \/ Replay(d)))
             /\ Answer(q, "refused")
     /\ UNCHANGED <<db, expired, lapsed>>

Fresh(q) == call[q].view = db

Commit(q) ==
  /\ At(q, "checked") /\ Fresh(q)
  /\ db' = Completed(db, q)
  /\ Answer(q, q)
  /\ UNCHANGED <<expired, lapsed>>

\* the storage fails at a checkpoint, or refuses a commit it has been overtaken in
RollBack(q) ==
  /\ At(q, "checked")
  /\ Fresh(q) \/ db.project = None
  /\ Answer(q, "refused")
  /\ UNCHANGED <<db, expired, lapsed>>

UniqueConflict(q) ==
  /\ At(q, "checked") /\ ~Fresh(q) /\ db.project # None
  /\ Goto(q, "conflict")
  /\ UNCHANGED <<db, expired, lapsed>>

LostCommitIsSuccess(q) ==
  /\ At(q, "checked") /\ Fresh(q)
  /\ db' \in {db, Completed(db, q)}
  /\ Answer(q, q)
  /\ UNCHANGED <<expired, lapsed>>

\* the acknowledgement is lost: the commit may or may not have happened
CommitUnknown(q) ==
  /\ At(q, "checked") /\ Fresh(q)
  /\ db' \in {db, Completed(db, q)}
  /\ Goto(q, "unknown")
  /\ UNCHANGED <<expired, lapsed>>

RecoverNamingTheCause(q) ==
  /\ call[q].pc \in {"unknown", "conflict"}
  /\ IF ~TriggerValid(db) THEN Answer(q, "refused")
     ELSE IF ChainHolds(db) /\ ChainComplete(db) THEN Answer(q, db.project)
     ELSE Answer(q, IF At(q, "unknown") THEN "unknown" ELSE "refused")
  /\ UNCHANGED <<db, expired, lapsed>>

\* A new snapshot decides.  Whatever fails there, the reader itself included,
\* is one code, missing_code.
Recover(q) ==
  /\ call[q].pc \in {"unknown", "conflict"}
  /\ \/ /\ TriggerValid(db) /\ ChainHolds(db) /\ ChainComplete(db)
        /\ Answer(q, db.project)
     \/ Answer(q, IF At(q, "unknown") THEN "unknown" ELSE "refused")
  /\ UNCHANGED <<db, expired, lapsed>>

Coordinate(q) ==
  \/ Begin(q) \/ Check(q) \/ Commit(q) \/ RollBack(q)
  \/ UniqueConflict(q) \/ CommitUnknown(q) \/ Recover(q)

Next ==
  \/ \E i \in Invitations :
       \/ CreateInvitation(i)
       \/ PublishInvitation(i)
       \/ \E status \in {"ACCEPTED", "DECLINED"} : RespondInvitation(i, status)
       \/ WithdrawAccepted(i)
       \/ ChooseCreator(i)
       \/ Expire(i)
  \/ CloseWithoutChoice
  \/ CancelDemand
  \/ RevokeSelector
  \/ \E x \in {"hold", "selector", "system"} : Lapse(x)
  \/ \E q \in Calls : Coordinate(q)

Spec == Init /\ [][Next]_vars
-----------------------------------------------------------------------------
Versioned(S) == [status : S, version : Nat]

Databases ==
  [invitation : [Invitations -> InvitationStatus],
   selection  : [status : {"NONE", "OPEN", "SELECTED", "CLOSED_NO_SELECTION"},
                 version : Nat, set : Sets, chosen : Invitations \cup {None}],
   attempt    : Versioned({"OPEN", "SELECTED", "CLOSED_NO_SELECTION"}),
   demand     : Versioned({"MATCHING", "MATCHED", "CANCELLED"}),
   selector   : {"ACTIVE", "REVOKED"},
   intent     : Intent \cup {None},
   project    : Calls \cup {None},
   record     : Calls \cup {None}]

Working == {"begun", "checked", "unknown", "conflict"}

\* Every row and every call has the shape the handlers give it: a call reads a
\* snapshot while it works and ends with an answer.
TypeOK ==
  /\ db \in Databases
  /\ call \in [Calls ->
       [pc : {"idle"}, view : {None}, answer : {None}]
         \cup [pc : Working, view : Databases, answer : {None}]
         \cup [pc : {"done"}, view : {None},
               answer : Calls \cup {"refused", "unknown"}]]
  /\ expired \subseteq Invitations
  /\ lapsed \subseteq {"hold", "selector", "system"}

\* Selection, attempt, demand and project agree on whether the choice was made,
\* whatever else was committed, cancelled or closed while a call was under way;
\* and the creator it was made for has not withdrawn.
ChainWhole ==
  LET made == db.selection.status = "SELECTED"
  IN /\ made <=> (db.attempt.status = "SELECTED")
     /\ made <=> (db.demand.status = "MATCHED")
     /\ made <=> (db.project # None)
     /\ made => /\ ChainComplete(db)
                /\ db.invitation[db.selection.chosen] = "ACCEPTED"

\* A call that reports a project reports the one that exists, be it its own,
\* another call's, or one whose commit was never acknowledged.
SuccessIsDurable ==
  \A q \in Calls : call[q].answer \in Calls => call[q].answer = db.project

\* A call that is refused outright has created nothing; only the answer
\* "outcome unknown" leaves that open.
RefusalIsFinal ==
  \A q \in Calls : call[q].answer = "refused" => db.project # q

\* The selection that is made was made among exactly the invitations, each in
\* the status, that the selector was shown; none changes afterwards.
ChosenAsShown ==
  db.selection.status = "SELECTED" => InvitationSet(db) = db.intent.set

\* A selection that is made or closed stays as it is, and so does its attempt.
DecisionFinal ==
  [][db.selection.status \in {"SELECTED", "CLOSED_NO_SELECTION"} =>
       db'.selection = db.selection /\ db'.attempt = db.attempt]_vars

\* What the rows of intents and selections show of the decision.
Choice == IF db.intent = None THEN None ELSE db.intent.invitation

Outcome ==
  CASE db.selection.status = "SELECTED"            -> "selected"
    [] db.selection.status = "CLOSED_NO_SELECTION" -> "closed"
    [] OTHER                                       -> "open"

Abstract ==
  INSTANCE OneDecision WITH
    Candidates <- Invitations, NoChoice <- None,
    choice  <- Choice,
    outcome <- Outcome,
    matched <- db.demand.status = "MATCHED"

\* Commands and coordinator calls together make one decision: the recorded
\* choice is the one that is carried out, in Selection and Demand at once, and
\* it keeps the selection from being closed meanwhile.
ImplementsDecision == Abstract!Spec

\* A choice is recorded of an open selection
\* (docs/architecture/matching-invitation-selection.md, sections 10 and 13.2).
IntentOfOpenSelection ==
  [][db.intent = None /\ db'.intent # None => db.selection.status = "OPEN"]_vars
=============================================================================
