------------------------ MODULE CompleteSelectionProofs ------------------------
(***************************************************************************)
(* Proofs of the properties of CompleteSelection for any number of         *)
(* creators, rounds of invitations and coordinator calls.                  *)
(***************************************************************************)
EXTENDS CompleteSelection, TLAPS

\* The rows before and after a choice has been completed.
Undecided(d) ==
  /\ d.record = None
  /\ d.selection.status # "SELECTED"
  /\ d.attempt.status # "SELECTED"
  /\ d.demand.status # "MATCHED"

Decided(d) ==
  /\ d.intent # None
  /\ ChainComplete(d)
  /\ d.invitation[d.intent.invitation] = "ACCEPTED"
  /\ InvitationSet(d) = d.intent.set

WholeRows(d) ==
  /\ d.project = None => Undecided(d)
  /\ d.project # None => Decided(d)

\* What handle() has established when it comes to write, but for the deadlines,
\* which may pass meanwhile.
ReadyToWrite(d) ==
  /\ ~CompletionIsPresent(d)
  /\ d.selection.version = d.intent.selection
  /\ d.attempt.version = d.intent.attempt
  /\ d.demand.version = BoundDemandVersion
  /\ d.selection.set = d.intent.set
  /\ ChainHolds(d)

\* A call's snapshot shows no project or the one that exists; the project's own
\* call has been answered, or is about to find out.
CallKnows(r, q, project) ==
  /\ r.pc \in Working => r.view.intent # None /\ r.view.project \in {None, project}
  /\ r.pc = "checked" => ReadyToWrite(r.view)
  /\ project = q => r.pc \in {"unknown", "done"} /\ r.answer # "refused"
  /\ r.answer \in Calls => r.answer = project

Call == [pc : {"idle"}, view : {None}, answer : {None}]
          \cup [pc : Working, view : Databases, answer : {None}]
          \cup [pc : {"done"}, view : {None},
                answer : Calls \cup {"refused", "unknown"}]

IInv ==
  /\ TypeOK
  /\ WholeRows(db)
  /\ \A q \in Calls : CallKnows(call[q], q, db.project)
-----------------------------------------------------------------------------
(* The database records.                                                     *)

LEMMA InvitationSetType ==
  ASSUME NEW d \in Databases PROVE InvitationSet(d) \in Sets
<1> DEFINE I == {j \in Invitations : d.invitation[j] \notin {"NONE", "CREATED"}}
<1>1. d.invitation \in [Invitations -> InvitationStatus] BY DEF Databases
<1>2. InvitationSet(d) \in [I -> InvitationStatus] BY <1>1 DEF InvitationSet
<1>3. I \in SUBSET Invitations OBVIOUS
<1> QED BY <1>2, <1>3 DEF Sets

Selections ==
  [status : {"NONE", "OPEN", "SELECTED", "CLOSED_NO_SELECTION"},
   version : Nat, set : Sets, chosen : Invitations \cup {None}]

Attempts == Versioned({"OPEN", "SELECTED", "CLOSED_NO_SELECTION"})

LEMMA DatabaseType ==
  ASSUME NEW d \in Databases
  PROVE  /\ d.selection \in Selections
         /\ d.attempt \in Attempts
         /\ d.intent # None => d.intent \in Intent
<1> QED BY DEF Databases, Selections, Attempts

\* Selection and attempt are written together.
With(d, s, a) == [d EXCEPT !.selection = s, !.attempt = a]

LEMMA SelectionWrite ==
  ASSUME NEW d \in Databases, NEW s \in Selections, NEW a \in Attempts
  PROVE  /\ With(d, s, a) \in Databases
         /\ With(d, s, a).selection = s
         /\ With(d, s, a).attempt = a
         /\ With(d, s, a).demand = d.demand
         /\ With(d, s, a).intent = d.intent
         /\ With(d, s, a).project = d.project
         /\ With(d, s, a).record = d.record
<1> QED BY DEF Databases, Selections, Attempts, With

\* A row one version on, with another set, or closed.
Refreshed(x, t) == [x EXCEPT !.version = @ + 1, !.set = t]
Closed(x) == [x EXCEPT !.status = "CLOSED_NO_SELECTION", !.version = @ + 1]

LEMMA RefreshedType ==
  ASSUME NEW x \in Selections, NEW t \in Sets
  PROVE  Refreshed(x, t) \in Selections /\ Refreshed(x, t).status = x.status
<1> DEFINE y == [x EXCEPT !.version = @ + 1]
<1>1. x.version + 1 \in Nat BY DEF Selections
<1>2. y = [status |-> x.status, version |-> x.version + 1,
           set |-> x.set, chosen |-> x.chosen]
  BY DEF Selections
<1> HIDE DEF y
<1>3. [y EXCEPT !.set = t] = [status |-> x.status, version |-> x.version + 1,
                              set |-> t, chosen |-> x.chosen]
  BY <1>2
<1>4. Refreshed(x, t) = [y EXCEPT !.set = t] BY DEF Refreshed, y
<1> QED BY <1>1, <1>3, <1>4 DEF Selections

LEMMA ClosedType ==
  /\ \A x \in Selections : Closed(x) \in Selections
                             /\ Closed(x).status = "CLOSED_NO_SELECTION"
  /\ \A x \in Attempts : Closed(x) \in Attempts
                           /\ Closed(x).status = "CLOSED_NO_SELECTION"
<1>1. ASSUME NEW x \in Selections
      PROVE  Closed(x) \in Selections /\ Closed(x).status = "CLOSED_NO_SELECTION"
  <2> DEFINE y == [x EXCEPT !.status = "CLOSED_NO_SELECTION"]
  <2>1. x.version + 1 \in Nat BY DEF Selections
  <2>2. y = [status |-> "CLOSED_NO_SELECTION", version |-> x.version,
             set |-> x.set, chosen |-> x.chosen]
    BY DEF Selections
  <2> HIDE DEF y
  <2>3. [y EXCEPT !.version = x.version + 1] =
          [status |-> "CLOSED_NO_SELECTION", version |-> x.version + 1,
           set |-> x.set, chosen |-> x.chosen]
    BY <2>2
  <2>4. Closed(x) = [y EXCEPT !.version = x.version + 1] BY DEF Closed, y
  <2> QED BY <2>1, <2>3, <2>4 DEF Selections
<1>2. ASSUME NEW x \in Attempts
      PROVE  Closed(x) \in Attempts /\ Closed(x).status = "CLOSED_NO_SELECTION"
  <2> DEFINE y == [x EXCEPT !.status = "CLOSED_NO_SELECTION"]
  <2>1. x.version + 1 \in Nat BY DEF Attempts, Versioned
  <2>2. y = [status |-> "CLOSED_NO_SELECTION", version |-> x.version]
    BY DEF Attempts, Versioned
  <2> HIDE DEF y
  <2>3. [y EXCEPT !.version = x.version + 1] =
          [status |-> "CLOSED_NO_SELECTION", version |-> x.version + 1]
    BY <2>2
  <2>4. Closed(x) = [y EXCEPT !.version = x.version + 1] BY DEF Closed, y
  <2> QED BY <2>1, <2>3, <2>4 DEF Attempts, Versioned
<1> QED BY <1>1, <1>2

LEMMA WithStatusType ==
  ASSUME db \in Databases, NEW i \in Invitations, NEW s \in InvitationStatus
  PROVE  /\ WithStatus(i, s) \in Databases
         /\ WithStatus(i, s).selection = db.selection
         /\ WithStatus(i, s).attempt = db.attempt
         /\ WithStatus(i, s).demand = db.demand
         /\ WithStatus(i, s).intent = db.intent
         /\ WithStatus(i, s).project = db.project
         /\ WithStatus(i, s).record = db.record
<1> QED BY DEF WithStatus, Databases

LEMMA InitIInv == Init => IInv
<1> SUFFICES ASSUME Init PROVE IInv OBVIOUS
<1>1. NoneSent \in Sets
  <2>1. NoneSent \in [{} -> InvitationStatus] BY DEF NoneSent
  <2> QED BY <2>1 DEF Sets
<1>2. db \in Databases
  BY <1>1 DEF Init, Databases, Versioned, InvitationStatus, BoundDemandVersion
<1>3. \A q \in Calls : call[q] = [pc |-> "idle", view |-> None, answer |-> None]
  BY DEF Init
<1>4. TypeOK BY <1>2 DEF Init, TypeOK
<1>5. WholeRows(db) BY DEF Init, WholeRows, Undecided
<1>6. \A q \in Calls : CallKnows(call[q], q, db.project)
  BY <1>3, SelectionAssumption DEF Init, CallKnows, Working, SelectionAssumption
<1> QED BY <1>4, <1>5, <1>6 DEF IInv

(* What the snapshots and answers of the calls rest on is the project alone, *)
(* so a step that leaves it and the calls alone has only the rows to keep.   *)
LEMMA RowsStep ==
  ASSUME IInv, UNCHANGED call, db' \in Databases, db'.project = db.project,
         WholeRows(db'), expired' \subseteq Invitations,
         lapsed' \subseteq {"hold", "selector", "system"}
  PROVE  IInv'
<1>1. TypeOK' BY DEF IInv, TypeOK
<1>2. \A q \in Calls : CallKnows(call[q], q, db.project)'
  <2> SUFFICES ASSUME NEW q \in Calls PROVE CallKnows(call[q], q, db'.project)
    BY DEF CallKnows, ReadyToWrite, CompletionIsPresent, ChainHolds, InvitationSet
  <2> QED BY DEF IInv
<1>3. WholeRows(db)'
  BY DEF WholeRows, Undecided, Decided, ChainComplete, InvitationSet
<1> QED BY <1>1, <1>2, <1>3 DEF IInv

LEMMA WriteStep ==
  ASSUME IInv, NEW d \in Databases, Write(d), d.project = db.project, WholeRows(d)
  PROVE  IInv'
<1>1. db' = d /\ UNCHANGED <<call, expired, lapsed>> BY DEF Write
<1> QED BY <1>1, RowsStep DEF IInv, TypeOK

\* While nothing is completed a command may write anything but a completion.
LEMMA UndecidedWrite ==
  ASSUME IInv, NEW d \in Databases, Write(d), db.project = None,
         d.project = None, Undecided(d)
  PROVE  IInv'
<1> QED BY WriteStep DEF WholeRows

(* A step of call q that writes nothing.                                     *)
LEMMA CallStep ==
  ASSUME IInv, NEW q \in Calls, NEW r \in Call,
         call' = [call EXCEPT ![q] = r], UNCHANGED <<db, expired, lapsed>>,
         CallKnows(r, q, db.project)
  PROVE  IInv'
<1>1. call \in [Calls -> Call] BY DEF IInv, TypeOK, Call
<1>2. TypeOK' BY <1>1 DEF IInv, TypeOK, Call
<1>3. WholeRows(db)'
  BY DEF IInv, WholeRows, Undecided, Decided, ChainComplete, InvitationSet
<1>4. \A p \in Calls : CallKnows(call[p], p, db.project)'
  <2> SUFFICES ASSUME NEW p \in Calls PROVE CallKnows(call'[p], p, db.project)
    BY DEF CallKnows, ReadyToWrite, CompletionIsPresent, ChainHolds, InvitationSet
  <2>1. CASE p = q BY <1>1, <2>1
  <2>2. CASE p # q
    <3>1. call'[p] = call[p] BY <1>1, <2>2
    <3> QED BY <3>1 DEF IInv
  <2> QED BY <2>1, <2>2
<1> QED BY <1>2, <1>3, <1>4 DEF IInv
-----------------------------------------------------------------------------
(* The matching commands, the owner, and the deadlines.                      *)

LEMMA Facts ==
  ASSUME IInv
  PROVE  /\ db \in Databases
         /\ db.selection.status # "SELECTED" => db.project = None
         /\ db.demand.status # "MATCHED" => db.project = None
         /\ db.intent = None => db.project = None
         /\ db.project = None => Undecided(db)
<1> QED BY DEF IInv, TypeOK, WholeRows, Decided, ChainComplete

\* A new set on an open selection, whatever has become of one invitation.
LEMMA RefreshStep ==
  ASSUME IInv, NEW i \in Invitations, NEW s \in InvitationStatus,
         RefreshInvitationSet(WithStatus(i, s))
  PROVE  IInv'
<1> DEFINE d == WithStatus(i, s)
<1> DEFINE e == [d EXCEPT !.selection.version = @ + 1,
                          !.selection.set = InvitationSet(d)]
<1>1. d \in Databases /\ InvitationSet(d) \in Sets
  BY Facts, WithStatusType, InvitationSetType
<1>2. d.selection = db.selection /\ d.attempt = db.attempt /\ d.demand = db.demand
      /\ d.project = db.project /\ d.record = db.record
  BY Facts, WithStatusType
<1>3. d.selection.status = "OPEN" /\ Write(e) BY DEF RefreshInvitationSet
<1>4. db.project = None /\ Undecided(db) BY <1>2, <1>3, Facts
<1> HIDE DEF d
<1> DEFINE new == Refreshed(d.selection, InvitationSet(d))
<1>5. /\ d.selection \in Selections /\ d.attempt \in Attempts
      /\ new \in Selections /\ new.status = d.selection.status
  BY <1>1, DatabaseType, RefreshedType
<1>6. e = With(d, new, d.attempt)
  BY <1>1 DEF Databases, With, Refreshed
<1> HIDE DEF e, new
<1>8. /\ e \in Databases /\ e.selection = new /\ e.attempt = d.attempt
      /\ e.demand = d.demand /\ e.project = d.project /\ e.record = d.record
  BY <1>1, <1>5, <1>6, SelectionWrite
<1>9. e.project = None /\ Undecided(e) BY <1>2, <1>4, <1>5, <1>8 DEF Undecided
<1> QED BY <1>3, <1>4, <1>8, <1>9, UndecidedWrite

LEMMA PublishStep ==
  ASSUME IInv, NEW i \in Invitations, PublishInvitation(i)
  PROVE  IInv'
<1> DEFINE d == WithStatus(i, "SENT")
<1> DEFINE e == [d EXCEPT !.selection = [status |-> "OPEN", version |-> 1,
                                         set |-> InvitationSet(d), chosen |-> None],
                          !.attempt.version = @ + 1]
<1>0. "SENT" \in InvitationStatus BY DEF InvitationStatus
<1>1. CASE db.selection.status = "NONE"
  <2>1. d \in Databases /\ InvitationSet(d) \in Sets
    BY <1>0, Facts, WithStatusType, InvitationSetType
  <2>2. d.selection = db.selection /\ d.attempt = db.attempt /\ d.demand = db.demand
        /\ d.project = db.project /\ d.record = db.record
    BY <1>0, Facts, WithStatusType
  <2>3. Write(e) BY <1>1 DEF PublishInvitation, OpenSelection
  <2>4. db.project = None /\ Undecided(db) BY <1>1, Facts
  <2> HIDE DEF d
  <2> DEFINE new == [status |-> "OPEN", version |-> 1,
                     set |-> InvitationSet(d), chosen |-> None]
  <2> DEFINE next == [d.attempt EXCEPT !.version = @ + 1]
  <2>5. /\ new \in Selections /\ new.status = "OPEN"
        /\ next \in Attempts /\ next.status = d.attempt.status
    BY <2>1, DatabaseType DEF Selections, Attempts, Versioned
  <2>6. e = With(d, new, next)
    BY <2>1 DEF Databases, With
  <2> HIDE DEF e, new, next
  <2>7. /\ e \in Databases /\ e.selection = new /\ e.attempt = next
        /\ e.demand = d.demand /\ e.project = d.project /\ e.record = d.record
    BY <2>1, <2>5, <2>6, SelectionWrite
  <2>8. e.project = None /\ Undecided(e) BY <2>2, <2>4, <2>5, <2>7 DEF Undecided
  <2> QED BY <2>3, <2>4, <2>7, <2>8, UndecidedWrite
<1>2. CASE db.selection.status # "NONE"
  BY <1>0, <1>2, RefreshStep DEF PublishInvitation
<1> QED BY <1>1, <1>2

\* An invitation that has not been sent is in no set: creating one leaves a
\* completed choice whole.
LEMMA CreateStep ==
  ASSUME IInv, NEW i \in Invitations, CreateInvitation(i)
  PROVE  IInv'
<1> DEFINE d == WithStatus(i, "CREATED")
<1>0. "CREATED" \in InvitationStatus BY DEF InvitationStatus
<1>1. /\ d \in Databases
      /\ d.selection = db.selection /\ d.attempt = db.attempt /\ d.demand = db.demand
      /\ d.intent = db.intent /\ d.project = db.project /\ d.record = db.record
  BY <1>0, Facts, WithStatusType
<1>2. db.invitation[i] = "NONE" /\ Write(d) BY DEF CreateInvitation
<1>3. db.invitation \in [Invitations -> InvitationStatus] BY Facts DEF Databases
<1>4. d.invitation = [db.invitation EXCEPT ![i] = "CREATED"]
  BY Facts DEF WithStatus, Databases
<1>5. \A j \in Invitations : j # i => d.invitation[j] = db.invitation[j]
  BY <1>3, <1>4
<1>6. d.invitation[i] = "CREATED" BY <1>3, <1>4
<1>7. InvitationSet(d) = InvitationSet(db)
  <2>1. {j \in Invitations : d.invitation[j] \notin {"NONE", "CREATED"}}
          = {j \in Invitations : db.invitation[j] \notin {"NONE", "CREATED"}}
    BY <1>2, <1>5, <1>6
  <2>2. \A j \in {k \in Invitations : db.invitation[k] \notin {"NONE", "CREATED"}} :
          d.invitation[j] = db.invitation[j]
    BY <1>2, <1>5
  <2> QED BY <2>1, <2>2 DEF InvitationSet
<1>8. WholeRows(d)
  <2>1. CASE db.project = None
    BY <1>1, <2>1, Facts DEF WholeRows, Undecided
  <2>2. CASE db.project # None
    <3>1. Decided(db) BY <2>2 DEF IInv, WholeRows
    <3>2. ChainComplete(d) BY <1>1, <3>1 DEF Decided, ChainComplete
    <3>3. db.invitation[db.intent.invitation] = "ACCEPTED"
          /\ db.selection.chosen = db.intent.invitation
          /\ db.selection.status = "SELECTED"
      BY <3>1 DEF Decided, ChainComplete
    <3>4. db.intent.invitation \in Invitations
      BY <3>1, Facts, DatabaseType DEF Decided, Intent
    <3>5. d.invitation[db.intent.invitation] = "ACCEPTED"
      BY <1>2, <1>5, <3>3, <3>4
    <3> QED BY <1>1, <1>7, <2>2, <3>1, <3>2, <3>5 DEF WholeRows, Decided
  <2> QED BY <2>1, <2>2
<1> HIDE DEF d
<1> QED BY <1>1, <1>2, <1>8, WriteStep

LEMMA RespondStep ==
  ASSUME IInv, NEW i \in Invitations, NEW s \in {"ACCEPTED", "DECLINED"},
         RespondInvitation(i, s)
  PROVE  IInv'
<1> QED BY RefreshStep DEF RespondInvitation, InvitationStatus

LEMMA WithdrawStep ==
  ASSUME IInv, NEW i \in Invitations, WithdrawAccepted(i)
  PROVE  IInv'
<1> QED BY RefreshStep DEF WithdrawAccepted, InvitationStatus

LEMMA ChooseStep ==
  ASSUME IInv, NEW i \in Invitations, ChooseCreator(i)
  PROVE  IInv'
<1> DEFINE t == [invitation |-> i, selection |-> db.selection.version,
                 attempt |-> db.attempt.version, set |-> db.selection.set]
<1> DEFINE d == [db EXCEPT !.intent = t]
<1>1. Write(d) /\ db.intent = None BY DEF ChooseCreator
<1>2. db \in Databases /\ db.project = None /\ Undecided(db) BY <1>1, Facts
<1>3. t \in Intent BY <1>2 DEF Intent, Databases, Versioned
<1> HIDE DEF t
<1>4. d \in Databases /\ d.project = None /\ Undecided(d)
  BY <1>2, <1>3 DEF Databases, Undecided
<1> HIDE DEF d
<1> QED BY <1>1, <1>2, <1>4, UndecidedWrite

LEMMA CloseStep ==
  ASSUME IInv, CloseWithoutChoice
  PROVE  IInv'
<1> DEFINE d == [db EXCEPT !.selection.status = "CLOSED_NO_SELECTION",
                           !.selection.version = @ + 1,
                           !.attempt.status = "CLOSED_NO_SELECTION",
                           !.attempt.version = @ + 1]
<1>1. Write(d) /\ db.intent = None BY DEF CloseWithoutChoice
<1>2. db \in Databases /\ db.project = None /\ Undecided(db) BY <1>1, Facts
<1> DEFINE new == Closed(db.selection)
<1> DEFINE next == Closed(db.attempt)
<1>3. /\ new \in Selections /\ new.status = "CLOSED_NO_SELECTION"
      /\ next \in Attempts /\ next.status = "CLOSED_NO_SELECTION"
  BY <1>2, DatabaseType, ClosedType
<1>4. d = With(db, new, next)
  BY <1>2 DEF Databases, With, Closed
<1> HIDE DEF d, new, next
<1>5. /\ d \in Databases /\ d.selection = new /\ d.attempt = next
      /\ d.demand = db.demand /\ d.project = db.project /\ d.record = db.record
  BY <1>2, <1>3, <1>4, SelectionWrite
<1>6. d.project = None /\ Undecided(d) BY <1>2, <1>3, <1>5 DEF Undecided
<1> QED BY <1>1, <1>2, <1>5, <1>6, UndecidedWrite

LEMMA CancelStep ==
  ASSUME IInv, CancelDemand
  PROVE  IInv'
<1> DEFINE d == [db EXCEPT !.demand = [status |-> "CANCELLED",
                                       version |-> @.version + 1]]
<1>1. Write(d) /\ db.demand.status # "MATCHED" BY DEF CancelDemand
<1>2. db \in Databases /\ db.project = None /\ Undecided(db) BY <1>1, Facts
<1>3. d \in Databases /\ d.project = None /\ Undecided(d)
  BY <1>2 DEF Databases, Versioned, Undecided
<1> HIDE DEF d
<1> QED BY <1>1, <1>2, <1>3, UndecidedWrite

LEMMA RevokeStep ==
  ASSUME IInv, RevokeSelector
  PROVE  IInv'
<1> DEFINE d == [db EXCEPT !.selector = "REVOKED"]
<1>1. Write(d) BY DEF RevokeSelector
<1>2. db \in Databases BY Facts
<1>3. /\ d \in Databases
      /\ d.invitation = db.invitation /\ d.selection = db.selection
      /\ d.attempt = db.attempt /\ d.demand = db.demand
      /\ d.intent = db.intent /\ d.project = db.project /\ d.record = db.record
  BY <1>2 DEF Databases
<1> HIDE DEF d
<1>4. WholeRows(d)
  BY <1>3 DEF IInv, WholeRows, Undecided, Decided, ChainComplete, InvitationSet
<1> QED BY <1>1, <1>3, <1>4, WriteStep

LEMMA DeadlineStep ==
  ASSUME IInv, UNCHANGED <<db, call>>, expired' \subseteq Invitations,
         lapsed' \subseteq {"hold", "selector", "system"}
  PROVE  IInv'
<1>1. db' \in Databases /\ db'.project = db.project BY Facts
<1>2. WholeRows(db')
  BY DEF IInv, WholeRows, Undecided, Decided, ChainComplete, InvitationSet
<1> QED BY <1>1, <1>2, RowsStep
-----------------------------------------------------------------------------
(* The coordinator.                                                          *)

\* The call as it is while it works: its snapshot and what it knows.
LEMMA WorkingCall ==
  ASSUME IInv, NEW q \in Calls, call[q].pc \in Working
  PROVE  /\ call[q] \in [pc : Working, view : Databases, answer : {None}]
         /\ CallKnows(call[q], q, db.project)
<1>1. call[q] \in Call BY DEF IInv, TypeOK, Call
<1>2. call[q].pc \notin {"idle", "done"} BY DEF Working
<1> QED BY <1>1, <1>2 DEF Call, IInv

\* An answer that is true ends a call.
LEMMA AnswerStep ==
  ASSUME IInv, NEW q \in Calls, NEW a \in Calls \cup {"refused", "unknown"},
         Answer(q, a), UNCHANGED <<db, expired, lapsed>>,
         a \in Calls => a = db.project,
         a = "refused" => db.project # q
  PROVE  IInv'
<1> DEFINE r == [pc |-> "done", view |-> None, answer |-> a]
<1>1. r \in Call BY DEF Call
<1>2. CallKnows(r, q, db.project) BY DEF CallKnows, Working
<1>3. call' = [call EXCEPT ![q] = r] BY DEF Answer
<1> HIDE DEF r
<1> QED BY <1>1, <1>2, <1>3, CallStep

\* A call goes on with the snapshot it has.
LEMMA GotoStep ==
  ASSUME IInv, NEW q \in Calls, NEW pc \in {"checked", "conflict"},
         call[q].pc \in {"begun", "checked"},
         Goto(q, pc), UNCHANGED <<db, expired, lapsed>>,
         pc = "checked" => ReadyToWrite(call[q].view)
  PROVE  IInv'
<1> DEFINE r == [call[q] EXCEPT !.pc = pc]
<1>1. /\ call[q] \in [pc : Working, view : Databases, answer : {None}]
      /\ CallKnows(call[q], q, db.project)
  BY WorkingCall DEF Working
<1>2. r = [pc |-> pc, view |-> call[q].view, answer |-> None] BY <1>1
<1>3. r \in Call BY <1>1, <1>2 DEF Call, Working
<1>4. None \notin Calls BY SelectionAssumption DEF SelectionAssumption
<1>5. CallKnows(r, q, db.project)
  BY <1>1, <1>2, <1>4 DEF CallKnows, Working
<1>6. call' = [call EXCEPT ![q] = r] BY DEF Goto, IInv, TypeOK
<1> HIDE DEF r
<1> QED BY <1>3, <1>5, <1>6, CallStep

LEMMA BeginStep ==
  ASSUME IInv, NEW q \in Calls, Begin(q)
  PROVE  IInv'
<1>1. /\ call[q] = [pc |-> "idle", view |-> None, answer |-> None]
      /\ CallKnows(call[q], q, db.project)
      /\ db.intent # None
      /\ UNCHANGED <<db, expired, lapsed>>
  <2>1. call[q] \in Call /\ call[q].pc = "idle" BY DEF Begin, At, IInv, TypeOK, Call
  <2> QED BY <2>1 DEF Begin, IInv, Call, Working
<1>2. db.project # q BY <1>1 DEF CallKnows
<1>3. CASE TriggerValid(db)
  <2> DEFINE r == [pc |-> "begun", view |-> db, answer |-> None]
  <2>2. call' = [call EXCEPT ![q] = r] BY <1>3 DEF Begin
  <2>3. r \in Call BY Facts DEF Call, Working
  <2>4. None \notin Calls BY SelectionAssumption DEF SelectionAssumption
  <2>5. CallKnows(r, q, db.project) BY <1>1, <1>2, <2>4 DEF CallKnows
  <2> HIDE DEF r
  <2> QED BY <1>1, <2>2, <2>3, <2>5, CallStep
<1>4. CASE ~TriggerValid(db)
  <2>1. Answer(q, "refused") BY <1>4 DEF Begin
  <2>2. "refused" \notin Calls BY SelectionAssumption DEF SelectionAssumption
  <2> QED BY <1>1, <1>2, <2>1, <2>2, AnswerStep
<1> QED BY <1>3, <1>4

LEMMA CheckStep ==
  ASSUME IInv, NEW q \in Calls, Check(q)
  PROVE  IInv'
<1> DEFINE d == call[q].view
<1>1. call[q].pc = "begun" /\ UNCHANGED <<db, expired, lapsed>> BY DEF Check, At
<1>2. /\ call[q] \in [pc : Working, view : Databases, answer : {None}]
      /\ CallKnows(call[q], q, db.project)
  BY <1>1, WorkingCall DEF Working
<1>3. db.project # q BY <1>1, <1>2 DEF CallKnows
<1>4. CASE ChainHolds(d) /\ OpenPreconditions(d) /\ Goto(q, "checked")
  BY <1>1, <1>4, GotoStep DEF ReadyToWrite, OpenPreconditions
<1>5. CASE Replay(d) /\ Answer(q, d.project)
  <2>1. d.project # None BY <1>5 DEF Replay, ChainComplete
  <2>2. d.project = db.project /\ d.project \in Calls
    BY <1>1, <1>2, <2>1 DEF CallKnows, Working, Databases
  <2>3. "refused" \notin Calls BY SelectionAssumption DEF SelectionAssumption
  <2> QED BY <1>1, <1>5, <2>2, <2>3, AnswerStep
<1>6. CASE Answer(q, "refused")
  <2>1. "refused" \notin Calls BY SelectionAssumption DEF SelectionAssumption
  <2> QED BY <1>1, <1>3, <1>6, <2>1, AnswerStep
<1> QED BY <1>4, <1>5, <1>6 DEF Check

LEMMA RollBackStep ==
  ASSUME IInv, NEW q \in Calls, RollBack(q)
  PROVE  IInv'
<1>1. /\ call[q].pc = "checked" /\ Answer(q, "refused")
      /\ UNCHANGED <<db, expired, lapsed>>
  BY DEF RollBack, At
<1>2. db.project # q BY <1>1, WorkingCall DEF Working, CallKnows
<1>3. "refused" \notin Calls BY SelectionAssumption DEF SelectionAssumption
<1> QED BY <1>1, <1>2, <1>3, AnswerStep

LEMMA UniqueConflictStep ==
  ASSUME IInv, NEW q \in Calls, UniqueConflict(q)
  PROVE  IInv'
<1>1. /\ call[q].pc = "checked" /\ Goto(q, "conflict")
      /\ UNCHANGED <<db, expired, lapsed>>
  BY DEF UniqueConflict, At
<1> QED BY <1>1, GotoStep

LEMMA RecoverStep ==
  ASSUME IInv, NEW q \in Calls, Recover(q)
  PROVE  IInv'
<1>1. call[q].pc \in {"unknown", "conflict"} /\ UNCHANGED <<db, expired, lapsed>>
  BY DEF Recover
<1>2. CallKnows(call[q], q, db.project) BY DEF IInv
<1>3. "refused" \notin Calls /\ "unknown" \notin Calls
  BY SelectionAssumption DEF SelectionAssumption
<1>4. CASE ChainComplete(db) /\ Answer(q, db.project)
  <2>1. db.project # None BY <1>4 DEF ChainComplete
  <2>2. db.project \in Calls BY <2>1, Facts DEF Databases
  <2> QED BY <1>1, <1>3, <1>4, <2>2, AnswerStep
<1>5. CASE call[q].pc = "unknown" /\ Answer(q, "unknown")
  BY <1>1, <1>3, <1>5, AnswerStep
<1>6. CASE call[q].pc # "unknown" /\ Answer(q, "refused")
  <2>1. db.project # q BY <1>1, <1>2, <1>6 DEF CallKnows
  <2> QED BY <1>1, <1>3, <1>6, <2>1, AnswerStep
<1> QED BY <1>1, <1>4, <1>5, <1>6 DEF Recover, At
-----------------------------------------------------------------------------
(* The commit.  The snapshot is the database, so what was validated of the   *)
(* one holds of the other, and no project exists yet.                        *)

LEMMA CompletedRows ==
  ASSUME NEW d \in Databases, NEW q \in Calls, ReadyToWrite(d), d.intent # None
  PROVE  LET e == Completed(d, q) IN
         /\ e \in Databases
         /\ e.project = q
         /\ WholeRows(e)
<1> DEFINE sel == [status |-> "SELECTED", version |-> d.selection.version + 1,
                   set |-> d.selection.set, chosen |-> d.intent.invitation]
           att == [status |-> "SELECTED", version |-> d.attempt.version + 1]
           dem == [status |-> "MATCHED", version |-> d.demand.version + 1]
           e == [invitation |-> d.invitation, selection |-> sel, attempt |-> att,
                 demand |-> dem, selector |-> d.selector, intent |-> d.intent,
                 project |-> q, record |-> q]
<1>1. /\ d.selection \in Selections /\ d.attempt \in Attempts
      /\ d.demand \in Versioned({"MATCHING", "MATCHED", "CANCELLED"})
      /\ d.intent \in Intent
  BY DatabaseType DEF Databases
<1>2. sel \in Selections /\ att \in Attempts
      /\ dem \in Versioned({"MATCHING", "MATCHED", "CANCELLED"})
  BY <1>1 DEF Selections, Attempts, Versioned, Intent
<1>3. Completed(d, q) = e
  <2> DEFINE d1 == [d EXCEPT !.selection = sel]
             d2 == [d1 EXCEPT !.attempt = att]
             d3 == [d2 EXCEPT !.demand = dem]
             d4 == [d3 EXCEPT !.project = q]
             d5 == [d4 EXCEPT !.record = q]
  <2> HIDE DEF sel, att, dem
  <2>1. d1 = [invitation |-> d.invitation, selection |-> sel, attempt |-> d.attempt,
              demand |-> d.demand, selector |-> d.selector, intent |-> d.intent,
              project |-> d.project, record |-> d.record]
    BY DEF Databases
  <2> HIDE DEF d1
  <2>2. d2 = [invitation |-> d.invitation, selection |-> sel, attempt |-> att,
              demand |-> d.demand, selector |-> d.selector, intent |-> d.intent,
              project |-> d.project, record |-> d.record]
    BY <2>1
  <2> HIDE DEF d2
  <2>3. d3 = [invitation |-> d.invitation, selection |-> sel, attempt |-> att,
              demand |-> dem, selector |-> d.selector, intent |-> d.intent,
              project |-> d.project, record |-> d.record]
    BY <2>2
  <2> HIDE DEF d3
  <2>4. d4 = [invitation |-> d.invitation, selection |-> sel, attempt |-> att,
              demand |-> dem, selector |-> d.selector, intent |-> d.intent,
              project |-> q, record |-> d.record]
    BY <2>3
  <2> HIDE DEF d4
  <2>5. d5 = e BY <2>4
  <2>6. Completed(d, q) = d5 BY DEF Completed, sel, att, dem, d1, d2, d3, d4
  <2> QED BY <2>5, <2>6
<1>4. /\ e.invitation = d.invitation /\ e.selection = sel /\ e.attempt = att
      /\ e.demand = dem /\ e.intent = d.intent /\ e.project = q /\ e.record = q
  OBVIOUS
<1>5. e \in Databases
  <2> HIDE DEF sel, att, dem
  <2> QED BY <1>1, <1>2 DEF Databases, Selections, Attempts
<1>6. d.selection.version = d.intent.selection /\ d.attempt.version = d.intent.attempt
      /\ d.demand.version = BoundDemandVersion /\ d.selection.set = d.intent.set
      /\ d.invitation[d.intent.invitation] = "ACCEPTED"
      /\ d.selection.set = InvitationSet(d)
  BY DEF ReadyToWrite, ChainHolds
<1>7. InvitationSet(e) = InvitationSet(d) BY <1>4 DEF InvitationSet
<1>8. q # None BY SelectionAssumption DEF SelectionAssumption
<1>9. ChainComplete(e)
  <2>1. sel.status = "SELECTED" /\ sel.version = d.intent.selection + 1
        /\ sel.chosen = d.intent.invitation
    BY <1>6
  <2>2. att = [status |-> "SELECTED", version |-> d.intent.attempt + 1] BY <1>6
  <2>3. dem = [status |-> "MATCHED", version |-> BoundDemandVersion + 1] BY <1>6
  <2> HIDE DEF sel, att, dem, e
  <2> QED BY <1>4, <1>8, <2>1, <2>2, <2>3 DEF ChainComplete
<1> HIDE DEF sel, att, dem, e
<1>10. Decided(e) BY <1>4, <1>6, <1>7, <1>9 DEF Decided
<1>11. WholeRows(e) BY <1>4, <1>8, <1>10 DEF WholeRows
<1> QED BY <1>3, <1>4, <1>5, <1>11

\* The call that commits is answered with its own project or does not know.
LEMMA WrittenStep ==
  ASSUME IInv, NEW q \in Calls, At(q, "checked"), Fresh(q),
         db' = Completed(db, q), UNCHANGED <<expired, lapsed>>,
         \/ Answer(q, q)
         \/ Goto(q, "unknown")
  PROVE  IInv'
<1>1. call[q].pc = "checked" /\ call[q].view = db BY DEF At, Fresh
<1>2. /\ call[q] \in [pc : Working, view : Databases, answer : {None}]
      /\ CallKnows(call[q], q, db.project)
  BY <1>1, WorkingCall DEF Working
<1>3. ReadyToWrite(db) /\ db.intent # None /\ db \in Databases
  BY <1>1, <1>2, Facts DEF CallKnows, Working
<1>4. db.project = None BY <1>3 DEF ReadyToWrite, CompletionIsPresent
<1>5. db' \in Databases /\ db'.project = q /\ WholeRows(db')
  BY <1>3, CompletedRows
<1>6. None \notin Calls /\ "refused" \notin Calls /\ q # None /\ None # "refused"
  BY SelectionAssumption DEF SelectionAssumption
<1>7. PICK s \in Call :
        /\ call' = [call EXCEPT ![q] = s]
        /\ CallKnows(s, q, q)
  <2>1. CASE Answer(q, q)
    <3> DEFINE s == [pc |-> "done", view |-> None, answer |-> q]
    <3>1. s \in Call BY DEF Call
    <3>2. call' = [call EXCEPT ![q] = s] BY <2>1 DEF Answer
    <3>3. s.pc = "done" /\ s.answer = q /\ q # "refused" BY <1>6
    <3> HIDE DEF s
    <3>4. CallKnows(s, q, q) BY <3>3 DEF CallKnows, Working
    <3> QED BY <3>1, <3>2, <3>4
  <2>2. CASE Goto(q, "unknown")
    <3> DEFINE s == [pc |-> "unknown", view |-> db, answer |-> None]
    <3>1. s \in Call BY <1>3 DEF Call, Working
    <3>2. [call[q] EXCEPT !.pc = "unknown"] = s BY <1>1, <1>2
    <3>3. call' = [call EXCEPT ![q] = s]
      BY <2>2, <3>2 DEF Goto, IInv, TypeOK
    <3>4. s.pc = "unknown" /\ s.view = db /\ s.answer = None OBVIOUS
    <3> HIDE DEF s
    <3>5. CallKnows(s, q, q) BY <1>3, <1>4, <1>6, <3>4 DEF CallKnows
    <3> QED BY <3>1, <3>3, <3>5
  <2> QED BY <2>1, <2>2
<1>8. call \in [Calls -> Call] BY DEF IInv, TypeOK, Call
<1>9. call' \in [Calls -> Call] BY <1>7, <1>8
<1>10. TypeOK' BY <1>5, <1>9 DEF IInv, TypeOK, Call
<1>11. \A p \in Calls : CallKnows(call'[p], p, q)
  <2> SUFFICES ASSUME NEW p \in Calls PROVE CallKnows(call'[p], p, q) OBVIOUS
  <2>1. CASE p = q BY <1>7, <1>8, <2>1
  <2>2. CASE p # q
    <3>1. call'[p] = call[p] BY <1>7, <1>8, <2>2
    <3>2. CallKnows(call[p], p, None) BY <1>4 DEF IInv
    <3> QED BY <1>6, <2>2, <3>1, <3>2 DEF CallKnows
  <2> QED BY <2>1, <2>2
<1>12. \A p \in Calls : CallKnows(call[p], p, db.project)'
  <2> SUFFICES ASSUME NEW p \in Calls PROVE CallKnows(call'[p], p, db'.project)
    BY DEF CallKnows, ReadyToWrite, CompletionIsPresent, ChainHolds, InvitationSet
  <2> QED BY <1>5, <1>11
<1>13. WholeRows(db)'
  BY <1>5 DEF WholeRows, Undecided, Decided, ChainComplete, InvitationSet
<1> QED BY <1>10, <1>12, <1>13 DEF IInv

LEMMA CommitUnknownStep ==
  ASSUME IInv, NEW q \in Calls, CommitUnknown(q)
  PROVE  IInv'
<1>1. CASE db' = Completed(db, q)
  BY <1>1, WrittenStep DEF CommitUnknown
<1>2. CASE UNCHANGED db
  <2> DEFINE s == [pc |-> "unknown", view |-> call[q].view, answer |-> None]
  <2>1. call[q].pc = "checked" /\ Goto(q, "unknown") /\ UNCHANGED <<expired, lapsed>>
    BY DEF CommitUnknown, At
  <2>2. /\ call[q] \in [pc : Working, view : Databases, answer : {None}]
        /\ CallKnows(call[q], q, db.project)
    BY <2>1, WorkingCall DEF Working
  <2>3. s \in Call BY <2>2 DEF Call, Working
  <2>4. [call[q] EXCEPT !.pc = "unknown"] = s BY <2>2
  <2>5. call' = [call EXCEPT ![q] = s] BY <2>1, <2>4 DEF Goto, IInv, TypeOK
  <2>6. None \notin Calls BY SelectionAssumption DEF SelectionAssumption
  <2>7. CallKnows(s, q, db.project) BY <2>1, <2>2, <2>6 DEF CallKnows, Working
  <2> HIDE DEF s
  <2> QED BY <1>2, <2>1, <2>3, <2>5, <2>7, CallStep
<1> QED BY <1>1, <1>2 DEF CommitUnknown

LEMMA CoordinateStep ==
  ASSUME IInv, NEW q \in Calls, Coordinate(q)
  PROVE  IInv'
<1>1. CASE Commit(q) BY <1>1, WrittenStep DEF Commit
<1> QED
  BY <1>1, BeginStep, CheckStep, RollBackStep, UniqueConflictStep,
     CommitUnknownStep, RecoverStep
  DEF Coordinate

LEMMA NextIInv == IInv /\ [Next]_vars => IInv'
<1> SUFFICES ASSUME IInv, [Next]_vars PROVE IInv' OBVIOUS
<1> USE DEF Next
<1>1. CASE \E i \in Invitations : CreateInvitation(i) BY <1>1, CreateStep
<1>2. CASE \E i \in Invitations : PublishInvitation(i) BY <1>2, PublishStep
<1>3. CASE \E i \in Invitations : \E status \in {"ACCEPTED", "DECLINED"} :
             RespondInvitation(i, status)
  BY <1>3, RespondStep
<1>4. CASE \E i \in Invitations : WithdrawAccepted(i) BY <1>4, WithdrawStep
<1>5. CASE \E i \in Invitations : ChooseCreator(i) BY <1>5, ChooseStep
<1>6. CASE \E i \in Invitations : Expire(i)
  BY <1>6, DeadlineStep DEF Expire, IInv, TypeOK
<1>7. CASE CloseWithoutChoice BY <1>7, CloseStep
<1>8. CASE CancelDemand BY <1>8, CancelStep
<1>9. CASE RevokeSelector BY <1>9, RevokeStep
<1>10. CASE \E x \in {"hold", "selector", "system"} : Lapse(x)
  BY <1>10, DeadlineStep DEF Lapse, IInv, TypeOK
<1>11. CASE \E q \in Calls : Coordinate(q) BY <1>11, CoordinateStep
<1>12. CASE UNCHANGED vars
  BY <1>12, DeadlineStep DEF vars, IInv, TypeOK
<1> QED
  BY <1>1, <1>2, <1>3, <1>4, <1>5, <1>6, <1>7, <1>8, <1>9, <1>10, <1>11, <1>12

LEMMA Invariance == Spec => []IInv
<1> QED BY InitIInv, NextIInv, PTL DEF Spec
-----------------------------------------------------------------------------
\* The rows and the calls keep the shapes the handlers give them, for any number
\* of creators, rounds and calls.
THEOREM TypeCorrect == Spec => []TypeOK
<1>1. IInv => TypeOK BY DEF IInv
<1> QED BY <1>1, Invariance, PTL

\* CompleteSelection decides selection, attempt, demand and project together.
THEOREM DecidedTogether == Spec => []ChainWhole
<1>1. ASSUME IInv PROVE ChainWhole
  <2>1. CASE db.project = None
    BY <1>1, <2>1 DEF IInv, WholeRows, Undecided, ChainWhole
  <2>2. CASE db.project # None
    <3>1. Decided(db) BY <1>1, <2>2 DEF IInv, WholeRows
    <3>2. /\ ChainComplete(db)
          /\ db.selection.status = "SELECTED"
          /\ db.selection.chosen = db.intent.invitation
          /\ db.attempt.status = "SELECTED"
          /\ db.demand.status = "MATCHED"
          /\ db.invitation[db.intent.invitation] = "ACCEPTED"
      BY <3>1 DEF Decided, ChainComplete
    <3> QED BY <2>2, <3>2 DEF ChainWhole
  <2> QED BY <2>1, <2>2
<1> QED BY <1>1, Invariance, PTL

\* A call of handle() that reports a project reports the one that exists.
THEOREM ReportedIsThere == Spec => []SuccessIsDurable
<1>1. IInv => SuccessIsDurable BY DEF IInv, CallKnows, SuccessIsDurable
<1> QED BY <1>1, Invariance, PTL

\* A call of handle() that is refused has created nothing.
THEOREM RefusedIsNotThere == Spec => []RefusalIsFinal
<1>1. IInv => RefusalIsFinal BY DEF IInv, CallKnows, RefusalIsFinal
<1> QED BY <1>1, Invariance, PTL

\* The choice is made among the invitations the selector was shown, in the
\* statuses they were shown in.
THEOREM MadeAsShown == Spec => []ChosenAsShown
<1>1. IInv => ChosenAsShown
  BY DEF IInv, WholeRows, Undecided, Decided, ChosenAsShown
<1> QED BY <1>1, Invariance, PTL

\* No command, late answer or second call changes a selection that is made or
\* closed, or its attempt (Selection.refresh_invitation_set, _choose_creator,
\* _close_selection_without_choice, handle).
THEOREM DecidedForever == Spec => DecisionFinal
<1> DEFINE Over == db.selection.status \in {"SELECTED", "CLOSED_NO_SELECTION"}
           Same == db'.selection = db.selection /\ db'.attempt = db.attempt
<1>1. ASSUME IInv, [Next]_vars, Over PROVE Same
  <2> USE <1>1
  <2>1. db \in Databases BY Facts
  <2>2. ASSUME NEW i \in Invitations, NEW s \in InvitationStatus,
               RefreshInvitationSet(WithStatus(i, s))
        PROVE  Same
    BY <2>1, <2>2, WithStatusType DEF RefreshInvitationSet
  <2>3. CASE \E i \in Invitations : CreateInvitation(i)
    BY <2>1, <2>3, WithStatusType DEF CreateInvitation, Write, InvitationStatus
  <2>4. CASE \E i \in Invitations : PublishInvitation(i)
    BY <2>2, <2>4 DEF PublishInvitation, InvitationStatus
  <2>5. CASE \E i \in Invitations : \E status \in {"ACCEPTED", "DECLINED"} :
               RespondInvitation(i, status)
    BY <2>2, <2>5 DEF RespondInvitation, InvitationStatus
  <2>6. CASE \E i \in Invitations : WithdrawAccepted(i)
    BY <2>2, <2>6 DEF WithdrawAccepted, InvitationStatus
  <2>7. CASE \E i \in Invitations : ChooseCreator(i)
    <3>1. PICK t : db' = [db EXCEPT !.intent = t]
      BY <2>7 DEF ChooseCreator, Write
    <3> QED BY <2>1, <3>1 DEF Databases
  <2>8. CASE CloseWithoutChoice
    <3>1. Undecided(db) /\ db.selection.status = "OPEN"
      BY <2>8, Facts DEF CloseWithoutChoice
    <3> QED BY <3>1
  <2>9. CASE CancelDemand
    <3>1. PICK t : db' = [db EXCEPT !.demand = t]
      BY <2>9 DEF CancelDemand, Write
    <3> QED BY <2>1, <3>1 DEF Databases
  <2>10. CASE RevokeSelector
    BY <2>1, <2>10 DEF RevokeSelector, Write, Databases
  <2>11. ASSUME NEW q \in Calls, At(q, "checked"), Fresh(q) PROVE FALSE
    <3>1. ReadyToWrite(db)
      BY <2>11, WorkingCall DEF At, Fresh, CallKnows, Working
    <3> QED BY <3>1 DEF ReadyToWrite, CompletionIsPresent
  <2>12. CASE \E q \in Calls : Coordinate(q)
    BY <2>11, <2>12
    DEF Coordinate, Begin, Check, Commit, RollBack, UniqueConflict,
        CommitUnknown, Recover
  <2>13. CASE UNCHANGED db BY <2>13
  <2> QED
    BY <2>3, <2>4, <2>5, <2>6, <2>7, <2>8, <2>9, <2>10, <2>12, <2>13
    DEF Next, Expire, Lapse, vars
<1>2. IInv /\ [Next]_vars => [Over => Same]_vars BY <1>1
<1> QED BY <1>2, Invariance, PTL DEF Spec, DecisionFinal
-----------------------------------------------------------------------------
(* One decision                                                              *)

DecisionVars == <<Choice, Outcome, db.demand.status = "MATCHED">>

\* A refreshed invitation set leaves an open selection open, and the rest alone.
LEMMA RefreshKeeps ==
  ASSUME IInv, NEW i \in Invitations, NEW s \in InvitationStatus,
         RefreshInvitationSet(WithStatus(i, s))
  PROVE  UNCHANGED DecisionVars
<1> DEFINE d == WithStatus(i, s)
           new == Refreshed(d.selection, InvitationSet(d))
<1>1. d \in Databases /\ InvitationSet(d) \in Sets
  BY Facts, WithStatusType, InvitationSetType
<1>2. d.selection = db.selection /\ d.demand = db.demand /\ d.intent = db.intent
  BY Facts, WithStatusType
<1>3. db' = [d EXCEPT !.selection.version = @ + 1,
                      !.selection.set = InvitationSet(d)]
  BY DEF RefreshInvitationSet, Write
<1> HIDE DEF d
<1>4. /\ d.selection \in Selections /\ d.attempt \in Attempts
      /\ new \in Selections /\ new.status = d.selection.status
  BY <1>1, DatabaseType, RefreshedType
<1>5. db' = With(d, new, d.attempt)
  BY <1>1, <1>3 DEF Databases, With, Refreshed
<1> HIDE DEF new
<1>6. db'.selection = new /\ db'.demand = d.demand /\ db'.intent = d.intent
  BY <1>1, <1>4, <1>5, SelectionWrite
<1> QED BY <1>2, <1>4, <1>6 DEF DecisionVars, Choice, Outcome

\* Nor does sending the first invitation, which opens the selection.
LEMMA PublishKeeps ==
  ASSUME IInv, NEW i \in Invitations, PublishInvitation(i)
  PROVE  UNCHANGED DecisionVars
<1> DEFINE d == WithStatus(i, "SENT")
           new == [status |-> "OPEN", version |-> 1,
                   set |-> InvitationSet(d), chosen |-> None]
<1>0. "SENT" \in InvitationStatus BY DEF InvitationStatus
<1>1. CASE db.selection.status = "NONE"
  <2>1. d \in Databases /\ d.demand = db.demand /\ d.intent = db.intent
    BY <1>0, Facts, WithStatusType
  <2>2. db' = [d EXCEPT !.selection = new, !.attempt.version = @ + 1]
    BY <1>1 DEF PublishInvitation, OpenSelection, Write
  <2>3. new.status = "OPEN" OBVIOUS
  <2> HIDE DEF d, new
  <2>4. db'.selection = new /\ db'.demand = d.demand /\ db'.intent = d.intent
    BY <2>1, <2>2 DEF Databases
  <2> QED BY <1>1, <2>1, <2>3, <2>4 DEF DecisionVars, Choice, Outcome
<1>2. CASE db.selection.status # "NONE"
  BY <1>0, <1>2, RefreshKeeps DEF PublishInvitation
<1> QED BY <1>1, <1>2

\* What has nothing to do with the decision.
LEMMA OtherKeeps ==
  ASSUME IInv,
         \/ \E i \in Invitations : CreateInvitation(i) \/ Expire(i)
         \/ CancelDemand \/ RevokeSelector
         \/ \E x \in {"hold", "selector", "system"} : Lapse(x)
  PROVE  UNCHANGED DecisionVars
<1>1. db \in Databases BY Facts
<1>2. ASSUME NEW i \in Invitations, CreateInvitation(i) PROVE UNCHANGED DecisionVars
  BY <1>1, <1>2, WithStatusType
     DEF CreateInvitation, Write, InvitationStatus, DecisionVars, Choice, Outcome
<1>3. CASE CancelDemand
  <2> DEFINE t == [status |-> "CANCELLED", version |-> db.demand.version + 1]
  <2>1. db' = [db EXCEPT !.demand = t] /\ t.status = "CANCELLED"
    BY <1>3 DEF CancelDemand, Write
  <2> HIDE DEF t
  <2>2. db'.demand = t /\ db'.intent = db.intent /\ db'.selection = db.selection
    BY <1>1, <2>1 DEF Databases
  <2> QED BY <1>3, <2>1, <2>2 DEF CancelDemand, DecisionVars, Choice, Outcome
<1>4. CASE RevokeSelector
  BY <1>1, <1>4 DEF RevokeSelector, Write, Databases, DecisionVars, Choice, Outcome
<1>5. CASE UNCHANGED db BY <1>5 DEF DecisionVars, Choice, Outcome
<1> QED BY <1>2, <1>3, <1>4, <1>5 DEF Expire, Lapse

\* Choosing is recording a choice where there was none.
LEMMA ChooseMaps ==
  ASSUME IInv, NEW i \in Invitations, ChooseCreator(i)
  PROVE  Abstract!Choose(i) \/ UNCHANGED DecisionVars
<1> DEFINE t == [invitation |-> i, selection |-> db.selection.version,
                 attempt |-> db.attempt.version, set |-> db.selection.set]
<1>1. db \in Databases BY Facts
<1>2. db' = [db EXCEPT !.intent = t] /\ db.intent = None /\ t.invitation = i
  BY DEF ChooseCreator, Write
<1> HIDE DEF t
<1>3. db'.intent = t /\ db'.selection = db.selection /\ db'.demand = db.demand
  BY <1>1, <1>2 DEF Databases
<1> QED BY <1>2, <1>3 DEF Abstract!Choose, DecisionVars, Choice, Outcome

\* Closing ends an open selection of which no choice is recorded.
LEMMA CloseMaps ==
  ASSUME IInv, CloseWithoutChoice
  PROVE  Abstract!EndWithoutChoice
<1> DEFINE new == Closed(db.selection)
           next == Closed(db.attempt)
<1>1. db \in Databases BY Facts
<1>2. /\ db.intent = None /\ db.selection.status = "OPEN"
      /\ db' = [db EXCEPT !.selection.status = "CLOSED_NO_SELECTION",
                          !.selection.version = @ + 1,
                          !.attempt.status = "CLOSED_NO_SELECTION",
                          !.attempt.version = @ + 1]
  BY DEF CloseWithoutChoice, Write
<1>3. /\ new \in Selections /\ new.status = "CLOSED_NO_SELECTION"
      /\ next \in Attempts
  BY <1>1, DatabaseType, ClosedType
<1>4. db' = With(db, new, next) BY <1>1, <1>2 DEF Databases, With, Closed
<1> HIDE DEF new, next
<1>5. db'.selection = new /\ db'.demand = db.demand /\ db'.intent = db.intent
  BY <1>1, <1>3, <1>4, SelectionWrite
<1> QED BY <1>2, <1>3, <1>5 DEF Abstract!EndWithoutChoice, Choice, Outcome

\* A commit carries out the choice of a selection that is still open.
LEMMA CommitMaps ==
  ASSUME IInv, NEW q \in Calls, At(q, "checked"), Fresh(q), db' = Completed(db, q)
  PROVE  Abstract!CarryOut
<1>1. call[q].pc = "checked" /\ call[q].view = db BY DEF At, Fresh
<1>2. ReadyToWrite(db) /\ db.intent # None /\ db \in Databases
  BY <1>1, WorkingCall, Facts DEF CallKnows, Working
<1>3. db.selection.status = "OPEN" BY <1>2 DEF ReadyToWrite, CompletionIsPresent
<1>4. db.intent \in Intent BY <1>2, DatabaseType
<1>5. db.intent.invitation \in Invitations BY <1>4 DEF Intent
<1>6. /\ db'.selection.status = "SELECTED" /\ db'.demand.status = "MATCHED"
      /\ db'.intent = db.intent
  BY <1>2 DEF Completed, Databases
<1> QED BY <1>2, <1>3, <1>5, <1>6 DEF Abstract!CarryOut, Choice, Outcome

LEMMA CoordinateMaps ==
  ASSUME IInv, NEW q \in Calls, Coordinate(q)
  PROVE  Abstract!CarryOut \/ UNCHANGED DecisionVars
<1>1. CASE UNCHANGED db BY <1>1 DEF DecisionVars, Choice, Outcome
<1>2. CASE At(q, "checked") /\ Fresh(q) /\ db' = Completed(db, q)
  BY <1>2, CommitMaps
<1> QED
  BY <1>1, <1>2 DEF Coordinate, Begin, Check, Commit, RollBack, UniqueConflict,
                    CommitUnknown, Recover

LEMMA StepMaps == IInv /\ [Next]_vars => [Abstract!Next]_DecisionVars
<1> SUFFICES ASSUME IInv, [Next]_vars PROVE [Abstract!Next]_DecisionVars OBVIOUS
<1>1. CASE \E i \in Invitations : PublishInvitation(i) BY <1>1, PublishKeeps
<1>2. CASE \E i \in Invitations : \E status \in {"ACCEPTED", "DECLINED"} :
             RespondInvitation(i, status)
  BY <1>2, RefreshKeeps DEF RespondInvitation, InvitationStatus
<1>3. CASE \E i \in Invitations : WithdrawAccepted(i)
  BY <1>3, RefreshKeeps DEF WithdrawAccepted, InvitationStatus
<1>4. CASE \E i \in Invitations : ChooseCreator(i)
  BY <1>4, ChooseMaps DEF Abstract!Next
<1>5. CASE CloseWithoutChoice BY <1>5, CloseMaps DEF Abstract!Next
<1>6. CASE \E q \in Calls : Coordinate(q)
  BY <1>6, CoordinateMaps DEF Abstract!Next
<1>7. CASE UNCHANGED vars BY <1>7 DEF vars, DecisionVars, Choice, Outcome
<1> QED BY <1>1, <1>2, <1>3, <1>4, <1>5, <1>6, <1>7, OtherKeeps DEF Next

\* The commands of handlers.py and the calls of CompleteSelectionCoordinator
\* together make one decision, as OneDecision describes it.
THEOREM Refinement == Spec => ImplementsDecision
<1>1. Init => Abstract!Init BY DEF Init, Abstract!Init, Choice, Outcome
<1> QED BY <1>1, Invariance, StepMaps, PTL
         DEF Spec, ImplementsDecision, Abstract!Spec, DecisionVars
-----------------------------------------------------------------------------
(* Choices that can never be carried out                                     *)

\* The rows are not any more, or never were, what the recorded choice is bound to.
ChoiceOvertaken ==
  /\ db.intent # None /\ db.project = None
  /\ \/ db.selection.status # "OPEN"
     \/ db.selection.version # db.intent.selection
     \/ db.demand.status # "MATCHING"

\* A choice is bound to a version that the selection has, or had.
IntentPlaced ==
  db.intent # None =>
    /\ db.selection.status # "NONE"
    /\ db.intent.selection <= db.selection.version

\* What a command does to what a choice is bound to: versions grow, and what has
\* ended stays.
Advances ==
  /\ db'.project = db.project
  /\ \/ db'.intent = db.intent
     \/ /\ db.intent = None /\ db.selection.status # "NONE"
        /\ db'.intent.selection = db.selection.version
        /\ db'.selection = db.selection
  /\ \/ db.selection.status = "NONE"
     \/ db'.selection = db.selection
     \/ /\ db.selection.status = "OPEN"
        /\ db'.selection.status # "NONE"
        /\ db'.selection.version = db.selection.version + 1
  /\ db'.demand.status = db.demand.status \/ db'.demand.status = "CANCELLED"

LEMMA RefreshAdvances ==
  ASSUME IInv, NEW i \in Invitations, NEW s \in InvitationStatus,
         RefreshInvitationSet(WithStatus(i, s))
  PROVE  Advances
<1> DEFINE d == WithStatus(i, s)
           new == Refreshed(d.selection, InvitationSet(d))
<1>1. d \in Databases /\ InvitationSet(d) \in Sets
  BY Facts, WithStatusType, InvitationSetType
<1>2. /\ d.selection = db.selection /\ d.demand = db.demand /\ d.intent = db.intent
      /\ d.project = db.project
  BY Facts, WithStatusType DEF WithStatus, Databases
<1>3. /\ d.selection.status = "OPEN"
      /\ db' = [d EXCEPT !.selection.version = @ + 1,
                         !.selection.set = InvitationSet(d)]
  BY DEF RefreshInvitationSet, Write
<1> HIDE DEF d
<1>4. /\ d.selection \in Selections /\ d.attempt \in Attempts
      /\ new \in Selections /\ new.status = d.selection.status
  BY <1>1, DatabaseType, RefreshedType
<1>5. new.version = d.selection.version + 1 BY <1>4 DEF Refreshed, Selections
<1>6. db' = With(d, new, d.attempt)
  BY <1>1, <1>3 DEF Databases, With, Refreshed
<1> HIDE DEF new
<1>7. /\ db'.selection = new /\ db'.demand = d.demand /\ db'.intent = d.intent
      /\ db'.project = d.project
  BY <1>1, <1>4, <1>6, SelectionWrite DEF With, Databases
<1> QED BY <1>2, <1>3, <1>4, <1>5, <1>7 DEF Advances

LEMMA PublishAdvances ==
  ASSUME IInv, NEW i \in Invitations, PublishInvitation(i)
  PROVE  Advances
<1> DEFINE d == WithStatus(i, "SENT")
           new == [status |-> "OPEN", version |-> 1,
                   set |-> InvitationSet(d), chosen |-> None]
<1>0. "SENT" \in InvitationStatus BY DEF InvitationStatus
<1>1. CASE db.selection.status = "NONE"
  <2>1. /\ d \in Databases /\ d.demand = db.demand /\ d.intent = db.intent
        /\ d.project = db.project
    BY <1>0, Facts, WithStatusType DEF WithStatus, Databases
  <2>2. db' = [d EXCEPT !.selection = new, !.attempt.version = @ + 1]
    BY <1>1 DEF PublishInvitation, OpenSelection, Write
  <2> HIDE DEF d, new
  <2>3. db'.demand = d.demand /\ db'.intent = d.intent /\ db'.project = d.project
    BY <2>1, <2>2 DEF Databases
  <2> QED BY <1>1, <2>1, <2>3 DEF Advances
<1>2. CASE db.selection.status # "NONE"
  BY <1>0, <1>2, RefreshAdvances DEF PublishInvitation
<1> QED BY <1>1, <1>2

LEMMA ChooseAdvances ==
  ASSUME IInv, NEW i \in Invitations, ChooseCreator(i)
  PROVE  Advances
<1> DEFINE t == [invitation |-> i, selection |-> db.selection.version,
                 attempt |-> db.attempt.version, set |-> db.selection.set]
<1>1. db \in Databases BY Facts
<1>2. /\ db' = [db EXCEPT !.intent = t] /\ db.intent = None
      /\ t.selection = db.selection.version /\ db.selection.status # "NONE"
  BY DEF ChooseCreator, Write
<1> HIDE DEF t
<1>3. /\ db'.intent = t /\ db'.selection = db.selection /\ db'.demand = db.demand
      /\ db'.project = db.project
  BY <1>1, <1>2 DEF Databases
<1> QED BY <1>2, <1>3 DEF Advances

LEMMA CloseAdvances ==
  ASSUME IInv, CloseWithoutChoice
  PROVE  Advances
<1> DEFINE new == Closed(db.selection)
           next == Closed(db.attempt)
<1>1. db \in Databases BY Facts
<1>2. /\ db.selection.status = "OPEN"
      /\ db' = [db EXCEPT !.selection.status = "CLOSED_NO_SELECTION",
                          !.selection.version = @ + 1,
                          !.attempt.status = "CLOSED_NO_SELECTION",
                          !.attempt.version = @ + 1]
  BY DEF CloseWithoutChoice, Write
<1>3. /\ new \in Selections /\ new.status = "CLOSED_NO_SELECTION"
      /\ next \in Attempts /\ db.selection \in Selections
  BY <1>1, DatabaseType, ClosedType
<1>4. new.version = db.selection.version + 1 BY <1>3 DEF Closed, Selections
<1>5. db' = With(db, new, next) BY <1>1, <1>2 DEF Databases, With, Closed
<1> HIDE DEF new, next
<1>6. /\ db'.selection = new /\ db'.demand = db.demand /\ db'.intent = db.intent
      /\ db'.project = db.project
  BY <1>1, <1>3, <1>5, SelectionWrite DEF With, Databases
<1> QED BY <1>2, <1>3, <1>4, <1>6 DEF Advances

LEMMA OtherAdvances ==
  ASSUME IInv,
         \/ \E i \in Invitations : CreateInvitation(i)
         \/ CancelDemand \/ RevokeSelector
         \/ UNCHANGED db
  PROVE  Advances
<1>1. db \in Databases BY Facts
<1>2. ASSUME NEW i \in Invitations, CreateInvitation(i) PROVE Advances
  <2>1. db' = WithStatus(i, "CREATED") BY <1>2 DEF CreateInvitation, Write
  <2>2. /\ db'.selection = db.selection /\ db'.demand = db.demand
        /\ db'.intent = db.intent /\ db'.project = db.project
    BY <1>1, <2>1 DEF WithStatus, Databases
  <2> QED BY <2>2 DEF Advances
<1>3. CASE CancelDemand
  <2> DEFINE t == [status |-> "CANCELLED", version |-> db.demand.version + 1]
  <2>1. db' = [db EXCEPT !.demand = t] /\ t.status = "CANCELLED"
    BY <1>3 DEF CancelDemand, Write
  <2> HIDE DEF t
  <2>2. /\ db'.demand = t /\ db'.intent = db.intent /\ db'.selection = db.selection
        /\ db'.project = db.project
    BY <1>1, <2>1 DEF Databases
  <2> QED BY <2>1, <2>2 DEF Advances
<1>4. CASE RevokeSelector
  BY <1>1, <1>4 DEF RevokeSelector, Write, Databases, Advances
<1>5. CASE UNCHANGED db BY <1>5 DEF Advances
<1> QED BY <1>2, <1>3, <1>4, <1>5

\* Every step advances, or carries the choice out on rows that fit it.
LEMMA StepAdvances ==
  ASSUME IInv, [Next]_vars
  PROVE  \/ Advances
         \/ ReadyToWrite(db) /\ db.intent # None /\ \E q \in Calls : db' = Completed(db, q)
<1>1. CASE \E i \in Invitations : PublishInvitation(i) BY <1>1, PublishAdvances
<1>2. CASE \E i \in Invitations : \E status \in {"ACCEPTED", "DECLINED"} :
             RespondInvitation(i, status)
  BY <1>2, RefreshAdvances DEF RespondInvitation, InvitationStatus
<1>3. CASE \E i \in Invitations : WithdrawAccepted(i)
  BY <1>3, RefreshAdvances DEF WithdrawAccepted, InvitationStatus
<1>4. CASE \E i \in Invitations : ChooseCreator(i) BY <1>4, ChooseAdvances
<1>5. CASE CloseWithoutChoice BY <1>5, CloseAdvances
<1>6. ASSUME NEW q \in Calls, At(q, "checked"), Fresh(q)
      PROVE  ReadyToWrite(db) /\ db.intent # None
  BY <1>6, WorkingCall DEF At, Fresh, CallKnows, Working
<1>7. ASSUME NEW q \in Calls, Coordinate(q)
      PROVE  \/ UNCHANGED db
             \/ ReadyToWrite(db) /\ db.intent # None /\ db' = Completed(db, q)
  BY <1>6, <1>7 DEF Coordinate, Begin, Check, Commit, RollBack, UniqueConflict,
                    CommitUnknown, Recover
<1>8. CASE \E q \in Calls : Coordinate(q) BY <1>7, <1>8, OtherAdvances
<1>9. CASE UNCHANGED db BY <1>9, OtherAdvances
<1> QED BY <1>1, <1>2, <1>3, <1>4, <1>5, <1>8, <1>9, OtherAdvances
        DEF Next, Expire, Lapse, vars

LEMMA IntentPlacedStep ==
  ASSUME IInv, IntentPlaced, [Next]_vars
  PROVE  IntentPlaced'
<1>1. db \in Databases /\ db.selection.version \in Nat
  <2>1. db \in Databases BY Facts
  <2> QED BY <2>1 DEF Databases
<1>2. CASE Advances
  <2>1. CASE db'.intent = db.intent
    <3>1. db.intent # None => db.intent.selection \in Nat
      BY <1>1, DatabaseType DEF Intent
    <3> QED BY <1>1, <1>2, <2>1, <3>1 DEF Advances, IntentPlaced
  <2>2. CASE db'.intent # db.intent
    BY <1>1, <1>2, <2>2 DEF Advances, IntentPlaced
  <2> QED BY <2>1, <2>2
<1>3. ASSUME ReadyToWrite(db), NEW q \in Calls, db' = Completed(db, q)
      PROVE  IntentPlaced'
  <2>1. /\ db'.selection.status = "SELECTED" /\ db'.intent = db.intent
        /\ db'.selection.version = db.selection.version + 1
    BY <1>1, <1>3 DEF Completed, Databases
  <2>2. db.selection.version = db.intent.selection BY <1>3 DEF ReadyToWrite
  <2> QED BY <1>1, <2>1, <2>2 DEF IntentPlaced
<1> QED BY <1>2, <1>3, StepAdvances

\* A choice is bound to a version of an existing selection that is not to come.
THEOREM ChoicePlaced == Spec => []IntentPlaced
<1>1. Init => IntentPlaced BY DEF Init, IntentPlaced
<1>2. IInv /\ IntentPlaced /\ [Next]_vars => IntentPlaced' BY IntentPlacedStep
<1> QED BY <1>1, <1>2, Invariance, PTL DEF Spec

\* An answer, a new invitation or a cancelled demand that gets between a choice
\* and its completion, or a choice recorded of a closed selection, leaves a
\* choice for ever that no call of the coordinator carries out and that nobody
\* can replace.
THEOREM OvertakenForGood == Spec => [][ChoiceOvertaken => ChoiceOvertaken']_vars
<1>1. ASSUME IInv, IntentPlaced, [Next]_vars, ChoiceOvertaken
      PROVE  ChoiceOvertaken'
  <2>1. ~ReadyToWrite(db)
    BY <1>1 DEF ChoiceOvertaken, ReadyToWrite, CompletionIsPresent
  <2>2. Advances BY <1>1, <2>1, StepAdvances
  <2>3. db'.intent = db.intent /\ db'.project = db.project /\ db.intent # None
    BY <1>1, <2>2 DEF Advances, ChoiceOvertaken
  <2>4. db \in Databases /\ db.selection.version \in Nat /\ db.intent.selection \in Nat
    <3>1. db \in Databases BY <1>1, Facts
    <3> QED BY <2>3, <3>1, DatabaseType DEF Databases, Intent
  <2>5. CASE db.demand.status # "MATCHING"
    BY <1>1, <2>2, <2>3, <2>5 DEF Advances, ChoiceOvertaken
  <2>6. CASE db.selection.status # "OPEN"
    BY <1>1, <2>2, <2>3, <2>6 DEF Advances, ChoiceOvertaken, IntentPlaced
  <2>7. CASE db.selection.version # db.intent.selection
    BY <1>1, <2>2, <2>3, <2>4, <2>7 DEF Advances, ChoiceOvertaken, IntentPlaced
  <2> QED BY <1>1, <2>5, <2>6, <2>7 DEF ChoiceOvertaken
<1>2. IInv /\ IntentPlaced /\ [Next]_vars => [ChoiceOvertaken => ChoiceOvertaken']_vars
  BY <1>1
<1> QED BY <1>2, Invariance, ChoicePlaced, PTL DEF Spec
=============================================================================
