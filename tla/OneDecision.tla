----------------------------- MODULE OneDecision ------------------------------
(***************************************************************************)
(* What the selector, the candidates and the owner of a demand are         *)
(* promised of a selection, whichever process carries it out: a choice,    *)
(* once recorded, is not replaced and is what the selection and the demand *)
(* then show, both from the same moment; nobody closes or cancels the      *)
(* selection under a recorded choice; and an outcome is not taken back.    *)
(*                                                                         *)
(* It is not promised that a recorded choice is ever carried out, nor that *)
(* none is recorded of a selection that has ended.                         *)
(***************************************************************************)
CONSTANTS
    Candidates,  \* who, or which invitation, may be chosen
    NoChoice     \* not one of them

VARIABLES choice,   \* the recorded choice
          outcome,  \* how the selection ended
          matched   \* the demand shows a match

Init == choice = NoChoice /\ outcome = "open" /\ matched = FALSE

Choose(c) ==
    /\ choice = NoChoice
    /\ choice' = c
    /\ UNCHANGED <<outcome, matched>>

CarryOut ==
    /\ outcome = "open"
    /\ choice \in Candidates
    /\ outcome' = "selected"
    /\ matched' = TRUE
    /\ UNCHANGED choice

EndWithoutChoice ==
    /\ outcome = "open"
    /\ choice = NoChoice
    /\ outcome' \in {"closed", "cancelled"}
    /\ UNCHANGED <<choice, matched>>

Next == (\E c \in Candidates : Choose(c)) \/ CarryOut \/ EndWithoutChoice

Spec == Init /\ [][Next]_<<choice, outcome, matched>>
=============================================================================
