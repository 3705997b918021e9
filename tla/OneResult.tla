------------------------------ MODULE OneResult -------------------------------
(***************************************************************************)
(* What the match workers promise of an attempt: it is tried at most       *)
(* MaxTries times and then has one result, which is never taken back.  The *)
(* result is a list of candidates, the finding that there are none, or the *)
(* hand-over to a reviewer.                                                *)
(***************************************************************************)
EXTENDS Naturals

CONSTANT MaxTries

VARIABLES try,     \* the present try
          result   \* "open" until there is one

Results == {"candidates", "no_candidates", "review"}

Init == try = 1 /\ result = "open"

Retry ==
    /\ result = "open"
    /\ try < MaxTries
    /\ try' = try + 1
    /\ UNCHANGED result

Decide ==
    /\ result = "open"
    /\ result' \in Results
    /\ UNCHANGED try

Next == Retry \/ Decide

Spec == Init /\ [][Next]_<<try, result>>
=============================================================================
