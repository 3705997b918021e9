-------------------------- MODULE MatchRunRefinement ---------------------------
(* The current run of an attempt shows its try and, once settled, its result. *)
EXTENDS MatchRun

ResultOfRun ==
    CASE run[currentRun].status = "COMPLETED" ->
            IF closeIntent = 0 THEN "candidates" ELSE "no_candidates"
      [] run[currentRun].status = "FAILED" -> "review"
      [] OTHER -> "open"

Abstract == INSTANCE OneResult WITH MaxTries <- MaxRuns,
                                    try <- currentRun,
                                    result <- ResultOfRun

\* However the workers overlap, fail and repeat themselves, every step is a
\* retry or the one decision: a worker that was overtaken changes nothing, a
\* settled attempt is not tried again.
ImplementsOneResult == Abstract!Spec
=============================================================================
