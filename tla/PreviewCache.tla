---------------------------- MODULE PreviewCache ----------------------------
(***************************************************************************)
(* What the picker promises of the screens its preview shows, whatever the *)
(* user does with keys and mouse: a screen is read from disk at most once, *)
(* the answer, good or bad, stands, and every read is answered unless the  *)
(* picker closes first.                                                    *)
(***************************************************************************)
CONSTANT Shas       \* the digests of screens

VARIABLES
    status,         \* of each digest
    open            \* the picker is

vars == <<status, open>>

Status == {"unasked", "asked", "held", "failed"}

\* The first frame may have asked already.
Init == status \in [Shas -> {"unasked", "asked"}] /\ open = TRUE

Ask(S) ==
    /\ open /\ \A s \in S : status[s] = "unasked"
    /\ status' = [s \in Shas |-> IF s \in S THEN "asked" ELSE status[s]]
    /\ UNCHANGED open

Answer(s) ==
    /\ open /\ status[s] = "asked"
    /\ \E answer \in {"held", "failed"} : status' = [status EXCEPT ![s] = answer]
    /\ UNCHANGED open

Close == open /\ open' = FALSE /\ UNCHANGED status

Next == Close \/ (\E s \in Shas : Answer(s)) \/ \E S \in (SUBSET Shas) \ {{}} : Ask(S)

Safe == Init /\ [][Next]_vars

Spec == Safe /\ \A s \in Shas : WF_vars(Answer(s))
=============================================================================
