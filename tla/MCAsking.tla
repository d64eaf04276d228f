------------------------------ MODULE MCAsking ------------------------------
(* Small instances of Asking for TLC. *)
EXTENDS Asking, TLC

CONSTANTS c1, c2, s1, a1, a2, q1, q2, t1, t2, t3

\* t2 alone is more than the budget has room for.
MCNotes == (1 :> a1) @@ (2 :> a2)
MCCut == [c \in Contents |-> IF c = a1 THEN <<t1, t3>> ELSE <<t2>>]
MCRunes == [t \in Texts |-> IF t = t2 THEN 5 ELSE 2]
MCQuestionOf == [c \in Callers |-> IF c = c1 THEN q1 ELSE q2]
MCKsOf == [c \in Callers |-> IF c = c1 THEN {4} ELSE {0, 3}]

\* q1 is nearest to t1, then t2, then t3; t1 and t2 are equally far from q2.
MCDistance ==
    [x \in Questions \X Texts |->
        IF x[2] = t1 THEN 1 ELSE IF x[2] = t2 THEN IF x[1] = q2 THEN 1 ELSE 2 ELSE 3]
=============================================================================
