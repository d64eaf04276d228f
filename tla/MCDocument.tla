----------------------------- MODULE MCDocument -----------------------------
(* Small files and small chunk sizes, for TLC. *)
EXTENDS Document

CONSTANTS t1, t2, MaxLines, LongestLine, MaxFront, MaxBody

PlainLines == [len: 0..LongestLine, says: {"nothing"}]
Fence == [len |-> 3, says |-> "fence"]
FrontLines == [len: {2}, says: {t1, t2, "nothing"}] \cup {[len |-> LongestLine, says |-> "nothing"], Fence}

LinesOf(S, n) == UNION {[1..k -> S] : k \in 0..n}

\* Every plain text, with a rule in it or not, and every short note that
\* begins with a fence.
SomeDocuments ==
    LinesOf(PlainLines, MaxLines)
    \cup {a \o <<Fence>> \o b : a \in LinesOf(PlainLines, 2), b \in LinesOf(PlainLines, 2)}
    \cup {<<Fence>> \o a \o b : a \in LinesOf(FrontLines, MaxFront), b \in LinesOf(PlainLines, MaxBody)}

AllTexts == {TrimSpace(Lengths(d)) : d \in SomeDocuments}
SomeSizes == -1..6
=============================================================================
