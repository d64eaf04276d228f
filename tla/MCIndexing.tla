----------------------------- MODULE MCIndexing -----------------------------
(* Small instances of Indexing for TLC. *)
EXTENDS Indexing

CONSTANTS i1, i2, s1, s2, a1, a2, b1, broken, big, poison, t1, t2, t3

\* a1 and a2 are two versions of a note, the first with one chunk more; b1 has
\* a chunk in common with a1; the other contents are the ones that go wrong.
MCCut == [c \in Contents |->
    CASE c = a1 -> <<t1, t2>>
      [] c = a2 -> <<t3>>
      [] c = b1 -> <<t1>>
      [] OTHER  -> <<t2>>]

MCKind == [c \in Contents |->
    CASE c = broken -> "unclosed"
      [] c = big    -> "overlong"
      [] c = poison -> "unstorable"
      [] OTHER      -> "parsed"]

OneSpace == [p \in Indexers |-> s1]
TwoSpaces == [p \in Indexers |-> IF p = i1 THEN s1 ELSE s2]
=============================================================================
