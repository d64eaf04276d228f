------------------------------ MODULE MCOpening ------------------------------
(* Small instances of Opening for TLC. *)
EXTENDS Opening, TLC

CONSTANTS p1, p2, p3, s1, s2, s3, t1, t2, k1

\* s1 and s2 have the same slug; both names have the same lock key.
CollidingSlug == (s1 :> t1) @@ (s2 :> t1) @@ (s3 :> t2)
OneKey == (t1 :> k1) @@ (t2 :> k1)
=============================================================================
