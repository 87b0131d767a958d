----------------------- MODULE MCReferenceGrantIndex -----------------------
(* Instances of ReferenceGrantIndex for TLC.                               *)
EXTENDS ReferenceGrantIndex

\* Grants with one or two entries on each side, duplicates among them.
SeqsUpTo(S, n) == UNION {[1..m -> S] : m \in 1..n}
SmallGrants == [from : SeqsUpTo(Froms, 2), to : SeqsUpTo(Tos, 2)]
=============================================================================
