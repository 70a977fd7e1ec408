--------------------------- MODULE MCArtifactStore ---------------------------
(* Three writers, two of one Run and one of another, who may meet at one    *)
(* content or not; two processes that delete.                              *)
EXTENDS ArtifactStore, TLC

CONSTANTS out, err, other, r1, r2, d1, d2

MCRunOf == [w \in {out, err, other} |-> IF w = other THEN r2 ELSE r1]
\* The writers of r1 are alike, so are the contents and the deleters.
MCSymmetry ==
    {f @@ g @@ h : f \in Permutations({out, err}), g \in Permutations(Content),
                   h \in Permutations(Deleter)}
=============================================================================
