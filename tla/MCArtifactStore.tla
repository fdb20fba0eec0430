--------------------------- MODULE MCArtifactStore ---------------------------
(* Two intents with the same file, one with a tree.                        *)
EXTENDS ArtifactStore, TLC

CONSTANTS k1, k2, k3, file, tree, b1, b2

MCBuilders == {b1, b2}
Alike == Permutations(MCBuilders)
MCKeys == {k1, k2, k3}
MCOut == [k \in MCKeys |-> IF k = k3 THEN tree ELSE file]
=============================================================================
