-------------------------- MODULE MCArtifactStore ---------------------------
(***************************************************************************)
(* ArtifactStore for TLC: the size of each document, and the two sums the  *)
(* specification is parameterised by.                                      *)
(***************************************************************************)
EXTENDS ArtifactStore, FiniteSetsExt, TLC

CONSTANTS Short, Long, Longer

\* Short is one unit long, every other document two.
SizeOf(d) == IF d = Short THEN 1 ELSE 2

MCBytes == [S \in SUBSET Documents |-> MapThenSumSet(SizeOf, S)]

MCTotal ==
    [f \in [Publishers -> 0..MaxDownload] |->
        MapThenSumSet(LAMBDA p : f[p], Publishers)]

MCDocuments == {Short, Long}
MCThreeDocuments == {Short, Long, Longer}

Symmetry == Permutations(Publishers) \cup Permutations(Readers)
=============================================================================
