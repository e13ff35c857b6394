---------------------------- MODULE MCFillVirtual ----------------------------
(* Instances of FillVirtual for TLC.                                       *)
EXTENDS LoadInvariant, FiniteSetsExt, TLC

CONSTANT FileSize   \* size of each L0 file

\* The size of a set of L0 files.
MCBytes == [S \in SUBSET L0Files |-> MapThenSumSet(LAMBDA f : FileSize[f], S)]

\* Files of one byte, and sizes that differ.
SizeOne == [f \in 1..NumL0 |-> 1]
SizesVary == [f \in 1..NumL0 |-> IF f \in {2, 3} THEN 1 ELSE 2]
ThirdLarge == [f \in 1..NumL0 |-> IF f = 3 THEN 3 ELSE 1]

WorkerSymmetry == Permutations(Workers)
=============================================================================
