--------------------------- MODULE MCGenerateGlobal ---------------------------
EXTENDS GenerateGlobal

CONSTANTS n1, n2, v1, v2

MCIds  == {n1, n2}
MCVals == {v1, v2}

(* Participant ids and values are only compared for equality.             *)
Symmetry == Permutations(MCIds) \cup Permutations(MCVals)

(* Logs of up to MaxLines lines, at most MaxDataLines of them data lines:  *)
(* seven lines reach a frame compared against the one two back (T d B T B *)
(* T d), and three data lines a frame of two participants followed by a  *)
(* second frame; more data lines only repeat the same per-cell test.      *)
MaxDataLines == 3
DataLinesBound ==
  Cardinality({k \in DOMAIN input : input[k] \in DataLines}) <= MaxDataLines
=============================================================================
