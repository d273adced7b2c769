----------------------------- MODULE MCDataset -----------------------------
(***************************************************************************)
(* Small instances of Dataset: two seeds, tables of a few rows.            *)
(***************************************************************************)
EXTENDS Dataset

MCSeeds == {11, 12}
=============================================================================
