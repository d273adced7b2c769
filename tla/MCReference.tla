---------------------------- MODULE MCReference -----------------------------
(***************************************************************************)
(* The two computations everything measured is held against: path counts  *)
(* and latency statistics.  A behaviour is about one of them: it collects  *)
(* samples, or loads a graph.                                              *)
(***************************************************************************)
EXTENDS Metrics, Oracle

RefInit == NoSamples /\ NoEdges

RefNext ==
    \/ edges = <<>> /\ Collect /\ UNCHANGED edges
    \/ samples = <<>> /\ Load /\ UNCHANGED samples

RefSpec == RefInit /\ [][RefNext]_<<samples, edges>>
=============================================================================
