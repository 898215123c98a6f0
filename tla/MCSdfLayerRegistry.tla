------------------------ MODULE MCSdfLayerRegistry -------------------------
(* Small instances of SdfLayerRegistry for TLC.                            *)
EXTENDS SdfLayerRegistry, TLC

\* Threads and layers are interchangeable in the safety properties.
Symmetry == Permutations(Threads) \cup Permutations(Layers)
=============================================================================
