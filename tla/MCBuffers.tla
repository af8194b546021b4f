----------------------------- MODULE MCBuffers -----------------------------
(* Bounds for Buffers: two indices that three dmabufs take turns at.       *)
EXTENDS Buffers, TLC

NoEvents == {}
Late == {"late_batch"}
Symmetry == Permutations(Dma)
=============================================================================
