-------------------------- MODULE MCReturnAnalysis --------------------------
(* ReturnAnalysis on blocks nested at most MaxDepth deep.                  *)
EXTENDS ReturnAnalysis
=============================================================================
