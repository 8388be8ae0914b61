------------------------ MODULE MCExpressionAnalysis ------------------------
(* ExpressionAnalysis with 3-bit ints and 6-bit words; a word holds the       *)
(* product of two ints, as with 32 and 64 bits.                              *)
EXTENDS ExpressionAnalysis

MCInputs == {-HalfWord, -5, 6}

\* low halves of aligned addresses: negative, zero, and a power of two
MCAddresses == {-2, 0, 2}
=============================================================================
