--------------------------- MODULE MCParserScopes ---------------------------
(* ParserScopes on a small instance: identifiers are interchangeable.      *)
EXTENDS ParserScopes

Symmetry == Permutations(Name)
=============================================================================
