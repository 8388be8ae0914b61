------------------------- MODULE MCIntermediateCode -------------------------
(* IntermediateCode for TLC; the bounds are in the .cfg files. *)
EXTENDS IntermediateCode

\* the part of gen_code that makes the control structure, with the simplest
\* expressions and statements, to reach longer programs
control ==
  \/ GenLiteral \/ GenReturn
  \/ GenIf \/ \E else \in BOOLEAN : GenThenEnd(else)
  \/ GenElseEnd
  \/ GenWhile \/ GenWhileTest \/ GenWhileEnd
  \/ GenBlock \/ GenBlockEnd
  \/ GenMethod \/ GenMethodEnd
  \/ EndOfProgram

ControlSpec == Init /\ [][control]_vars
=============================================================================
