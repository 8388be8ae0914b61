------------------------- MODULE MachineArithmetic -------------------------
(***************************************************************************)
(* What the operators of the language compute, on integers of any width.   *)
(* A signed integer of w bits is one of the 2 * h numbers around zero,     *)
(* with h = 2^(w - 1).  Booleans are 0 and 1.                              *)
(***************************************************************************)
EXTENDS Integers

Signed(h) == (-h) .. (h - 1)

\* two's complement
Wrap(x, h) == ((x + h) % (2 * h)) - h

Truth(p) == IF p THEN 1 ELSE 0

\* division truncates towards zero
Quotient(a, b) ==
  LET abs(x) == IF x < 0 THEN -x ELSE x
      q      == abs(a) \div abs(b)
  IN  IF (a < 0) = (b < 0) THEN q ELSE -q

Division   == {"DIV", "MOD"}
Arithmetic == {"ADD", "SUB", "MUL"} \cup Division
Relational == {"LES", "GRT", "NEQ", "LEQ", "GEQ"}
Logical    == {"AND", "OR"}
BinaryOp   == Arithmetic \cup Relational \cup {"EQ"} \cup Logical

\* the exact result, for operands that are not b = 0 in a division
Compute(op, a, b) ==
  CASE op = "ADD" -> a + b
    [] op = "SUB" -> a - b
    [] op = "MUL" -> a * b
    [] op = "DIV" -> Quotient(a, b)
    [] op = "MOD" -> a - b * Quotient(a, b)
    [] op = "LES" -> Truth(a < b)
    [] op = "GRT" -> Truth(a > b)
    [] op = "LEQ" -> Truth(a <= b)
    [] op = "GEQ" -> Truth(a >= b)
    [] op = "EQ"  -> Truth(a = b)
    [] op = "NEQ" -> Truth(a # b)
    [] op = "AND" -> Truth(a # 0 /\ b # 0)
    [] op = "OR"  -> Truth(a # 0 \/ b # 0)

\* the processor traps on a division by zero, and on a quotient too large
DivisionFails(op, a, b, h) ==
  op \in Division /\ (b = 0 \/ Quotient(a, b) \notin Signed(h))

\* the result in the width of h, of operands whose division does not fail
Computed(op, a, b, h) ==
  IF op \in Arithmetic THEN Wrap(Compute(op, a, b), h) ELSE Compute(op, a, b)
=============================================================================
