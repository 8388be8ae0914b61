------------------------- MODULE ExpressionMeaning -------------------------
(***************************************************************************)
(* What a compiler may make of an expression: a stack of subexpressions    *)
(* with their type and the value the compiled program gives them, in       *)
(* machine words.  Each step answers the construct that stands next in the *)
(* source, and no other.  An operation on constants may be done at compile *)
(* time, in ints, and then anything may happen if its result is not an     *)
(* int; otherwise nobody can tell.                                         *)
(***************************************************************************)
EXTENDS MachineArithmetic, Sequences

CONSTANTS HalfInt,    \* ints are Signed(HalfInt)
          HalfWord,   \* words are Signed(HalfWord)
          Trap,       \* the run-time value of what kills the program
          Unknown     \* a word that the program has not written

VARIABLES
  tree,      \* input: the construct of the source that comes next,
             \* [kind, type, params]
  stack,     \* subexpressions whose parent has not come yet:
             \* [type, value, constant, misread]
  verdict    \* "evaluating", or how it ended

meaning_vars == <<tree, stack, verdict>>

\* the values of a type at run time
ValuesOf(type) ==
  CASE type = "INT_TYPE"  -> Signed(HalfWord) \cup {Unknown}
    [] type = "BOOL_TYPE" -> {0, 1, Unknown}
    [] type = "VOID_TYPE" -> {Unknown}

\* the literals of a type
LiteralsOf(type) == IF type = "INT_TYPE" THEN Signed(HalfInt) ELSE {0, 1}

Item(type, value, constant, misread) ==
  [type |-> type, value |-> value, constant |-> constant, misread |-> misread]

\* what a binary operation may give at run time: of an unknown word, only that a
\* comparison is a boolean, and that a division may trap
Evaluations(op, a, b) ==
  IF Trap \in {a, b} THEN {Trap}
  ELSE IF Unknown \in {a, b} THEN
    CASE op \in Division -> {Unknown, Trap}
      [] op \in {"ADD", "SUB", "MUL"} \cup Logical -> {Unknown}
      [] op \in Relational \cup {"EQ"} -> {0, 1}
  ELSE IF DivisionFails(op, a, b, HalfWord) THEN {Trap}
  ELSE {Computed(op, a, b, HalfWord)}

Negations(op, a) ==
  CASE a = Trap -> {Trap}
    [] a = Unknown -> IF op = "MINUS" THEN {Unknown} ELSE {0, 1}
    [] a \notin {Trap, Unknown} -> {IF op = "MINUS" THEN Wrap(-a, HalfWord) ELSE 1 - a}

\* the operand types of op
Typed(op, left, right) ==
  CASE op \in Arithmetic \cup Relational -> left = "INT_TYPE" /\ right = "INT_TYPE"
    [] op \in Logical -> left = "BOOL_TYPE" /\ right = "BOOL_TYPE"
    [] op = "EQ" -> left = right

TypeOf(op) == IF op \in Arithmetic \cup {"MINUS"} THEN "INT_TYPE" ELSE "BOOL_TYPE"

\* op on ints is not what it is on integers
Overflows(op, a, b) ==
  \/ DivisionFails(op, a, b, HalfInt)
  \/ op \in Arithmetic /\ Compute(op, a, b) \notin Signed(HalfInt)

-----------------------------------------------------------------------------

Init == tree.kind = "none" /\ stack = <<>> /\ verdict = "evaluating"

\* the last k subexpressions become one
Replace(k, item) ==
  /\ verdict = "evaluating"
  /\ k <= Len(stack)
  /\ stack' = Append(SubSeq(stack, 1, Len(stack) - k), item)
  /\ UNCHANGED verdict

Ends(how) ==
  /\ verdict = "evaluating"
  /\ verdict' = how
  /\ UNCHANGED stack

Nth(i) == stack[Len(stack) - i]

Literal ==
  /\ tree'.kind = "literal"
  /\ \E v \in LiteralsOf(tree'.type) : Replace(0, Item(tree'.type, v, TRUE, FALSE))

\* a variable may be misread by the compiler as a constant divisor
Variable ==
  /\ tree'.kind = "id"
  /\ \E v \in ValuesOf(tree'.type), misread \in BOOLEAN :
       Replace(0, Item(tree'.type, v, FALSE, misread))

\* a method is no variable: its name in the place of one is rejected, or is of
\* some type and has no value
MethodName ==
  /\ tree'.kind = "method_name"
  /\ \/ Ends("id_error")
     \/ \E type \in {"INT_TYPE", "BOOL_TYPE"}, misread \in BOOLEAN :
          Replace(0, Item(type, Unknown, FALSE, misread))

Operation(op) ==
  /\ tree'.kind = op
  /\ Len(stack) >= 2
  /\ LET left == Nth(1)  right == Nth(0)
         constant == left.constant /\ right.constant
         Becomes(v, folded) == Replace(2, Item(TypeOf(op), v, folded, FALSE))
     IN  IF ~Typed(op, left.type, right.type) THEN Ends("operand_error")
         ELSE \/ \E v \in Evaluations(op, left.value, right.value),
                    folded \in {FALSE, constant} : Becomes(v, folded)
              \/ /\ constant
                 /\ Overflows(op, left.value, right.value)
                 /\ Ends("crashed") \/ \E v \in Signed(HalfInt) : Becomes(v, TRUE)
              \/ /\ op = "DIV" /\ right.misread /\ left.value # Trap
                 /\ \E v \in ValuesOf("INT_TYPE") : Becomes(v, FALSE)

Negation(op) ==
  /\ tree'.kind = op
  /\ Len(stack) >= 1
  /\ IF Nth(0).type # TypeOf(op) THEN Ends("operand_error")
     ELSE \E v \in Negations(op, Nth(0).value) :
            Replace(1, Item(TypeOf(op), v, FALSE, FALSE))

\* a call that no method answers, or an argument that does not fit its parameter
BadCall ==
  /\ \/ tree'.kind = "no_method"
     \/ tree'.kind = "argument" /\ Len(stack) >= 1 /\ Nth(0).type # tree'.type
  /\ Ends("call_error")

\* the call of a method whose parameters the arguments fit; it does not return if
\* one of them does not
MethodCall ==
  /\ tree'.kind = "call"
  /\ LET n == Len(tree'.params)
         Argument(i) == stack[Len(stack) - n + i]
         trapped == \E i \in 1 .. n : Argument(i).value = Trap
     IN  /\ n <= Len(stack)
         /\ \A i \in 1 .. n : Argument(i).type = tree'.params[i]
         /\ \E v \in ValuesOf(tree'.type) \cup {Trap} :
              Replace(n, Item(tree'.type, IF trapped THEN Trap ELSE v, FALSE, FALSE))

\* the whole expression is used, if its type is the one its statement asks for; a
\* variable may also be declared with a call that returns nothing
Statement ==
  /\ Len(stack) = 1
  /\ LET fits == Nth(0).type = tree'.type IN
     \/ tree'.kind = "assign" /\ Ends(IF fits THEN "assigned" ELSE "mismatch_error")
     \/ tree'.kind = "return" /\ Ends(IF fits THEN "returned" ELSE "return_type_error")
     \/ tree'.kind = "condition" /\ Ends(IF fits THEN "tested" ELSE "conditional_error")
     \/ /\ tree'.kind = "decl"
        /\ \/ (fits \/ Nth(0).type = "VOID_TYPE") /\ Ends("declared")
           \/ ~fits /\ Ends("mismatch_error")

Next ==
  \/ Literal \/ Variable \/ MethodName
  \/ \E op \in BinaryOp : Operation(op)
  \/ \E op \in {"MINUS", "NEG"} : Negation(op)
  \/ BadCall \/ MethodCall
  \/ Statement

Spec == Init /\ [][Next]_meaning_vars
=============================================================================
