------------------------- MODULE ExpressionAnalysis -------------------------
(***************************************************************************)
(* The types and the constants of one statement: eval_common, eval_leaf,   *)
(* eval_method_call, eval_if and eval_while (semantic_analyzer.c), and the *)
(* instruction gen_code_common chooses for each node.  The syntax tree is  *)
(* the input; it is walked in post-order, and the node that comes next is  *)
(* chosen when the walk reaches it.  With -opt an operation on two leaves  *)
(* that are literals turns its node into a leaf.                           *)
(*                                                                         *)
(* Each evaluated node carries the value that the instructions emitted for *)
(* it will compute, so that the compiler can be compared, construct by     *)
(* construct, with ExpressionMeaning.                                      *)
(***************************************************************************)
EXTENDS MachineArithmetic, SequencesExt

CONSTANTS Optimizations,   \* the flag -opt
          HalfInt,         \* the compiler computes with ints, in Signed(HalfInt)
          HalfWord,        \* the compiled program with words, in Signed(HalfWord)
          Trap,            \* the run-time value of what kills the program
          Unknown,         \* a word that the program has not written
          Inputs,          \* bound: run-time values of integer variables and calls
          Addresses,       \* what a symbol's address is when it is read as an int
          MaxPending,      \* bound: results the walk holds at once
          MaxArgs          \* bound: arguments of a call

\* d & (d - 1) is zero and d is positive
IsPowerOfTwo(d) == d > 0 /\ \E k \in 0 .. d : d = 2 ^ k

ASSUME ExpressionAnalysisAssumption ==
  /\ Optimizations \in BOOLEAN
  /\ HalfInt \in Nat \ {0, 1} /\ HalfWord \in Nat /\ HalfInt <= HalfWord
  /\ Trap \notin Int /\ Unknown \notin Int /\ Trap # Unknown
  /\ Inputs \subseteq Signed(HalfWord)
  /\ Addresses \subseteq Signed(HalfInt)
  /\ MaxPending \in Nat /\ MaxArgs \in Nat

VARIABLES
  tree,      \* input: the node that is evaluated, [kind, type, params]
  results,   \* evaluated nodes whose parent is not evaluated yet
  verdict,   \* "evaluating", or how the statement or the compiler ended
  blocks,    \* the blocks of the if or while that has been analysed
  kept,      \* those that are left in the tree
  decided    \* the condition is not: what is kept of the blocks always runs

block_vars == <<blocks, kept, decided>>

vars == <<tree, results, verdict, block_vars>>

\* An evaluated node: its type; if it is a leaf, which one and what its LEAF_UNION
\* holds, whose members int_value, bool_value and id_leaf share one address; and
\* the value it has at run time.
Node(type, leaf, union, value) ==
  [type |-> type, leaf |-> leaf, union |-> union, value |-> value]

Types == {"INT_TYPE", "BOOL_TYPE", "VOID_TYPE"}

\* the types of variables and parameters
VarTypes == {"INT_TYPE", "BOOL_TYPE"}

Params == BoundedSeq(VarTypes, MaxArgs)

\* the node comes next: what it is, the type that the source declares for it, and
\* the parameters of the method it names
Tree(kind, type, params) == [kind |-> kind, type |-> type, params |-> params]

Visit(kind, type, params) == tree' = Tree(kind, type, params)

-----------------------------------------------------------------------------
(* The meaning this analysis must keep.                                    *)

\* an identifier whose union gen_code_common takes for a power of two
Misread(node) == Optimizations /\ node.leaf = "id" /\ IsPowerOfTwo(node.union)

Meaning == INSTANCE ExpressionMeaning WITH
  stack <- [i \in DOMAIN results |->
              [type     |-> results[i].type,
               value    |-> results[i].value,
               constant |-> results[i].leaf = "literal",
               misread  |-> Misread(results[i])]]

Init ==
  /\ tree = Tree("none", "none", <<>>)
  /\ results = <<>>
  /\ verdict = "evaluating"
  /\ blocks = {} /\ kept = {} /\ decided = FALSE

Nth(i) == results[Len(results) - i]

\* the node of the last k results is evaluated
Evaluated(k, node) ==
  /\ verdict = "evaluating"
  /\ Len(results) - k < MaxPending
  /\ results' = Append(SubSeq(results, 1, Len(results) - k), node)
  /\ UNCHANGED <<verdict, block_vars>>

\* a report exits; a crash and the end of the statement end the walk as well
End(how) ==
  /\ verdict = "evaluating"
  /\ verdict' = how
  /\ UNCHANGED <<results, block_vars>>

-----------------------------------------------------------------------------
(* Leaves.                                                                 *)

\* a literal of the source: digits, of which atoi makes an int, or what is left of
\* them if they are too many
EvalLiteral ==
  \/ /\ Visit("literal", "INT_TYPE", <<>>)
     /\ \E n \in Signed(HalfInt) : Evaluated(0, Node("INT_TYPE", "literal", n, n))
  \/ /\ Visit("literal", "BOOL_TYPE", <<>>)
     /\ \E b \in {0, 1} : Evaluated(0, Node("BOOL_TYPE", "literal", b, b))

\* what an integer or boolean variable or method may yield at run time: variables
\* need not be assigned, and a void method leaves in %rax what was there
Input(type) ==
  {Unknown} \cup CASE type = "INT_TYPE"  -> Inputs
                   [] type = "BOOL_TYPE" -> {0, 1}
                   [] type = "VOID_TYPE" -> {}

\* an identifier of a variable; its union is the address of its symbol
EvalId ==
  \E type \in VarTypes, a \in Addresses :
    /\ Visit("id", type, <<>>)
    /\ \E v \in Input(type) : Evaluated(0, Node(type, "id", a, v))

\* an identifier that find resolved to a method: num_args lies where id.type is
\* read, and TYPE_INT is 0 and TYPE_BOOL is 1.  The name gets a slot of its own.
EvalMethodName(params) ==
  /\ Visit("method_name", "none", params)
  /\ IF Len(params) >= 2 THEN End("id_error")
     ELSE \E a \in Addresses :
            Evaluated(0, Node(IF params = <<>> THEN "INT_TYPE" ELSE "BOOL_TYPE",
                              "id", a, Unknown))

-----------------------------------------------------------------------------
(* Operations.                                                             *)

\* the test before error_additional ... error_or
OperandError(op, left, right) ==
  CASE op \in Arithmetic \cup Relational ->
         left.type # "INT_TYPE" \/ right.type # "INT_TYPE"
    [] op = "EQ" -> left.type # right.type
    [] op \in Logical -> left.type # "BOOL_TYPE" \/ right.type # "BOOL_TYPE"

\* mutant of ResultType: OP_MOD comes after the divisions, among the comparisons
ResultTypeAfterDivision(op) ==
  IF op \in Arithmetic \ {"MOD"} THEN "INT_TYPE" ELSE "BOOL_TYPE"

ResultType(op) == IF op \in Arithmetic THEN "INT_TYPE" ELSE "BOOL_TYPE"

\* two leaves that are no identifiers
Literal(left, right) == left.leaf = "literal" /\ right.leaf = "literal"

\* gen_code_common divides by a leaf that is a power of two with a shift, which
\* generate_object_code corrects for negative dividends
Shifts(op, right) ==
  op = "DIV" /\ Optimizations /\ right.leaf # "none" /\ IsPowerOfTwo(right.union)

\* mutant of Shifted: negative dividends are shifted like the others
ShiftedUnbiased(a, d) == IF a \in {Trap, Unknown} THEN a ELSE a \div d

Shifted(a, d) ==
  IF a \in {Trap, Unknown} THEN a
  ELSE (IF a < 0 THEN a + (d - 1) ELSE a) \div d

\* idivq: the quotient in %rax, the remainder in %rdx
Divided(op, a, b) ==
  IF DivisionFails("DIV", a, b, HalfWord) THEN Trap
  ELSE IF op = "DIV" THEN Quotient(a, b) ELSE a - b * Quotient(a, b)

\* the instructions of a node, on words that are known; andq and orq are on
\* booleans, which are 0 or 1
Instruction(op, a, b) ==
  CASE op = "ADD" -> Wrap(a + b, HalfWord)
    [] op = "SUB" -> Wrap(a - b, HalfWord)
    [] op = "MUL" -> Wrap(a * b, HalfWord)
    [] op \in Division -> Divided(op, a, b)
    [] op = "AND" -> a * b
    [] op = "OR"  -> a + b - a * b
    [] op \in Relational \cup {"EQ"} -> Compute(op, a, b)

\* on words of which one is not: setcc writes 0 or 1 whatever it compares
OfUnknown(op) ==
  CASE op \in Division -> {Unknown, Trap}
    [] op \in {"ADD", "SUB", "MUL"} \cup Logical -> {Unknown}
    [] op \in Relational \cup {"EQ"} -> {0, 1}

\* what a node that stays in the tree computes at run time
RunTime(op, left, right) ==
  LET operands == {left.value, right.value} IN
  IF Shifts(op, right) THEN {Shifted(left.value, right.union)}
  ELSE IF Trap \in operands THEN {Trap}
  ELSE IF Unknown \in operands THEN OfUnknown(op)
  ELSE {Instruction(op, left.value, right.value)}

WrongOperands(op) ==
  /\ Visit(op, "none", <<>>)
  /\ Len(results) >= 2
  /\ OperandError(op, Nth(1), Nth(0))
  /\ End("operand_error")

Operate(op) ==
  /\ Visit(op, "none", <<>>)
  /\ Len(results) >= 2
  /\ ~OperandError(op, Nth(1), Nth(0))
  /\ ~(Optimizations /\ Literal(Nth(1), Nth(0)))
  /\ \E v \in RunTime(op, Nth(1), Nth(0)) :
       Evaluated(2, Node(ResultType(op), "none", 0, v))

\* the compiler itself computes, in ints
Fold(op) ==
  /\ Visit(op, "none", <<>>)
  /\ Len(results) >= 2
  /\ ~OperandError(op, Nth(1), Nth(0))
  /\ Optimizations /\ Literal(Nth(1), Nth(0))
  /\ IF DivisionFails(op, Nth(1).union, Nth(0).union, HalfInt) THEN End("crashed")
     ELSE LET n == Computed(op, Nth(1).union, Nth(0).union, HalfInt)
          IN  Evaluated(2, Node(ResultType(op), "literal", n, n))

UnaryType(op) == IF op = "MINUS" THEN "INT_TYPE" ELSE "BOOL_TYPE"

\* the test before error_minus and error_neg
UnaryError(op, operand) == operand.type # UnaryType(op)

\* negq; testq with sete, which leaves a boolean of any word
Unary(op, a) ==
  CASE a = Trap -> {Trap}
    [] a = Unknown -> IF op = "MINUS" THEN {Unknown} ELSE {0, 1}
    [] a \in Int -> {IF op = "MINUS" THEN Wrap(-a, HalfWord) ELSE Truth(a = 0)}

\* unary minus of an int and negation of a bool are never folded
EvalUnary(op) ==
  /\ Visit(op, "none", <<>>)
  /\ Len(results) >= 1
  /\ IF UnaryError(op, Nth(0)) THEN End("operand_error")
     ELSE \E v \in Unary(op, Nth(0).value) :
            Evaluated(1, Node(UnaryType(op), "none", 0, v))

-----------------------------------------------------------------------------
(* Calls.                                                                  *)

\* no such method, or not a method, or not as many arguments as parameters: this
\* is seen before any argument is evaluated
NoSuchMethod ==
  /\ Visit("no_method", "none", <<>>)
  /\ End("call_error")

\* the last result is an argument that does not fit its parameter
WrongArgument(parameter) ==
  /\ Visit("argument", parameter, <<>>)
  /\ Len(results) >= 1
  /\ Nth(0).type # parameter
  /\ End("call_error")

\* the call of a method with some parameters, which the arguments fit, and a type;
\* the method may kill the program
EvalMethodCall(params, type) ==
  LET n == Len(params)
      Argument(i) == results[Len(results) - n + i]
      trapped == \E i \in 1 .. n : Argument(i).value = Trap
  IN  /\ Visit("call", type, params)
      /\ n <= Len(results)
      /\ \A i \in 1 .. n : Argument(i).type = params[i]
      /\ \E v \in Input(type) \cup {Trap} :
           Evaluated(n, Node(type, "none", 0, IF trapped THEN Trap ELSE v))

-----------------------------------------------------------------------------
(* Statements.                                                             *)

\* the whole expression of the statement has been evaluated
AfterExpression == verdict = "evaluating" /\ Len(results) = 1

\* OP_ASSIGN to a variable of a type
EvalAssign(type) ==
  /\ Visit("assign", type, <<>>)
  /\ AfterExpression
  /\ End(IF Nth(0).type # type THEN "mismatch_error" ELSE "assigned")

\* OP_DECL with an initializer: a call that returns nothing passes
EvalDecl(type) ==
  /\ Visit("decl", type, <<>>)
  /\ AfterExpression
  /\ End(IF Nth(0).type # type /\ Nth(0).type \in VarTypes
         THEN "mismatch_error" ELSE "declared")

\* OP_RETURN in a method of a type
EvalReturn(type) ==
  /\ Visit("return", type, <<>>)
  /\ AfterExpression
  /\ End(IF Nth(0).type # type THEN "return_type_error" ELSE "returned")

Condition ==
  /\ Visit("condition", "BOOL_TYPE", <<>>)
  /\ AfterExpression
  /\ Nth(0).type = "BOOL_TYPE"

WrongCondition ==
  /\ Visit("condition", "BOOL_TYPE", <<>>)
  /\ AfterExpression
  /\ Nth(0).type # "BOOL_TYPE"
  /\ End("conditional_error")

\* the condition over some blocks is boolean; some blocks stay, with it or without
Tested(all, stay, without) ==
  /\ verdict' = "tested"
  /\ blocks' = all /\ kept' = stay /\ decided' = without
  /\ UNCHANGED results

\* mutant of LeafCondition: whether the condition is a leaf is not asked
AnyCondition == Optimizations

\* a leaf decides at compile time, whichever leaf it is
LeafCondition == Optimizations /\ Nth(0).leaf # "none"

EvalIf(has_else) ==
  /\ Condition
  /\ LET all   == IF has_else THEN {"then", "else"} ELSE {"then"}
         truth == Nth(0).union = 1
     IN  \/ LeafCondition /\ truth /\ Tested(all, {"then"}, TRUE)
         \/ LeafCondition /\ ~truth /\ has_else /\ Tested(all, {"else"}, TRUE)
         \/ ~(LeafCondition /\ (truth \/ has_else)) /\ Tested(all, all, FALSE)

EvalWhile ==
  /\ Condition
  /\ LET never == LeafCondition /\ Nth(0).union = 0
     IN  Tested({"body"}, IF never THEN {} ELSE {"body"}, never)

eval ==
  \/ EvalLiteral \/ EvalId
  \/ \E params \in Params : EvalMethodName(params)
  \/ \E op \in BinaryOp : WrongOperands(op) \/ Operate(op) \/ Fold(op)
  \/ \E op \in {"MINUS", "NEG"} : EvalUnary(op)
  \/ NoSuchMethod
  \/ \E parameter \in VarTypes : WrongArgument(parameter)
  \/ \E params \in Params, type \in Types : EvalMethodCall(params, type)
  \/ \E type \in VarTypes : EvalAssign(type) \/ EvalDecl(type)
  \/ \E type \in Types : EvalReturn(type)
  \/ WrongCondition
  \/ \E has_else \in BOOLEAN : EvalIf(has_else)
  \/ EvalWhile

Spec == Init /\ [][eval]_vars

-----------------------------------------------------------------------------
(* Properties.                                                             *)

\* evaluated nodes: their values are of their type, and what is folded is an int and
\* has at compile time the value the program will give it
Nodes ==
  {node \in [type : Types, leaf : {"literal", "id", "none"}, union : Int,
             value : Int \cup {Trap, Unknown}] :
     /\ node.value \in Meaning!ValuesOf(node.type) \cup {Trap}
     /\ node.leaf = "literal" =>
          node.union = node.value /\ node.union \in Signed(HalfInt)
     /\ node.leaf = "id" => node.union \in Addresses /\ node.value # Trap
     /\ node.leaf # "none" => node.type # "VOID_TYPE"}

Kinds == BinaryOp \cup
  {"none", "literal", "id", "method_name", "MINUS", "NEG", "no_method", "argument",
   "call", "assign", "decl", "return", "condition"}

\* Every variable has its type.
TypeOK ==
  /\ tree \in [kind : Kinds, type : Types \cup {"none"}, params : Params]
  /\ results \in Seq(Nodes) /\ Len(results) <= MaxPending
  /\ verdict \in {"evaluating", "crashed", "id_error", "operand_error", "call_error",
                  "mismatch_error", "return_type_error", "conditional_error",
                  "assigned", "declared", "returned", "tested"}
  /\ kept \subseteq blocks /\ blocks \subseteq {"then", "else", "body"}
  /\ decided \in BOOLEAN

\* Each construct of the source is compiled to what the language says of that
\* construct: the constant folded for it, the instruction or the shift chosen for
\* it compute its value, up to constant operations that leave the range of int and
\* to divisions by an identifier that is taken for a power of two; and operands,
\* arguments, conditions and statements are reported when and only when their
\* types are wrong, an initializer that returns nothing excepted.
KeepsMeaning == Meaning!Spec

\* the blocks that are to run, for the value of the condition
Chosen == blocks \cap (IF results[1].value = 1 THEN {"then", "body"} ELSE {"else"})

\* the blocks that the compiled program runs
Executed == IF decided THEN kept ELSE kept \cap Chosen

\* A condition that is folded, or is not, runs the blocks its value asks for: a
\* condition made of literals or of operations, not an identifier.
FoldedConditionDecides ==
  verdict = "tested" /\ results[1].leaf # "id" /\ results[1].value \in {0, 1}
    => Executed = Chosen

-----------------------------------------------------------------------------
(* What the documentation says and the code does not do.                   *)

\* README.md:19 lists the "elimination of dead code" under the optimizations: the
\* blocks that are eliminated are dead.
OnlyDeadCodeEliminated ==
  verdict = "tested" /\ results[1].value \in {0, 1} => Executed = Chosen
=============================================================================
