--------------------------- MODULE ReturnAnalysis ---------------------------
(***************************************************************************)
(* The semantic stage (semantic_analyzer.c) as far as it decides whether a *)
(* method returns: semantic_analyzer, eval_method_decl, eval_block,        *)
(* eval_if, eval_while and the bookkeeping eval does around them, over     *)
(* every program whose blocks nest at most MaxDepth deep.  The AST is the  *)
(* input: the next statement is chosen when the analysis reaches it, so    *)
(* blocks, methods and programs may be of any length.                      *)
(*                                                                         *)
(* Whether a block returns travels on two channels: the cell a caller      *)
(* hands down for *ret, which eval_block writes for a return of its own    *)
(* and leaves alone after one further inside, and the global flag          *)
(* returned_global.  The cell of a method body is the one local variable   *)
(* of semantic_analyzer, shared by all declarations and never initialized. *)
(* The cells of nested blocks and of while bodies are never read.          *)
(***************************************************************************)
EXTENDS Naturals, Sequences, SequencesExt

CONSTANTS Optimizations,   \* the flag -opt
          MaxDepth         \* bound: nesting of the blocks of a method

ASSUME OptimizationsAssumption == Optimizations \in BOOLEAN

ASSUME MaxDepthAssumption == MaxDepth \in Nat

VARIABLES
  ret,                  \* the local ret of semantic_analyzer
  returned_global,      \* a return has been met and is being propagated
  method_return_type,   \* what the method under analysis must return
  main_defined,
  frames,               \* the pending calls of eval_block, innermost last
  phase,                \* "decls" between declarations, "body" in a method, or
                        \* how the compilation ended
  returns               \* history: where the returns met in the method lie: in its
                        \* "body", a "branch" (deeper, in no loop) or a "loop",
                        \* and "every path" when no path falls off its end;
                        \* "folded" is an if, in no loop, that -opt took for one

vars == <<ret, returned_global, method_return_type, main_defined, frames, phase,
          returns>>

ReturnTypes == {"INT_TYPE", "BOOL_TYPE", "VOID_TYPE"}

RetType == ReturnTypes \cup {"NULL_TYPE"}

\* A pending eval_block: the type of its father node, what eval_if does after it
\* (decide about an else, join both branches, or nothing because the if was
\* folded), its cell, and the cell the then block left behind for the join.
Frame == [father   : {"METHOD_DECL", "BLOCK", "WHILE", "IF"},
          after    : {"pop", "else", "join", "fold"},
          ret      : RetType,
          retThen  : RetType,
          returned : BOOLEAN,
          empty    : BOOLEAN,
          all      : BOOLEAN,    \* history: every path through the statements so
          allThen  : BOOLEAN]    \* far returns; and through the then block before

Block(father, after, cell) ==
  [father |-> father, after |-> after, ret |-> cell, retThen |-> "NULL_TYPE",
   returned |-> FALSE, empty |-> TRUE, all |-> FALSE, allThen |-> FALSE]

\* mutant of FreshCell: the cells of the branches are left uninitialized
UninitializedCell == "garbage"

\* retThen and retElse before the branches are evaluated
FreshCell == "NULL_TYPE"

Init ==
  /\ ret \in RetType
  /\ returned_global = FALSE
  /\ method_return_type \in ReturnTypes
  /\ main_defined = FALSE
  /\ frames = <<>>
  /\ phase = "decls"
  /\ returns = {}

Current == Last(frames)

\* the statement list of the current block is not empty, the block f is entered
Enter(f) == Append(Append(Front(frames), [Current EXCEPT !.empty = FALSE]), f)

Stop(how) ==
  /\ phase' = how
  /\ UNCHANGED <<ret, returned_global, method_return_type, main_defined, frames,
                 returns>>

-----------------------------------------------------------------------------
(* Top level declarations.                                                 *)

\* OP_DECL of a global variable: with an initializer of type right, or without
DeclOfVariable(right) ==
  /\ phase = "decls"
  /\ ret' = right
  /\ UNCHANGED <<returned_global, method_return_type, main_defined, frames,
                 phase, returns>>

\* the test after the body: no return was found and one is needed
MissingReturn(cell, type) == cell = "NULL_TYPE" /\ type # "VOID_TYPE"

\* an extern method: its body is not evaluated, *ret is still tested
ExternMethod(type, is_main) ==
  /\ phase = "decls"
  /\ method_return_type' = type
  /\ main_defined' = (main_defined \/ is_main)
  /\ returned_global' = FALSE
  /\ phase' = IF MissingReturn(ret, type) THEN "missing_return_extern" ELSE "decls"
  /\ returns' = {}
  /\ UNCHANGED <<ret, frames>>

MethodBody(type, is_main) ==
  /\ phase = "decls"
  /\ MaxDepth > 0
  /\ method_return_type' = type
  /\ main_defined' = (main_defined \/ is_main)
  /\ frames' = <<Block("METHOD_DECL", "pop", ret)>>
  /\ phase' = "body"
  /\ returns' = {}
  /\ UNCHANGED <<ret, returned_global>>

EndOfProgram ==
  /\ phase = "decls"
  /\ Stop(IF main_defined THEN "accepted" ELSE "main_missing")

-----------------------------------------------------------------------------
(* Statements of the current block.                                        *)

\* a declaration, an assignment or a call
SimpleStatement ==
  /\ phase = "body"
  /\ frames' = Append(Front(frames), [Current EXCEPT !.empty = FALSE])
  /\ UNCHANGED <<ret, returned_global, method_return_type, main_defined, phase,
                 returns>>

\* an ill-typed expression anywhere, or an initializer of the wrong type
IllTyped == phase \in {"decls", "body"} /\ Stop("type_error")

\* where a return statement of the current block lies
Place ==
  IF Len(frames) = 1 THEN "body"
  ELSE IF \E i \in DOMAIN frames : frames[i].father = "WHILE" THEN "loop"
  ELSE "branch"

\* RETURN expr ';' of an expression of type t, RETURN ';' for VOID_TYPE; the
\* block copies the type to its cell
ReturnStatement(t) ==
  /\ phase = "body"
  /\ t = method_return_type
  /\ returned_global' = TRUE
  /\ frames' = Append(Front(frames), [Current EXCEPT !.empty = FALSE,
                                                     !.returned = TRUE,
                                                     !.all = TRUE,
                                                     !.ret = t])
  /\ returns' = returns \cup {Place}
  /\ UNCHANGED <<ret, method_return_type, main_defined, phase>>

ReturnOfOtherType(t) ==
  /\ phase = "body"
  /\ t # method_return_type
  /\ Stop("return_type_error")

OpenBlock(f) ==
  /\ phase = "body"
  /\ Len(frames) < MaxDepth
  /\ frames' = Enter(f)
  /\ UNCHANGED <<ret, returned_global, method_return_type, main_defined, phase,
                 returns>>

\* an empty nested block is no statement at all, see EmptyBlock for the others
NestedBlock == OpenBlock(Block("BLOCK", "pop", "NULL_TYPE"))

WhileBlock == OpenBlock(Block("WHILE", "pop", "NULL_TYPE"))

\* What eval_if plans after the first block it evaluates.  With -opt a
\* condition that is a leaf decides: true keeps the then block only; anything
\* else, an identifier too, keeps the else block only, if there is one.
Plans == IF Optimizations THEN {"else", "pop", "fold"} ELSE {"else"}

IfBlock(after) ==
  /\ after \in Plans
  /\ OpenBlock(Block("IF", after, FreshCell))

-----------------------------------------------------------------------------
(* The end of the current block.                                           *)

\* mutant of CellAfter: only the flag is asked, not the block itself
CellUnlessPropagated(f) == IF ~returned_global THEN "NULL_TYPE" ELSE f.ret

\* no statement was a return inside this block, and no return is propagated
CellAfter(f) ==
  IF ~f.returned /\ ~returned_global THEN "NULL_TYPE" ELSE f.ret

\* mutant of FlagAfter: only the method declaration resets the flag
FlagAfterMethod(f) == returned_global /\ f.father # "METHOD_DECL"

\* eval of an AST_BLOCK resets the flag unless its father is a block or an if
FlagAfter(f) == returned_global /\ f.father \in {"BLOCK", "IF"}

EndOfBlock == phase = "body" /\ ~Current.empty

\* back to the block around the current one; history: all paths through the
\* statement just read return
Leave(all) ==
  LET outer == Front(frames)
  IN  Append(Front(outer), [Last(outer) EXCEPT !.all = @ \/ all])

CloseBlock ==
  /\ EndOfBlock
  /\ Current.father \in {"BLOCK", "WHILE"}
  /\ returned_global' = FlagAfter(Current)
  /\ frames' = Leave(Current.father = "BLOCK" /\ Current.all)
  /\ UNCHANGED <<ret, method_return_type, main_defined, phase, returns>>

\* the then block of an if that is not folded; its else, if it has one, is next
CloseThen(has_else) ==
  /\ EndOfBlock
  /\ Current.father = "IF"
  /\ Current.after \in {"else", "pop"}
  /\ has_else => Current.after = "else"
  /\ returned_global' = FlagAfter(Current)
  /\ frames' = IF has_else
               THEN Append(Front(frames),
                           [Block("IF", "join", FreshCell) EXCEPT
                              !.retThen = CellAfter(Current),
                              !.allThen = Current.all])
               ELSE Leave(FALSE)
  /\ UNCHANGED <<ret, method_return_type, main_defined, phase, returns>>

\* mutant of BothReturn: the two cells are compared with each other
SameReturn(retThen, retElse) == retThen = retElse

\* both blocks return something
BothReturn(retThen, retElse) ==
  retThen # "NULL_TYPE" /\ retElse # "NULL_TYPE"

CloseElse ==
  /\ EndOfBlock
  /\ Current.after = "join"
  /\ returned_global' = (\/ FlagAfter(Current)
                         \/ BothReturn(Current.retThen, CellAfter(Current)))
  /\ frames' = Leave(Current.allThen /\ Current.all)
  /\ UNCHANGED <<ret, method_return_type, main_defined, phase, returns>>

\* the only block of a folded if: the flag is set, whatever the block did, as if
\* the if were a return statement in that place
CloseFolded ==
  /\ EndOfBlock
  /\ Current.after = "fold"
  /\ returned_global' = TRUE
  /\ frames' = Leave(Current.all)
  /\ returns' = returns \cup {IF Place = "loop" THEN "loop" ELSE "folded"}
  /\ UNCHANGED <<ret, method_return_type, main_defined, phase>>

CloseBody ==
  /\ EndOfBlock
  /\ Current.father = "METHOD_DECL"
  /\ ret' = CellAfter(Current)
  /\ phase' = IF MissingReturn(CellAfter(Current), method_return_type)
              THEN "missing_return" ELSE "decls"
  /\ returned_global' = FALSE
  /\ frames' = <<>>
  /\ returns' = returns \cup (IF Current.all THEN {"every path"} ELSE {})
  /\ UNCHANGED <<method_return_type, main_defined>>

\* a body, then, else or while block without statements is a NULL node
EmptyBlock ==
  /\ phase = "body"
  /\ Current.empty
  /\ Current.father # "BLOCK"
  /\ Current.after # "join"
  /\ Stop("null_node")

Next ==
  \/ \E right \in RetType : DeclOfVariable(right)
  \/ \E type \in ReturnTypes, is_main \in BOOLEAN :
       ExternMethod(type, is_main) \/ MethodBody(type, is_main)
  \/ EndOfProgram
  \/ SimpleStatement
  \/ IllTyped
  \/ \E t \in ReturnTypes : ReturnStatement(t) \/ ReturnOfOtherType(t)
  \/ NestedBlock
  \/ WhileBlock
  \/ \E after \in {"else", "pop", "fold"} : IfBlock(after)
  \/ CloseBlock
  \/ \E has_else \in BOOLEAN : CloseThen(has_else)
  \/ CloseElse
  \/ CloseFolded
  \/ CloseBody
  \/ EmptyBlock

Spec == Init /\ [][Next]_vars

-----------------------------------------------------------------------------
(* Properties.                                                             *)

TypeOK ==
  /\ ret \in RetType
  /\ returned_global \in BOOLEAN
  /\ method_return_type \in ReturnTypes
  /\ main_defined \in BOOLEAN
  /\ frames \in Seq(Frame)
  /\ phase \in {"decls", "body", "accepted", "missing_return",
                "missing_return_extern", "main_missing", "type_error",
                "return_type_error", "null_node"}
  /\ returns \subseteq {"body", "branch", "loop", "folded", "every path"}

\* returned_global is set only after a return of the method under analysis has
\* been met, or an if that -opt folded, which sets it whatever it holds: a flag
\* that leaked out of a method, or out of a construct without a return, would make
\* the next block keep a stale cell.
FlagMeansReturn == returned_global => returns # {}

\* A return that is a statement of the body itself is always found: the loops,
\* ifs and blocks around it, which set and reset the flag, never make a method
\* that has one be rejected as missing a return.
BodyReturnIsFound == phase = "missing_return" => "body" \notin returns

\* A loop may run zero times: a method that must return a value is accepted only
\* if some return of it, or an if that -opt folded, lies outside every loop.
ReturnsOutsideLoops ==
  [][phase = "body" /\ phase' = "decls" /\ method_return_type # "VOID_TYPE"
       => returns \cap {"body", "branch", "folded"} # {}]_vars

-----------------------------------------------------------------------------
(* What the comments say and the code does not do.               *)

\* semantic_analyzer.c, at the test: "If no return was found and method should
\* return something": no method is rejected whose every path returns.
RejectedOnlyWithoutReturn == phase = "missing_return" => "every path" \notin returns
=============================================================================
