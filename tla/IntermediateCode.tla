-------------------------- MODULE IntermediateCode --------------------------
(***************************************************************************)
(* The intermediate code generator (intermediate_code.c): gen_code walks   *)
(* the AST in post-order and appends three-address instructions to code.   *)
(* The AST is the input.  It is not represented: the actions are the calls *)
(* of gen_code in the order the walk makes them, and which node comes next *)
(* is chosen freely wherever the grammar allows it.  The INFO each         *)
(* pending caller has received from its first children is on operands;     *)
(* the blocks, ifs and whiles that are still being walked are on open.     *)
(*                                                                         *)
(* Names and values of the program are abstracted to one of each: what     *)
(* matters here is which operands are temporaries and labels.              *)
(***************************************************************************)
EXTENDS Naturals, Sequences, FiniteSets

CONSTANTS Optimizations,  \* the -opt flag
          MaxArgs,        \* bound: arguments of a call
          MaxPending,     \* bound: results a walk holds at once
          MaxDepth,       \* bound: nested blocks, the method body included
          MaxCode         \* bound: instructions generated

ASSUME IntermediateCodeAssumption ==
  /\ Optimizations \in BOOLEAN
  /\ MaxArgs \in Nat /\ MaxPending \in Nat
  /\ MaxDepth \in Nat /\ MaxCode \in Nat

VARIABLES
  code,           \* Instr code[], its length is code_size
  temp_counter,   \* temporaries created so far: $T0 .. $T(temp_counter - 1)
  label_counter,
  cant_ap_h,      \* list of temporaries: remaining uses, lock, occurrences
  operands,       \* results of children whose parent is not emitted yet
  open,           \* statements whose code is not complete, outermost first
  phase           \* "gen", then "optimize" (Optimization.tla), then "done"

gen_vars == <<code, temp_counter, label_counter, operands, open>>

vars == <<gen_vars, cant_ap_h, phase>>

-----------------------------------------------------------------------------
(* Instructions.                                                           *)

\* an INFO used as an operand; temporary n is the buffer of "$T(n - 1)"
Operand(k, n) == [kind |-> k, n |-> n]
None     == Operand("none", 0)
Name     == Operand("name", 0)
Constant == Operand("constant", 0)
Temp(n)  == Operand("temp", n)
Label(n) == Operand("label", n)

Instr(op, v1, v2, r) == [op |-> op, var1 |-> v1, var2 |-> v2, reg |-> r]

\* the operands of an instruction, in the order emit and optimize_memory
\* look at them
Arg(instr, f) == CASE f = 1 -> instr.var1 [] f = 2 -> instr.var2
                   [] f = 3 -> instr.reg

\* where temporary t occurs in a piece of code
Occurrences(c, t) ==
  {p \in (1..Len(c)) \X (1..3) : Arg(c[p[1]], p[2]) = Temp(t)}

\* mutant of Counted: a temporary that is not found gets no entry
Counted_known_only(h, n, instrs) ==
  [t \in 1..Len(h) |->
     [h[t] EXCEPT !.cant_ap = @ + Cardinality(Occurrences(instrs, t))]]

\* mutant of Counted: reg is not counted
Counted_no_reg(h, n, instrs) ==
  LET uses(t) == Cardinality({p \in Occurrences(instrs, t) : p[2] # 3})
  IN  [t \in 1..n |->
         IF t \in 1..Len(h) THEN [h[t] EXCEPT !.cant_ap = @ + uses(t)]
         ELSE [cant_ap |-> uses(t), locked |-> FALSE, list |-> {t}]]

\* increase_temp_ap for every operand of instrs that is a temporary.  An entry
\* is appended when its temporary is first emitted, right after new_temp: entry
\* t is the one of temporary t.  list holds the buffers the entry's occurrences
\* point to; all occurrences of a temporary share its one buffer.
Counted(h, n, instrs) ==
  [t \in 1..n |->
     IF t \in 1..Len(h)
     THEN [h[t] EXCEPT !.cant_ap = @ + Cardinality(Occurrences(instrs, t))]
     ELSE [cant_ap |-> Cardinality(Occurrences(instrs, t)),
           locked |-> FALSE, list |-> {t}]]

\* emit each instruction of instrs; n temporaries exist by then
Emit(instrs, n) ==
  /\ Len(code) + Len(instrs) <= MaxCode
  /\ code' = code \o instrs
  /\ cant_ap_h' = Counted(cant_ap_h, n, instrs)
  /\ temp_counter' = n

Init ==
  /\ code = <<>>
  /\ temp_counter = 0
  /\ label_counter = 0
  /\ cant_ap_h = <<>>
  /\ operands = <<>>
  /\ open = <<>>
  /\ phase = "gen"

-----------------------------------------------------------------------------
(* Expressions.                                                            *)

Here == IF open = <<>> THEN "global" ELSE open[Len(open)].kind

InMethod == open # <<>>

\* the current block still has nodes to generate: with -opt a block stops at
\* its return statement
BlockContinues ==
  /\ phase = "gen"
  /\ InMethod => ~open[Len(open)].returned

\* a new temporary receives the result of the expression whose operands are the
\* last k pending ones
Result(k, instrs) ==
  /\ BlockContinues
  /\ Emit(instrs, temp_counter + 1)
  /\ Len(operands) - k < MaxPending
  /\ operands' = Append(SubSeq(operands, 1, Len(operands) - k),
                        Temp(temp_counter + 1))
  /\ UNCHANGED <<label_counter, open, phase>>

Pending(i) == operands[Len(operands) - i]

GenLiteral ==
  Result(0, <<Instr("LOADVAL", Constant, None, Temp(temp_counter + 1))>>)

\* an identifier that is not the child of an assignment or a declaration
GenId ==
  /\ BlockContinues
  /\ Emit(<<Instr("LOAD", Name, None, None)>>, temp_counter)
  /\ Len(operands) < MaxPending
  /\ operands' = Append(operands, Name)
  /\ UNCHANGED <<label_counter, open, phase>>

GenBinary ==
  /\ Len(operands) >= 2
  /\ Result(2, <<Instr("BINARY", Pending(1), Pending(0), Temp(temp_counter + 1))>>)

GenUnary ==
  /\ Len(operands) >= 1
  /\ Result(1, <<Instr("UNARY", Pending(0), None, Temp(temp_counter + 1))>>)

\* a division by a leaf that is taken for a power of two
GenShift ==
  /\ Optimizations
  /\ Len(operands) >= 1
  /\ Result(1, <<Instr("SHIFT_RIGHT", Pending(0), Constant, Temp(temp_counter + 1))>>)

\* mutant of CallCode: every argument is passed from the last INFO
CallCode_last_arg(n) ==
  Append([i \in 1..n |-> Instr("PARAM", Pending(0), None, None)],
         Instr("CALL", Name, None, Temp(temp_counter + 1)))

\* the arguments are generated first, then passed one after the other
CallCode(n) ==
  Append([i \in 1..n |-> Instr("PARAM", Pending(n - i), None, None)],
         Instr("CALL", Name, None, Temp(temp_counter + 1)))

GenCall(n) ==
  /\ Len(operands) >= n
  /\ Result(n, CallCode(n))

-----------------------------------------------------------------------------
(* Statements.                                                             *)

\* between two statements of a block
AtStatement == BlockContinues /\ Here \notin {"global", "cond"}

\* the whole expression of the statement has been generated
AfterExpression == Len(operands) = 1

\* a call that is a statement: nothing reads its result
GenCallStatement(n) ==
  /\ AtStatement
  /\ Len(operands) = n
  /\ Emit(CallCode(n), temp_counter + 1)
  /\ operands' = <<>>
  /\ UNCHANGED <<label_counter, open, phase>>

\* OP_ASSIGN, and OP_DECL with an initializer, which global variables have too
StoreAllowed == BlockContinues /\ Here # "cond"

GenStore ==
  /\ StoreAllowed
  /\ AfterExpression
  /\ Pending(0) # Name
  /\ Emit(<<Instr("STORE", Pending(0), None, Name)>>, temp_counter)
  /\ operands' = <<>>
  /\ UNCHANGED <<label_counter, open, phase>>

\* of an identifier, and with -opt OP_ASSIGN of a literal: no temporary
GenStoreLeaf(leaf) ==
  /\ StoreAllowed
  /\ operands = <<>>
  /\ leaf = Constant => Optimizations /\ InMethod
  /\ Emit(<<Instr("STORE", leaf, None, Name)>>, temp_counter)
  /\ UNCHANGED <<label_counter, operands, open, phase>>

GenReturn ==
  /\ AtStatement
  /\ Len(operands) <= 1
  /\ Emit(<<Instr("RET", IF AfterExpression THEN Pending(0) ELSE None, None, None)>>,
          temp_counter)
  /\ operands' = <<>>
  /\ open' = [open EXCEPT ![Len(open)].returned = Optimizations]
  /\ UNCHANGED <<label_counter, phase>>

\* label_1 and label_2 are the label_infos of gen_code_if or gen_code_while
Enter(kind, label_1, label_2) ==
  [kind |-> kind, returned |-> FALSE, labels |-> <<label_1, label_2>>]

Leave == open' = SubSeq(open, 1, Len(open) - 1)

\* mutant of NewLabels: label_counter is not advanced by the first new_label
NewLabelsSame == <<label_counter, label_counter>>

\* two calls of new_label
NewLabels == <<label_counter, label_counter + 1>>

CurrentLabels == [i \in 1..2 |-> Label(open[Len(open)].labels[i])]

Jump(l)   == Instr("JMP", l, None, None)
JumpIfNot(v, l) == Instr("JMPF", v, None, l)
Target(l) == Instr("LABEL", l, None, None)

\* gen_code_if: the condition, then the jump over the then block
GenIf ==
  /\ AtStatement
  /\ AfterExpression
  /\ Len(open) < MaxDepth
  /\ Emit(<<JumpIfNot(Pending(0), Label(NewLabels[1]))>>, temp_counter)
  /\ open' = Append(open, Enter("then", NewLabels[1], NewLabels[2]))
  /\ label_counter' = label_counter + 2
  /\ operands' = <<>>
  /\ UNCHANGED phase

AtBlockEnd == phase = "gen" /\ operands = <<>>

\* the end of the then block; open stays on the if while an else block comes
GenThenEnd(else) ==
  LET l == CurrentLabels IN
  /\ AtBlockEnd
  /\ Here = "then"
  /\ Emit(<<Jump(l[2]), Target(l[1])>> \o (IF else THEN <<>> ELSE <<Target(l[2])>>),
          temp_counter)
  /\ IF else
     THEN open' = [open EXCEPT ![Len(open)].kind = "else",
                               ![Len(open)].returned = FALSE]
     ELSE Leave
  /\ UNCHANGED <<label_counter, operands, phase>>

GenElseEnd ==
  /\ AtBlockEnd
  /\ Here = "else"
  /\ Emit(<<Target(CurrentLabels[2])>>, temp_counter)
  /\ Leave
  /\ UNCHANGED <<label_counter, operands, phase>>

\* gen_code_while: the start label, the condition, the jump, the block
GenWhile ==
  /\ AtStatement
  /\ operands = <<>>
  /\ Len(open) < MaxDepth
  /\ Emit(<<Target(Label(NewLabels[1]))>>, temp_counter)
  /\ open' = Append(open, Enter("cond", NewLabels[1], NewLabels[2]))
  /\ label_counter' = label_counter + 2
  /\ UNCHANGED <<operands, phase>>

WhileTest == <<JumpIfNot(Pending(0), CurrentLabels[2])>>

GenWhileTest ==
  /\ phase = "gen"
  /\ Here = "cond"
  /\ AfterExpression
  /\ Emit(WhileTest, temp_counter)
  /\ open' = [open EXCEPT ![Len(open)].kind = "while"]
  /\ operands' = <<>>
  /\ UNCHANGED <<label_counter, phase>>

GenWhileEnd ==
  LET l == CurrentLabels IN
  /\ AtBlockEnd
  /\ Here = "while"
  /\ Emit(<<Jump(l[1]), Target(l[2])>>, temp_counter)
  /\ Leave
  /\ UNCHANGED <<label_counter, operands, phase>>

\* gen_code_block for a block that is a statement
GenBlock ==
  /\ AtStatement
  /\ operands = <<>>
  /\ Len(open) < MaxDepth
  /\ open' = Append(open, Enter("block", 0, 0))
  /\ UNCHANGED <<code, temp_counter, label_counter, cant_ap_h, operands, phase>>

GenBlockEnd ==
  /\ AtBlockEnd
  /\ Here = "block"
  /\ Leave
  /\ UNCHANGED <<code, temp_counter, label_counter, cant_ap_h, operands, phase>>

-----------------------------------------------------------------------------
(* Top level declarations.                                                 *)

GenExtern ==
  /\ phase = "gen"
  /\ Here = "global"
  /\ operands = <<>>
  /\ Emit(<<Instr("EXTERN", Name, None, None)>>, temp_counter)
  /\ UNCHANGED <<label_counter, operands, open, phase>>

GenMethod ==
  /\ phase = "gen"
  /\ Here = "global"
  /\ operands = <<>>
  /\ MaxDepth > 0
  /\ Emit(<<Instr("ENTER", Name, None, None)>>, temp_counter)
  /\ open' = <<Enter("method", 0, 0)>>
  /\ UNCHANGED <<label_counter, operands, phase>>

GenMethodEnd ==
  /\ AtBlockEnd
  /\ Here = "method"
  /\ Emit(<<Instr("LEAVE", Name, None, None)>>, temp_counter)
  /\ Leave
  /\ UNCHANGED <<label_counter, operands, phase>>

\* main.c: the last top level declaration has been generated
EndOfProgram ==
  /\ AtBlockEnd
  /\ Here = "global"
  /\ phase' = IF Optimizations THEN "optimize" ELSE "done"
  /\ UNCHANGED <<gen_vars, cant_ap_h>>

gen_code ==
  \/ GenLiteral \/ GenBinary \/ GenUnary \/ GenShift
  \/ GenId
  \/ \E n \in 0..MaxArgs : GenCall(n) \/ GenCallStatement(n)
  \/ GenStore \/ \E leaf \in {Name, Constant} : GenStoreLeaf(leaf)
  \/ GenReturn
  \/ GenIf
  \/ \E else \in BOOLEAN : GenThenEnd(else)
  \/ GenElseEnd
  \/ GenWhile \/ GenWhileTest \/ GenWhileEnd
  \/ GenBlock \/ GenBlockEnd
  \/ GenExtern \/ GenMethod \/ GenMethodEnd
  \/ EndOfProgram

Spec == Init /\ [][gen_code]_vars

-----------------------------------------------------------------------------
(* Properties.                                                             *)

\* Every variable has its type; there is one list entry per temporary, in the
\* order of creation (get_free relies on it).
TypeOK ==
  LET operand == {None, Name, Constant}
                   \cup {Temp(t) : t \in 1..temp_counter}
                   \cup {Label(l) : l \in 0..(label_counter - 1)}
      ops == {"LOADVAL", "LOAD", "STORE", "BINARY", "UNARY", "SHIFT_RIGHT", "RET",
              "LABEL", "JMP", "JMPF", "PARAM", "CALL", "ENTER", "LEAVE", "EXTERN"}
  IN  /\ \A i \in 1..Len(code) : /\ code[i].op \in ops
                                  /\ \A f \in 1..3 : Arg(code[i], f) \in operand
      /\ Len(code) <= MaxCode
      /\ temp_counter \in Nat /\ label_counter \in Nat
      /\ Len(cant_ap_h) = temp_counter
      /\ \A t \in 1..temp_counter :
           /\ cant_ap_h[t].cant_ap \in Nat
           /\ cant_ap_h[t].locked \in BOOLEAN
           /\ cant_ap_h[t].list \subseteq 1..temp_counter
      /\ \A i \in 1..Len(operands) : operands[i] \in operand
      /\ \A i \in 1..Len(open) :
           /\ open[i].kind \in {"method", "block", "then", "else", "cond", "while"}
           /\ open[i].returned \in BOOLEAN
           /\ open[i].kind \in {"then", "else", "cond", "while"}
                => \A j \in 1..2 : Label(open[i].labels[j]) \in operand
      /\ phase \in {"gen", "optimize", "done"}

\* instructions where a basic block ends or begins
Boundary == {"LABEL", "JMP", "JMPF", "RET", "ENTER", "LEAVE"}

StraightLine(i, j) == \A k \in (i + 1)..(j - 1) : code[k].op \notin Boundary

\* Every temporary is written by one instruction and read by at most one later
\* instruction of the same basic block, and a result still pending has not been
\* read and was computed in the block being generated.  This is what lets the
\* reuse of temporaries look at the text of the code only.
TempsStayInTheirBlock ==
  \A t \in 1..temp_counter :
    \E i \in 1..Len(code) :
      LET uses == Occurrences(code, t) \ {<<i, 3>>} IN
      /\ <<i, 3>> \in Occurrences(code, t)
      /\ Cardinality(uses) <= 1
      /\ \A p \in uses : p[2] # 3 /\ p[1] > i /\ StraightLine(i, p[1])
      /\ (\E k \in 1..Len(operands) : operands[k] = Temp(t)) =>
           uses = {} /\ StraightLine(i, Len(code) + 1)

Jumps == {i \in 1..Len(code) : code[i].op \in {"JMP", "JMPF"}}

Destination(i) == IF code[i].op = "JMP" THEN code[i].var1 ELSE code[i].reg

Targets(i) == {k \in 1..Len(code) : code[k].op = "LABEL" /\ code[k].var1 = Destination(i)}

\* Between two top level declarations every jump has exactly one label to go to,
\* and it is in the same method, also when -opt drops what follows a return.
JumpsResolve ==
  Here = "global" =>
    \A i \in Jumps :
      \E k \in 1..Len(code) :
        /\ Targets(i) = {k}
        /\ \A m \in 1..Len(code) :
             code[m].op \in {"ENTER", "LEAVE"} => ~(i < m /\ m < k) /\ ~(k < m /\ m < i)
=============================================================================
