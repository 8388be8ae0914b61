-------------------------- MODULE ThreeAddressCode --------------------------
(***************************************************************************)
(* What a program in intermediate code means: an abstract machine with one *)
(* environment per activation, against which the object code is checked.   *)
(* It follows the comments of INSTR_TYPE (utils/symbol.h) and the scoping  *)
(* rules of the language: a variable is a symbol, that is a name and the   *)
(* scope that declares it, and the symbols of the global scope are shared  *)
(* by all activations.                                                     *)
(***************************************************************************)
EXTENDS MachineArithmetic, Sequences, FiniteSets, TLC

CONSTANTS Programs,      \* the programs considered
          ExternResult   \* the value every external method returns

(* A program is [methods, code].  methods[f] = [params, extern] for a method *)
(* name f; params are the names of its formal arguments, which belong to     *)
(* scope f.  code is a sequence of instructions [op, var1, var2, reg] over   *)
(* the operands below.                                                       *)

Operand(k, id, scope) == [kind |-> k, id |-> id, scope |-> scope]

None           == Operand("none", "", "")
Var(x, scope)  == Operand("name", x, scope)
Temp(t)        == Operand("temp", t, "")
Constant(v)    == Operand("constant", v, "")
Method(f)      == Operand("method", f, "")
Label(l)       == Operand("label", l, "")

Instr(op, v1, v2, r) == [op |-> op, var1 |-> v1, var2 |-> v2, reg |-> r]

IsSequence(s) == Len(s) \in Nat /\ s = [k \in 1..Len(s) |-> s[k]]

\* no method begins or ends between the ENTER at e and k
Within(c, e, k) ==
  /\ e < k /\ c[e].op = "ENTER"
  /\ \A j \in (e + 1)..(k - 1) : c[j].op \notin {"ENTER", "LEAVE"}

\* the ENTER at e and the LEAVE at l are those of one method
Encloses(c, e, l) ==
  Within(c, e, l) /\ c[l].op = "LEAVE" /\ c[l].var1.id = c[e].var1.id

\* What generateMethod emits: methods have different names, each method is
\* enclosed in ENTER and LEAVE, only methods return, and no method declares one.
MethodShape(c) ==
  LET at(op) == {k \in DOMAIN c : c[k].op = op} IN
  /\ \A e, d \in at("ENTER") : c[e].var1.id = c[d].var1.id => e = d
  /\ \A e \in at("ENTER") : \E l \in at("LEAVE") : Encloses(c, e, l)
  /\ \A l \in at("LEAVE") : \E e \in at("ENTER") : Encloses(c, e, l)
  /\ \A k \in at("RET") : \E e \in at("ENTER") : Within(c, e, k)
  /\ \A k \in at("EXTERN"), e \in at("ENTER") : ~Within(c, e, k)

\* n PARAMs stand before k, and no more
Passed(c, k, n) ==
  /\ n \in 0..(k - 1)
  /\ \A j \in (k - n)..(k - 1) : c[j].op = "PARAM"
  /\ k - n > 1 => c[k - n - 1].op # "PARAM"

\* What generateMethodCall emits: the PARAMs of a call, as many as the method has
\* parameters (the semantic stage counts them), and the CALL, with nothing between.
CallShape(c, methods) ==
  /\ \A k \in DOMAIN c :
       c[k].op = "PARAM" => k + 1 \in DOMAIN c /\ c[k + 1].op \in {"PARAM", "CALL"}
  /\ \A k \in DOMAIN c :
       c[k].op = "CALL" =>
         LET f == c[k].var1.id IN
         /\ f \in DOMAIN methods /\ Passed(c, k, Len(methods[f].params))
         /\ methods[f].extern \/ \E e \in DOMAIN c : c[e].op = "ENTER" /\ c[e].var1.id = f
  /\ \E e \in DOMAIN c : c[e].op = "ENTER" /\ c[e].var1.id = "main"

\* the label that a jump names
Destination(in) == IF in.op = "JMPF" THEN in.reg.id ELSE in.var1.id

\* labels differ, and a jump stays in its method
JumpShape(c) ==
  LET labels == {k \in DOMAIN c : c[k].op = "LABEL"} IN
  /\ \A k, l \in labels : c[k].var1.id = c[l].var1.id => k = l
  /\ \A k, e \in DOMAIN c :
       c[k].op \in {"JMP", "JMPF"} /\ Within(c, e, k) =>
         \E l \in labels : c[l].var1.id = Destination(c[k]) /\ Within(c, e, l)

Binary == BinaryOp \cup {"SHIFT_RIGHT"}
Unary  == {"MIN", "NEG"}

\* the operands an instruction reads
Sources(in) ==
  CASE in.op \in {"LOADVAL", "STORE", "JMPF", "PARAM"} \cup Unary -> <<in.var1>>
    [] in.op \in Binary -> <<in.var1, in.var2>>
    [] in.op = "RET" /\ in.var1.kind # "none" -> <<in.var1>>
    [] OTHER -> <<>>

IsValue(o) ==
  o.kind \in {"name", "temp"} \/ (o.kind = "constant" /\ o.id \in Int)

\* what is read has a value, what is written has a place, and jumps name labels
OperandShape(in) ==
  /\ \A n \in DOMAIN Sources(in) : IsValue(Sources(in)[n])
  /\ in.op \in {"LOADVAL", "STORE", "CALL"} \cup Binary \cup Unary =>
       in.reg.kind \in {"name", "temp"}
  /\ in.op = "SHIFT_RIGHT" => in.var2.kind = "constant" /\ in.var2.id \in Nat
  /\ in.op \in {"LABEL", "JMP"} => in.var1.kind = "label"
  /\ in.op = "JMPF" => in.reg.kind = "label"

\* the parameters of a method have different names (arg_list in the parser)
ParametersDiffer(ps) == \A j, k \in DOMAIN ps : ps[j] = ps[k] => j = k

ASSUME ExternResultAssumption == ExternResult \in Int

ASSUME ProgramsAssumption ==
  \A p \in Programs :
    /\ IsSequence(p.code) /\ MethodShape(p.code) /\ JumpShape(p.code)
    /\ CallShape(p.code, p.methods)
    /\ \A k \in DOMAIN p.code : OperandShape(p.code[k])
    /\ \A f \in DOMAIN p.methods :
         /\ IsSequence(p.methods[f].params) /\ ParametersDiffer(p.methods[f].params)
         /\ p.methods[f].extern \in BOOLEAN
    /\ \A k \in DOMAIN p.code :
         p.code[k].op = "ENTER" => p.code[k].var1.id \in DOMAIN p.methods

VARIABLES
  program,   \* the program that runs
  ir_pc,     \* index in program.code of the next instruction, 0 at the end
  frames,    \* activations, the current one last: [method, env, call], call
             \* being the index of the CALL that made it
  globals,   \* values of the symbols of the global scope
  args       \* values passed by PARAM since the last CALL

ir_vars == <<program, ir_pc, frames, globals, args>>

code == program.code

Params(f) == program.methods[f].params

IsExtern(f) == program.methods[f].extern

\* LOAD only announces an operand
SkipLoads(k) ==
  CHOOSE j \in k..(Len(code) + 1) :
    /\ \A i \in k..(j - 1) : code[i].op = "LOAD"
    /\ j \in DOMAIN code => code[j].op # "LOAD"

IndexOf(op, operand_id) ==
  CHOOSE k \in DOMAIN code : code[k].op = op /\ code[k].var1.id = operand_id

Current == frames[Len(frames)]

Symbol(o) == <<o.id, o.scope>>

Value(o) ==
  CASE o.kind = "constant" -> o.id
    [] o.kind = "name" /\ o.scope = "global" -> globals[Symbol(o)]
    [] OTHER -> Current.env[Symbol(o)]

\* o := v in the current activation
Assign(o, v) ==
  IF o.scope = "global"
  THEN /\ globals' = (Symbol(o) :> v) @@ globals
       /\ UNCHANGED frames
  ELSE /\ frames' = [frames EXCEPT ![Len(frames)].env = (Symbol(o) :> v) @@ @]
       /\ UNCHANGED globals

Apply(op, a, b) ==
  IF op = "SHIFT_RIGHT" THEN Quotient(a, 2 ^ b) ELSE Compute(op, a, b)

\* o has been assigned in this activation, or is a constant
Assigned(o) ==
  CASE o.kind = "constant" -> TRUE
    [] o.kind = "name" /\ o.scope = "global" -> Symbol(o) \in DOMAIN globals
    [] OTHER -> Symbol(o) \in DOMAIN Current.env

\* A program means something as long as it reads what it has assigned, takes
\* booleans for booleans and does not divide by zero.
Meaningful(in) ==
  /\ \A n \in DOMAIN Sources(in) :
       LET o == Sources(in)[n] IN Assigned(o) /\ (in.op \in Logical => Value(o) \in {0, 1})
  /\ in.op \in Division => Value(in.var2) # 0

Goto(k) == ir_pc' = SkipLoads(k)

\* the value of RET, kept in the environment until LEAVE
ResultOf == <<"result", "">>

\* the activation ends; the temporary of the CALL receives its result, and is
\* undefined if there is none
Return ==
  LET rest == SubSeq(frames, 1, Len(frames) - 1)
      call == Current.call
      dest == Symbol(code[call].reg)
      env  == rest[Len(rest)].env
  IN  IF rest = <<>> THEN frames' = <<>> /\ ir_pc' = 0
      ELSE /\ frames' =
                [rest EXCEPT ![Len(rest)].env =
                   IF ResultOf \in DOMAIN Current.env
                   THEN (dest :> Current.env[ResultOf]) @@ env
                   ELSE [s \in DOMAIN env \ {dest} |-> env[s]]]
           /\ Goto(call + 1)

\* one instruction
Execute(in) ==
  LET next == Goto(ir_pc + 1) IN
  /\ ir_pc \in DOMAIN code
  /\ in = code[ir_pc]
  /\ Meaningful(in)
  /\ UNCHANGED program
  /\ CASE in.op \in {"LOADVAL", "STORE"} ->
            Assign(in.reg, Value(in.var1)) /\ next /\ UNCHANGED args
       [] in.op \in Binary ->
            /\ Assign(in.reg, Apply(in.op, Value(in.var1), Value(in.var2)))
            /\ next /\ UNCHANGED args
       [] in.op \in Unary ->
            /\ Assign(in.reg, IF in.op = "MIN" THEN -Value(in.var1)
                              ELSE Truth(Value(in.var1) = 0))
            /\ next /\ UNCHANGED args
       [] in.op = "LABEL" -> next /\ UNCHANGED <<frames, globals, args>>
       [] in.op = "JMP" ->
            Goto(IndexOf("LABEL", in.var1.id)) /\ UNCHANGED <<frames, globals, args>>
       [] in.op = "JMPF" ->
            /\ IF Value(in.var1) = 0 THEN Goto(IndexOf("LABEL", in.reg.id)) ELSE next
            /\ UNCHANGED <<frames, globals, args>>
       [] in.op = "PARAM" ->
            args' = Append(args, Value(in.var1)) /\ next /\ UNCHANGED <<frames, globals>>
       [] in.op = "CALL" /\ IsExtern(in.var1.id) ->
            Assign(in.reg, ExternResult) /\ next /\ args' = <<>>
       [] in.op = "CALL" /\ ~IsExtern(in.var1.id) ->
            /\ frames' = Append(frames, [method |-> in.var1.id, env |-> <<>>, call |-> ir_pc])
            /\ Goto(IndexOf("ENTER", in.var1.id))
            /\ UNCHANGED <<globals, args>>
       [] in.op = "ENTER" ->
            LET f == in.var1.id IN
            /\ frames' = [frames EXCEPT ![Len(frames)].env =
                            [s \in {<<x, f>> : x \in {Params(f)[j] : j \in DOMAIN Params(f)}} |->
                               args[CHOOSE j \in DOMAIN Params(f) : Params(f)[j] = s[1]]]]
            /\ args' = <<>> /\ next /\ UNCHANGED globals
       [] in.op = "RET" ->
            /\ IF in.var1.kind = "none" THEN UNCHANGED frames
               ELSE frames' = [frames EXCEPT ![Len(frames)].env =
                                 (ResultOf :> Value(in.var1)) @@ @]
            /\ Goto(IndexOf("LEAVE", Current.method)) /\ UNCHANGED <<globals, args>>
       [] in.op = "LEAVE" -> Return /\ UNCHANGED <<globals, args>>
=============================================================================
