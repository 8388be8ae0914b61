----------------------------- MODULE ObjectCode -----------------------------
(***************************************************************************)
(* The object code generator (object_code.c): one pass over the            *)
(* intermediate code that appends x86-64 instructions to asm, one action   *)
(* per case of its switch.  A variable lives in the stack slot its NAME is *)
(* given the first time the pass over the current method meets it.         *)
(*                                                                         *)
(* Offsets are counted in words of 8 bytes: the slot at word k of %rbp is  *)
(* the code's 8k(%rbp).                                                    *)
(***************************************************************************)
EXTENDS ThreeAddressCode

CONSTANT FirstCharacters(_)   \* the first 63 characters of a method's name

VARIABLES
  i,                     \* index in code of the next instruction
  var_map,               \* name |-> offset, the names of the current method
  current_stack_offset,
  param_count,           \* PARAMs since the last CALL
  stack_params,          \* those of them that went on the stack
  asm,                   \* the assembly file
  slots                  \* history: method |-> var_map at its end, and its frame

obj_vars == <<i, var_map, current_stack_offset, param_count, stack_params, asm, slots>>

ObjInit ==
  /\ i = 1
  /\ var_map = <<>>
  /\ current_stack_offset = 0
  /\ param_count = 0
  /\ stack_params = 0
  /\ asm = <<>>
  /\ slots = <<>>

-----------------------------------------------------------------------------
(* Assembly.                                                               *)

arg_regs == <<"rdi", "rsi", "rdx", "rcx", "r8", "r9">>

Place(a, n) == [at |-> a, n |-> n]
Reg(r)  == Place("reg", r)
Slot(k) == Place("rbp", k)
Imm(v)  == Place("imm", v)
Nil     == Place("none", "")
Sym(l)  == Place("symbol", l)
rax     == Reg("rax")

Asm(op, a, b) == [op |-> op, a |-> a, b |-> b]
Mov(a, b) == Asm("mov", a, b)

\* the instructions emitted for one instruction of the intermediate code know
\* its index, and the first of them knows that it is the first
Block(instrs) ==
  [j \in DOMAIN instrs |-> [op |-> instrs[j].op, a |-> instrs[j].a, b |-> instrs[j].b,
                            of |-> i, first |-> j = 1]]

-----------------------------------------------------------------------------
(* Slots.                                                                  *)

Key(o) == o.id

\* map, with name mapped to v
With(map, name, v) ==
  [x \in DOMAIN map \cup {name} |-> IF x = name THEN v ELSE map[x]]

HasSlot(o) == o.kind \in {"name", "temp"}

\* mutant of get_var_offset: the offset does not move
get_var_offset_same(m, name) ==
  IF name \in DOMAIN m.map THEN m
  ELSE [map |-> With(m.map, name, m.offset), offset |-> m.offset]

get_var_offset(m, name) ==
  IF name \in DOMAIN m.map THEN m
  ELSE [map |-> With(m.map, name, m.offset - 1), offset |-> m.offset - 1]

Mapped(m, o) == IF HasSlot(o) THEN get_var_offset(m, Key(o)) ELSE m

\* var_map after get_operand_str of var1, var2 and reg, in this order
MapAfter(in) ==
  Mapped(Mapped(Mapped([map |-> var_map, offset |-> current_stack_offset],
                       in.var1), in.var2), in.reg)

\* get_operand_str
Str(m, o) ==
  CASE HasSlot(o) -> Slot(m.map[Key(o)])
    [] o.kind = "constant" -> Imm(o.id)
    [] OTHER -> Sym(o.id)

\* emit instrs, where m is var_map once their operands have been looked up
Put(m, instrs) ==
  /\ asm' = asm \o Block(instrs)
  /\ var_map' = m.map
  /\ current_stack_offset' = m.offset
  /\ i' = i + 1

Case(ops) == i <= Len(code) /\ code[i].op \in ops

in == code[i]
op1(m)  == Str(m, in.var1)
op2(m)  == Str(m, in.var2)
dest(m) == Str(m, in.reg)

Keeps == UNCHANGED <<param_count, stack_params, slots>>

-----------------------------------------------------------------------------
(* Methods.                                                                *)

\* mutant of EndOfMethod: the prescan stops at the first return
EndOfMethod_return(e) ==
  LET ends == {j \in (e + 1)..Len(code) : code[j].op \in {"RET", "LEAVE"}}
  IN  CHOOSE j \in ends : \A k \in ends : j <= k

\* the instruction that ends the method entered at e
EndOfMethod(e) ==
  LET ends == {j \in (e + 1)..Len(code) :
                 code[j].op = "LEAVE" /\ code[j].var1.id = code[e].var1.id}
  IN  CHOOSE j \in ends : \A k \in ends : j <= k

\* the operands the prescan takes for variables: names of methods too, and
\* constants that begin with a minus sign
Prescanned(o) ==
  \/ o.kind \in {"name", "temp", "method"}
  \/ o.kind = "constant" /\ o.id < 0

Operands(k) == <<code[k].var1, code[k].var2, code[k].reg>>

\* what the prescan gives a slot; the text of a constant is no name
NameOf(o) == <<o.kind = "constant", Key(o)>>

\* the names of the method entered at e
FrameNames(e) ==
  UNION {{NameOf(Operands(k)[n]) : n \in {n \in 1..3 : Prescanned(Operands(k)[n])}} :
           k \in e..EndOfMethod(e)}

\* mutant of total_stack_size: it is not aligned
total_stack_size_exact == Cardinality(FrameNames(i))

\* aligned to 16 bytes
total_stack_size ==
  LET n == Cardinality(FrameNames(i)) IN IF n % 2 = 0 THEN n ELSE n + 1

\* mutant of ArgMap: the next slot is the first again
ArgMap_again(f) ==
  LET ps == Params(f) IN
  [map    |-> [x \in {ps[j] : j \in DOMAIN ps} |-> -(CHOOSE j \in DOMAIN ps : ps[j] = x)],
   offset |-> 0]

\* the slots of the arguments, in an empty var_map
ArgMap(f) ==
  LET ps == Params(f) IN
  [map    |-> [x \in {ps[j] : j \in DOMAIN ps} |-> -(CHOOSE j \in DOMAIN ps : ps[j] = x)],
   offset |-> -Len(ps)]

\* arguments from their registers, and beyond the sixth from the caller's stack,
\* to their slots
ArgCopies(n) ==
  LET in_regs == IF n < 6 THEN n ELSE 6 IN
  [j \in 1..in_regs |-> Mov(Reg(arg_regs[j]), Slot(-j))]
  \o [k \in 1..(2 * (n - in_regs)) |->
        IF k % 2 = 1 THEN Mov(Slot(2 + k \div 2), rax) ELSE Mov(rax, Slot(-(6 + k \div 2)))]

I_ENTER ==
  LET f == in.var1.id
      reserve == IF total_stack_size > 0
                 THEN <<Asm("sub", Imm(total_stack_size), Reg("rsp"))>> ELSE <<>>
  IN  /\ Case({"ENTER"})
      /\ Put(ArgMap(f),
             <<Asm("entry", Sym(f), Nil), Asm("push", Reg("rbp"), Nil),
               Mov(Reg("rsp"), Reg("rbp"))>> \o reserve \o ArgCopies(Len(Params(f))))
      /\ slots' = With(slots, f, [map |-> <<>>, frame |-> total_stack_size])
      /\ UNCHANGED <<param_count, stack_params>>

\* mutant of I_LEAVE: %rsp is not restored
I_LEAVE_keep_rsp ==
  LET f == in.var1.id IN
  /\ Case({"LEAVE"})
  /\ Put([map |-> <<>>, offset |-> current_stack_offset],
         <<Asm("leave", Sym(f), Nil), Asm("pop", Reg("rbp"), Nil), Asm("ret", Nil, Nil)>>)
  /\ slots' = [slots EXCEPT ![f].map = var_map]
  /\ UNCHANGED <<param_count, stack_params>>

\* var_count is reset, current_stack_offset is not
I_LEAVE ==
  LET f == in.var1.id IN
  /\ Case({"LEAVE"})
  /\ Put([map |-> <<>>, offset |-> current_stack_offset],
         <<Asm("leave", Sym(f), Nil), Mov(Reg("rbp"), Reg("rsp")),
           Asm("pop", Reg("rbp"), Nil), Asm("ret", Nil, Nil)>>)
  /\ slots' = [slots EXCEPT ![f].map = var_map]
  /\ UNCHANGED <<param_count, stack_params>>

Enters == {j \in 1..i : code[j].op = "ENTER"}

\* mutant of current_func_name: the first ENTER
first_func_name ==
  FirstCharacters(code[CHOOSE j \in Enters : \A k \in Enters : j <= k].var1.id)

\* the nearest preceding ENTER; the buffer has room for 63 characters of its name
current_func_name ==
  FirstCharacters(code[CHOOSE j \in Enters : \A k \in Enters : k <= j].var1.id)

\* a name that the buffer of I_RET holds
ShortName(f) == FirstCharacters(f) = f

I_RET ==
  LET m == MapAfter(in) IN
  /\ Case({"RET"})
  /\ Put(m, (IF in.var1.kind # "none" THEN <<Mov(op1(m), rax)>> ELSE <<>>)
            \o <<Asm("jmp_leave", Sym(current_func_name), Nil)>>)
  /\ Keeps

\* the names of external methods are only declared
I_EXTERN ==
  /\ Case({"EXTERN"})
  /\ Put([map |-> var_map, offset |-> current_stack_offset], <<>>)
  /\ Keeps

-----------------------------------------------------------------------------
(* Values.                                                                 *)

I_LOADVAL ==
  LET m == MapAfter(in) IN
  /\ Case({"LOADVAL"})
  /\ Put(m, <<Mov(op1(m), dest(m))>>)
  /\ Keeps

I_STORE ==
  LET m == MapAfter(in) IN
  /\ Case({"STORE"})
  /\ Put(m, <<Mov(op1(m), rax), Mov(rax, dest(m))>>)
  /\ Keeps

I_LOAD ==
  /\ Case({"LOAD"})
  /\ Put([map |-> var_map, offset |-> current_stack_offset], <<>>)
  /\ Keeps

\* %rax holds the intermediate values
Through(m, instrs) == <<Mov(op1(m), rax)>> \o instrs \o <<Mov(rax, dest(m))>>

\* mutant of op_str: subtractions are emitted as additions
op_str_add == IF in.op = "MUL" THEN "imul" ELSE "add"

op_str ==
  CASE in.op = "ADD" -> "add" [] in.op = "SUB" -> "sub" [] in.op = "MUL" -> "imul"
    [] in.op = "AND" -> "and" [] in.op = "OR" -> "or"

I_ADD ==
  LET m == MapAfter(in) IN
  /\ Case({"ADD", "SUB", "MUL", "AND", "OR"})
  /\ Put(m, Through(m, <<Asm(op_str, op2(m), rax)>>))
  /\ Keeps

I_DIV ==
  LET m == MapAfter(in) IN
  /\ Case({"DIV", "MOD"})
  /\ Put(m, <<Mov(op1(m), rax), Asm("cqo", Nil, Nil), Asm("idiv", op2(m), Nil),
              Mov(IF in.op = "DIV" THEN rax ELSE Reg("rdx"), dest(m))>>)
  /\ Keeps

\* mutant of Bias: the shift rounds towards minus infinity
Bias_none == 0

\* divisor - 1, added to negative dividends
Bias == 2 ^ in.var2.id - 1

I_SHIFT_RIGHT ==
  LET m == MapAfter(in) IN
  /\ Case({"SHIFT_RIGHT"})
  /\ Put(m, Through(m, <<Asm("cqo", Nil, Nil), Mov(Imm(Bias), Reg("rcx")),
                         Asm("and", Reg("rcx"), Reg("rdx")),
                         Asm("add", Reg("rdx"), rax), Asm("sar", op2(m), rax)>>))
  /\ Keeps

I_MIN ==
  LET m == MapAfter(in) IN
  /\ Case({"MIN"})
  /\ Put(m, Through(m, <<Asm("neg", rax, Nil)>>))
  /\ Keeps

I_NEG ==
  LET m == MapAfter(in) IN
  /\ Case({"NEG"})
  /\ Put(m, Through(m, <<Asm("cmp", Imm(0), rax), Asm("sete", rax, Nil)>>))
  /\ Keeps

set_instr ==
  CASE in.op = "LES" -> "setl" [] in.op = "GRT" -> "setg" [] in.op = "EQ" -> "sete"
    [] in.op = "NEQ" -> "setne" [] in.op = "LEQ" -> "setle" [] in.op = "GEQ" -> "setge"

I_LES ==
  LET m == MapAfter(in) IN
  /\ Case(Relational \cup {"EQ"})
  /\ Put(m, Through(m, <<Asm("cmp", op2(m), rax), Asm(set_instr, rax, Nil)>>))
  /\ Keeps

-----------------------------------------------------------------------------
(* Control and calls.                                                      *)

I_LABEL ==
  LET m == MapAfter(in) IN
  /\ Case({"LABEL"})
  /\ Put(m, <<Asm("label", op1(m), Nil)>>)
  /\ Keeps

I_JMP ==
  LET m == MapAfter(in) IN
  /\ Case({"JMP"})
  /\ Put(m, <<Asm("jmp", op1(m), Nil)>>)
  /\ Keeps

I_JMPF ==
  LET m == MapAfter(in) IN
  /\ Case({"JMPF"})
  /\ Put(m, <<Mov(op1(m), rax), Asm("cmp", Imm(0), rax), Asm("jz", dest(m), Nil)>>)
  /\ Keeps

I_PARAM ==
  LET m == MapAfter(in) IN
  /\ Case({"PARAM"})
  /\ Put(m, IF param_count < 6 THEN <<Mov(op1(m), Reg(arg_regs[param_count + 1]))>>
            ELSE <<Asm("push", op1(m), Nil)>>)
  /\ stack_params' = IF param_count < 6 THEN stack_params ELSE stack_params + 1
  /\ param_count' = param_count + 1
  /\ UNCHANGED slots

\* mutant of AfterCall: the stack parameters are not removed
AfterCall_leak == <<>>

AfterCall ==
  IF stack_params > 0 THEN <<Asm("add", Imm(stack_params), Reg("rsp"))>> ELSE <<>>

\* mutant of I_CALL: param_count is not reset
I_CALL_no_reset ==
  LET m == Mapped([map |-> var_map, offset |-> current_stack_offset], in.reg) IN
  /\ Case({"CALL"})
  /\ Put(m, <<Asm("call", Sym(in.var1.id), Nil), Mov(rax, dest(m))>> \o AfterCall)
  /\ stack_params' = 0
  /\ UNCHANGED <<param_count, slots>>

\* mutant of I_CALL: stack_params is not reset
I_CALL_keep ==
  LET m == Mapped([map |-> var_map, offset |-> current_stack_offset], in.reg) IN
  /\ Case({"CALL"})
  /\ Put(m, <<Asm("call", Sym(in.var1.id), Nil), Mov(rax, dest(m))>> \o AfterCall)
  /\ param_count' = 0
  /\ UNCHANGED <<stack_params, slots>>

I_CALL ==
  LET m == Mapped([map |-> var_map, offset |-> current_stack_offset], in.reg) IN
  /\ Case({"CALL"})
  /\ Put(m, <<Asm("call", Sym(in.var1.id), Nil), Mov(rax, dest(m))>> \o AfterCall)
  /\ param_count' = 0
  /\ stack_params' = 0
  /\ UNCHANGED slots

generate_object_code ==
  \/ I_EXTERN \/ I_ENTER \/ I_LEAVE \/ I_RET
  \/ I_LOADVAL \/ I_STORE \/ I_LOAD \/ I_ADD \/ I_DIV \/ I_SHIFT_RIGHT
  \/ I_MIN \/ I_NEG \/ I_LES \/ I_LABEL \/ I_JMP \/ I_JMPF \/ I_PARAM \/ I_CALL

Generated == i = Len(code) + 1

-----------------------------------------------------------------------------
(* Properties.                                                             *)

\* Every variable has its type: slots are below the frame pointer, and what went
\* on the stack was a parameter.
ObjTypeOK ==
  /\ i \in 1..(Len(code) + 1)
  /\ current_stack_offset \in Int /\ current_stack_offset <= 0
  /\ \A x \in DOMAIN var_map : var_map[x] \in current_stack_offset..-1
  /\ param_count \in Nat /\ stack_params \in 0..param_count
  /\ \A f \in DOMAIN slots : slots[f].frame \in Nat

Injective(map) == \A x, y \in DOMAIN map : map[x] = map[y] => x = y

\* "Uses a simple mapping of temporaries to stack offsets" (object_code.c:57): no
\* two names of a method have one slot, neither while the method is compiled
\* nor when it is done.
SlotsDistinct ==
  Injective(var_map) /\ \A f \in DOMAIN slots : Injective(slots[f].map)

ParametersOccur(e) ==
  LET ps == Params(code[e].var1.id) IN
  \A j \in DOMAIN ps : <<FALSE, ps[j]>> \in FrameNames(e)

\* "Get stack offsets for all variables used in the function" (object_code.c:100):
\* the frame a method reserves has room for every slot the pass gives out
\* later, if the prescan met the method's parameters.
SlotsInFrame ==
  \A e \in 1..(i - 1) :
    code[e].op = "ENTER" /\ ParametersOccur(e) =>
      LET m == slots[code[e].var1.id] IN
      \A x \in DOMAIN m.map : m.map[x] \in (-m.frame)..-1

\* pushes of the arguments of the call at c: those after the previous call
PushesFor(c) ==
  {j \in DOMAIN asm :
     /\ asm[j].op = "push" /\ asm[j].of < c /\ code[asm[j].of].op = "PARAM"
     /\ \A k \in asm[j].of..(c - 1) : code[k].op # "CALL"}

RemovedAfter(c) ==
  {j \in DOMAIN asm : asm[j].of = c /\ asm[j].op = "add" /\ asm[j].b = Reg("rsp")}

\* "Count parameters that need to go on stack" (object_code.c:65): after a call %rsp
\* goes up by the words its own arguments took on the stack, once, and stays
\* where it is if they took none.
StackArgumentsRemoved ==
  \A c \in 1..(i - 1) :
    code[c].op = "CALL" =>
      IF PushesFor(c) = {} THEN RemovedAfter(c) = {}
      ELSE \E j \in DOMAIN asm : /\ RemovedAfter(c) = {j}
                                /\ asm[j].a = Imm(Cardinality(PushesFor(c)))

\* from asm[j] to asm[k] no method begins
SameMethod(j, k) == \A n \in (j + 1)..k : asm[n].op # "entry"

\* "Find the nearest preceding I_ENTER to get the function name"
\* (object_code.c:165): a return stands in the code of a method and, if the name of
\* this method has at most 63 characters, jumps to its epilogue, which, once all
\* is generated, follows the return there.
ReturnsToTheirMethod ==
  \A j \in DOMAIN asm :
    asm[j].op = "jmp_leave" =>
      \E e \in 1..j :
        /\ asm[e].op = "entry" /\ SameMethod(e, j)
        /\ ShortName(asm[e].a.n) =>
             /\ asm[j].a = asm[e].a
             /\ Generated =>
                  \E l \in j..Len(asm) :
                    asm[l].op = "leave" /\ asm[l].a = asm[j].a /\ SameMethod(j, l)
=============================================================================
