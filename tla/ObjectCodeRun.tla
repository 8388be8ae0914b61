---------------------------- MODULE ObjectCodeRun ----------------------------
(***************************************************************************)
(* The compiled program at work.  First ObjectCode generates asm; then an  *)
(* x86-64 machine (external: what the processor and the system do with the *)
(* instructions the generator uses) executes it from a call of main.       *)
(* Whenever it begins the instructions emitted for one instruction of the  *)
(* intermediate code, the abstract machine of ThreeAddressCode executes    *)
(* that instruction as well, so that the two can be compared.              *)
(*                                                                         *)
(* Memory is the stack, in words; it grows down from address 0, which is   *)
(* aligned to 16 bytes.                                                    *)
(***************************************************************************)
EXTENDS ObjectCode

CONSTANT MaxStack   \* bound: words of stack

ASSUME MaxStackAssumption == MaxStack \in Nat \ {0}

\* A name that I_RET cuts is not, when cut, the name of another method: the
\* return would end through the epilogue of that method.
ASSUME CutNamesAssumption ==
  \A p \in Programs :
    \A e, l \in DOMAIN p.code :
      p.code[e].op = "ENTER" /\ p.code[l].op = "LEAVE" =>
        LET f == p.code[e].var1.id IN
        p.code[l].var1.id = FirstCharacters(f) => ShortName(f)

VARIABLES
  pc,      \* index in asm, 0 before the start and after main returns
  regs,    \* registers, rsp and rbp included
  flags,   \* last comparison, as the difference it computed
  mem,
  phase    \* "compile"; "run", "halted"; or "unresolved"

run_vars == <<pc, regs, flags, mem, phase>>

vars == <<ir_vars, obj_vars, run_vars>>

Addresses == (-MaxStack)..-1

\* what registers and memory hold before the program writes them
Junk == -77

Registers == {arg_regs[j] : j \in DOMAIN arg_regs} \cup {"rax", "rsp", "rbp"}

Init ==
  /\ program \in Programs
  /\ ir_pc = 0 /\ frames = <<>> /\ args = <<>>
  /\ globals = <<>>
  /\ ObjInit
  /\ pc = 0 /\ flags = 0 /\ phase = "compile"
  /\ regs = [r \in Registers |-> IF r \in {"rsp", "rbp"} THEN 0 ELSE Junk]
  /\ mem = [a \in Addresses |-> Junk]

Compile ==
  /\ phase = "compile"
  /\ generate_object_code
  /\ UNCHANGED <<ir_vars, run_vars>>

AsmIndex(op, l) == CHOOSE j \in DOMAIN asm : asm[j].op = op /\ asm[j].a.n = l

\* every return jumps to an epilogue that exists
Resolved ==
  \A j \in DOMAIN asm :
    asm[j].op = "jmp_leave" =>
      \E l \in DOMAIN asm : asm[l].op = "leave" /\ asm[l].a = asm[j].a

\* link.sh fails, and there is no program
Unresolved ==
  /\ phase = "compile"
  /\ Generated
  /\ ~Resolved
  /\ phase' = "unresolved"
  /\ UNCHANGED <<ir_vars, obj_vars, pc, regs, flags, mem>>

\* link.sh and the start-up code: the word pushed by the call of main is 0, the
\* pc after the end
Start ==
  /\ phase = "compile"
  /\ Generated
  /\ Resolved
  /\ phase' = "run"
  /\ pc' = AsmIndex("entry", "main")
  /\ regs' = [regs EXCEPT !["rsp"] = -1]
  /\ mem' = [mem EXCEPT ![-1] = 0]
  /\ frames' = <<[method |-> "main", env |-> <<>>, call |-> 0]>>
  /\ Goto(IndexOf("ENTER", "main"))
  /\ UNCHANGED <<program, globals, args, obj_vars, flags>>

-----------------------------------------------------------------------------
(* The processor (external).                                               *)

ins == asm[pc]

Read(a) ==
  CASE a.at = "reg" -> regs[a.n]
    [] a.at = "rbp" -> mem[regs["rbp"] + a.n]
    [] a.at = "imm" -> a.n

\* the stack has no room below its last word
Fits(w) == w >= -MaxStack

Write(a, v) ==
  IF a.at = "reg" THEN regs' = [regs EXCEPT ![a.n] = v] /\ UNCHANGED mem
  ELSE mem' = [mem EXCEPT ![regs["rbp"] + a.n] = v] /\ UNCHANGED regs

Next1 == pc' = pc + 1

\* what an instruction with operands v and w puts in place of w
Effect(v, w) ==
  CASE ins.op = "mov" -> v
    [] ins.op = "add" -> w + v
    [] ins.op = "sub" -> w - v
    [] ins.op = "imul" -> w * v
    [] ins.op = "neg" -> -v
    [] ins.op = "sar" -> w \div (2 ^ v)
    \* of booleans; the w of "and" may be -1 as well
    [] ins.op = "and" -> IF w = 0 THEN 0 ELSE v
    [] ins.op = "or"  -> IF w = 0 THEN v ELSE w
    [] ins.op = "sete"  -> Truth(flags = 0)
    [] ins.op = "setne" -> Truth(flags # 0)
    [] ins.op = "setl"  -> Truth(flags < 0)
    [] ins.op = "setg"  -> Truth(flags > 0)
    [] ins.op = "setle" -> Truth(flags <= 0)
    [] ins.op = "setge" -> Truth(flags >= 0)

OneOperand == {"neg", "sete", "setne", "setl", "setg", "setle", "setge"}

Data ==
  /\ ins.op \in {"mov", "add", "sub", "imul", "sar", "and", "or"} \cup OneOperand
  /\ LET target == IF ins.op \in OneOperand THEN ins.a ELSE ins.b
         result == Effect(Read(ins.a), Read(target))
     IN  /\ target.at = "reg" /\ target.n = "rsp" => Fits(result)
         /\ Write(target, result)
  /\ Next1 /\ UNCHANGED flags

Compare ==
  /\ ins.op = "cmp"
  /\ flags' = Read(ins.b) - Read(ins.a)
  /\ Next1 /\ UNCHANGED <<regs, mem>>

SignExtend ==
  /\ ins.op = "cqo"
  /\ regs' = [regs EXCEPT !["rdx"] = IF regs["rax"] < 0 THEN -1 ELSE 0]
  /\ Next1 /\ UNCHANGED <<flags, mem>>

\* a division by zero traps: no step
Divide ==
  /\ ins.op = "idiv"
  /\ Read(ins.a) # 0
  /\ LET q == Quotient(regs["rax"], Read(ins.a)) IN
     regs' = [regs EXCEPT !["rax"] = q, !["rdx"] = regs["rax"] - q * Read(ins.a)]
  /\ Next1 /\ UNCHANGED <<flags, mem>>

PushWord(v) ==
  /\ Fits(regs["rsp"] - 1)
  /\ regs' = [regs EXCEPT !["rsp"] = @ - 1]
  /\ mem' = [mem EXCEPT ![regs["rsp"] - 1] = v]

Push ==
  /\ ins.op = "push"
  /\ PushWord(Read(ins.a))
  /\ Next1 /\ UNCHANGED flags

Pop ==
  /\ ins.op = "pop"
  /\ regs' = [regs EXCEPT ![ins.a.n] = mem[regs["rsp"]], !["rsp"] = @ + 1]
  /\ Next1 /\ UNCHANGED <<flags, mem>>

Branch ==
  /\ ins.op \in {"jmp", "jz", "jmp_leave"}
  /\ pc' = IF ins.op = "jz" /\ flags # 0 THEN pc + 1
           ELSE AsmIndex(IF ins.op = "jmp_leave" THEN "leave" ELSE "label", ins.a.n)
  /\ UNCHANGED <<regs, flags, mem>>

Mark ==
  /\ ins.op \in {"entry", "leave", "label"}
  /\ Next1 /\ UNCHANGED <<regs, flags, mem>>

Call ==
  /\ ins.op = "call" /\ ~IsExtern(ins.a.n)
  /\ PushWord(pc + 1)
  /\ pc' = AsmIndex("entry", ins.a.n)
  /\ UNCHANGED flags

\* an external method may change every register that is not callee-saved
CallExtern ==
  /\ ins.op = "call" /\ IsExtern(ins.a.n)
  /\ regs' = [r \in Registers |-> IF r \in {"rsp", "rbp"} THEN regs[r]
                                  ELSE IF r = "rax" THEN ExternResult ELSE Junk]
  /\ Next1 /\ UNCHANGED <<flags, mem>>

Ret ==
  /\ ins.op = "ret"
  /\ pc' = mem[regs["rsp"]]
  /\ regs' = [regs EXCEPT !["rsp"] = @ + 1]
  /\ UNCHANGED <<flags, mem>>

Processor ==
  \/ Data \/ Compare \/ SignExtend \/ Divide \/ Push \/ Pop
  \/ Branch \/ Mark \/ Call \/ CallExtern \/ Ret

-----------------------------------------------------------------------------

Running == phase = "run" /\ pc \in DOMAIN asm

\* the processor begins an instruction of the intermediate code
AtBlock == Running /\ ins.first

Run ==
  /\ Running
  /\ Processor
  /\ IF ins.first THEN Execute(code[ins.of]) ELSE UNCHANGED ir_vars
  /\ UNCHANGED <<obj_vars, phase>>

Halt ==
  /\ phase = "run" /\ pc = 0
  /\ phase' = "halted"
  /\ UNCHANGED <<ir_vars, obj_vars, pc, regs, flags, mem>>

Next == Compile \/ Unresolved \/ Start \/ Run \/ Halt

Spec == Init /\ [][Next]_vars /\ WF_vars(Next)

-----------------------------------------------------------------------------
(* Properties.                                                             *)

\* Every variable of the run has its type.  The pc stays inside the program, and
\* stack pointer and frame pointer below the top of the stack.
TypeOK ==
  /\ pc \in 0..Len(asm)
  /\ ir_pc \in 0..Len(code)
  /\ regs["rsp"] \in (-MaxStack)..0
  /\ regs["rbp"] \in (-MaxStack)..0
  /\ phase \in {"compile", "unresolved", "run", "halted"}

\* Processor and abstract machine follow the same path: whenever the former
\* begins the code of an instruction, it is the one the latter is at, and main
\* returns when the abstract main does.
SameControl ==
  /\ AtBlock => ins.of = ir_pc
  /\ phase = "run" /\ pc = 0 => ir_pc = 0

\* frame pointers of the activations, found as the epilogues will find them:
\* each through the saved frame pointer of the activation after it
FramePointer ==
  LET rbp[d \in DOMAIN frames] ==
        IF d = Len(frames) THEN regs["rbp"]
        ELSE IF rbp[d + 1] \in Addresses THEN mem[rbp[d + 1]] ELSE 0
  IN  rbp

\* the code of ENTER and LEAVE, where %rbp is not the frame pointer of the
\* current activation yet, or no longer
InBody == AtBlock /\ code[ins.of].op # "ENTER"

\* "en la llamada a funciones, se copian todos los parametros a la memoria"
\* (docs/Documentacion.tex:208): in every activation, suspended or current, the
\* slot of every variable holds the value the program has given to it.
SlotsHoldVariables ==
  InBody =>
    \A d \in DOMAIN frames :
      \A s \in DOMAIN frames[d].env \ {ResultOf} :
        LET a == FramePointer[d] + slots[frames[d].method].map[s[1]]
        IN  a \in Addresses /\ mem[a] = frames[d].env[s]

\* the same for global variables: docs/Documentacion.tex:133
GlobalsAreShared ==
  InBody =>
    \A s \in DOMAIN globals :
      LET map == slots[Current.method].map
          a   == regs["rbp"] + map[s[1]]
      IN  s[1] \in DOMAIN map => mem[a] = globals[s]

AtCall == AtBlock /\ code[ins.of].op = "CALL"

\* When a method is called, argument j is in its register, or, from the seventh
\* on, on the stack with the seventh on top: where ENTER and the ABI look for
\* it ("push in reverse order", object_code.c:303).
ArgumentsInPlace ==
  AtCall =>
    \A j \in DOMAIN args :
      args[j] = IF j <= 6 THEN regs[arg_regs[j]] ELSE mem[regs["rsp"] + (j - 7)]

\* Calls and returns leave the stack pointer where the frame ends: only the
\* stack arguments of a call being prepared are below.
StackBalanced ==
  InBody =>
    regs["rsp"] = regs["rbp"] - slots[Current.method].frame
                  - (IF Len(args) > 6 THEN Len(args) - 6 ELSE 0)

OddStackArguments(n) == n > 6 /\ n % 2 = 1

\* At a call, %rsp is aligned to 16 bytes as the ABI wants it ("Align stack to 16
\* bytes", object_code.c:106), unless this call or one that has not returned has an
\* odd number of stack arguments: nothing makes up for these.
CallsAligned ==
  LET arguments == {Len(args)} \cup {Len(Params(frames[d].method)) : d \in DOMAIN frames}
  IN  AtCall /\ ~(\E n \in arguments : OddStackArguments(n)) => regs["rsp"] % 2 = 0

\* a method whose name is cut has a return
CutReturn ==
  \E e, k \in DOMAIN code :
    Within(code, e, k) /\ code[k].op = "RET" /\ ~ShortName(code[e].var1.id)

\* Compilation ends, and the compiled program returns from main, or there is none
\* because of a return whose label was cut.
Terminates == <>(phase = "halted" \/ (phase = "unresolved" /\ CutReturn))
=============================================================================
