----------------------- MODULE IntermediateCode_proofs -----------------------
(***************************************************************************)
(* For programs of any size, any nesting, any number of arguments, with    *)
(* and without -opt: the generated code and the list of temporaries are    *)
(* well formed, every temporary lives inside one basic block, and every    *)
(* jump has one target, in its own method.                                 *)
(***************************************************************************)
EXTENDS IntermediateCode, Integers, SequenceTheorems, FunctionTheorems, FiniteSetTheorems,
        TLAPS

USE DEF Arg

-----------------------------------------------------------------------------
(* Types.                                                                  *)

AnyOperand == [kind : {"none", "name", "constant", "temp", "label"}, n : Nat]

Ops == {"LOADVAL", "LOAD", "STORE", "BINARY", "UNARY", "SHIFT_RIGHT", "RET",
        "LABEL", "JMP", "JMPF", "PARAM", "CALL", "ENTER", "LEAVE", "EXTERN"}

AnyInstr == [op : Ops, var1 : AnyOperand, var2 : AnyOperand, reg : AnyOperand]

Labelled == {"then", "else", "cond", "while"}

AnyBlock == [kind : {"method", "block"} \cup Labelled, returned : BOOLEAN,
             labels : Nat \X Nat]

\* an operand that may be there when n temporaries and l labels have been created
Made(o, n, l) ==
  /\ o.kind = "temp" => o.n \in 1 .. n
  /\ o.kind = "label" => o.n < l
  /\ o.kind \notin {"temp", "label"} => o.n = 0

AllMade(c, n, l) == \A i \in 1 .. Len(c) : \A f \in 1 .. 3 : Made(Arg(c[i], f), n, l)

LabelsMade(b, l) == b.kind \in Labelled => b.labels[1] < l /\ b.labels[2] < l

GenTypes ==
  /\ temp_counter \in Nat /\ label_counter \in Nat
  /\ code \in Seq(AnyInstr) /\ Len(code) <= MaxCode
  /\ AllMade(code, temp_counter, label_counter)
  /\ operands \in Seq(AnyOperand)
  /\ \A k \in 1 .. Len(operands) : /\ operands[k].kind \in {"name", "temp"}
                                   /\ Made(operands[k], temp_counter, label_counter)
  /\ open \in Seq(AnyBlock)
  /\ \A d \in 1 .. Len(open) : LabelsMade(open[d], label_counter)
  /\ phase \in {"gen", "optimize", "done"}

\* no two pending results are one temporary
PendingOnce ==
  \A j, k \in 1 .. Len(operands) :
    operands[j].kind = "temp" /\ operands[j] = operands[k] => j = k

\* the temporaries in instructions s: some of the pending operands o beyond the first
\* keep, each read once and before the block ends; and temporary n, if it is new, which
\* the last instruction fills; tc temporaries were there before
Reads(s, o, keep, tc, n) ==
  /\ \A j \in 1 .. Len(s) : \A f \in 1 .. 3 :
       Arg(s[j], f).kind = "temp" =>
         \/ /\ f # 3
            /\ \E k \in (keep + 1) .. Len(o) : Arg(s[j], f) = o[k]
            /\ \A h \in 1 .. (j - 1) : s[h].op \notin Boundary
         \/ f = 3 /\ j = Len(s) /\ n = tc + 1 /\ Arg(s[j], f) = Temp(n)
  /\ \A j, h \in 1 .. Len(s) : \A f, g \in 1 .. 3 :
       Arg(s[j], f).kind = "temp" /\ Arg(s[j], f) = Arg(s[h], g) => j = h /\ f = g
  /\ n = tc + 1 => Len(s) > 0 /\ Arg(s[Len(s)], 3) = Temp(n)

\* the operands pending afterwards
Leaves(p, o, keep, tc, n) ==
  /\ p \in Seq(AnyOperand)
  /\ \A k \in 1 .. Len(p) :
       \/ k <= keep /\ p[k] = o[k]
       \/ k = keep + 1 /\ p[k] = Name
       \/ k = keep + 1 /\ p[k] = Temp(n) /\ n = tc + 1

NoBoundary(s) == \A j \in 1 .. Len(s) : s[j].op \notin Boundary

\* a step that emits s
EmitStep(s, keep, n) ==
  /\ s \in Seq(AnyInstr)
  /\ keep \in 0 .. Len(operands)
  /\ n \in {temp_counter, temp_counter + 1}
  /\ Emit(s, n)
  /\ Reads(s, operands, keep, temp_counter, n)
  /\ Leaves(operands', operands, keep, temp_counter, n)
  /\ operands' = <<>> \/ NoBoundary(s)
  /\ AllMade(s, n, label_counter')

\* The parts of a sequence of instructions.
LEMMA CodeParts ==
  ASSUME NEW c \in Seq(AnyInstr), NEW s \in Seq(AnyInstr)
  PROVE  /\ c \o s \in Seq(AnyInstr)
         /\ Len(c) \in Nat /\ Len(s) \in Nat
         /\ Len(c \o s) = Len(c) + Len(s)
         /\ \A i \in 1 .. Len(c) : (c \o s)[i] = c[i]
         /\ \A i \in 1 .. Len(s) : (c \o s)[Len(c) + i] = s[i]
         /\ \A i \in 1 .. Len(c \o s) :
              \/ i \in 1 .. Len(c)
              \/ \E j \in 1 .. Len(s) : i = Len(c) + j
<1>1. /\ c \o s \in Seq(AnyInstr) /\ Len(c) \in Nat /\ Len(s) \in Nat
      /\ Len(c \o s) = Len(c) + Len(s)
      /\ \A i \in 1 .. Len(c) + Len(s) : (c \o s)[i] = IF i <= Len(c) THEN c[i] ELSE s[i - Len(c)]
  BY ConcatProperties, LenProperties
<1>2. \A a, b \in Nat : \A i \in 1 .. (a + b) : i \in 1 .. a \/ \E j \in 1 .. b : i = a + j
  <2>1. SUFFICES ASSUME NEW a \in Nat, NEW b \in Nat, NEW i \in 1 .. (a + b), i \notin 1 .. a
                 PROVE  \E j \in 1 .. b : i = a + j
    BY <2>1
  <2>2. i - a \in 1 .. b /\ i = a + (i - a)
    BY <2>1
  <2> QED
    BY <2>2
<1>3. PICK a \in Nat, b \in Nat : a = Len(c) /\ b = Len(s)
  BY <1>1
<1>4. \A i \in 1 .. a : (c \o s)[i] = c[i]
  BY <1>1, <1>3
<1>5. \A i \in 1 .. b : (c \o s)[a + i] = s[i]
  <2>1. SUFFICES ASSUME NEW i \in 1 .. b
                 PROVE  (c \o s)[a + i] = s[i]
    OBVIOUS
  <2>2. a + i \in 1 .. (a + b) /\ ~(a + i <= a) /\ (a + i) - a = i
    OBVIOUS
  <2> QED
    BY <1>1, <1>3, <2>2
<1>6. \A i \in 1 .. Len(c \o s) : i \in 1 .. Len(c) \/ \E j \in 1 .. Len(s) : i = Len(c) + j
  <2>1. \A i \in 1 .. (a + b) : i \in 1 .. a \/ \E j \in 1 .. b : i = a + j
    BY <1>2
  <2>2. Len(c \o s) = a + b
    BY <1>1, <1>3
  <2> QED
    BY <1>3, <2>1, <2>2, Zenon
<1> QED
  BY <1>1, <1>3, <1>4, <1>5, <1>6, Zenon

\* The operands the generator uses.
LEMMA OperandFacts ==
  /\ None \in AnyOperand /\ None.kind = "none" /\ None.n = 0
  /\ Name \in AnyOperand /\ Name.kind = "name" /\ Name.n = 0
  /\ Constant \in AnyOperand /\ Constant.kind = "constant" /\ Constant.n = 0
  /\ \A n \in Nat : /\ Temp(n) \in AnyOperand /\ Temp(n).kind = "temp" /\ Temp(n).n = n
                    /\ Label(n) \in AnyOperand /\ Label(n).kind = "label" /\ Label(n).n = n
  /\ \A n, l : Made(None, n, l) /\ Made(Name, n, l) /\ Made(Constant, n, l)
BY DEF AnyOperand, None, Name, Constant, Temp, Label, Operand, Made

LEMMA InstrFacts ==
  ASSUME NEW op \in Ops, NEW v1 \in AnyOperand, NEW v2 \in AnyOperand, NEW r \in AnyOperand
  PROVE  /\ Instr(op, v1, v2, r) \in AnyInstr
         /\ Instr(op, v1, v2, r).op = op /\ Instr(op, v1, v2, r).var1 = v1
         /\ Instr(op, v1, v2, r).var2 = v2 /\ Instr(op, v1, v2, r).reg = r
BY DEF Instr, AnyInstr

LEMMA InstrExists ==
  ASSUME NEW op \in Ops, NEW v1 \in AnyOperand, NEW v2 \in AnyOperand, NEW r \in AnyOperand
  PROVE  \E x \in AnyInstr : /\ x = Instr(op, v1, v2, r)
                             /\ x.op = op /\ x.var1 = v1 /\ x.var2 = v2 /\ x.reg = r
<1>1. /\ Instr(op, v1, v2, r) \in AnyInstr
      /\ Instr(op, v1, v2, r).op = op /\ Instr(op, v1, v2, r).var1 = v1
      /\ Instr(op, v1, v2, r).var2 = v2 /\ Instr(op, v1, v2, r).reg = r
  BY InstrFacts
<1> QED
  BY <1>1, Zenon

\* One instruction.
LEMMA OneInstr ==
  ASSUME NEW x \in AnyInstr
  PROVE  <<x>> \in Seq(AnyInstr) /\ Len(<<x>>) = 1 /\ <<x>>[1] = x
  OBVIOUS

LEMMA ReadsOne ==
  ASSUME NEW o \in Seq(AnyOperand), NEW tc \in Nat, NEW keep \in 0 .. Len(o),
         NEW n \in {tc, tc + 1}, NEW x \in AnyInstr,
         \A k \in 1 .. Len(o) : o[k].kind = "temp" => o[k].n \in 1 .. tc,
         \A f \in 1 .. 2 : Arg(x, f).kind = "temp" =>
                             \E k \in (keep + 1) .. Len(o) : Arg(x, f) = o[k],
         x.var1.kind = "temp" => x.var1 # x.var2,
         IF n = tc + 1 THEN x.reg = Temp(n) ELSE x.reg.kind # "temp"
  PROVE  Reads(<<x>>, o, keep, tc, n)
<1>1. PICK s : s = <<x>> /\ s \in Seq(AnyInstr) /\ Len(s) = 1 /\ s[1] = x
  BY OneInstr
<1>2. \A f \in 1 .. 3 : f = 1 \/ f = 2 \/ f = 3
  OBVIOUS
<1>3. \A f \in 1 .. 3 : Arg(x, f).kind = "temp" =>
        \/ f # 3 /\ \E k \in (keep + 1) .. Len(o) : Arg(x, f) = o[k]
        \/ f = 3 /\ n = tc + 1 /\ Arg(x, f) = Temp(n)
  BY <1>2
<1>4. \A f, g \in 1 .. 3 : Arg(x, f).kind = "temp" /\ Arg(x, f) = Arg(x, g) => f = g
  <2>1. \A f \in 1 .. 2 : Arg(x, f).kind = "temp" => Arg(x, f).n <= tc
    OBVIOUS
  <2>2. x.reg.kind = "temp" => x.reg.n = tc + 1
    BY DEF Temp, Operand
  <2> QED
    BY <1>2, <2>1, <2>2
<1> QED
  BY <1>1, <1>3, <1>4 DEF Reads, Temp, Operand

-----------------------------------------------------------------------------
(* What the actions emit.                                                  *)

Control == {"LABEL", "JMP", "JMPF", "ENTER", "LEAVE"}

Plain(s) == \A j \in 1 .. Len(s) : s[j].op \notin Control

\* the blocks that are open keep their kinds and labels
OpenSame ==
  /\ open' \in Seq(AnyBlock) /\ Len(open') = Len(open)
  /\ \A d \in 1 .. Len(open) : /\ open'[d].kind = open[d].kind
                               /\ open'[d].labels = open[d].labels

\* a step that leaves the control structure alone
PlainStep ==
  /\ \E s \in Seq(AnyInstr), keep \in 0 .. Len(operands), n \in Nat :
       EmitStep(s, keep, n) /\ Plain(s)
  /\ label_counter' = label_counter /\ OpenSame /\ phase' = phase

LEMMA OpenUnchanged ==
  ASSUME GenTypes, open' = open
  PROVE  OpenSame
BY DEF GenTypes, OpenSame

\* The pending operands are made of name and temporaries that exist.
LEMMA PendingFacts ==
  ASSUME GenTypes, NEW k \in 1 .. Len(operands)
  PROVE  /\ operands[k] \in AnyOperand
         /\ operands[k].kind = "temp" => operands[k].n \in 1 .. temp_counter
         /\ operands[k].kind # "temp" => operands[k] = Name
         /\ Made(operands[k], temp_counter + 1, label_counter)
<1>1. operands[k] \in AnyOperand /\ operands[k].kind \in {"name", "temp"}
      /\ Made(operands[k], temp_counter, label_counter) /\ temp_counter \in Nat
  BY DEF GenTypes
<1> QED
  BY <1>1 DEF AnyOperand, Made, Name, Operand

\* What is pending when a temporary replaces the last k results.
LEMMA LeavesResult ==
  ASSUME NEW o \in Seq(AnyOperand), NEW k \in 0 .. Len(o), NEW tc \in Nat
  PROVE  Leaves(Append(SubSeq(o, 1, Len(o) - k), Temp(tc + 1)), o, Len(o) - k, tc, tc + 1)
<1>1. PICK m \in Nat : m = Len(o) - k /\ m <= Len(o)
  <2>1. Len(o) - k \in Nat /\ Len(o) - k <= Len(o)
    BY LenProperties
  <2> QED
    BY <2>1, Zenon
<1>2. \A i \in 1 .. m : o[i] \in AnyOperand
  BY <1>1, ElementOfSeq
<1>3. PICK q \in Seq(AnyOperand) : /\ q = SubSeq(o, 1, m) /\ Len(q) = m
                                   /\ \A i \in 1 .. m : q[i] = o[i]
  <2>1. /\ SubSeq(o, 1, m) \in Seq(AnyOperand) /\ Len(SubSeq(o, 1, m)) = m
        /\ \A i \in 1 .. m : SubSeq(o, 1, m)[i] = o[i]
    BY <1>1, <1>2, SubSeqProperties
  <2> QED
    BY <2>1, Zenon
<1>4. PICK t \in AnyOperand : t = Temp(tc + 1)
  <2>1. Temp(tc + 1) \in AnyOperand
    BY OperandFacts
  <2> QED
    BY <2>1, Zenon
<1>5. /\ Append(q, t) \in Seq(AnyOperand) /\ Len(Append(q, t)) = m + 1
      /\ \A i \in 1 .. m : Append(q, t)[i] = q[i]
      /\ Append(q, t)[m + 1] = t
  BY <1>3, AppendProperties
<1>6. \A i \in 1 .. (m + 1) : i \in 1 .. m \/ i = m + 1
  OBVIOUS
<1> QED
  BY <1>1, <1>3, <1>4, <1>5, <1>6 DEF Leaves

\* An expression: its operands are read, its result is pending.
LEMMA ResultStep ==
  ASSUME GenTypes, NEW k \in 0 .. Len(operands), NEW s \in Seq(AnyInstr), Result(k, s),
         Reads(s, operands, Len(operands) - k, temp_counter, temp_counter + 1),
         Plain(s), NoBoundary(s), AllMade(s, temp_counter + 1, label_counter)
  PROVE  PlainStep
<1>1. /\ operands \in Seq(AnyOperand) /\ temp_counter \in Nat
      /\ Emit(s, temp_counter + 1)
      /\ operands' = Append(SubSeq(operands, 1, Len(operands) - k), Temp(temp_counter + 1))
      /\ label_counter' = label_counter /\ open' = open /\ phase' = phase
  BY DEF GenTypes, Result
<1>2. PICK o \in Seq(AnyOperand), tc \in Nat : o = operands /\ tc = temp_counter
  BY <1>1
<1>3. Leaves(operands', operands, Len(operands) - k, temp_counter, temp_counter + 1)
  BY <1>1, <1>2, LeavesResult
<1>4. Len(operands) - k \in 0 .. Len(operands)
  BY <1>1, LenProperties
<1>5. EmitStep(s, Len(operands) - k, temp_counter + 1)
  BY <1>1, <1>3, <1>4 DEF EmitStep
<1> QED
  <2>1. temp_counter + 1 \in Nat /\ OpenSame
    BY <1>1, OpenUnchanged
  <2> QED
    BY <1>1, <1>4, <1>5, <2>1, Zenon DEF PlainStep

\* An expression of one instruction.
LEMMA ResultOne ==
  ASSUME GenTypes, NEW k \in 0 .. Len(operands), NEW x \in AnyInstr, Result(k, <<x>>),
         \A f \in 1 .. 2 : Arg(x, f).kind = "temp" =>
            \E j \in (Len(operands) - k + 1) .. Len(operands) : Arg(x, f) = operands[j],
         x.var1.kind = "temp" => x.var1 # x.var2,
         x.reg = Temp(temp_counter + 1),
         x.op \notin Control \cup Boundary,
         \A f \in 1 .. 2 : Made(Arg(x, f), temp_counter + 1, label_counter)
  PROVE  PlainStep
<1>1. /\ operands \in Seq(AnyOperand) /\ temp_counter \in Nat
      /\ \A j \in 1 .. Len(operands) : operands[j].kind = "temp" => operands[j].n \in 1 .. temp_counter
  BY PendingFacts DEF GenTypes
<1>2. PICK o \in Seq(AnyOperand), tc \in Nat : o = operands /\ tc = temp_counter
  BY <1>1
<1>3. Len(o) - k \in 0 .. Len(o)
  BY <1>2, LenProperties
<1>4. Reads(<<x>>, operands, Len(operands) - k, temp_counter, temp_counter + 1)
  BY <1>1, <1>2, <1>3, ReadsOne
<1>5. PICK s \in Seq(AnyInstr) : s = <<x>> /\ Len(s) = 1 /\ s[1] = x
  BY OneInstr
<1>6. Made(x.reg, temp_counter + 1, label_counter)
  BY <1>1 DEF Made, Temp, Operand
<1>7. AllMade(s, temp_counter + 1, label_counter)
  <2>1. \A f \in 1 .. 3 : f \in 1 .. 2 \/ f = 3
    OBVIOUS
  <2> QED
    BY <1>5, <1>6, <2>1 DEF AllMade
<1>8. /\ Result(k, s) /\ Plain(s) /\ NoBoundary(s)
      /\ Reads(s, operands, Len(operands) - k, temp_counter, temp_counter + 1)
  BY <1>4, <1>5 DEF Plain, NoBoundary
<1> QED
  BY <1>7, <1>8, ResultStep

LEMMA LiteralStep ==
  ASSUME GenTypes, GenLiteral
  PROVE  PlainStep
<1>1. temp_counter + 1 \in Nat /\ Len(operands) \in Nat
  BY LenProperties DEF GenTypes
<1>2. PICK x \in AnyInstr : /\ x = Instr("LOADVAL", Constant, None, Temp(temp_counter + 1))
                            /\ x.op = "LOADVAL" /\ x.var1 = Constant /\ x.var2 = None
                            /\ x.reg = Temp(temp_counter + 1)
  <2>1. /\ "LOADVAL" \in Ops /\ Temp(temp_counter + 1) \in AnyOperand
        /\ None \in AnyOperand /\ Constant \in AnyOperand
    BY <1>1, OperandFacts DEF Ops
  <2> QED
    BY <2>1, InstrExists
<1>3. Result(0, <<x>>)
  BY <1>2 DEF GenLiteral
<1>4. \A f \in 1 .. 2 : Arg(x, f).kind # "temp" /\ Made(Arg(x, f), temp_counter + 1, label_counter)
  BY <1>2, OperandFacts
<1>5. x.var1.kind # "temp" /\ x.op \notin Control \cup Boundary /\ 0 \in 0 .. Len(operands)
  BY <1>1, <1>2, OperandFacts DEF Control, Boundary
<1> QED
  BY <1>2, <1>3, <1>4, <1>5, ResultOne

\* The operands of an expression.
LEMMA LastOperands ==
  ASSUME GenTypes, PendingOnce, NEW i \in Nat, i < Len(operands)
  PROVE  /\ Len(operands) - i \in 1 .. Len(operands)
         /\ Pending(i) = operands[Len(operands) - i]
         /\ Pending(i) \in AnyOperand
         /\ Made(Pending(i), temp_counter + 1, label_counter)
<1>1. Len(operands) - i \in 1 .. Len(operands)
  BY LenProperties DEF GenTypes
<1> QED
  BY <1>1, PendingFacts DEF Pending

LEMMA BinaryStep ==
  ASSUME GenTypes, PendingOnce, GenBinary
  PROVE  PlainStep
<1>1. /\ temp_counter \in Nat /\ Len(operands) \in Nat /\ Len(operands) >= 2
      /\ operands \in Seq(AnyOperand)
  BY LenProperties DEF GenTypes, GenBinary
<1>2. PICK x \in AnyInstr : /\ x = Instr("BINARY", Pending(1), Pending(0), Temp(temp_counter + 1))
                            /\ x.op = "BINARY" /\ x.var1 = Pending(1) /\ x.var2 = Pending(0)
                            /\ x.reg = Temp(temp_counter + 1)
  <2>1. "BINARY" \in Ops /\ Temp(temp_counter + 1) \in AnyOperand
    BY <1>1, OperandFacts DEF Ops
  <2>2. Pending(1) \in AnyOperand /\ Pending(0) \in AnyOperand
    BY <1>1, LastOperands
  <2> QED
    BY <2>1, <2>2, InstrExists
<1>3. Result(2, <<x>>)
  BY <1>2 DEF GenBinary
<1>4. x.var1 = operands[Len(operands) - 1] /\ x.var2 = operands[Len(operands)]
      /\ Made(x.var1, temp_counter + 1, label_counter)
      /\ Made(x.var2, temp_counter + 1, label_counter)
      /\ x.op = "BINARY" /\ x.reg = Temp(temp_counter + 1)
  BY <1>1, <1>2, LastOperands DEF Instr
<1>5. \A f \in 1 .. 2 : \E j \in (Len(operands) - 2 + 1) .. Len(operands) : Arg(x, f) = operands[j]
  <2>1. /\ Len(operands) - 1 \in (Len(operands) - 2 + 1) .. Len(operands)
        /\ Len(operands) \in (Len(operands) - 2 + 1) .. Len(operands)
    BY <1>1
  <2> QED
    BY <1>4, <2>1
<1>6. x.var1.kind = "temp" => x.var1 # x.var2
  BY <1>1, <1>4 DEF PendingOnce
<1>7. \A f \in 1 .. 2 : Made(Arg(x, f), temp_counter + 1, label_counter)
  BY <1>4
<1>8. 2 \in 0 .. Len(operands)
  BY <1>1
<1> QED
  BY <1>3, <1>4, <1>5, <1>6, <1>7, <1>8, ResultOne DEF Control, Boundary

LEMMA UnaryStep ==
  ASSUME GenTypes, PendingOnce, GenUnary \/ GenShift
  PROVE  PlainStep
<1>1. /\ temp_counter \in Nat /\ Len(operands) \in Nat /\ Len(operands) >= 1
      /\ operands \in Seq(AnyOperand)
  BY LenProperties DEF GenTypes, GenUnary, GenShift
<1>2. PICK x \in AnyInstr : /\ x.op \in {"UNARY", "SHIFT_RIGHT"} /\ x.var1 = Pending(0)
                            /\ x.var2 \in {None, Constant} /\ x.reg = Temp(temp_counter + 1)
                            /\ Result(1, <<x>>)
  <2>1. /\ "UNARY" \in Ops /\ "SHIFT_RIGHT" \in Ops /\ Temp(temp_counter + 1) \in AnyOperand
        /\ Pending(0) \in AnyOperand /\ None \in AnyOperand /\ Constant \in AnyOperand
    BY <1>1, OperandFacts, LastOperands DEF Ops
  <2>2. PICK u \in AnyInstr : /\ u = Instr("UNARY", Pending(0), None, Temp(temp_counter + 1))
                              /\ u.op = "UNARY" /\ u.var1 = Pending(0) /\ u.var2 = None
                              /\ u.reg = Temp(temp_counter + 1)
    BY <2>1, InstrExists
  <2>3. PICK v \in AnyInstr : /\ v = Instr("SHIFT_RIGHT", Pending(0), Constant, Temp(temp_counter + 1))
                              /\ v.op = "SHIFT_RIGHT" /\ v.var1 = Pending(0) /\ v.var2 = Constant
                              /\ v.reg = Temp(temp_counter + 1)
    BY <2>1, InstrExists
  <2>4. CASE GenUnary
    BY <2>2, <2>4 DEF GenUnary
  <2>5. CASE GenShift
    BY <2>3, <2>5 DEF GenShift
  <2> QED
    BY <2>4, <2>5
<1>4. x.var1 = operands[Len(operands)] /\ x.var2 \in {None, Constant}
      /\ Made(x.var1, temp_counter + 1, label_counter)
      /\ x.op \in {"UNARY", "SHIFT_RIGHT"} /\ x.reg = Temp(temp_counter + 1)
  BY <1>1, <1>2, LastOperands DEF Instr
<1>5. x.var2.kind # "temp" /\ Made(x.var2, temp_counter + 1, label_counter)
  BY <1>4 DEF None, Constant, Operand, Made
<1>6. \A f \in 1 .. 2 : Arg(x, f).kind = "temp" =>
        \E j \in (Len(operands) - 1 + 1) .. Len(operands) : Arg(x, f) = operands[j]
  <2>1. Len(operands) \in (Len(operands) - 1 + 1) .. Len(operands)
    BY <1>1
  <2> QED
    BY <1>4, <1>5, <2>1
<1>7. \A f \in 1 .. 2 : Made(Arg(x, f), temp_counter + 1, label_counter)
  BY <1>4, <1>5
<1>8. 1 \in 0 .. Len(operands)
  BY <1>1
<1> QED
  BY <1>2, <1>4, <1>5, <1>6, <1>7, <1>8, ResultOne DEF Control, Boundary

\* The code of a call: PARAMs that read the last n results, then the CALL.
LEMMA CallCodeFacts ==
  ASSUME GenTypes, PendingOnce, NEW n \in Nat, n <= Len(operands)
  PROVE  /\ CallCode(n) \in Seq(AnyInstr)
         /\ Reads(CallCode(n), operands, Len(operands) - n, temp_counter, temp_counter + 1)
         /\ Plain(CallCode(n)) /\ NoBoundary(CallCode(n))
         /\ AllMade(CallCode(n), temp_counter + 1, label_counter)
<1>1. /\ temp_counter \in Nat /\ Len(operands) \in Nat /\ operands \in Seq(AnyOperand)
      /\ temp_counter + 1 \in Nat
  BY LenProperties DEF GenTypes
<1> DEFINE param(i) == Instr("PARAM", Pending(n - i), None, None)
           last == Instr("CALL", Name, None, Temp(temp_counter + 1))
           ps == [i \in 1 .. n |-> param(i)]
<1>2. \A i \in 1 .. n : /\ Len(operands) - (n - i) \in (Len(operands) - n + 1) .. Len(operands)
                        /\ Pending(n - i) = operands[Len(operands) - (n - i)]
                        /\ Pending(n - i) \in AnyOperand
                        /\ Made(Pending(n - i), temp_counter + 1, label_counter)
  BY <1>1, LastOperands
<1>3. \A i \in 1 .. n : /\ param(i) \in AnyInstr /\ param(i).op = "PARAM"
                        /\ param(i).var1 = Pending(n - i) /\ param(i).var2 = None
                        /\ param(i).reg = None
  <2>1. "PARAM" \in Ops /\ None \in AnyOperand
    BY OperandFacts DEF Ops
  <2> QED
    BY <1>2, <2>1, InstrFacts
<1>4. /\ last \in AnyInstr /\ last.op = "CALL" /\ last.var1 = Name /\ last.var2 = None
      /\ last.reg = Temp(temp_counter + 1)
  <2>1. "CALL" \in Ops /\ None \in AnyOperand /\ Name \in AnyOperand
        /\ Temp(temp_counter + 1) \in AnyOperand
    BY <1>1, OperandFacts DEF Ops
  <2> QED
    BY <2>1, InstrFacts
<1>5. ps \in Seq(AnyInstr) /\ Len(ps) = n /\ \A i \in 1 .. n : ps[i] = param(i)
  BY <1>3
<1>6. CallCode(n) = Append(ps, last)
  BY DEF CallCode
<1> HIDE DEF param, last, ps
<1>7. PICK s \in Seq(AnyInstr) : /\ s = CallCode(n) /\ Len(s) = n + 1
                                 /\ \A i \in 1 .. n : s[i] = param(i)
                                 /\ s[n + 1] = last
  <2>1. /\ Append(ps, last) \in Seq(AnyInstr) /\ Len(Append(ps, last)) = n + 1
        /\ \A i \in 1 .. n : Append(ps, last)[i] = ps[i]
        /\ Append(ps, last)[n + 1] = last
    BY <1>4, <1>5, AppendProperties
  <2>2. \A i \in 1 .. n : Append(ps, last)[i] = param(i)
    BY <1>5, <2>1
  <2> QED
    BY <1>6, <2>1, <2>2, Zenon
<1>8. \A j \in 1 .. Len(s) : j \in 1 .. n \/ j = n + 1
  BY <1>7
<1>9. Plain(s) /\ NoBoundary(s)
  BY <1>3, <1>4, <1>7, <1>8 DEF Plain, NoBoundary, Control, Boundary
<1>10. AllMade(s, temp_counter + 1, label_counter)
  <2>1. \A i \in 1 .. n, f \in 1 .. 3 : Made(Arg(s[i], f), temp_counter + 1, label_counter)
    BY <1>2, <1>3, <1>7, OperandFacts
  <2>2. \A f \in 1 .. 3 : Made(Arg(s[n + 1], f), temp_counter + 1, label_counter)
    <3>1. Made(Temp(temp_counter + 1), temp_counter + 1, label_counter)
      BY <1>1, OperandFacts DEF Made
    <3> QED
      BY <1>4, <1>7, <3>1, OperandFacts
  <2> QED
    BY <1>8, <2>1, <2>2 DEF AllMade
<1>11. Reads(s, operands, Len(operands) - n, temp_counter, temp_counter + 1)
  <2>1. \A i \in 1 .. n : \A f \in 1 .. 3 :
          Arg(s[i], f).kind = "temp" => f = 1 /\ Arg(s[i], f) = operands[Len(operands) - (n - i)]
    BY <1>2, <1>3, <1>7, OperandFacts
  <2>2. \A f \in 1 .. 3 : Arg(s[n + 1], f).kind = "temp" => f = 3 /\ Arg(s[n + 1], f) = Temp(temp_counter + 1)
    BY <1>4, <1>7, OperandFacts
  <2>3. Arg(s[n + 1], 3) = Temp(temp_counter + 1)
    BY <1>4, <1>7
  <2>4. \A i \in 1 .. n : operands[Len(operands) - (n - i)].kind = "temp" =>
           operands[Len(operands) - (n - i)] # Temp(temp_counter + 1)
    <3>1. \A i \in 1 .. n : Len(operands) - (n - i) \in 1 .. Len(operands)
      BY <1>1
    <3>2. Temp(temp_counter + 1).n = temp_counter + 1
      BY <1>1, OperandFacts
    <3> QED
      BY <1>1, <3>1, <3>2, PendingFacts
  <2>5. \A i, h \in 1 .. n : operands[Len(operands) - (n - i)].kind = "temp"
                            /\ operands[Len(operands) - (n - i)] = operands[Len(operands) - (n - h)] => i = h
    <3>1. \A i, h \in 1 .. n : Len(operands) - (n - i) = Len(operands) - (n - h) => i = h
      BY <1>1
    <3>2. \A i \in 1 .. n : Len(operands) - (n - i) \in 1 .. Len(operands)
      BY <1>1
    <3> QED
      BY <3>1, <3>2 DEF PendingOnce
  <2>6. \A j \in 1 .. Len(s) : \A f \in 1 .. 3 :
          Arg(s[j], f).kind = "temp" =>
            \/ f # 3 /\ \E k \in (Len(operands) - n + 1) .. Len(operands) : Arg(s[j], f) = operands[k]
            \/ f = 3 /\ j = Len(s) /\ Arg(s[j], f) = Temp(temp_counter + 1)
    BY <1>2, <1>7, <1>8, <2>1, <2>2
  <2>7. \A j, h \in 1 .. Len(s) : \A f, g \in 1 .. 3 :
          Arg(s[j], f).kind = "temp" /\ Arg(s[j], f) = Arg(s[h], g) => j = h /\ f = g
    <3>1. SUFFICES ASSUME NEW j \in 1 .. Len(s), NEW h \in 1 .. Len(s), NEW f \in 1 .. 3,
                          NEW g \in 1 .. 3,
                          Arg(s[j], f).kind = "temp", Arg(s[j], f) = Arg(s[h], g)
                   PROVE  j = h /\ f = g
      OBVIOUS
    <3>2. CASE j \in 1 .. n /\ h \in 1 .. n
      <4>1. f = 1 /\ Arg(s[j], f) = operands[Len(operands) - (n - j)]
        BY <2>1, <3>1, <3>2
      <4>2. g = 1 /\ Arg(s[h], g) = operands[Len(operands) - (n - h)]
        BY <2>1, <3>1, <3>2
      <4>3. j = h
        BY <2>5, <3>1, <3>2, <4>1, <4>2
      <4> QED
        BY <4>1, <4>2, <4>3
    <3>3. CASE j = n + 1 /\ h = n + 1
      BY <2>2, <3>1, <3>3
    <3>4. CASE j \in 1 .. n /\ h = n + 1
      <4>1. Arg(s[j], f) # Temp(temp_counter + 1)
        BY <2>1, <2>4, <3>1, <3>4
      <4>2. Arg(s[h], g) = Temp(temp_counter + 1)
        BY <2>2, <3>1, <3>4
      <4> QED
        BY <3>1, <4>1, <4>2
    <3>5. CASE j = n + 1 /\ h \in 1 .. n
      <4>1. Arg(s[h], g) # Temp(temp_counter + 1)
        BY <2>1, <2>4, <3>1, <3>5
      <4>2. Arg(s[j], f) = Temp(temp_counter + 1)
        BY <2>2, <3>1, <3>5
      <4> QED
        BY <3>1, <4>1, <4>2
    <3> QED
      BY <1>8, <3>2, <3>3, <3>4, <3>5
  <2>8. \A h \in 1 .. Len(s) : s[h].op \notin Boundary
    BY <1>9 DEF NoBoundary
  <2>9. \A j \in 1 .. Len(s) : \A h \in 1 .. (j - 1) : s[h].op \notin Boundary
    BY <2>8
  <2>10. Len(s) > 0 /\ Arg(s[Len(s)], 3) = Temp(temp_counter + 1)
    BY <1>7, <2>3
  <2> QED
    BY <2>6, <2>7, <2>9, <2>10, Zenon DEF Reads
<1> QED
  BY <1>7, <1>9, <1>10, <1>11

LEMMA CallStep ==
  ASSUME GenTypes, PendingOnce, NEW n \in Nat, GenCall(n)
  PROVE  PlainStep
<1>1. Len(operands) \in Nat /\ n <= Len(operands) /\ Result(n, CallCode(n))
  BY LenProperties DEF GenTypes, GenCall
<1>2. n \in 0 .. Len(operands)
  BY <1>1
<1>3. PICK s \in Seq(AnyInstr) : s = CallCode(n)
  BY <1>1, CallCodeFacts, Zenon
<1>4. /\ Reads(s, operands, Len(operands) - n, temp_counter, temp_counter + 1)
      /\ Plain(s) /\ NoBoundary(s) /\ AllMade(s, temp_counter + 1, label_counter)
      /\ Result(n, s)
  BY <1>1, <1>3, CallCodeFacts, Zenon
<1> QED
  BY <1>2, <1>4, ResultStep

\* Statements take all the operands that are pending.
LEMMA LeavesNothing ==
  ASSUME operands' = <<>>, NEW keep, NEW tc, NEW n
  PROVE  Leaves(operands', operands, keep, tc, n)
BY DEF Leaves

LEMMA CallStatementStep ==
  ASSUME GenTypes, PendingOnce, NEW n \in Nat, GenCallStatement(n)
  PROVE  PlainStep
<1>1. /\ Len(operands) \in Nat /\ n = Len(operands) /\ n <= Len(operands) /\ Emit(CallCode(n), temp_counter + 1)
      /\ operands' = <<>> /\ label_counter' = label_counter /\ open' = open /\ phase' = phase
      /\ temp_counter + 1 \in Nat
  BY LenProperties DEF GenTypes, GenCallStatement
<1>2. PICK s \in Seq(AnyInstr) : s = CallCode(n)
  BY <1>1, CallCodeFacts, Zenon
<1>3. /\ Reads(s, operands, Len(operands) - n, temp_counter, temp_counter + 1)
      /\ Plain(s) /\ AllMade(s, temp_counter + 1, label_counter)
  BY <1>1, <1>2, CallCodeFacts
<1>4. Len(operands) - n \in 0 .. Len(operands)
  BY <1>1
<1>5. EmitStep(s, Len(operands) - n, temp_counter + 1)
  BY <1>1, <1>2, <1>3, <1>4, LeavesNothing DEF EmitStep
<1> QED
  <2>1. OpenSame
    BY <1>1, OpenUnchanged
  <2> QED
    BY <1>1, <1>3, <1>4, <1>5, <2>1, Zenon DEF PlainStep

\* One instruction that fills no temporary.
LEMMA EmitOne ==
  ASSUME GenTypes, NEW keep \in 0 .. Len(operands), NEW x \in AnyInstr,
         Emit(<<x>>, temp_counter),
         Leaves(operands', operands, keep, temp_counter, temp_counter),
         \A f \in 1 .. 2 : Arg(x, f).kind = "temp" =>
            \E j \in (keep + 1) .. Len(operands) : Arg(x, f) = operands[j],
         x.var1.kind = "temp" => x.var1 # x.var2,
         x.reg.kind # "temp",
         operands' = <<>> \/ x.op \notin Boundary,
         \A f \in 1 .. 3 : Made(Arg(x, f), temp_counter, label_counter')
  PROVE  \E s \in Seq(AnyInstr), n \in Nat :
           /\ EmitStep(s, keep, n)
           /\ Len(s) = 1 /\ s[1] = x
<1>1. /\ operands \in Seq(AnyOperand) /\ temp_counter \in Nat
      /\ \A j \in 1 .. Len(operands) : operands[j].kind = "temp" => operands[j].n \in 1 .. temp_counter
  BY PendingFacts DEF GenTypes
<1>2. PICK o \in Seq(AnyOperand), tc \in Nat : o = operands /\ tc = temp_counter
  BY <1>1
<1>3. ~(tc = tc + 1)
  OBVIOUS
<1>4. Reads(<<x>>, operands, keep, temp_counter, temp_counter)
  BY <1>1, <1>2, <1>3, ReadsOne
<1>5. PICK s \in Seq(AnyInstr) : s = <<x>> /\ Len(s) = 1 /\ s[1] = x
  BY OneInstr
<1>6. AllMade(s, temp_counter, label_counter') /\ (operands' = <<>> \/ NoBoundary(s))
  BY <1>5 DEF AllMade, NoBoundary
<1>7. EmitStep(s, keep, temp_counter)
  BY <1>4, <1>5, <1>6 DEF EmitStep
<1> QED
  BY <1>1, <1>5, <1>7, Zenon

LEMMA IdStep ==
  ASSUME GenTypes, GenId
  PROVE  PlainStep
<1>1. /\ operands \in Seq(AnyOperand) /\ Len(operands) \in Nat
      /\ Emit(<<Instr("LOAD", Name, None, None)>>, temp_counter)
      /\ operands' = Append(operands, Name)
      /\ label_counter' = label_counter /\ open' = open /\ phase' = phase
  BY LenProperties DEF GenTypes, GenId
<1>2. PICK x \in AnyInstr : /\ x = Instr("LOAD", Name, None, None)
                            /\ x.op = "LOAD" /\ x.var1 = Name /\ x.var2 = None /\ x.reg = None
  <2>1. "LOAD" \in Ops /\ None \in AnyOperand /\ Name \in AnyOperand
    BY OperandFacts DEF Ops
  <2> QED
    BY <2>1, InstrExists
<1>3. PICK keep \in Nat : keep = Len(operands) /\ keep \in 0 .. Len(operands)
  <2>1. Len(operands) \in 0 .. Len(operands)
    BY <1>1
  <2> QED
    BY <1>1, <2>1, Zenon
<1>4. Leaves(operands', operands, keep, temp_counter, temp_counter)
  <2>1. /\ operands' \in Seq(AnyOperand) /\ Len(operands') = keep + 1
        /\ \A k \in 1 .. keep : operands'[k] = operands[k]
        /\ operands'[keep + 1] = Name
    <3>1. PICK o \in Seq(AnyOperand), e \in AnyOperand : o = operands /\ e = Name
      BY <1>1, OperandFacts
    <3> QED
      BY <1>1, <1>3, <3>1, AppendProperties
  <2>2. \A k \in 1 .. (keep + 1) : k \in 1 .. keep \/ k = keep + 1
    OBVIOUS
  <2> QED
    BY <2>1, <2>2 DEF Leaves
<1>5. \A f \in 1 .. 3 : Arg(x, f).kind # "temp" /\ Made(Arg(x, f), temp_counter, label_counter')
  BY <1>2, OperandFacts
<1>6. x.var1.kind # "temp" /\ x.reg.kind # "temp" /\ x.op \notin Control \cup Boundary
  BY <1>2, OperandFacts DEF Control, Boundary
<1>7. PICK s \in Seq(AnyInstr), n \in Nat : EmitStep(s, keep, n) /\ Len(s) = 1 /\ s[1] = x
  BY <1>1, <1>2, <1>3, <1>4, <1>5, <1>6, EmitOne
<1>8. Plain(s) /\ OpenSame
  BY <1>1, <1>6, <1>7, OpenUnchanged DEF Plain
<1> QED
  BY <1>1, <1>3, <1>7, <1>8, Zenon DEF PlainStep

\* A statement of one instruction, whose first operand is the value of the statement's
\* expression or a leaf.
LEMMA StatementOne ==
  ASSUME GenTypes, NEW x \in AnyInstr, Emit(<<x>>, temp_counter), operands' = <<>>,
         \/ Len(operands) = 1 /\ x.var1 = Pending(0)
         \/ x.var1.kind # "temp" /\ Made(x.var1, temp_counter, label_counter'),
         \A f \in 2 .. 3 : Arg(x, f).kind # "temp" /\ Made(Arg(x, f), temp_counter, label_counter'),
         label_counter' \in Nat, label_counter <= label_counter'
  PROVE  \E s \in Seq(AnyInstr), keep \in 0 .. Len(operands), n \in Nat :
           /\ EmitStep(s, keep, n)
           /\ Len(s) = 1 /\ s[1] = x
<1>1. Len(operands) \in Nat /\ 0 \in 0 .. Len(operands) /\ temp_counter \in Nat /\ label_counter \in Nat
  <2>1. Len(operands) \in Nat /\ temp_counter \in Nat /\ label_counter \in Nat
    BY LenProperties DEF GenTypes
  <2> QED
    BY <2>1
<1>2. \A f \in 1 .. 3 : f = 1 \/ f \in 2 .. 3
  OBVIOUS
<1>3. CASE Len(operands) = 1 /\ x.var1 = Pending(0)
  <2>1. x.var1 = operands[1] /\ 1 \in 1 .. Len(operands)
    BY <1>3 DEF Pending
  <2>2. operands[1] \in AnyOperand /\ Made(operands[1], temp_counter, label_counter)
    BY <2>1 DEF GenTypes
  <2>3. Made(x.var1, temp_counter, label_counter')
    BY <1>1, <2>1, <2>2 DEF Made, AnyOperand
  <2>4. \A f \in 1 .. 3 : Made(Arg(x, f), temp_counter, label_counter')
    BY <1>2, <2>3
  <2>5. \A f \in 1 .. 2 : Arg(x, f).kind = "temp" => \E j \in (0 + 1) .. Len(operands) : Arg(x, f) = operands[j]
    <3>1. \A f \in 1 .. 2 : f = 1 \/ f \in 2 .. 3
      OBVIOUS
    <3> QED
      BY <2>1, <3>1
  <2>6. x.var2.kind # "temp" /\ x.reg.kind # "temp"
    <3>1. 2 \in 2 .. 3 /\ 3 \in 2 .. 3
      OBVIOUS
    <3> QED
      BY <3>1
  <2>7. PICK s \in Seq(AnyInstr), n \in Nat : EmitStep(s, 0, n) /\ Len(s) = 1 /\ s[1] = x
    BY <1>1, <2>4, <2>5, <2>6, EmitOne, LeavesNothing
  <2> QED
    BY <1>1, <2>7, Zenon
<1>4. CASE x.var1.kind # "temp" /\ Made(x.var1, temp_counter, label_counter')
  <2>1. \A f \in 1 .. 3 : Arg(x, f).kind # "temp" /\ Made(Arg(x, f), temp_counter, label_counter')
    BY <1>2, <1>4
  <2>2. x.reg.kind # "temp" /\ \A f \in 1 .. 2 : Arg(x, f).kind # "temp"
    <3>1. 3 \in 1 .. 3 /\ \A f \in 1 .. 2 : f \in 1 .. 3
      OBVIOUS
    <3> QED
      BY <2>1, <3>1
  <2>3. PICK s \in Seq(AnyInstr), n \in Nat : EmitStep(s, 0, n) /\ Len(s) = 1 /\ s[1] = x
    BY <1>1, <1>4, <2>1, <2>2, EmitOne, LeavesNothing
  <2> QED
    BY <1>1, <2>3, Zenon
<1> QED
  BY <1>3, <1>4

\* ... that does not touch the control structure
LEMMA PlainStatement ==
  ASSUME GenTypes, NEW x \in AnyInstr, Emit(<<x>>, temp_counter), operands' = <<>>,
         x.op \notin Control,
         \/ Len(operands) = 1 /\ x.var1 = Pending(0)
         \/ x.var1 \in {None, Name, Constant},
         x.var2 = None, x.reg \in {None, Name},
         label_counter' = label_counter, OpenSame, phase' = phase
  PROVE  PlainStep
<1>1. \A f \in 2 .. 3 : Arg(x, f).kind # "temp" /\ Made(Arg(x, f), temp_counter, label_counter')
  BY OperandFacts
<1>2. x.var1 \in {None, Name, Constant} => x.var1.kind # "temp" /\ Made(x.var1, temp_counter, label_counter')
  BY OperandFacts
<1>3. label_counter' \in Nat /\ label_counter <= label_counter'
  BY DEF GenTypes
<1>4. PICK s \in Seq(AnyInstr), keep \in 0 .. Len(operands), n \in Nat :
         EmitStep(s, keep, n) /\ Len(s) = 1 /\ s[1] = x
  BY <1>1, <1>2, <1>3, StatementOne
<1>5. Plain(s)
  BY <1>4 DEF Plain
<1> QED
  BY <1>4, <1>5, Zenon DEF PlainStep

\* The instructions of statements.
LEMMA StatementInstr ==
  ASSUME NEW op \in Ops, NEW v \in AnyOperand, NEW r \in {None, Name}
  PROVE  \E x \in AnyInstr : /\ x = Instr(op, v, None, r)
                             /\ x.op = op /\ x.var1 = v /\ x.var2 = None /\ x.reg = r
<1>1. None \in AnyOperand /\ r \in AnyOperand
  BY OperandFacts
<1> QED
  BY <1>1, InstrExists

LEMMA StoreStep ==
  ASSUME GenTypes, PendingOnce, GenStore \/ \E leaf \in {Name, Constant} : GenStoreLeaf(leaf)
  PROVE  PlainStep
<1>1. operands \in Seq(AnyOperand) /\ Len(operands) \in Nat /\ "STORE" \in Ops /\ "STORE" \notin Control
  BY LenProperties DEF GenTypes, Ops, Control
<1>2. CASE GenStore
  <2>1. /\ Len(operands) = 1 /\ Emit(<<Instr("STORE", Pending(0), None, Name)>>, temp_counter)
        /\ operands' = <<>> /\ label_counter' = label_counter /\ open' = open /\ phase' = phase
    BY <1>2 DEF GenStore, AfterExpression
  <2>2. Pending(0) \in AnyOperand
    BY <2>1, LastOperands
  <2>3. PICK x \in AnyInstr : /\ x = Instr("STORE", Pending(0), None, Name)
                              /\ x.op = "STORE" /\ x.var1 = Pending(0) /\ x.var2 = None /\ x.reg = Name
    BY <1>1, <2>2, StatementInstr
  <2> QED
    BY <1>1, <2>1, <2>3, OpenUnchanged, PlainStatement
<1>3. CASE \E leaf \in {Name, Constant} : GenStoreLeaf(leaf)
  <2>1. PICK leaf \in {Name, Constant} : GenStoreLeaf(leaf)
    BY <1>3
  <2>2. /\ operands = <<>> /\ Emit(<<Instr("STORE", leaf, None, Name)>>, temp_counter)
        /\ operands' = <<>> /\ label_counter' = label_counter /\ open' = open /\ phase' = phase
    BY <2>1 DEF GenStoreLeaf
  <2>3. PICK x \in AnyInstr : /\ x = Instr("STORE", leaf, None, Name)
                              /\ x.op = "STORE" /\ x.var1 = leaf /\ x.var2 = None /\ x.reg = Name
    <3>1. leaf \in AnyOperand
      BY OperandFacts
    <3> QED
      BY <1>1, <3>1, StatementInstr
  <2> QED
    BY <1>1, <2>2, <2>3, OpenUnchanged, PlainStatement
<1> QED
  BY <1>2, <1>3

LEMMA ExternStep ==
  ASSUME GenTypes, GenExtern
  PROVE  PlainStep
<1>1. /\ operands = <<>> /\ Emit(<<Instr("EXTERN", Name, None, None)>>, temp_counter)
      /\ operands' = <<>> /\ label_counter' = label_counter /\ open' = open /\ phase' = phase
  BY DEF GenExtern
<1>2. PICK x \in AnyInstr : /\ x = Instr("EXTERN", Name, None, None)
                            /\ x.op = "EXTERN" /\ x.var1 = Name /\ x.var2 = None /\ x.reg = None
  <2>1. "EXTERN" \in Ops /\ Name \in AnyOperand
    BY OperandFacts DEF Ops
  <2> QED
    BY <2>1, StatementInstr
<1>3. x.op \notin Control
  BY <1>2 DEF Control
<1> QED
  BY <1>1, <1>2, <1>3, OpenUnchanged, PlainStatement

\* The block that is being generated.
LEMMA CurrentBlock ==
  ASSUME GenTypes, open # <<>>
  PROVE  /\ Len(open) \in Nat /\ Len(open) \in 1 .. Len(open) /\ open \in Seq(AnyBlock)
         /\ open[Len(open)] \in AnyBlock /\ Here = open[Len(open)].kind
<1>1. open \in Seq(AnyBlock) /\ Len(open) \in Nat /\ Len(open) # 0
  BY EmptySeq, LenProperties DEF GenTypes
<1>2. Len(open) \in 1 .. Len(open)
  BY <1>1
<1> QED
  BY <1>1, <1>2 DEF Here

LEMMA ReturnStep ==
  ASSUME GenTypes, PendingOnce, GenReturn
  PROVE  PlainStep
<1>1. /\ Emit(<<Instr("RET", IF Len(operands) = 1 THEN Pending(0) ELSE None, None, None)>>, temp_counter)
      /\ operands' = <<>> /\ label_counter' = label_counter /\ phase' = phase
      /\ open' = [open EXCEPT ![Len(open)].returned = Optimizations]
      /\ open # <<>>
  BY DEF GenReturn, AfterExpression, AtStatement, Here
<1>2. PICK v \in AnyOperand : /\ v = IF Len(operands) = 1 THEN Pending(0) ELSE None
                              /\ Len(operands) = 1 => v = Pending(0)
                              /\ Len(operands) # 1 => v = None
  <2>1. CASE Len(operands) = 1
    <3>1. Pending(0) \in AnyOperand
      BY <2>1, LastOperands
    <3> QED
      BY <2>1, <3>1
  <2>2. CASE Len(operands) # 1
    BY <2>2, OperandFacts
  <2> QED
    BY <2>1, <2>2
<1>3. PICK x \in AnyInstr : /\ x = Instr("RET", v, None, None)
                            /\ x.op = "RET" /\ x.var1 = v /\ x.var2 = None /\ x.reg = None
  <2>1. "RET" \in Ops
    BY DEF Ops
  <2> QED
    BY <2>1, StatementInstr
<1>4. OpenSame
  <2>1. Optimizations \in BOOLEAN
    BY IntermediateCodeAssumption
  <2>2. PICK o \in Seq(AnyBlock), d \in 1 .. Len(open) :
           o = open /\ d = Len(open) /\ open[d] \in AnyBlock
    BY <1>1, CurrentBlock
  <2>3. PICK b \in AnyBlock : b = [o[d] EXCEPT !.returned = Optimizations]
                              /\ b.kind = o[d].kind /\ b.labels = o[d].labels
    <3>1. /\ [o[d] EXCEPT !.returned = Optimizations] \in AnyBlock
          /\ [o[d] EXCEPT !.returned = Optimizations].kind = o[d].kind
          /\ [o[d] EXCEPT !.returned = Optimizations].labels = o[d].labels
      BY <2>1, <2>2 DEF AnyBlock
    <3> QED
      BY <3>1, Zenon
  <2>4. /\ [o EXCEPT ![d] = b] \in Seq(AnyBlock) /\ Len([o EXCEPT ![d] = b]) = Len(o)
        /\ \A e \in 1 .. Len(o) : [o EXCEPT ![d] = b][e] = IF e = d THEN b ELSE o[e]
    BY <2>2, ExceptSeq
  <2>5. open' = [o EXCEPT ![d] = b]
    BY <1>1, <2>2, <2>3
  <2> QED
    BY <2>2, <2>3, <2>4, <2>5 DEF OpenSame
<1>5. x.op \notin Control /\ Emit(<<x>>, temp_counter)
  BY <1>1, <1>2, <1>3 DEF Control
<1> QED
  BY <1>1, <1>2, <1>3, <1>4, <1>5, PlainStatement

PlainAction ==
  \/ GenLiteral \/ GenBinary \/ GenUnary \/ GenShift \/ GenId
  \/ \E n \in 0 .. MaxArgs : GenCall(n) \/ GenCallStatement(n)
  \/ GenStore \/ \E leaf \in {Name, Constant} : GenStoreLeaf(leaf)
  \/ GenReturn \/ GenExtern

LEMMA PlainActionStep ==
  ASSUME GenTypes, PendingOnce, PlainAction
  PROVE  PlainStep
<1>1. CASE \E n \in 0 .. MaxArgs : GenCall(n) \/ GenCallStatement(n)
  <2>1. PICK n \in 0 .. MaxArgs : GenCall(n) \/ GenCallStatement(n)
    BY <1>1
  <2>2. n \in Nat
    BY IntermediateCodeAssumption
  <2> QED
    BY <2>1, <2>2, CallStep, CallStatementStep
<1> QED
  BY <1>1, LiteralStep, BinaryStep, UnaryStep, IdStep, StoreStep, ReturnStep, ExternStep
     DEF PlainAction

-----------------------------------------------------------------------------
(* Temporaries stay in their block.                                        *)

HIDE DEF Arg

StraightIn(c, i, j) == \A k \in (i + 1) .. (j - 1) : c[k].op \notin Boundary

IsPending(o, t) == \E k \in 1 .. Len(o) : o[k] = Temp(t)

\* operand f of instruction j is temporary t, and not where instruction i writes it
UseOf(c, i, t, j, f) == Arg(c[j], f) = Temp(t) /\ ~(j = i /\ f = 3)

\* instruction i writes temporary t; at most one instruction reads it, later in the block
WrittenAt(c, o, t, i) ==
  /\ Arg(c[i], 3) = Temp(t)
  /\ \A j \in 1 .. Len(c) : \A f \in 1 .. 3 :
       UseOf(c, i, t, j, f) => f # 3 /\ j > i /\ StraightIn(c, i, j)
  /\ \A j, h \in 1 .. Len(c) : \A f, g \in 1 .. 3 :
       UseOf(c, i, t, j, f) /\ UseOf(c, i, t, h, g) => j = h /\ f = g
  /\ IsPending(o, t) => /\ \A j \in 1 .. Len(c) : \A f \in 1 .. 3 : ~UseOf(c, i, t, j, f)
                        /\ StraightIn(c, i, Len(c) + 1)

Written(c, o, t) == \E i \in 1 .. Len(c) : WrittenAt(c, o, t, i)

\* temporaries are written in the order of their numbers
InOrder(c) ==
  \A i, j \in 1 .. Len(c) :
    c[i].reg.kind = "temp" /\ c[j].reg.kind = "temp" /\ c[i].reg.n < c[j].reg.n => i < j

TempInv ==
  /\ PendingOnce
  /\ \A t \in 1 .. temp_counter : Written(code, operands, t)
  /\ InOrder(code)

Distinct(o) == \A j, k \in 1 .. Len(o) : o[j].kind = "temp" /\ o[j] = o[k] => j = k

\* Temporaries with different numbers differ.
LEMMA TempInjective ==
  \A t, u \in Nat : (Temp(t) = Temp(u) <=> t = u) /\ Temp(t).kind = "temp" /\ Temp(t) # Name
BY DEF Temp, Operand, Name

\* Later instructions do not disturb a temporary.
LEMMA WrittenKept ==
  ASSUME NEW c \in Seq(AnyInstr), NEW s \in Seq(AnyInstr), NEW o \in Seq(AnyOperand),
         NEW p, NEW tc \in Nat, NEW n \in {tc, tc + 1},
         NEW keep \in 0 .. Len(o), NEW t \in 1 .. tc,
         Written(c, o, t), Reads(s, o, keep, tc, n), Leaves(p, o, keep, tc, n), Distinct(o),
         p = <<>> \/ NoBoundary(s)
  PROVE  Written(c \o s, p, t)
<1> DEFINE d == c \o s
           m == Len(c)
<1>1. /\ d \in Seq(AnyInstr) /\ m \in Nat /\ Len(s) \in Nat /\ Len(d) = m + Len(s)
      /\ \A j \in 1 .. m : d[j] = c[j]
      /\ \A h \in 1 .. Len(s) : d[m + h] = s[h]
      /\ \A j \in 1 .. Len(d) : j \in 1 .. m \/ \E h \in 1 .. Len(s) : j = m + h
      /\ Len(o) \in Nat /\ keep \in Nat /\ t \in Nat /\ t # tc + 1 /\ n \in Nat
  <2>1. /\ c \o s \in Seq(AnyInstr) /\ Len(c) \in Nat /\ Len(s) \in Nat
        /\ Len(c \o s) = Len(c) + Len(s)
        /\ \A j \in 1 .. Len(c) : (c \o s)[j] = c[j]
        /\ \A h \in 1 .. Len(s) : (c \o s)[Len(c) + h] = s[h]
        /\ \A j \in 1 .. Len(c \o s) : j \in 1 .. Len(c) \/ \E h \in 1 .. Len(s) : j = Len(c) + h
    BY CodeParts
  <2>2. Len(o) \in Nat
    BY LenProperties
  <2>3. keep \in Nat /\ t \in Nat /\ t # tc + 1 /\ n \in Nat
    BY <2>2
  <2> QED
    BY <2>1, <2>2, <2>3, Zenon
<1>2. p \in Seq(AnyOperand) /\ Len(p) \in Nat
  BY LenProperties DEF Leaves
<1> HIDE DEF d, m
<1>3. PICK i \in 1 .. m : WrittenAt(c, o, t, i)
  BY DEF Written, m
<1>4. i \in 1 .. Len(d) /\ Arg(d[i], 3) = Temp(t)
  BY <1>1, <1>3 DEF WrittenAt
<1>5. \A h \in 1 .. Len(s) : \A f \in 1 .. 3 : Arg(s[h], f) = Temp(t) =>
        /\ f # 3
        /\ \E k \in (keep + 1) .. Len(o) : o[k] = Temp(t)
        /\ \A g \in 1 .. (h - 1) : s[g].op \notin Boundary
  <2>1. SUFFICES ASSUME NEW h \in 1 .. Len(s), NEW f \in 1 .. 3, Arg(s[h], f) = Temp(t)
                 PROVE  /\ f # 3
                        /\ \E k \in (keep + 1) .. Len(o) : o[k] = Temp(t)
                        /\ \A g \in 1 .. (h - 1) : s[g].op \notin Boundary
    OBVIOUS
  <2>2. Arg(s[h], f).kind = "temp" /\ (n = tc + 1 => Arg(s[h], f) # Temp(n))
    BY <1>1, <2>1, TempInjective
  <2>3. /\ f # 3
        /\ \E k \in (keep + 1) .. Len(o) : Arg(s[h], f) = o[k]
        /\ \A g \in 1 .. (h - 1) : s[g].op \notin Boundary
    BY <2>2 DEF Reads
  <2> QED
    BY <2>1, <2>3
<1>6. \A k \in (keep + 1) .. Len(o) : k \in 1 .. Len(o)
  BY <1>1
<1>7. \A h \in 1 .. Len(s) : \A f \in 1 .. 3 : Arg(s[h], f) = Temp(t) => IsPending(o, t)
  BY <1>5, <1>6 DEF IsPending
\* uses in the new code
<1>8. \A j \in 1 .. Len(d) : \A f \in 1 .. 3 : UseOf(d, i, t, j, f) =>
        \/ j \in 1 .. m /\ UseOf(c, i, t, j, f)
        \/ \E h \in 1 .. Len(s) : j = m + h /\ Arg(s[h], f) = Temp(t)
  <2>1. SUFFICES ASSUME NEW j \in 1 .. Len(d), NEW f \in 1 .. 3, UseOf(d, i, t, j, f)
                 PROVE  \/ j \in 1 .. m /\ UseOf(c, i, t, j, f)
                        \/ \E h \in 1 .. Len(s) : j = m + h /\ Arg(s[h], f) = Temp(t)
    OBVIOUS
  <2>2. Arg(d[j], f) = Temp(t) /\ ~(j = i /\ f = 3)
    BY <2>1 DEF UseOf
  <2>3. CASE j \in 1 .. m
    BY <1>1, <2>2, <2>3 DEF UseOf
  <2>4. CASE j \notin 1 .. m
    BY <1>1, <2>2, <2>4
  <2> QED
    BY <2>3, <2>4
<1>9. \A j \in 1 .. Len(d) : \A f \in 1 .. 3 :
        UseOf(d, i, t, j, f) => f # 3 /\ j > i /\ StraightIn(d, i, j)
  <2>1. SUFFICES ASSUME NEW j \in 1 .. Len(d), NEW f \in 1 .. 3, UseOf(d, i, t, j, f)
                 PROVE  f # 3 /\ j > i /\ StraightIn(d, i, j)
    OBVIOUS
  <2>2. CASE j \in 1 .. m /\ UseOf(c, i, t, j, f)
    <3>1. f # 3 /\ j > i /\ StraightIn(c, i, j)
      BY <1>3, <2>2 DEF WrittenAt, m
    <3>2. \A k \in (i + 1) .. (j - 1) : k \in 1 .. m
      BY <1>1, <2>2
    <3> QED
      BY <1>1, <3>1, <3>2 DEF StraightIn
  <2>3. CASE \E h \in 1 .. Len(s) : j = m + h /\ Arg(s[h], f) = Temp(t)
    <3>1. PICK h \in 1 .. Len(s) : j = m + h /\ Arg(s[h], f) = Temp(t)
      BY <2>3
    <3>2. f # 3 /\ IsPending(o, t) /\ \A g \in 1 .. (h - 1) : s[g].op \notin Boundary
      BY <1>5, <1>7, <3>1
    <3>3. StraightIn(c, i, Len(c) + 1)
      BY <1>3, <3>2 DEF WrittenAt
    <3>4. \A q \in (i + 1) .. (m + 1 - 1) : c[q].op \notin Boundary
      BY <3>3 DEF StraightIn, m
    <3>8. \A k \in (i + 1) .. (j - 1) : k \in (i + 1) .. (m + 1 - 1) \/ \E g \in 1 .. (h - 1) : k = m + g
      <4>0. \A a, b, e \in Nat : \A k \in (a + 1) .. (b + e - 1) :
               k > b => k - b \in 1 .. (e - 1) /\ k = b + (k - b)
        OBVIOUS
      <4>1. \A k \in (i + 1) .. (j - 1) : k > m => k - m \in 1 .. (h - 1) /\ k = m + (k - m)
        BY <1>1, <3>1, <4>0
      <4>2. \A k \in (i + 1) .. (j - 1) : ~(k > m) => k \in (i + 1) .. (m + 1 - 1)
        BY <1>1, <3>1
      <4> QED
        BY <4>1, <4>2
    <3>5. (\A k \in (i + 1) .. (m + 1 - 1) : k \in 1 .. m) /\ \A g \in 1 .. (h - 1) : g \in 1 .. Len(s)
      BY <1>1
    <3>6. StraightIn(d, i, j)
      <4>1. SUFFICES ASSUME NEW k \in (i + 1) .. (j - 1)
                     PROVE  d[k].op \notin Boundary
        BY DEF StraightIn
      <4>2. CASE k \in (i + 1) .. (m + 1 - 1)
        <5>1. k \in 1 .. m
          BY <3>5, <4>2
        <5>2. c[k].op \notin Boundary
          BY <3>4, <4>2, Zenon
        <5> QED
          BY <1>1, <5>1, <5>2
      <4>3. CASE \E g \in 1 .. (h - 1) : k = m + g
        <5>1. PICK g \in 1 .. (h - 1) : k = m + g
          BY <4>3
        <5>2. g \in 1 .. Len(s) /\ s[g].op \notin Boundary
          BY <3>2, <3>5
        <5> QED
          BY <1>1, <5>1, <5>2
      <4> QED
        BY <3>8, <4>2, <4>3
    <3>7. j > i
      BY <1>1, <3>1
    <3> QED
      BY <3>2, <3>6, <3>7
  <2> QED
    BY <1>8, <2>1, <2>2, <2>3
<1>10. \A j, h \in 1 .. Len(d) : \A f, g \in 1 .. 3 :
         UseOf(d, i, t, j, f) /\ UseOf(d, i, t, h, g) => j = h /\ f = g
  <2>1. SUFFICES ASSUME NEW j \in 1 .. Len(d), NEW h \in 1 .. Len(d), NEW f \in 1 .. 3, NEW g \in 1 .. 3,
                        UseOf(d, i, t, j, f), UseOf(d, i, t, h, g)
                 PROVE  j = h /\ f = g
    OBVIOUS
  <2>2. CASE j \in 1 .. m /\ UseOf(c, i, t, j, f) /\ h \in 1 .. m /\ UseOf(c, i, t, h, g)
    BY <1>3, <2>2 DEF WrittenAt, m
  <2>3. ASSUME NEW a \in 1 .. m, NEW b \in 1 .. 3, UseOf(c, i, t, a, b),
               NEW e \in 1 .. Len(s), NEW q \in 1 .. 3, Arg(s[e], q) = Temp(t)
        PROVE  FALSE
    BY <1>3, <1>7, <2>3 DEF WrittenAt, m
  <2>4. CASE /\ \E a \in 1 .. Len(s) : j = m + a /\ Arg(s[a], f) = Temp(t)
             /\ \E b \in 1 .. Len(s) : h = m + b /\ Arg(s[b], g) = Temp(t)
    <3>1. PICK a \in 1 .. Len(s), b \in 1 .. Len(s) :
             j = m + a /\ Arg(s[a], f) = Temp(t) /\ h = m + b /\ Arg(s[b], g) = Temp(t)
      BY <2>4
    <3>2. a = b /\ f = g
      <4>1. Arg(s[a], f).kind = "temp" /\ Arg(s[a], f) = Arg(s[b], g)
        BY <1>1, <3>1, TempInjective
      <4>2. \A x, y \in 1 .. Len(s) : \A v, w \in 1 .. 3 :
              Arg(s[x], v).kind = "temp" /\ Arg(s[x], v) = Arg(s[y], w) => x = y /\ v = w
        BY Zenon DEF Reads
      <4> QED
        BY <4>1, <4>2
    <3> QED
      BY <3>1, <3>2
  <2>5. (j \in 1 .. m /\ UseOf(c, i, t, j, f)) \/ \E a \in 1 .. Len(s) : j = m + a /\ Arg(s[a], f) = Temp(t)
    BY <1>8, <2>1
  <2>6. (h \in 1 .. m /\ UseOf(c, i, t, h, g)) \/ \E a \in 1 .. Len(s) : h = m + a /\ Arg(s[a], g) = Temp(t)
    BY <1>8, <2>1
  <2> QED
    BY <2>2, <2>3, <2>4, <2>5, <2>6
<1>11. IsPending(p, t) => /\ \A j \in 1 .. Len(d) : \A f \in 1 .. 3 : ~UseOf(d, i, t, j, f)
                          /\ StraightIn(d, i, Len(d) + 1)
  <2>1. SUFFICES ASSUME IsPending(p, t)
                 PROVE  /\ \A j \in 1 .. Len(d) : \A f \in 1 .. 3 : ~UseOf(d, i, t, j, f)
                        /\ StraightIn(d, i, Len(d) + 1)
    OBVIOUS
  <2>2. PICK k \in 1 .. Len(p) : p[k] = Temp(t)
    BY <2>1 DEF IsPending
  <2>3. k <= keep /\ o[k] = Temp(t) /\ k \in 1 .. Len(o)
    <3>1. k <= keep /\ o[k] = Temp(t)
      BY <1>1, <2>2, TempInjective DEF Leaves
    <3> QED
      BY <1>1, <1>2, <3>1
  <2>4. /\ \A j \in 1 .. m : \A f \in 1 .. 3 : ~UseOf(c, i, t, j, f)
        /\ StraightIn(c, i, m + 1)
    BY <1>3, <2>3 DEF WrittenAt, IsPending, m
  <2>5. \A h \in 1 .. Len(s) : \A f \in 1 .. 3 : Arg(s[h], f) # Temp(t)
    <3>1. SUFFICES ASSUME NEW h \in 1 .. Len(s), NEW f \in 1 .. 3, Arg(s[h], f) = Temp(t)
                   PROVE  FALSE
      OBVIOUS
    <3>2. PICK k2 \in (keep + 1) .. Len(o) : o[k2] = Temp(t)
      BY <1>5, <3>1
    <3>3. k2 \in 1 .. Len(o) /\ k2 # k
      BY <1>1, <2>3
    <3>4. o[k].kind = "temp" /\ o[k] = o[k2]
      BY <1>1, <2>3, <3>2, TempInjective
    <3> QED
      BY <2>3, <3>3, <3>4 DEF Distinct
  <2>6. NoBoundary(s)
    <3>1. p # <<>>
      BY <1>2, <2>2, EmptySeq
    <3> QED
      BY <3>1
  <2>7. StraightIn(d, i, Len(d) + 1)
    <3>1. \A k1 \in (i + 1) .. (Len(d) + 1 - 1) : k1 \in (i + 1) .. (m + 1 - 1) \/ k1 \notin 1 .. m
      BY <1>1
    <3>2. \A k1 \in (i + 1) .. (Len(d) + 1 - 1) : k1 \in 1 .. Len(d)
      BY <1>1
    <3>3. SUFFICES ASSUME NEW k1 \in (i + 1) .. (Len(d) + 1 - 1)
                   PROVE  d[k1].op \notin Boundary
      BY DEF StraightIn
    <3>4. CASE k1 \in 1 .. m
      BY <1>1, <2>4, <3>1, <3>4 DEF StraightIn
    <3>5. CASE k1 \notin 1 .. m
      BY <1>1, <2>6, <3>2, <3>5 DEF NoBoundary
    <3> QED
      BY <3>4, <3>5
  <2>8. \A j \in 1 .. Len(d) : \A f \in 1 .. 3 : ~UseOf(d, i, t, j, f)
    <3>1. SUFFICES ASSUME NEW j \in 1 .. Len(d), NEW f \in 1 .. 3, UseOf(d, i, t, j, f)
                   PROVE  FALSE
      OBVIOUS
    <3>2. CASE j \in 1 .. m /\ UseOf(c, i, t, j, f)
      BY <2>4, <3>2
    <3>3. CASE \E h \in 1 .. Len(s) : j = m + h /\ Arg(s[h], f) = Temp(t)
      BY <2>5, <3>3
    <3> QED
      BY <1>8, <3>1, <3>2, <3>3
  <2> QED
    BY <2>7, <2>8
<1> QED
  BY <1>4, <1>9, <1>10, <1>11 DEF Written, WrittenAt, d

\* A new temporary is written by the last instruction.
LEMMA WrittenNew ==
  ASSUME NEW c \in Seq(AnyInstr), NEW s \in Seq(AnyInstr), NEW o \in Seq(AnyOperand),
         NEW p, NEW tc \in Nat, NEW keep, NEW l, AllMade(c, tc, l),
         Reads(s, o, keep, tc, tc + 1)
  PROVE  Written(c \o s, p, tc + 1)
<1> DEFINE d == c \o s
           m == Len(c)
           t == tc + 1
           i == m + Len(s)
<1>1. /\ d \in Seq(AnyInstr) /\ m \in Nat /\ Len(s) \in Nat /\ Len(d) = m + Len(s)
      /\ \A j \in 1 .. m : d[j] = c[j]
      /\ \A h \in 1 .. Len(s) : d[m + h] = s[h]
      /\ \A j \in 1 .. Len(d) : j \in 1 .. m \/ \E h \in 1 .. Len(s) : j = m + h
      /\ t \in Nat
  BY CodeParts
<1>2. Len(s) > 0 /\ Arg(s[Len(s)], 3) = Temp(t) /\ Len(s) \in 1 .. Len(s)
  BY <1>1 DEF Reads
<1>3. i \in 1 .. Len(d) /\ Arg(d[i], 3) = Temp(t)
  BY <1>1, <1>2
<1>4. \A j \in 1 .. m : \A f \in 1 .. 3 : Arg(d[j], f) # Temp(t)
  <2>1. \A j \in 1 .. m : \A f \in 1 .. 3 : Arg(c[j], f).kind = "temp" => Arg(c[j], f).n \in 1 .. tc
    BY DEF AllMade, Made
  <2>2. Temp(t).kind = "temp" /\ Temp(t).n \notin 1 .. tc
    BY DEF Temp, Operand
  <2>3. \A j \in 1 .. m : \A f \in 1 .. 3 : Arg(c[j], f) # Temp(t)
    BY <2>1, <2>2
  <2> QED
    BY <1>1, <2>3
<1>5. \A h \in 1 .. Len(s) : \A f \in 1 .. 3 : Arg(s[h], f) = Temp(t) => h = Len(s) /\ f = 3
  <2>1. \A x, y \in 1 .. Len(s) : \A v, w \in 1 .. 3 :
          Arg(s[x], v).kind = "temp" /\ Arg(s[x], v) = Arg(s[y], w) => x = y /\ v = w
    BY Zenon DEF Reads
  <2>2. Temp(t).kind = "temp" /\ 3 \in 1 .. 3
    BY <1>1, TempInjective
  <2> QED
    BY <1>2, <2>1, <2>2
<1> HIDE DEF d, m, t
<1>6. \A j \in 1 .. Len(d) : \A f \in 1 .. 3 : ~UseOf(d, i, t, j, f)
  <2>1. SUFFICES ASSUME NEW j \in 1 .. Len(d), NEW f \in 1 .. 3, Arg(d[j], f) = Temp(t)
                 PROVE  j = i /\ f = 3
    BY DEF UseOf
  <2>2. PICK h \in 1 .. Len(s) : j = m + h
    BY <1>1, <1>4, <2>1
  <2>3. d[j] = s[h]
    BY <1>1, <2>2
  <2>4. h = Len(s) /\ f = 3
    BY <1>5, <2>1, <2>3
  <2> QED
    BY <2>2, <2>4
<1>7. StraightIn(d, i, Len(d) + 1)
  BY <1>1 DEF StraightIn
<1> HIDE DEF i
<1>8. WrittenAt(d, p, t, i)
  BY <1>3, <1>6, <1>7 DEF WrittenAt
<1>9. Written(d, p, t)
  BY <1>3, <1>8 DEF Written
<1> QED
  BY <1>9 DEF d, t

LEMMA DistinctKept ==
  ASSUME NEW o \in Seq(AnyOperand), NEW p, NEW tc \in Nat, NEW n \in {tc, tc + 1},
         NEW keep \in 0 .. Len(o), Distinct(o), Leaves(p, o, keep, tc, n),
         \A k \in 1 .. Len(o) : o[k].kind = "temp" => o[k].n \in 1 .. tc
  PROVE  Distinct(p)
<1>1. Len(o) \in Nat /\ keep \in Nat /\ p \in Seq(AnyOperand) /\ Len(p) \in Nat
  BY LenProperties DEF Leaves
<1>2. SUFFICES ASSUME NEW j \in 1 .. Len(p), NEW k \in 1 .. Len(p), p[j].kind = "temp", p[j] = p[k]
               PROVE  j = k
  BY DEF Distinct
<1>3. \A h \in 1 .. Len(p) : p[h].kind = "temp" =>
        \/ h <= keep /\ h \in 1 .. Len(o) /\ p[h] = o[h] /\ p[h].n # tc + 1
        \/ h = keep + 1 /\ p[h].n = tc + 1
  BY <1>1 DEF Leaves, Name, Temp, Operand
<1> QED
  BY <1>1, <1>2, <1>3 DEF Distinct

LEMMA InOrderKept ==
  ASSUME NEW c \in Seq(AnyInstr), NEW s \in Seq(AnyInstr), NEW o \in Seq(AnyOperand),
         NEW tc \in Nat, NEW n \in {tc, tc + 1}, NEW keep, NEW l, AllMade(c, tc, l),
         Reads(s, o, keep, tc, n), InOrder(c)
  PROVE  InOrder(c \o s)
<1> DEFINE d == c \o s
           m == Len(c)
<1>1. /\ d \in Seq(AnyInstr) /\ m \in Nat /\ Len(s) \in Nat /\ Len(d) = m + Len(s)
      /\ \A j \in 1 .. m : d[j] = c[j]
      /\ \A h \in 1 .. Len(s) : d[m + h] = s[h]
      /\ \A j \in 1 .. Len(d) : j \in 1 .. m \/ \E h \in 1 .. Len(s) : j = m + h
  <2>1. /\ c \o s \in Seq(AnyInstr) /\ Len(c) \in Nat /\ Len(s) \in Nat
        /\ Len(c \o s) = Len(c) + Len(s)
        /\ \A j \in 1 .. Len(c) : (c \o s)[j] = c[j]
        /\ \A h \in 1 .. Len(s) : (c \o s)[Len(c) + h] = s[h]
        /\ \A j \in 1 .. Len(c \o s) : j \in 1 .. Len(c) \/ \E h \in 1 .. Len(s) : j = Len(c) + h
    BY CodeParts
  <2> QED
    BY <2>1
<1>2. \A j \in 1 .. m : c[j].reg.kind = "temp" => c[j].reg.n \in 1 .. tc
  <2>1. \A x : Arg(x, 3) = x.reg
    BY DEF Arg
  <2> QED
    BY <2>1 DEF AllMade, Made
<1>3. \A h \in 1 .. Len(s) : s[h].reg.kind = "temp" => s[h].reg.n = tc + 1
  <2>1. \A x : Arg(x, 3) = x.reg
    BY DEF Arg
  <2> QED
    BY <2>1 DEF Reads, Temp, Operand
<1> HIDE DEF d, m
<1>4. SUFFICES ASSUME NEW i \in 1 .. Len(d), NEW j \in 1 .. Len(d), d[i].reg.kind = "temp",
                      d[j].reg.kind = "temp", d[i].reg.n < d[j].reg.n
               PROVE  i < j
  BY DEF InOrder, d
<1>5. CASE i \in 1 .. m /\ j \in 1 .. m
  BY <1>1, <1>4, <1>5 DEF InOrder, m
<1>6. CASE i \in 1 .. m /\ j \notin 1 .. m
  BY <1>1, <1>6
<1>7. CASE i \notin 1 .. m
  <2>1. d[i].reg.n = tc + 1
    BY <1>1, <1>3, <1>4, <1>7
  <2>2. d[j].reg.n \in 1 .. (tc + 1)
    <3>1. CASE j \in 1 .. m
      BY <1>1, <1>2, <1>4, <3>1
    <3>2. CASE j \notin 1 .. m
      <4>0. PICK h \in 1 .. Len(s) : j = m + h
        BY <1>1, <3>2
      <4>1. d[j] = s[h] /\ d[j].reg.n = tc + 1
        BY <1>1, <1>3, <1>4, <4>0
      <4> QED
        BY <4>1
    <3> QED
      BY <3>1, <3>2
  <2> QED
    BY <1>4, <2>1, <2>2
<1> QED
  BY <1>5, <1>6, <1>7

\* What emit leaves keeps every temporary in its block.
LEMMA EmitKeepsTemps ==
  ASSUME GenTypes, TempInv, NEW s, NEW keep, NEW n, EmitStep(s, keep, n)
  PROVE  TempInv'
<1>1. PICK c \in Seq(AnyInstr), o \in Seq(AnyOperand), tc \in Nat, l \in Nat :
         /\ c = code /\ o = operands /\ tc = temp_counter /\ l = label_counter
  BY DEF GenTypes
<1>2. PICK p \in Seq(AnyOperand) : p = operands'
  BY DEF EmitStep, Leaves
<1>3. /\ s \in Seq(AnyInstr) /\ keep \in 0 .. Len(o) /\ n \in {tc, tc + 1}
      /\ code' = c \o s /\ temp_counter' = n /\ operands' = p
      /\ Reads(s, o, keep, tc, n) /\ Leaves(p, o, keep, tc, n)
      /\ p = <<>> \/ NoBoundary(s)
      /\ AllMade(c, tc, l)
  BY <1>1, <1>2 DEF EmitStep, Emit, GenTypes
<1>4. Distinct(o) /\ InOrder(c) /\ \A t \in 1 .. tc : Written(c, o, t)
  BY <1>1 DEF TempInv, PendingOnce, Distinct
<1>5. \A k \in 1 .. Len(o) : o[k].kind = "temp" => o[k].n \in 1 .. tc
  BY <1>1, PendingFacts
<1>6. Distinct(p)
  BY <1>3, <1>4, <1>5, DistinctKept
<1>7. InOrder(c \o s)
  BY <1>3, <1>4, InOrderKept
<1>8. \A t \in 1 .. tc : Written(c \o s, p, t)
  BY <1>3, <1>4, WrittenKept
<1>9. n = tc + 1 => Written(c \o s, p, n)
  BY <1>3, WrittenNew
<1>10. \A t \in 1 .. n : Written(c \o s, p, t)
  BY <1>3, <1>8, <1>9
<1> QED
  BY <1>3, <1>6, <1>7, <1>10 DEF TempInv, PendingOnce, Distinct

-----------------------------------------------------------------------------
(* Labels and jumps.                                                       *)

PlacedAt(c, n, k) == k \in 1 .. Len(c) /\ c[k].op = "LABEL" /\ c[k].var1 = Label(n)

\* instruction i is a jump to label n
JumpsTo(c, i, n) ==
  \/ c[i].op = "JMP" /\ c[i].var1 = Label(n)
  \/ c[i].op = "JMPF" /\ c[i].reg = Label(n)

\* no method begins or ends between instructions i and k
SameMethod(c, i, k) ==
  \A m \in 1 .. Len(c) :
    c[m].op \in {"ENTER", "LEAVE"} => ~(i < m /\ m < k) /\ ~(k < m /\ m < i)

\* the method of instruction i is still being generated
CurrentMethod(c, i) == \A m \in 1 .. Len(c) : c[m].op \in {"ENTER", "LEAVE"} => m < i

\* The labels of awaited will be placed in the current method, those of placed are placed
\* in it; every jump goes to a label that is placed once in its method or awaited in it.
LabelsFit(c, awaited, placed) ==
  /\ \A i \in 1 .. Len(c) : c[i].op = "LABEL" => \E n \in Nat : c[i].var1 = Label(n)
  /\ \A n \in Nat : \A j, k \in 1 .. Len(c) : PlacedAt(c, n, j) /\ PlacedAt(c, n, k) => j = k
  /\ \A n \in awaited : \A k \in 1 .. Len(c) : ~PlacedAt(c, n, k)
  /\ \A n \in placed : \E k \in 1 .. Len(c) : PlacedAt(c, n, k) /\ CurrentMethod(c, k)
  /\ \A i \in 1 .. Len(c) : c[i].op \in {"JMP", "JMPF"} =>
       \E n \in Nat :
         /\ JumpsTo(c, i, n)
         /\ \/ \E k \in 1 .. Len(c) : PlacedAt(c, n, k) /\ SameMethod(c, i, k)
            \/ n \in awaited /\ CurrentMethod(c, i)

\* the labels of block b that are not placed yet
Awaits(b, n) ==
  \/ b.kind = "then" /\ n = b.labels[1]
  \/ b.kind \in {"then", "else", "cond", "while"} /\ n = b.labels[2]

\* the label that a while jumps back to
Returns(b, n) == b.kind \in {"cond", "while"} /\ n = b.labels[1]

Awaited(w) == {n \in Nat : \E d \in 1 .. Len(w) : Awaits(w[d], n)}
BackLabels(w) == {n \in Nat : \E d \in 1 .. Len(w) : Returns(w[d], n)}

\* no two blocks wait for one label; the method's body is the outermost block
BlocksFit(w) ==
  /\ \A d, e \in 1 .. Len(w) : \A n \in Nat : Awaits(w[d], n) /\ Awaits(w[e], n) => d = e
  /\ \A d \in 1 .. Len(w) : w[d].kind = "then" => w[d].labels[1] # w[d].labels[2]
  /\ \A d \in 1 .. Len(w) : w[d].kind = "method" <=> d = 1

LabelInv ==
  /\ LabelsFit(code, Awaited(open), BackLabels(open))
  /\ BlocksFit(open)

\* Labels with different numbers differ.
LEMMA LabelInjective ==
  \A n, l \in Nat : (Label(n) = Label(l) <=> n = l) /\ Label(n).kind = "label" /\ Label(n).n = n
BY DEF Label, Operand

\* Code that makes no control structure leaves the labels alone.
LEMMA PlainFits ==
  ASSUME NEW c \in Seq(AnyInstr), NEW s \in Seq(AnyInstr), NEW W, NEW B, LabelsFit(c, W, B), Plain(s)
  PROVE  LabelsFit(c \o s, W, B)
<1>1. PICK d \in Seq(AnyInstr), m \in Nat :
        /\ d = c \o s /\ m = Len(c) /\ Len(d) \in Nat /\ m <= Len(d)
        /\ \A j \in 1 .. m : d[j] = c[j]
        /\ \A j \in 1 .. Len(d) : j \in 1 .. m \/ d[j].op \notin Control
  <2>1. /\ c \o s \in Seq(AnyInstr) /\ Len(c) \in Nat /\ Len(s) \in Nat
        /\ Len(c \o s) = Len(c) + Len(s)
        /\ \A j \in 1 .. Len(c) : (c \o s)[j] = c[j]
        /\ \A h \in 1 .. Len(s) : (c \o s)[Len(c) + h] = s[h]
        /\ \A j \in 1 .. Len(c \o s) : j \in 1 .. Len(c) \/ \E h \in 1 .. Len(s) : j = Len(c) + h
    BY CodeParts
  <2>2. \A j \in 1 .. Len(c \o s) : j \in 1 .. Len(c) \/ (c \o s)[j].op \notin Control
    BY <2>1 DEF Plain
  <2>3. Len(c \o s) \in Nat /\ Len(c) <= Len(c \o s)
    BY <2>1
  <2> QED
    BY <2>1, <2>2, <2>3, Zenon
<1>2. \A n, k : PlacedAt(d, n, k) <=> PlacedAt(c, n, k)
  <2>1. \A k \in 1 .. Len(d) : d[k].op = "LABEL" => k \in 1 .. m
    BY <1>1 DEF Control
  <2>2. \A k \in 1 .. m : k \in 1 .. Len(d)
    BY <1>1
  <2> QED
    BY <1>1, <2>1, <2>2 DEF PlacedAt
<1>3. \A i \in 1 .. m : CurrentMethod(c, i) => CurrentMethod(d, i)
  <2>1. \A k \in 1 .. Len(d) : d[k].op \in {"ENTER", "LEAVE"} => k \in 1 .. m /\ d[k] = c[k]
    BY <1>1 DEF Control
  <2> QED
    BY <1>1, <2>1 DEF CurrentMethod
<1>4. \A i, k \in 1 .. m : SameMethod(c, i, k) => SameMethod(d, i, k)
  <2>1. \A k \in 1 .. Len(d) : d[k].op \in {"ENTER", "LEAVE"} => k \in 1 .. m /\ d[k] = c[k]
    BY <1>1 DEF Control
  <2> QED
    BY <1>1, <2>1 DEF SameMethod
<1>5. \A i \in 1 .. Len(d) : d[i].op \in {"LABEL", "JMP", "JMPF"} => i \in 1 .. m /\ d[i] = c[i]
  BY <1>1 DEF Control
<1>6. \A n, k : PlacedAt(c, n, k) => k \in 1 .. m /\ k \in 1 .. Len(d)
  BY <1>1 DEF PlacedAt
<1>7. \A i \in 1 .. Len(d) : d[i].op = "LABEL" => \E n \in Nat : d[i].var1 = Label(n)
  BY <1>1, <1>5 DEF LabelsFit
<1>8. \A n \in Nat : \A j, k \in 1 .. Len(d) : PlacedAt(d, n, j) /\ PlacedAt(d, n, k) => j = k
  BY <1>1, <1>2, <1>6 DEF LabelsFit
<1>9. \A n \in W : \A k \in 1 .. Len(d) : ~PlacedAt(d, n, k)
  BY <1>1, <1>2, <1>6 DEF LabelsFit
<1>10. \A n \in B : \E k \in 1 .. Len(d) : PlacedAt(d, n, k) /\ CurrentMethod(d, k)
  BY <1>1, <1>2, <1>3, <1>6 DEF LabelsFit
<1>11. \A i \in 1 .. Len(d) : d[i].op \in {"JMP", "JMPF"} =>
        \E n \in Nat :
         /\ JumpsTo(d, i, n)
         /\ \/ \E k \in 1 .. Len(d) : PlacedAt(d, n, k) /\ SameMethod(d, i, k)
            \/ n \in W /\ CurrentMethod(d, i)
  <2>1. SUFFICES ASSUME NEW i \in 1 .. Len(d), d[i].op \in {"JMP", "JMPF"}
        PROVE \E n \in Nat :
               /\ JumpsTo(d, i, n)
               /\ \/ \E k \in 1 .. Len(d) : PlacedAt(d, n, k) /\ SameMethod(d, i, k)
                  \/ n \in W /\ CurrentMethod(d, i)
    OBVIOUS
  <2>2. i \in 1 .. m /\ i \in 1 .. Len(c) /\ d[i] = c[i]
    BY <1>1, <1>5, <2>1
  <2>3. PICK n \in Nat :
               /\ JumpsTo(c, i, n)
               /\ \/ \E k \in 1 .. Len(c) : PlacedAt(c, n, k) /\ SameMethod(c, i, k)
                  \/ n \in W /\ CurrentMethod(c, i)
    BY <2>1, <2>2 DEF LabelsFit
  <2>4. JumpsTo(d, i, n)
    BY <2>2, <2>3 DEF JumpsTo
  <2>5. CASE n \in W /\ CurrentMethod(c, i)
    BY <1>3, <2>2, <2>4, <2>5
  <2>6. CASE \E k \in 1 .. Len(c) : PlacedAt(c, n, k) /\ SameMethod(c, i, k)
    BY <1>1, <1>2, <1>4, <1>6, <2>2, <2>4, <2>6
  <2> QED
    BY <2>3, <2>5, <2>6
<1> QED
  BY <1>1, <1>7, <1>8, <1>9, <1>10, <1>11, Zenon DEF LabelsFit

\* One more instruction.
LEMMA OneMore ==
  ASSUME NEW c \in Seq(AnyInstr), NEW x \in AnyInstr
  PROVE  /\ Append(c, x) \in Seq(AnyInstr) /\ Len(c) \in Nat /\ Len(Append(c, x)) = Len(c) + 1
         /\ \A j \in 1 .. Len(c) : Append(c, x)[j] = c[j]
         /\ Append(c, x)[Len(c) + 1] = x
         /\ \A j \in 1 .. (Len(c) + 1) : j \in 1 .. Len(c) \/ j = Len(c) + 1
<1>1. Len(c) \in Nat
  BY LenProperties
<1>2. \A m \in Nat : \A j \in 1 .. (m + 1) : j \in 1 .. m \/ j = m + 1
  OBVIOUS
<1>3. /\ Append(c, x) \in Seq(AnyInstr) /\ Len(Append(c, x)) = Len(c) + 1
      /\ \A j \in 1 .. Len(c) : Append(c, x)[j] = c[j]
      /\ Append(c, x)[Len(c) + 1] = x
  BY AppendProperties
<1> QED
  BY <1>1, <1>2, <1>3

\* A jump to a label of the current method.
LEMMA JumpFits ==
  ASSUME NEW c \in Seq(AnyInstr), NEW W, NEW B, LabelsFit(c, W, B), NEW x \in AnyInstr,
         NEW l \in Nat, l \in W \cup B,
         \/ x.op = "JMP" /\ x.var1 = Label(l)
         \/ x.op = "JMPF" /\ x.reg = Label(l)
  PROVE  LabelsFit(Append(c, x), W, B)
<1>1. PICK d \in Seq(AnyInstr), m \in Nat :
        /\ d = Append(c, x) /\ m = Len(c) /\ Len(d) = m + 1
        /\ \A j \in 1 .. m : d[j] = c[j]
        /\ d[m + 1] = x
        /\ \A j \in 1 .. (m + 1) : j \in 1 .. m \/ j = m + 1
  <2>1. /\ Append(c, x) \in Seq(AnyInstr) /\ Len(c) \in Nat /\ Len(Append(c, x)) = Len(c) + 1
        /\ \A j \in 1 .. Len(c) : Append(c, x)[j] = c[j]
        /\ Append(c, x)[Len(c) + 1] = x
        /\ \A j \in 1 .. (Len(c) + 1) : j \in 1 .. Len(c) \/ j = Len(c) + 1
    BY OneMore
  <2> QED
    BY <2>1, Zenon
<1>2. \A n, k : PlacedAt(d, n, k) <=> PlacedAt(c, n, k)
  <2>1. \A k \in 1 .. (m + 1) : d[k].op = "LABEL" => k \in 1 .. m
    BY <1>1
  <2>2. \A k \in 1 .. m : k \in 1 .. (m + 1)
    OBVIOUS
  <2> QED
    BY <1>1, <2>1, <2>2 DEF PlacedAt
<1>3. \A k \in 1 .. (m + 1) : d[k].op \in {"ENTER", "LEAVE"} => k \in 1 .. m /\ d[k] = c[k]
  BY <1>1
<1>4. \A i \in 1 .. (m + 1) : (\A k \in 1 .. m : c[k].op \in {"ENTER", "LEAVE"} => k < i) => CurrentMethod(d, i)
  BY <1>1, <1>3 DEF CurrentMethod
<1>5. \A i, k \in 1 .. m : SameMethod(c, i, k) => SameMethod(d, i, k)
  BY <1>1, <1>3 DEF SameMethod
<1>6. \A n, k : PlacedAt(c, n, k) => k \in 1 .. m /\ k \in 1 .. Len(d)
  BY <1>1 DEF PlacedAt
<1>7. \A i \in 1 .. Len(d) : d[i].op = "LABEL" => \E n \in Nat : d[i].var1 = Label(n)
  BY <1>1 DEF LabelsFit
<1>8. \A n \in Nat : \A j, k \in 1 .. Len(d) : PlacedAt(d, n, j) /\ PlacedAt(d, n, k) => j = k
  BY <1>1, <1>2, <1>6 DEF LabelsFit
<1>9. \A n \in W : \A k \in 1 .. Len(d) : ~PlacedAt(d, n, k)
  BY <1>1, <1>2, <1>6 DEF LabelsFit
<1>10. \A n \in B : \E k \in 1 .. Len(d) : PlacedAt(d, n, k) /\ CurrentMethod(d, k)
  <2>1. SUFFICES ASSUME NEW n \in B PROVE \E k \in 1 .. Len(d) : PlacedAt(d, n, k) /\ CurrentMethod(d, k)
    OBVIOUS
  <2>2. PICK k \in 1 .. m : PlacedAt(c, n, k) /\ CurrentMethod(c, k)
    BY <1>1 DEF LabelsFit
  <2>3. k \in 1 .. (m + 1) /\ CurrentMethod(d, k)
    BY <1>1, <1>4, <2>2 DEF CurrentMethod
  <2> QED
    BY <1>1, <1>2, <2>2, <2>3
<1>11. \A i \in 1 .. Len(d) : d[i].op \in {"JMP", "JMPF"} =>
        \E n \in Nat :
         /\ JumpsTo(d, i, n)
         /\ \/ \E k \in 1 .. Len(d) : PlacedAt(d, n, k) /\ SameMethod(d, i, k)
            \/ n \in W /\ CurrentMethod(d, i)
  <2>1. SUFFICES ASSUME NEW i \in 1 .. Len(d), d[i].op \in {"JMP", "JMPF"}
        PROVE \E n \in Nat :
               /\ JumpsTo(d, i, n)
               /\ \/ \E k \in 1 .. Len(d) : PlacedAt(d, n, k) /\ SameMethod(d, i, k)
                  \/ n \in W /\ CurrentMethod(d, i)
    OBVIOUS
  <2>2. CASE i \in 1 .. m
    <3>1. i \in 1 .. Len(c) /\ d[i] = c[i] /\ i \in 1 .. (m + 1)
      BY <1>1, <2>2
    <3>2. PICK n \in Nat :
                 /\ JumpsTo(c, i, n)
                 /\ \/ \E k \in 1 .. Len(c) : PlacedAt(c, n, k) /\ SameMethod(c, i, k)
                    \/ n \in W /\ CurrentMethod(c, i)
      BY <2>1, <3>1 DEF LabelsFit
    <3>3. JumpsTo(d, i, n)
      BY <3>1, <3>2 DEF JumpsTo
    <3>4. CASE n \in W /\ CurrentMethod(c, i)
      <4>1. CurrentMethod(d, i)
        BY <1>1, <1>4, <3>1, <3>4 DEF CurrentMethod
      <4> QED
        BY <3>3, <3>4, <4>1
    <3>5. CASE \E k \in 1 .. Len(c) : PlacedAt(c, n, k) /\ SameMethod(c, i, k)
      BY <1>1, <1>2, <1>5, <1>6, <2>2, <3>3, <3>5
    <3> QED
      BY <3>2, <3>4, <3>5
  <2>3. CASE i = m + 1
    <3>1. JumpsTo(d, i, l)
      BY <1>1, <2>3 DEF JumpsTo
    <3>2. CurrentMethod(d, i)
      BY <1>1, <1>4, <2>3
    <3>3. l \in B => \E k \in 1 .. Len(d) : PlacedAt(d, l, k) /\ SameMethod(d, i, k)
      <4>1. SUFFICES ASSUME l \in B PROVE \E k \in 1 .. Len(d) : PlacedAt(d, l, k) /\ SameMethod(d, i, k)
        OBVIOUS
      <4>2. PICK k \in 1 .. Len(d) : PlacedAt(d, l, k) /\ CurrentMethod(d, k)
        BY <1>10, <4>1
      <4>3. SameMethod(d, i, k)
        <5>1. \A e \in 1 .. Len(d) : d[e].op \in {"ENTER", "LEAVE"} => e < k /\ e < i
          BY <3>2, <4>2 DEF CurrentMethod
        <5>2. \A e \in 1 .. (m + 1) : e < k /\ e < i => ~(i < e /\ e < k) /\ ~(k < e /\ e < i)
          BY <1>1, <2>3, <4>2
        <5> QED
          BY <1>1, <5>1, <5>2 DEF SameMethod
      <4> QED
        BY <4>2, <4>3
    <3> QED
      BY <3>1, <3>2, <3>3
  <2> QED
    BY <1>1, <2>1, <2>2, <2>3
<1> QED
  BY <1>1, <1>7, <1>8, <1>9, <1>10, <1>11, Zenon DEF LabelsFit

\* An awaited label is placed.
LEMMA PlaceFits ==
  ASSUME NEW c \in Seq(AnyInstr), NEW W \in SUBSET Nat, NEW B \in SUBSET Nat, LabelsFit(c, W, B),
         NEW x \in AnyInstr, NEW l \in W, x.op = "LABEL", x.var1 = Label(l)
  PROVE  LabelsFit(Append(c, x), W \ {l}, B \cup {l})
<1>1. PICK d \in Seq(AnyInstr), m \in Nat :
        /\ d = Append(c, x) /\ m = Len(c) /\ Len(d) = m + 1
        /\ \A j \in 1 .. m : d[j] = c[j]
        /\ d[m + 1] = x
        /\ \A j \in 1 .. (m + 1) : j \in 1 .. m \/ j = m + 1
  <2>1. /\ Append(c, x) \in Seq(AnyInstr) /\ Len(c) \in Nat /\ Len(Append(c, x)) = Len(c) + 1
        /\ \A j \in 1 .. Len(c) : Append(c, x)[j] = c[j]
        /\ Append(c, x)[Len(c) + 1] = x
        /\ \A j \in 1 .. (Len(c) + 1) : j \in 1 .. Len(c) \/ j = Len(c) + 1
    BY OneMore
  <2> QED
    BY <2>1, Zenon
<1>2. \A n \in Nat : \A k : PlacedAt(d, n, k) <=> PlacedAt(c, n, k) \/ (n = l /\ k = m + 1)
  <2>1. \A n \in Nat : Label(l) = Label(n) => n = l
    BY LabelInjective
  <2>2. m + 1 \in 1 .. (m + 1) /\ \A k \in 1 .. m : k \in 1 .. (m + 1)
    OBVIOUS
  <2>3. \A n \in Nat : \A k \in 1 .. (m + 1) :
           d[k].op = "LABEL" /\ d[k].var1 = Label(n) <=>
             \/ k \in 1 .. m /\ c[k].op = "LABEL" /\ c[k].var1 = Label(n)
             \/ n = l /\ k = m + 1
    BY <1>1, <2>1
  <2>4. SUFFICES ASSUME NEW n \in Nat, NEW k
                 PROVE  PlacedAt(d, n, k) <=> PlacedAt(c, n, k) \/ (n = l /\ k = m + 1)
    OBVIOUS
  <2>5. PlacedAt(d, n, k) <=> k \in 1 .. (m + 1) /\ d[k].op = "LABEL" /\ d[k].var1 = Label(n)
    BY <1>1 DEF PlacedAt
  <2>6. PlacedAt(c, n, k) <=> k \in 1 .. m /\ c[k].op = "LABEL" /\ c[k].var1 = Label(n)
    BY <1>1 DEF PlacedAt
  <2> QED
    BY <2>2, <2>3, <2>5, <2>6, Zenon
<1>3. \A k \in 1 .. (m + 1) : d[k].op \in {"ENTER", "LEAVE"} => k \in 1 .. m /\ d[k] = c[k]
  BY <1>1
<1>4. \A i \in 1 .. (m + 1) : (\A k \in 1 .. m : c[k].op \in {"ENTER", "LEAVE"} => k < i) => CurrentMethod(d, i)
  BY <1>1, <1>3 DEF CurrentMethod
<1>5. \A i, k \in 1 .. m : SameMethod(c, i, k) => SameMethod(d, i, k)
  BY <1>1, <1>3 DEF SameMethod
<1>6. \A n, k : PlacedAt(c, n, k) => k \in 1 .. m /\ k \in 1 .. Len(d)
  BY <1>1 DEF PlacedAt
<1>7. \A i \in 1 .. Len(d) : d[i].op = "LABEL" => \E n \in Nat : d[i].var1 = Label(n)
  BY <1>1 DEF LabelsFit
<1>8. \A n \in Nat : \A j, k \in 1 .. Len(d) : PlacedAt(d, n, j) /\ PlacedAt(d, n, k) => j = k
  <2>1. \A k : ~PlacedAt(c, l, k)
    BY <1>1, <1>6 DEF LabelsFit
  <2> QED
    BY <1>1, <1>2, <1>6, <2>1 DEF LabelsFit
<1>9. \A n \in W \ {l} : \A k \in 1 .. Len(d) : ~PlacedAt(d, n, k)
  <2>1. \A n \in W : n \in Nat /\ \A k \in 1 .. m : ~PlacedAt(c, n, k)
    BY <1>1 DEF LabelsFit
  <2> QED
    BY <1>2, <1>6, <2>1
<1>10. \A n \in B \cup {l} : \E k \in 1 .. Len(d) : PlacedAt(d, n, k) /\ CurrentMethod(d, k)
  <2>1. ASSUME NEW n \in B PROVE \E k \in 1 .. Len(d) : PlacedAt(d, n, k) /\ CurrentMethod(d, k)
    <3>2. PICK k \in 1 .. m : PlacedAt(c, n, k) /\ CurrentMethod(c, k)
      BY <1>1, <2>1 DEF LabelsFit
    <3>3. k \in 1 .. (m + 1) /\ CurrentMethod(d, k)
      BY <1>1, <1>4, <3>2 DEF CurrentMethod
    <3>4. n \in Nat /\ PlacedAt(d, n, k)
      BY <1>2, <3>2
    <3> QED
      BY <1>1, <3>3, <3>4
  <2>2. PlacedAt(d, l, m + 1) /\ CurrentMethod(d, m + 1) /\ m + 1 \in 1 .. Len(d)
    BY <1>1, <1>2, <1>4
  <2> QED
    BY <2>1, <2>2
<1>11. \A i \in 1 .. Len(d) : d[i].op \in {"JMP", "JMPF"} =>
        \E n \in Nat :
         /\ JumpsTo(d, i, n)
         /\ \/ \E k \in 1 .. Len(d) : PlacedAt(d, n, k) /\ SameMethod(d, i, k)
            \/ n \in W \ {l} /\ CurrentMethod(d, i)
  <2>1. SUFFICES ASSUME NEW i \in 1 .. Len(d), d[i].op \in {"JMP", "JMPF"}
        PROVE \E n \in Nat :
               /\ JumpsTo(d, i, n)
               /\ \/ \E k \in 1 .. Len(d) : PlacedAt(d, n, k) /\ SameMethod(d, i, k)
                  \/ n \in W \ {l} /\ CurrentMethod(d, i)
    OBVIOUS
  <2>2. i \in 1 .. m /\ i \in 1 .. Len(c) /\ d[i] = c[i] /\ i \in 1 .. (m + 1)
    BY <1>1, <2>1
  <2>3. PICK n \in Nat :
               /\ JumpsTo(c, i, n)
               /\ \/ \E k \in 1 .. Len(c) : PlacedAt(c, n, k) /\ SameMethod(c, i, k)
                  \/ n \in W /\ CurrentMethod(c, i)
    BY <2>1, <2>2 DEF LabelsFit
  <2>4. JumpsTo(d, i, n)
    BY <2>2, <2>3 DEF JumpsTo
  <2>5. CASE n \in W /\ CurrentMethod(c, i)
    <3>1. CurrentMethod(d, i)
      BY <1>1, <1>4, <2>2, <2>5 DEF CurrentMethod
    <3>2. CASE n = l
      <4>1. PlacedAt(d, l, m + 1) /\ m + 1 \in 1 .. Len(d)
        BY <1>1, <1>2
      <4>2. SameMethod(d, i, m + 1)
        <5>1. \A e \in 1 .. Len(d) : d[e].op \in {"ENTER", "LEAVE"} => e < i
          BY <3>1 DEF CurrentMethod
        <5>2. \A e \in 1 .. (m + 1) : e < i => ~(i < e /\ e < m + 1) /\ ~(m + 1 < e /\ e < i)
          BY <2>2
        <5> QED
          BY <1>1, <5>1, <5>2 DEF SameMethod
      <4> QED
        BY <2>4, <3>2, <4>1, <4>2
    <3>3. CASE n # l
      BY <2>4, <2>5, <3>1, <3>3
    <3> QED
      BY <3>2, <3>3
  <2>6. CASE \E k \in 1 .. Len(c) : PlacedAt(c, n, k) /\ SameMethod(c, i, k)
    <3>1. PICK k \in 1 .. Len(c) : PlacedAt(c, n, k) /\ SameMethod(c, i, k)
      BY <2>6
    <3>2. PlacedAt(d, n, k) /\ SameMethod(d, i, k) /\ k \in 1 .. Len(d)
      BY <1>1, <1>2, <1>5, <1>6, <2>2, <3>1
    <3> QED
      BY <2>4, <3>2
  <2> QED
    BY <2>3, <2>5, <2>6
<1> QED
  BY <1>1, <1>7, <1>8, <1>9, <1>10, <1>11, Zenon DEF LabelsFit

\* A method begins or ends: nothing is awaited.
LEMMA MethodFits ==
  ASSUME NEW c \in Seq(AnyInstr), NEW B, LabelsFit(c, {}, B), NEW x \in AnyInstr,
         x.op \in {"ENTER", "LEAVE"}
  PROVE  LabelsFit(Append(c, x), {}, {})
<1>1. PICK d \in Seq(AnyInstr), m \in Nat :
        /\ d = Append(c, x) /\ m = Len(c) /\ Len(d) = m + 1
        /\ \A j \in 1 .. m : d[j] = c[j]
        /\ d[m + 1] = x
        /\ \A j \in 1 .. (m + 1) : j \in 1 .. m \/ j = m + 1
  <2>1. /\ Append(c, x) \in Seq(AnyInstr) /\ Len(c) \in Nat /\ Len(Append(c, x)) = Len(c) + 1
        /\ \A j \in 1 .. Len(c) : Append(c, x)[j] = c[j]
        /\ Append(c, x)[Len(c) + 1] = x
        /\ \A j \in 1 .. (Len(c) + 1) : j \in 1 .. Len(c) \/ j = Len(c) + 1
    BY OneMore
  <2> QED
    BY <2>1, Zenon
<1>2. \A n, k : PlacedAt(d, n, k) <=> PlacedAt(c, n, k)
  <2>1. \A k \in 1 .. (m + 1) : d[k].op = "LABEL" => k \in 1 .. m
    BY <1>1
  <2>2. \A k \in 1 .. m : k \in 1 .. (m + 1)
    OBVIOUS
  <2> QED
    BY <1>1, <2>1, <2>2 DEF PlacedAt
<1>3. \A i, k \in 1 .. m : SameMethod(c, i, k) => SameMethod(d, i, k)
  <2>1. \A e \in 1 .. (m + 1) : \A i, k \in 1 .. m : 
          \/ e \in 1 .. m /\ d[e] = c[e]
          \/ ~(i < e /\ e < k) /\ ~(k < e /\ e < i)
    BY <1>1
  <2> QED
    BY <1>1, <2>1 DEF SameMethod
<1>6. \A n, k : PlacedAt(c, n, k) => k \in 1 .. m /\ k \in 1 .. Len(d)
  BY <1>1 DEF PlacedAt
<1>7. \A i \in 1 .. Len(d) : d[i].op = "LABEL" => \E n \in Nat : d[i].var1 = Label(n)
  BY <1>1 DEF LabelsFit
<1>8. \A n \in Nat : \A j, k \in 1 .. Len(d) : PlacedAt(d, n, j) /\ PlacedAt(d, n, k) => j = k
  BY <1>1, <1>2, <1>6 DEF LabelsFit
<1>11. \A i \in 1 .. Len(d) : d[i].op \in {"JMP", "JMPF"} =>
        \E n \in Nat :
         /\ JumpsTo(d, i, n)
         /\ \E k \in 1 .. Len(d) : PlacedAt(d, n, k) /\ SameMethod(d, i, k)
  <2>1. SUFFICES ASSUME NEW i \in 1 .. Len(d), d[i].op \in {"JMP", "JMPF"}
        PROVE \E n \in Nat :
               /\ JumpsTo(d, i, n)
               /\ \E k \in 1 .. Len(d) : PlacedAt(d, n, k) /\ SameMethod(d, i, k)
    OBVIOUS
  <2>2. i \in 1 .. m /\ i \in 1 .. Len(c) /\ d[i] = c[i] /\ i \in 1 .. (m + 1)
    BY <1>1, <2>1
  <2>3. PICK n \in Nat :
               /\ JumpsTo(c, i, n)
               /\ \E k \in 1 .. Len(c) : PlacedAt(c, n, k) /\ SameMethod(c, i, k)
    BY <2>1, <2>2 DEF LabelsFit
  <2>4. JumpsTo(d, i, n)
    BY <2>2, <2>3 DEF JumpsTo
  <2> QED
    BY <1>1, <1>2, <1>3, <1>6, <2>2, <2>3, <2>4
<1> QED
  BY <1>1, <1>7, <1>8, <1>11, Zenon DEF LabelsFit

\* New labels, and labels that are no longer of interest.
LEMMA NewLabelsFit ==
  ASSUME NEW c \in Seq(AnyInstr), NEW W, NEW B, LabelsFit(c, W, B), NEW V, NEW D, D \subseteq B,
         \A n \in V : \A k \in 1 .. Len(c) : ~PlacedAt(c, n, k)
  PROVE  LabelsFit(c, W \cup V, D)
BY DEF LabelsFit

\* A block is opened inside another one.
LEMMA BlockOpened ==
  ASSUME NEW w \in Seq(AnyBlock), NEW b \in AnyBlock, NEW l \in Nat, BlocksFit(w),
         \A d \in 1 .. Len(w) : LabelsMade(w[d], l), LabelsMade(b, l),
         b.kind # "method", Len(w) > 0,
         \A n \in Awaited(w) : ~Awaits(b, n),
         b.kind = "then" => b.labels[1] # b.labels[2]
  PROVE  /\ Append(w, b) \in Seq(AnyBlock)
         /\ \A d \in 1 .. Len(Append(w, b)) : LabelsMade(Append(w, b)[d], l)
         /\ BlocksFit(Append(w, b))
         /\ Awaited(Append(w, b)) = Awaited(w) \cup {n \in Nat : Awaits(b, n)}
         /\ BackLabels(Append(w, b)) = BackLabels(w) \cup {n \in Nat : Returns(b, n)}
<1>1. PICK v \in Seq(AnyBlock), m \in Nat :
        /\ v = Append(w, b) /\ m = Len(w) /\ Len(v) = m + 1
        /\ \A d \in 1 .. m : v[d] = w[d]
        /\ v[m + 1] = b
        /\ \A d \in 1 .. (m + 1) : d \in 1 .. m \/ d = m + 1
  <2>1. /\ Append(w, b) \in Seq(AnyBlock) /\ Len(w) \in Nat /\ Len(Append(w, b)) = Len(w) + 1
        /\ \A d \in 1 .. Len(w) : Append(w, b)[d] = w[d]
        /\ Append(w, b)[Len(w) + 1] = b
    BY AppendProperties, LenProperties
  <2>2. \A a \in Nat : \A d \in 1 .. (a + 1) : d \in 1 .. a \/ d = a + 1
    OBVIOUS
  <2> QED
    BY <2>1, <2>2, Zenon
<1>2. m + 1 \in 1 .. (m + 1) /\ (\A d \in 1 .. m : d \in 1 .. (m + 1)) /\ m > 0 /\ m + 1 # 1
  BY <1>1
<1>3. \A d \in 1 .. Len(v) : LabelsMade(v[d], l)
  BY <1>1
<1>4. \A n \in Nat : \A d \in 1 .. (m + 1) : Awaits(v[d], n) =>
        \/ d \in 1 .. m /\ Awaits(w[d], n) /\ n \in Awaited(w)
        \/ d = m + 1 /\ Awaits(b, n) /\ n \notin Awaited(w)
  <2>1. SUFFICES ASSUME NEW n \in Nat, NEW d \in 1 .. (m + 1), Awaits(v[d], n)
                 PROVE  \/ d \in 1 .. m /\ Awaits(w[d], n) /\ n \in Awaited(w)
                        \/ d = m + 1 /\ Awaits(b, n) /\ n \notin Awaited(w)
    OBVIOUS
  <2>2. CASE d \in 1 .. m
    <3>1. Awaits(w[d], n) /\ d \in 1 .. Len(w)
      BY <1>1, <2>1, <2>2
    <3> QED
      BY <2>2, <3>1 DEF Awaited
  <2>3. CASE d = m + 1
    BY <1>1, <2>1, <2>3
  <2> QED
    BY <1>1, <2>2, <2>3
<1>5. \A d, e \in 1 .. Len(v) : \A n \in Nat : Awaits(v[d], n) /\ Awaits(v[e], n) => d = e
  <2>1. \A d, e \in 1 .. m : \A n \in Nat : Awaits(w[d], n) /\ Awaits(w[e], n) => d = e
    BY <1>1 DEF BlocksFit
  <2> QED
    BY <1>1, <1>4, <2>1
<1>6. \A d \in 1 .. Len(v) : v[d].kind = "then" => v[d].labels[1] # v[d].labels[2]
  BY <1>1 DEF BlocksFit
<1>7. \A d \in 1 .. Len(v) : v[d].kind = "method" <=> d = 1
  <2>1. \A d \in 1 .. m : w[d].kind = "method" <=> d = 1
    BY <1>1 DEF BlocksFit
  <2> QED
    BY <1>1, <1>2, <2>1
<1>8. Awaited(v) = Awaited(w) \cup {n \in Nat : Awaits(b, n)}
  <2>1. \A n \in Nat : (\E d \in 1 .. Len(v) : Awaits(v[d], n))
           <=> (\E d \in 1 .. Len(w) : Awaits(w[d], n)) \/ Awaits(b, n)
    BY <1>1, <1>2
  <2> QED
    BY <2>1 DEF Awaited
<1>9. BackLabels(v) = BackLabels(w) \cup {n \in Nat : Returns(b, n)}
  <2>1. \A n \in Nat : (\E d \in 1 .. Len(v) : Returns(v[d], n))
           <=> (\E d \in 1 .. Len(w) : Returns(w[d], n)) \/ Returns(b, n)
    BY <1>1, <1>2
  <2> QED
    BY <2>1 DEF BackLabels
<1>10. BlocksFit(v)
  BY <1>5, <1>6, <1>7, Zenon DEF BlocksFit
<1> QED
  BY <1>1, <1>3, <1>8, <1>9, <1>10, Zenon

\* The innermost block is closed.
LEMMA BlockClosed ==
  ASSUME NEW w \in Seq(AnyBlock), NEW l \in Nat, BlocksFit(w), Len(w) > 0,
         \A d \in 1 .. Len(w) : LabelsMade(w[d], l)
  PROVE  \E v \in Seq(AnyBlock) :
           /\ v = SubSeq(w, 1, Len(w) - 1) /\ Len(v) = Len(w) - 1
           /\ \A d \in 1 .. Len(v) : LabelsMade(v[d], l)
           /\ BlocksFit(v)
           /\ Awaited(v) = Awaited(w) \ {n \in Nat : Awaits(w[Len(w)], n)}
           /\ BackLabels(v) \subseteq BackLabels(w)
<1>1. PICK m \in Nat : m = Len(w) - 1 /\ Len(w) = m + 1
  <2>1. Len(w) - 1 \in Nat /\ Len(w) = (Len(w) - 1) + 1
    BY LenProperties
  <2> QED
    BY <2>1, Zenon
<1>2. PICK v \in Seq(AnyBlock) :
        /\ v = SubSeq(w, 1, m) /\ Len(v) = m
        /\ \A d \in 1 .. m : v[d] = w[d]
  <2>1. \A d \in 1 .. m : w[d] \in AnyBlock
    BY <1>1, ElementOfSeq
  <2>2. /\ SubSeq(w, 1, m) \in Seq(AnyBlock) /\ Len(SubSeq(w, 1, m)) = m
        /\ \A d \in 1 .. m : SubSeq(w, 1, m)[d] = w[d]
    BY <1>1, <2>1, SubSeqProperties
  <2> QED
    BY <2>2, Zenon
<1>3. /\ \A d \in 1 .. m : d \in 1 .. (m + 1) /\ d # m + 1
      /\ \A d \in 1 .. (m + 1) : d \in 1 .. m \/ d = m + 1
      /\ m + 1 \in 1 .. (m + 1)
  OBVIOUS
<1>4. \A d \in 1 .. Len(v) : LabelsMade(v[d], l)
  BY <1>1, <1>2, <1>3
<1>5. BlocksFit(v)
  <2>1. /\ \A d, e \in 1 .. (m + 1) : \A n \in Nat : Awaits(w[d], n) /\ Awaits(w[e], n) => d = e
        /\ \A d \in 1 .. (m + 1) : w[d].kind = "then" => w[d].labels[1] # w[d].labels[2]
        /\ \A d \in 1 .. (m + 1) : w[d].kind = "method" <=> d = 1
    BY <1>1 DEF BlocksFit
  <2> QED
    BY <1>2, <1>3, <2>1 DEF BlocksFit
<1>6. Awaited(v) = Awaited(w) \ {n \in Nat : Awaits(w[m + 1], n)}
  <2>1. \A n \in Nat : \A d \in 1 .. (m + 1) : Awaits(w[d], n) /\ Awaits(w[m + 1], n) => d = m + 1
    BY <1>1, <1>3 DEF BlocksFit
  <2>2. \A n \in Nat : (\E d \in 1 .. m : Awaits(v[d], n))
           <=> (\E d \in 1 .. (m + 1) : Awaits(w[d], n)) /\ ~Awaits(w[m + 1], n)
    BY <1>2, <1>3, <2>1
  <2> QED
    BY <1>1, <1>2, <2>2 DEF Awaited
<1>7. BackLabels(v) \subseteq BackLabels(w)
  BY <1>1, <1>2, <1>3 DEF BackLabels
<1> QED
  BY <1>1, <1>2, <1>4, <1>5, <1>6, <1>7, Zenon

\* The innermost block is replaced by one that waits for no new label.
LEMMA BlockChanged ==
  ASSUME NEW w \in Seq(AnyBlock), NEW b \in AnyBlock, NEW l \in Nat, BlocksFit(w), Len(w) > 0,
         \A d \in 1 .. Len(w) : LabelsMade(w[d], l), LabelsMade(b, l),
         w[Len(w)].kind # "method", b.kind \notin {"method", "then"},
         \A n \in Nat : Awaits(b, n) => Awaits(w[Len(w)], n)
  PROVE  \E v \in Seq(AnyBlock) :
           /\ v = [w EXCEPT ![Len(w)] = b] /\ Len(v) = Len(w)
           /\ \A d \in 1 .. Len(v) : LabelsMade(v[d], l)
           /\ BlocksFit(v)
           /\ Awaited(v) = Awaited(w) \ {n \in Nat : Awaits(w[Len(w)], n) /\ ~Awaits(b, n)}
           /\ BackLabels(v) \subseteq BackLabels(w) \cup {n \in Nat : Returns(b, n)}
<1>1. PICK m \in Nat : m = Len(w) /\ m > 0 /\ m \in 1 .. m
  <2>1. Len(w) \in Nat /\ Len(w) > 0 /\ Len(w) \in 1 .. Len(w)
    BY LenProperties
  <2> QED
    BY <2>1, Zenon
<1>2. PICK v \in Seq(AnyBlock) :
        /\ v = [w EXCEPT ![m] = b] /\ Len(v) = m
        /\ \A d \in 1 .. m : v[d] = IF d = m THEN b ELSE w[d]
  <2>1. /\ [w EXCEPT ![m] = b] \in Seq(AnyBlock) /\ Len([w EXCEPT ![m] = b]) = Len(w)
        /\ \A d \in 1 .. Len(w) : [w EXCEPT ![m] = b][d] = IF d = m THEN b ELSE w[d]
    BY <1>1, ExceptSeq
  <2>2. /\ [w EXCEPT ![m] = b] \in Seq(AnyBlock) /\ Len([w EXCEPT ![m] = b]) = m
        /\ \A d \in 1 .. m : [w EXCEPT ![m] = b][d] = IF d = m THEN b ELSE w[d]
    BY <1>1, <2>1
  <2> QED
    BY <2>2, Zenon
<1>3. \A d \in 1 .. m : d # m => v[d] = w[d]
  BY <1>2
<1>4. v[m] = b
  BY <1>1, <1>2
<1>5. \A d \in 1 .. Len(v) : LabelsMade(v[d], l)
  BY <1>1, <1>2, <1>3, <1>4
<1>6. /\ \A d, e \in 1 .. m : \A n \in Nat : Awaits(w[d], n) /\ Awaits(w[e], n) => d = e
      /\ \A d \in 1 .. m : w[d].kind = "then" => w[d].labels[1] # w[d].labels[2]
      /\ \A d \in 1 .. m : w[d].kind = "method" <=> d = 1
  BY <1>1 DEF BlocksFit
<1>7. \A d \in 1 .. m : \A n \in Nat : Awaits(v[d], n) => Awaits(w[d], n)
  <2>1. \A n \in Nat : Awaits(v[m], n) => Awaits(w[m], n)
    BY <1>1, <1>4
  <2> QED
    BY <1>3, <2>1
<1>8. BlocksFit(v)
  <2>1. \A d, e \in 1 .. m : \A n \in Nat : Awaits(v[d], n) /\ Awaits(v[e], n) => d = e
    BY <1>6, <1>7
  <2>2. \A d \in 1 .. m : v[d].kind = "then" => v[d].labels[1] # v[d].labels[2]
    BY <1>3, <1>4, <1>6
  <2>3. \A d \in 1 .. m : v[d].kind = "method" <=> d = 1
    <3>1. m # 1
      BY <1>1, <1>6
    <3> QED
      BY <1>3, <1>4, <1>6, <3>1
  <2> QED
    BY <1>2, <2>1, <2>2, <2>3 DEF BlocksFit
<1>9. Awaited(v) = Awaited(w) \ {n \in Nat : Awaits(w[m], n) /\ ~Awaits(b, n)}
  <2>1. \A n \in Nat : \A d \in 1 .. m : Awaits(w[d], n) /\ Awaits(w[m], n) => d = m
    BY <1>1, <1>6
  <2>2. \A n \in Nat : (\E d \in 1 .. m : Awaits(v[d], n)) =>
           (\E d \in 1 .. m : Awaits(w[d], n)) /\ ~(Awaits(w[m], n) /\ ~Awaits(b, n))
    <3>1. SUFFICES ASSUME NEW n \in Nat, NEW d \in 1 .. m, Awaits(v[d], n)
                   PROVE  Awaits(w[d], n) /\ (Awaits(w[m], n) => Awaits(b, n))
      OBVIOUS
    <3>2. Awaits(w[d], n)
      BY <1>7, <3>1
    <3> QED
      BY <1>4, <2>1, <3>1, <3>2
  <2>3. \A n \in Nat : \A d \in 1 .. m : Awaits(w[d], n) /\ ~(Awaits(w[m], n) /\ ~Awaits(b, n)) =>
           \E e \in 1 .. m : Awaits(v[e], n)
    BY <1>1, <1>3, <1>4
  <2> QED
    BY <1>1, <1>2, <2>2, <2>3 DEF Awaited
<1>10. BackLabels(v) \subseteq BackLabels(w) \cup {n \in Nat : Returns(b, n)}
  BY <1>1, <1>2, <1>3, <1>4 DEF BackLabels
<1> QED
  BY <1>1, <1>2, <1>5, <1>8, <1>9, <1>10, Zenon

-----------------------------------------------------------------------------
(* The actions that make the control structure.                            *)

GenInv == GenTypes /\ TempInv /\ LabelInv

Emits ==
  \/ \E s \in Seq(AnyInstr), keep \in 0 .. Len(operands), n \in Nat : EmitStep(s, keep, n)
  \/ UNCHANGED <<code, temp_counter, operands, cant_ap_h>>

BlocksTyped ==
  /\ label_counter' \in Nat /\ label_counter <= label_counter'
  /\ open' \in Seq(AnyBlock)
  /\ \A d \in 1 .. Len(open') : LabelsMade(open'[d], label_counter')
  /\ phase' \in {"gen", "optimize", "done"}

ControlStep == Emits /\ BlocksTyped /\ LabelInv'

\* What was made stays made.
LEMMA MadeKept ==
  ASSUME NEW o \in AnyOperand, NEW n \in Nat, NEW l \in Nat, NEW nn \in Nat, NEW ll \in Nat,
         n <= nn, l <= ll, Made(o, n, l)
  PROVE  Made(o, nn, ll)
BY DEF Made, AnyOperand

LEMMA InvKept ==
  ASSUME GenTypes, TempInv, Emits, BlocksTyped
  PROVE  GenTypes' /\ TempInv'
<1>1. PICK c \in Seq(AnyInstr), o \in Seq(AnyOperand), tc \in Nat, l \in Nat, ll \in Nat :
         /\ c = code /\ o = operands /\ tc = temp_counter /\ l = label_counter
         /\ ll = label_counter' /\ l <= ll
  BY DEF GenTypes, BlocksTyped
<1>2. /\ AllMade(c, tc, l) /\ Len(c) <= MaxCode
      /\ \A k \in 1 .. Len(o) : o[k] \in AnyOperand /\ o[k].kind \in {"name", "temp"} /\ Made(o[k], tc, l)
  BY <1>1 DEF GenTypes
<1>3. \A i \in 1 .. Len(c) : \A f \in 1 .. 3 : Arg(c[i], f) \in AnyOperand
  <2>1. \A i \in 1 .. Len(c) : c[i] \in AnyInstr
    BY ElementOfSeq
  <2> QED
    BY <2>1 DEF Arg, AnyInstr
<1>4. CASE code' = code /\ temp_counter' = temp_counter /\ operands' = operands
  <2>1. AllMade(c, tc, ll)
    BY <1>1, <1>2, <1>3, MadeKept DEF AllMade
  <2>2. \A k \in 1 .. Len(o) : o[k].kind \in {"name", "temp"} /\ Made(o[k], tc, ll)
    BY <1>1, <1>2, MadeKept
  <2>3. GenTypes'
    BY <1>1, <1>2, <1>4, <2>1, <2>2 DEF GenTypes, BlocksTyped
  <2>4. TempInv'
    BY <1>4 DEF TempInv, PendingOnce
  <2> QED
    BY <2>3, <2>4
<1>5. CASE \E s \in Seq(AnyInstr), keep \in 0 .. Len(operands), n \in Nat : EmitStep(s, keep, n)
  <2>1. PICK s \in Seq(AnyInstr), keep \in 0 .. Len(o), n \in Nat : EmitStep(s, keep, n)
    BY <1>1, <1>5
  <2>2. PICK p \in Seq(AnyOperand) : p = operands' /\ Leaves(p, o, keep, tc, n)
    BY <1>1, <2>1 DEF EmitStep, Leaves
  <2>3. /\ code' = c \o s /\ temp_counter' = n /\ n \in {tc, tc + 1} /\ Len(c) + Len(s) <= MaxCode
        /\ AllMade(s, n, ll)
    BY <1>1, <2>1 DEF EmitStep, Emit
  <2>4. tc <= n
    BY <2>3
  <2>5. PICK d \in Seq(AnyInstr) :
          /\ d = c \o s /\ Len(d) = Len(c) + Len(s)
          /\ \A i \in 1 .. Len(c) : d[i] = c[i]
          /\ \A i \in 1 .. Len(s) : d[Len(c) + i] = s[i]
          /\ \A i \in 1 .. Len(d) : i \in 1 .. Len(c) \/ \E j \in 1 .. Len(s) : i = Len(c) + j
    <3>1. /\ c \o s \in Seq(AnyInstr) /\ Len(c \o s) = Len(c) + Len(s)
          /\ \A i \in 1 .. Len(c) : (c \o s)[i] = c[i]
          /\ \A i \in 1 .. Len(s) : (c \o s)[Len(c) + i] = s[i]
          /\ \A i \in 1 .. Len(c \o s) : i \in 1 .. Len(c) \/ \E j \in 1 .. Len(s) : i = Len(c) + j
      BY CodeParts
    <3> QED
      BY <3>1, Zenon
  <2>6. AllMade(d, n, ll)
    <3>1. SUFFICES ASSUME NEW i \in 1 .. Len(d), NEW f \in 1 .. 3 PROVE Made(Arg(d[i], f), n, ll)
      BY DEF AllMade
    <3>2. CASE i \in 1 .. Len(c)
      <4>1. Made(Arg(c[i], f), tc, l) /\ Arg(c[i], f) \in AnyOperand
        BY <1>2, <1>3, <3>2 DEF AllMade
      <4>2. Made(Arg(c[i], f), n, ll)
        BY <1>1, <2>4, <4>1, MadeKept
      <4> QED
        BY <2>5, <3>2, <4>2
    <3>3. CASE \E j \in 1 .. Len(s) : i = Len(c) + j
      <4>1. PICK j \in 1 .. Len(s) : i = Len(c) + j
        BY <3>3
      <4>2. d[i] = s[j] /\ Made(Arg(s[j], f), n, ll)
        BY <2>3, <2>5, <4>1 DEF AllMade
      <4> QED
        BY <4>2
    <3> QED
      BY <2>5, <3>2, <3>3
  <2>7. \A k \in 1 .. Len(p) : p[k].kind \in {"name", "temp"} /\ Made(p[k], n, ll)
    <3>1. SUFFICES ASSUME NEW k \in 1 .. Len(p) PROVE p[k].kind \in {"name", "temp"} /\ Made(p[k], n, ll)
      OBVIOUS
    <3>2. CASE k <= keep /\ p[k] = o[k]
      <4>1. Len(o) \in Nat /\ Len(p) \in Nat
        BY LenProperties
      <4>2. k \in 1 .. Len(o)
        BY <3>2, <4>1
      <4>3. Made(o[k], n, ll)
        BY <1>1, <1>2, <2>4, <4>2, MadeKept
      <4> QED
        BY <1>2, <3>2, <4>2, <4>3
    <3>3. CASE p[k] = Name
      BY <3>3 DEF Made, Name, Operand
    <3>4. CASE p[k] = Temp(n) /\ n = tc + 1
      BY <3>4 DEF Made, Temp, Operand
    <3> QED
      BY <2>2, <3>2, <3>3, <3>4 DEF Leaves
  <2>8. GenTypes'
    BY <1>1, <2>2, <2>3, <2>5, <2>6, <2>7 DEF GenTypes, BlocksTyped
  <2> QED
    BY <2>1, <2>8, EmitKeepsTemps
<1> QED
  BY <1>4, <1>5 DEF Emits

\* A plain step keeps the labels.
LEMMA PlainKeepsLabels ==
  ASSUME GenInv, PlainStep
  PROVE  ControlStep
<1>1. PICK s \in Seq(AnyInstr), keep \in 0 .. Len(operands), n \in Nat : EmitStep(s, keep, n) /\ Plain(s)
  BY DEF PlainStep
<1>2. PICK c \in Seq(AnyInstr), w \in Seq(AnyBlock), l \in Nat :
        /\ c = code /\ w = open /\ l = label_counter
        /\ \A d \in 1 .. Len(w) : LabelsMade(w[d], l)
        /\ LabelsFit(c, Awaited(w), BackLabels(w)) /\ BlocksFit(w)
        /\ phase \in {"gen", "optimize", "done"}
  BY DEF GenInv, GenTypes, LabelInv
<1>3. PICK v \in Seq(AnyBlock) :
        /\ v = open' /\ Len(v) = Len(w)
        /\ \A d \in 1 .. Len(w) : v[d].kind = w[d].kind /\ v[d].labels = w[d].labels
  BY <1>2 DEF PlainStep, OpenSame
<1>4. Awaited(v) = Awaited(w) /\ BackLabels(v) = BackLabels(w) /\ BlocksFit(v)
  <2>1. \A d \in 1 .. Len(w) : \A n1 \in Nat : (Awaits(v[d], n1) <=> Awaits(w[d], n1))
                                            /\ (Returns(v[d], n1) <=> Returns(w[d], n1))
    BY <1>3 DEF Awaits, Returns
  <2>2. Awaited(v) = Awaited(w)
    BY <1>3, <2>1 DEF Awaited
  <2>3. BackLabels(v) = BackLabels(w)
    BY <1>3, <2>1 DEF BackLabels
  <2>4. BlocksFit(v)
    <3>1. \A d, e \in 1 .. Len(v) : \A n1 \in Nat : Awaits(v[d], n1) /\ Awaits(v[e], n1) => d = e
      BY <1>2, <1>3, <2>1 DEF BlocksFit
    <3>2. \A d \in 1 .. Len(v) : /\ v[d].kind = "then" => v[d].labels[1] # v[d].labels[2]
                                 /\ v[d].kind = "method" <=> d = 1
      BY <1>2, <1>3 DEF BlocksFit
    <3> QED
      BY <3>1, <3>2 DEF BlocksFit
  <2> QED
    BY <2>2, <2>3, <2>4
<1>5. LabelsFit(c \o s, Awaited(w), BackLabels(w))
  BY <1>1, <1>2, PlainFits
<1>6. code' = c \o s
  BY <1>1, <1>2 DEF EmitStep, Emit
<1>7. LabelInv'
  BY <1>3, <1>4, <1>5, <1>6 DEF LabelInv
<1>8. BlocksTyped
  BY <1>2, <1>3 DEF BlocksTyped, PlainStep, LabelsMade
<1> QED
  BY <1>1, <1>7, <1>8 DEF ControlStep, Emits

\* Instructions without temporaries.
LEMMA EmitControl ==
  ASSUME GenTypes, NEW s \in Seq(AnyInstr), Emit(s, temp_counter), operands' = <<>>,
         \A j \in 1 .. Len(s) : \A f \in 1 .. 3 : Arg(s[j], f).kind # "temp",
         AllMade(s, temp_counter, label_counter')
  PROVE  Emits
<1>1. temp_counter \in Nat /\ ~(temp_counter = temp_counter + 1)
  BY DEF GenTypes
<1>2. 0 \in 0 .. Len(operands)
  <2>1. Len(operands) \in Nat
    BY LenProperties DEF GenTypes
  <2> QED
    BY <2>1
<1>3. Reads(s, operands, 0, temp_counter, temp_counter)
  BY <1>1 DEF Reads
<1>4. EmitStep(s, 0, temp_counter)
  BY <1>2, <1>3, LeavesNothing DEF EmitStep
<1> QED
  BY <1>1, <1>2, <1>4 DEF Emits

\* The blocks gen_code opens.
LEMMA BlockFacts ==
  ASSUME NEW kind \in {"method", "block"} \cup Labelled, NEW l1 \in Nat, NEW l2 \in Nat
  PROVE  \E b \in AnyBlock : /\ b = Enter(kind, l1, l2) /\ b.kind = kind
                             /\ b.labels[1] = l1 /\ b.labels[2] = l2
<1>1. /\ Enter(kind, l1, l2) \in AnyBlock /\ Enter(kind, l1, l2).kind = kind
      /\ Enter(kind, l1, l2).labels[1] = l1 /\ Enter(kind, l1, l2).labels[2] = l2
  BY DEF Enter, AnyBlock
<1> QED
  BY <1>1, Zenon

\* The labels of the code and of the blocks exist.
LEMMA LabelsBelow ==
  ASSUME NEW c \in Seq(AnyInstr), NEW w \in Seq(AnyBlock), NEW tc \in Nat, NEW l \in Nat,
         AllMade(c, tc, l), \A d \in 1 .. Len(w) : LabelsMade(w[d], l)
  PROVE  /\ \A n \in Nat : \A k \in 1 .. Len(c) : PlacedAt(c, n, k) => n < l
         /\ \A n \in Awaited(w) : n < l
         /\ \A n \in BackLabels(w) : n < l
<1>1. \A k \in 1 .. Len(c) : Made(c[k].var1, tc, l)
  <2>1. 1 \in 1 .. 3 /\ \A x : Arg(x, 1) = x.var1
    BY DEF Arg
  <2> QED
    BY <2>1 DEF AllMade
<1>2. \A n \in Nat : \A k \in 1 .. Len(c) : PlacedAt(c, n, k) => n < l
  BY <1>1, LabelInjective DEF PlacedAt, Made
<1>3. \A n \in Awaited(w) : n < l
  BY DEF Awaited, Awaits, LabelsMade, Labelled
<1>4. \A n \in BackLabels(w) : n < l
  BY DEF BackLabels, Returns, LabelsMade, Labelled
<1> QED
  BY <1>2, <1>3, <1>4

\* One more instruction, as emit appends it.
LEMMA ConcatOne ==
  ASSUME NEW c \in Seq(AnyInstr), NEW x \in AnyInstr
  PROVE  c \o <<x>> = Append(c, x) /\ Append(c, x) \in Seq(AnyInstr)
  OBVIOUS

\* The state between two statements.
LEMMA InMethodFacts ==
  ASSUME GenInv
  PROVE  \E c \in Seq(AnyInstr), w \in Seq(AnyBlock), l \in Nat, tc \in Nat :
           /\ c = code /\ w = open /\ l = label_counter /\ tc = temp_counter
           /\ AllMade(c, tc, l)
           /\ \A d \in 1 .. Len(w) : LabelsMade(w[d], l)
           /\ LabelsFit(c, Awaited(w), BackLabels(w)) /\ BlocksFit(w)
           /\ phase \in {"gen", "optimize", "done"}
BY DEF GenInv, GenTypes, LabelInv

LEMMA IfStep ==
  ASSUME GenInv, GenIf
  PROVE  ControlStep
<1>1. PICK c \in Seq(AnyInstr), w \in Seq(AnyBlock), l \in Nat, tc \in Nat :
        /\ c = code /\ w = open /\ l = label_counter /\ tc = temp_counter
        /\ AllMade(c, tc, l)
        /\ \A d \in 1 .. Len(w) : LabelsMade(w[d], l)
        /\ LabelsFit(c, Awaited(w), BackLabels(w)) /\ BlocksFit(w)
        /\ phase \in {"gen", "optimize", "done"}
  BY InMethodFacts
<1>2. /\ Len(operands) = 1 /\ operands' = <<>> /\ label_counter' = l + 2 /\ phase' = phase
      /\ Emit(<<Instr("JMPF", Pending(0), None, Label(l))>>, temp_counter)
      /\ open' = Append(w, Enter("then", l, l + 1))
      /\ w # <<>>
  BY <1>1 DEF GenIf, AfterExpression, NewLabels, JumpIfNot, AtStatement, Here
<1>3. GenTypes /\ PendingOnce
  BY DEF GenInv, TempInv
<1>4. PICK x \in AnyInstr :
        /\ x = Instr("JMPF", Pending(0), None, Label(l))
        /\ x.op = "JMPF" /\ x.var1 = Pending(0) /\ x.var2 = None /\ x.reg = Label(l)
  <2>1. "JMPF" \in Ops /\ None \in AnyOperand /\ Label(l) \in AnyOperand
    BY OperandFacts DEF Ops
  <2>2. Pending(0) \in AnyOperand
    <3>1. 0 \in Nat /\ 0 < Len(operands)
      BY <1>2
    <3> QED
      BY <1>3, <3>1, LastOperands
  <2> QED
    BY <2>1, <2>2, InstrExists
<1>5. Emits
  <2>1. \A f \in 2 .. 3 : Arg(x, f).kind # "temp" /\ Made(Arg(x, f), temp_counter, label_counter')
    <3>1. \A f \in 2 .. 3 : Arg(x, f) = IF f = 2 THEN None ELSE Label(l)
      BY <1>4 DEF Arg
    <3>2. None.kind = "none" /\ None.n = 0 /\ Label(l).kind = "label" /\ Label(l).n = l /\ l < l + 2
      BY OperandFacts
    <3> QED
      BY <1>2, <3>1, <3>2 DEF Made
  <2>2. label_counter' \in Nat /\ label_counter <= label_counter'
    BY <1>1, <1>2
  <2>3. Emit(<<x>>, temp_counter)
    BY <1>2, <1>4
  <2>4. \E s \in Seq(AnyInstr), keep \in 0 .. Len(operands), n \in Nat :
           /\ EmitStep(s, keep, n)
           /\ Len(s) = 1 /\ s[1] = x
    BY <1>2, <1>3, <1>4, <2>1, <2>2, <2>3, StatementOne
  <2> QED
    BY <2>4, Zenon DEF Emits
<1>6. PICK b \in AnyBlock : /\ b = Enter("then", l, l + 1) /\ b.kind = "then"
                            /\ b.labels[1] = l /\ b.labels[2] = l + 1
  BY BlockFacts DEF Labelled
<1>7. \A n \in Nat : (Awaits(b, n) <=> n \in {l, l + 1}) /\ ~Returns(b, n)
  BY <1>6 DEF Awaits, Returns
<1>8. /\ \A n \in Nat : \A k \in 1 .. Len(c) : PlacedAt(c, n, k) => n < l
      /\ \A n \in Awaited(w) : n < l /\ n \in Nat
  BY <1>1, LabelsBelow DEF Awaited
<1>9. PICK v : /\ v = Append(w, b) /\ v \in Seq(AnyBlock)
               /\ \A d \in 1 .. Len(v) : LabelsMade(v[d], l + 2)
               /\ BlocksFit(v)
               /\ Awaited(v) = Awaited(w) \cup {n \in Nat : Awaits(b, n)}
               /\ BackLabels(v) = BackLabels(w) \cup {n \in Nat : Returns(b, n)}
  <2>1. \A d \in 1 .. Len(w) : LabelsMade(w[d], l + 2)
    <3>1. \A d \in 1 .. Len(w) : w[d] \in AnyBlock
      BY ElementOfSeq
    <3> QED
      BY <1>1, <3>1 DEF LabelsMade, AnyBlock
  <2>2. LabelsMade(b, l + 2) /\ b.kind # "method" /\ b.labels[1] # b.labels[2]
    BY <1>6 DEF LabelsMade
  <2>3. \A n \in Awaited(w) : ~Awaits(b, n)
    BY <1>7, <1>8
  <2>4. Len(w) > 0
    BY <1>2, EmptySeq, LenProperties
  <2>5. l + 2 \in Nat
    OBVIOUS
  <2> QED
    BY <1>1, <2>1, <2>2, <2>3, <2>4, <2>5, BlockOpened
<1>10. Awaited(v) = Awaited(w) \cup {l, l + 1} /\ BackLabels(v) = BackLabels(w)
  BY <1>7, <1>9
<1>11. LabelsFit(c, Awaited(w) \cup {l, l + 1}, BackLabels(w))
  <2>1. \A n \in {l, l + 1} : \A k \in 1 .. Len(c) : ~PlacedAt(c, n, k)
    BY <1>8
  <2> QED
    BY <1>1, <2>1, NewLabelsFit
<1>12. LabelsFit(Append(c, x), Awaited(v), BackLabels(v))
  BY <1>4, <1>10, <1>11, JumpFits
<1>13. code' = Append(c, x)
  BY <1>1, <1>2, <1>4, ConcatOne DEF Emit
<1>14. LabelInv'
  BY <1>2, <1>6, <1>9, <1>12, <1>13 DEF LabelInv
<1>15. BlocksTyped
  BY <1>1, <1>2, <1>6, <1>9 DEF BlocksTyped
<1> QED
  BY <1>5, <1>14, <1>15 DEF ControlStep

\* One instruction with a label or a name.
LEMMA EmitLabel ==
  ASSUME GenTypes, NEW x \in AnyInstr, Emit(<<x>>, temp_counter), operands' = <<>>,
         Made(x.var1, temp_counter, label_counter'), x.var1.kind # "temp",
         x.var2 = None, x.reg = None
  PROVE  Emits
<1>1. PICK s \in Seq(AnyInstr) : s = <<x>> /\ Len(s) = 1 /\ s[1] = x
  BY OneInstr
<1>2. \A f \in 1 .. 3 : Arg(x, f).kind # "temp" /\ Made(Arg(x, f), temp_counter, label_counter')
  <2>1. \A f \in 1 .. 3 : Arg(x, f) = IF f = 1 THEN x.var1 ELSE None
    BY DEF Arg
  <2> QED
    BY <2>1, OperandFacts
<1>3. AllMade(s, temp_counter, label_counter') /\ \A j \in 1 .. Len(s) : \A f \in 1 .. 3 : Arg(s[j], f).kind # "temp"
  BY <1>1, <1>2 DEF AllMade
<1> QED
  BY <1>1, <1>3, EmitControl

LEMMA WhileStep ==
  ASSUME GenInv, GenWhile
  PROVE  ControlStep
<1>1. PICK c \in Seq(AnyInstr), w \in Seq(AnyBlock), l \in Nat, tc \in Nat :
        /\ c = code /\ w = open /\ l = label_counter /\ tc = temp_counter
        /\ AllMade(c, tc, l)
        /\ \A d \in 1 .. Len(w) : LabelsMade(w[d], l)
        /\ LabelsFit(c, Awaited(w), BackLabels(w)) /\ BlocksFit(w)
        /\ phase \in {"gen", "optimize", "done"}
  BY InMethodFacts
<1>2. /\ operands' = <<>> /\ label_counter' = l + 2 /\ phase' = phase
      /\ Emit(<<Instr("LABEL", Label(l), None, None)>>, temp_counter)
      /\ open' = Append(w, Enter("cond", l, l + 1))
      /\ w # <<>>
  BY <1>1 DEF GenWhile, NewLabels, Target, AtStatement, Here
<1>3. GenTypes
  BY DEF GenInv
<1>4. PICK x \in AnyInstr :
        /\ x = Instr("LABEL", Label(l), None, None)
        /\ x.op = "LABEL" /\ x.var1 = Label(l) /\ x.var2 = None /\ x.reg = None
  <2>1. "LABEL" \in Ops /\ None \in AnyOperand /\ Label(l) \in AnyOperand
    BY OperandFacts DEF Ops
  <2> QED
    BY <2>1, InstrExists
<1>5. Emits
  <2>1. Label(l).kind = "label" /\ Label(l).n = l /\ l < l + 2
    BY OperandFacts
  <2>2. Made(x.var1, temp_counter, label_counter') /\ x.var1.kind # "temp"
    BY <1>2, <1>4, <2>1 DEF Made
  <2> QED
    BY <1>2, <1>3, <1>4, <2>2, EmitLabel
<1>6. PICK b \in AnyBlock : /\ b = Enter("cond", l, l + 1) /\ b.kind = "cond"
                            /\ b.labels[1] = l /\ b.labels[2] = l + 1
  BY BlockFacts DEF Labelled
<1>7. \A n \in Nat : (Awaits(b, n) <=> n = l + 1) /\ (Returns(b, n) <=> n = l)
  BY <1>6 DEF Awaits, Returns
<1>8. /\ \A n \in Nat : \A k \in 1 .. Len(c) : PlacedAt(c, n, k) => n < l
      /\ \A n \in Awaited(w) : n < l /\ n \in Nat
  BY <1>1, LabelsBelow DEF Awaited
<1>9. PICK v : /\ v = Append(w, b) /\ v \in Seq(AnyBlock)
               /\ \A d \in 1 .. Len(v) : LabelsMade(v[d], l + 2)
               /\ BlocksFit(v)
               /\ Awaited(v) = Awaited(w) \cup {n \in Nat : Awaits(b, n)}
               /\ BackLabels(v) = BackLabels(w) \cup {n \in Nat : Returns(b, n)}
  <2>1. \A d \in 1 .. Len(w) : LabelsMade(w[d], l + 2)
    <3>1. \A d \in 1 .. Len(w) : w[d] \in AnyBlock
      BY ElementOfSeq
    <3> QED
      BY <1>1, <3>1 DEF LabelsMade, AnyBlock
  <2>2. LabelsMade(b, l + 2) /\ b.kind # "method" /\ b.kind # "then"
    BY <1>6 DEF LabelsMade
  <2>3. \A n \in Awaited(w) : ~Awaits(b, n)
    BY <1>7, <1>8
  <2>4. Len(w) > 0
    BY <1>2, EmptySeq, LenProperties
  <2>5. l + 2 \in Nat
    OBVIOUS
  <2> QED
    BY <1>1, <2>1, <2>2, <2>3, <2>4, <2>5, BlockOpened
<1>10. Awaited(v) = (Awaited(w) \cup {l, l + 1}) \ {l} /\ BackLabels(v) = BackLabels(w) \cup {l}
  <2>1. l \notin Awaited(w)
    BY <1>8
  <2> QED
    BY <1>7, <1>9, <2>1
<1>11. LabelsFit(c, Awaited(w) \cup {l, l + 1}, BackLabels(w))
  <2>1. \A n \in {l, l + 1} : \A k \in 1 .. Len(c) : ~PlacedAt(c, n, k)
    BY <1>8
  <2> QED
    BY <1>1, <2>1, NewLabelsFit
<1>12. LabelsFit(Append(c, x), Awaited(v), BackLabels(v))
  <2>1. PICK W \in SUBSET Nat, B \in SUBSET Nat : /\ W = Awaited(w) \cup {l, l + 1} /\ l \in W
                                                   /\ B = BackLabels(w)
    <3>1. /\ Awaited(w) \cup {l, l + 1} \in SUBSET Nat /\ BackLabels(w) \in SUBSET Nat
          /\ l \in Awaited(w) \cup {l, l + 1}
      BY DEF Awaited, BackLabels
    <3> QED
      BY <3>1, Zenon
  <2>2. LabelsFit(Append(c, x), W \ {l}, B \cup {l})
    BY <1>4, <1>11, <2>1, PlaceFits
  <2> QED
    BY <1>10, <2>1, <2>2
<1>13. code' = Append(c, x)
  BY <1>1, <1>2, <1>4, ConcatOne DEF Emit
<1>14. LabelInv'
  BY <1>2, <1>6, <1>9, <1>12, <1>13 DEF LabelInv
<1>15. BlocksTyped
  BY <1>1, <1>2, <1>6, <1>9 DEF BlocksTyped
<1> QED
  BY <1>5, <1>14, <1>15 DEF ControlStep

\* The labels of the innermost block.
LEMMA CurrentLabelsFacts ==
  ASSUME GenTypes, open # <<>>
  PROVE  /\ CurrentLabels[1] = Label(open[Len(open)].labels[1])
         /\ CurrentLabels[2] = Label(open[Len(open)].labels[2])
         /\ open[Len(open)].labels[1] \in Nat /\ open[Len(open)].labels[2] \in Nat
<1>1. open[Len(open)] \in AnyBlock
  BY CurrentBlock
<1> QED
  BY <1>1 DEF CurrentLabels, AnyBlock

LEMMA WhileTestStep ==
  ASSUME GenInv, GenWhileTest
  PROVE  ControlStep
<1>1. PICK c \in Seq(AnyInstr), w \in Seq(AnyBlock), l \in Nat, tc \in Nat :
        /\ c = code /\ w = open /\ l = label_counter /\ tc = temp_counter
        /\ AllMade(c, tc, l)
        /\ \A d \in 1 .. Len(w) : LabelsMade(w[d], l)
        /\ LabelsFit(c, Awaited(w), BackLabels(w)) /\ BlocksFit(w)
        /\ phase \in {"gen", "optimize", "done"}
  BY InMethodFacts
<1>2. /\ GenTypes /\ PendingOnce
      /\ w # <<>> /\ Len(w) > 0 /\ Len(w) \in 1 .. Len(w)
      /\ w[Len(w)] \in AnyBlock /\ w[Len(w)].kind = "cond"
  <2>1. open # <<>> /\ Here = "cond" /\ GenTypes /\ PendingOnce
    BY DEF GenWhileTest, Here, GenInv, TempInv
  <2> QED
    BY <1>1, <2>1, CurrentBlock
<1>3. PICK l1 \in Nat, l2 \in Nat : /\ l1 = w[Len(w)].labels[1] /\ l2 = w[Len(w)].labels[2]
                                    /\ CurrentLabels[2] = Label(l2)
                                    /\ l2 < l
  <2>1. LabelsMade(w[Len(w)], l)
    BY <1>1, <1>2
  <2> QED
    BY <1>1, <1>2, <2>1, CurrentLabelsFacts DEF LabelsMade, Labelled
<1>4. /\ Len(operands) = 1 /\ operands' = <<>> /\ label_counter' = l /\ phase' = phase
      /\ Emit(<<Instr("JMPF", Pending(0), None, Label(l2))>>, temp_counter)
      /\ open' = [w EXCEPT ![Len(w)].kind = "while"]
  BY <1>1, <1>3 DEF GenWhileTest, WhileTest, AfterExpression, JumpIfNot
<1>5. PICK x \in AnyInstr :
        /\ x = Instr("JMPF", Pending(0), None, Label(l2))
        /\ x.op = "JMPF" /\ x.var1 = Pending(0) /\ x.var2 = None /\ x.reg = Label(l2)
  <2>1. "JMPF" \in Ops /\ None \in AnyOperand /\ Label(l2) \in AnyOperand
    BY OperandFacts DEF Ops
  <2>2. Pending(0) \in AnyOperand
    <3>1. 0 \in Nat /\ 0 < Len(operands)
      BY <1>4
    <3> QED
      BY <1>2, <3>1, LastOperands
  <2> QED
    BY <2>1, <2>2, InstrExists
<1>6. Emits
  <2>1. \A f \in 2 .. 3 : Arg(x, f).kind # "temp" /\ Made(Arg(x, f), temp_counter, label_counter')
    <3>1. \A f \in 2 .. 3 : Arg(x, f) = IF f = 2 THEN None ELSE Label(l2)
      BY <1>5 DEF Arg
    <3>2. None.kind = "none" /\ None.n = 0 /\ Label(l2).kind = "label" /\ Label(l2).n = l2 /\ l2 < l
      BY <1>3, OperandFacts
    <3> QED
      BY <1>4, <3>1, <3>2 DEF Made
  <2>2. label_counter' \in Nat /\ label_counter <= label_counter'
    BY <1>1, <1>4
  <2>3. Emit(<<x>>, temp_counter)
    BY <1>4, <1>5
  <2>4. \E s \in Seq(AnyInstr), keep \in 0 .. Len(operands), n \in Nat :
           /\ EmitStep(s, keep, n)
           /\ Len(s) = 1 /\ s[1] = x
    BY <1>2, <1>4, <1>5, <2>1, <2>2, <2>3, StatementOne
  <2> QED
    BY <2>4, Zenon DEF Emits
<1>7. PICK b \in AnyBlock : b = [w[Len(w)] EXCEPT !.kind = "while"] /\ b.kind = "while"
                            /\ b.labels = w[Len(w)].labels
  <2>1. PICK e \in AnyBlock : e = w[Len(w)]
    BY <1>2
  <2>2. /\ [e EXCEPT !.kind = "while"] \in AnyBlock /\ [e EXCEPT !.kind = "while"].kind = "while"
        /\ [e EXCEPT !.kind = "while"].labels = e.labels
    BY DEF AnyBlock, Labelled
  <2> QED
    BY <2>1, <2>2, Zenon
<1>8. open' = [w EXCEPT ![Len(w)] = b]
  BY <1>2, <1>4, <1>7
<1>9. \A n \in Nat : /\ Awaits(b, n) <=> Awaits(w[Len(w)], n)
                     /\ Returns(b, n) <=> Returns(w[Len(w)], n)
  BY <1>2, <1>7 DEF Awaits, Returns
<1>10. PICK v \in Seq(AnyBlock) :
           /\ v = [w EXCEPT ![Len(w)] = b]
           /\ \A d \in 1 .. Len(v) : LabelsMade(v[d], l)
           /\ BlocksFit(v)
           /\ Awaited(v) = Awaited(w) \ {n \in Nat : Awaits(w[Len(w)], n) /\ ~Awaits(b, n)}
           /\ BackLabels(v) \subseteq BackLabels(w) \cup {n \in Nat : Returns(b, n)}
  <2>1. LabelsMade(b, l) /\ b.kind \notin {"method", "then"} /\ w[Len(w)].kind # "method"
    BY <1>1, <1>2, <1>7 DEF LabelsMade, Labelled
  <2>2. \A n \in Nat : Awaits(b, n) => Awaits(w[Len(w)], n)
    BY <1>9
  <2>3. BlocksFit(w) /\ Len(w) > 0 /\ \A d \in 1 .. Len(w) : LabelsMade(w[d], l)
    BY <1>1, <1>2
  <2>4. \E v \in Seq(AnyBlock) :
           /\ v = [w EXCEPT ![Len(w)] = b] /\ Len(v) = Len(w)
           /\ \A d \in 1 .. Len(v) : LabelsMade(v[d], l)
           /\ BlocksFit(v)
           /\ Awaited(v) = Awaited(w) \ {n \in Nat : Awaits(w[Len(w)], n) /\ ~Awaits(b, n)}
           /\ BackLabels(v) \subseteq BackLabels(w) \cup {n \in Nat : Returns(b, n)}
    BY <2>1, <2>2, <2>3, BlockChanged, Zenon
  <2> QED
    BY <2>4, Zenon
<1>11. Awaited(v) = Awaited(w) /\ BackLabels(v) \subseteq BackLabels(w)
  <2>1. \A n \in Nat : Returns(w[Len(w)], n) => n \in BackLabels(w)
    BY <1>2 DEF BackLabels
  <2>2. {n \in Nat : Awaits(w[Len(w)], n) /\ ~Awaits(b, n)} = {}
    BY <1>9
  <2> QED
    BY <1>9, <1>10, <2>1, <2>2
<1>12. l2 \in Awaited(w)
  <2>1. Awaits(w[Len(w)], l2)
    BY <1>2, <1>3 DEF Awaits
  <2> QED
    BY <1>2, <2>1 DEF Awaited
<1>13. LabelsFit(Append(c, x), Awaited(v), BackLabels(v))
  <2>1. LabelsFit(Append(c, x), Awaited(w), BackLabels(w))
    BY <1>1, <1>5, <1>12, JumpFits
  <2>2. Append(c, x) \in Seq(AnyInstr)
    BY ConcatOne
  <2>3. LabelsFit(Append(c, x), Awaited(w) \cup {}, BackLabels(v))
    BY <1>11, <2>1, <2>2, NewLabelsFit
  <2>4. Awaited(w) \cup {} = Awaited(v)
    BY <1>11
  <2> QED
    BY <2>3, <2>4
<1>14. code' = Append(c, x)
  BY <1>1, <1>4, <1>5, ConcatOne DEF Emit
<1>15. LabelInv'
  BY <1>8, <1>10, <1>13, <1>14 DEF LabelInv
<1>16. BlocksTyped
  <2>1. label_counter' = l /\ phase' = phase
    BY <1>4, Zenon
  <2>2. label_counter' \in Nat /\ label_counter <= label_counter' /\ phase' \in {"gen", "optimize", "done"}
    BY <1>1, <2>1
  <2>3. open' = v
    BY <1>8, <1>10, Zenon
  <2>4. open' \in Seq(AnyBlock) /\ \A d \in 1 .. Len(open') : LabelsMade(open'[d], label_counter')
    BY <1>10, <2>1, <2>3, Zenon
  <2> QED
    BY <2>2, <2>4, Zenon DEF BlocksTyped
<1> QED
  BY <1>6, <1>15, <1>16 DEF ControlStep

\* The innermost block, when a statement ends.
LEMMA ClosingFacts ==
  ASSUME GenInv, open # <<>>
  PROVE  \E c \in Seq(AnyInstr), w \in Seq(AnyBlock), l \in Nat, last \in AnyBlock, l1 \in Nat, l2 \in Nat :
           /\ c = code /\ w = open /\ l = label_counter
           /\ \A d \in 1 .. Len(w) : LabelsMade(w[d], l)
           /\ LabelsFit(c, Awaited(w), BackLabels(w)) /\ BlocksFit(w)
           /\ phase \in {"gen", "optimize", "done"}
           /\ Len(w) > 0 /\ Len(w) \in 1 .. Len(w)
           /\ last = w[Len(w)] /\ Here = last.kind
           /\ l1 = last.labels[1] /\ l2 = last.labels[2]
           /\ CurrentLabels[1] = Label(l1) /\ CurrentLabels[2] = Label(l2)
           /\ last.kind \in Labelled => l1 < l /\ l2 < l
<1>1. PICK c \in Seq(AnyInstr), w \in Seq(AnyBlock), l \in Nat, tc \in Nat :
        /\ c = code /\ w = open /\ l = label_counter /\ tc = temp_counter
        /\ AllMade(c, tc, l)
        /\ \A d \in 1 .. Len(w) : LabelsMade(w[d], l)
        /\ LabelsFit(c, Awaited(w), BackLabels(w)) /\ BlocksFit(w)
        /\ phase \in {"gen", "optimize", "done"}
  BY InMethodFacts
<1>2. /\ Len(w) > 0 /\ Len(w) \in 1 .. Len(w)
      /\ w[Len(w)] \in AnyBlock /\ Here = w[Len(w)].kind
  BY <1>1, CurrentBlock DEF GenInv
<1>3. PICK last \in AnyBlock : last = w[Len(w)]
  BY <1>2
<1>4. PICK l1 \in Nat, l2 \in Nat : /\ l1 = last.labels[1] /\ l2 = last.labels[2]
                                    /\ CurrentLabels[1] = Label(l1) /\ CurrentLabels[2] = Label(l2)
  BY <1>1, <1>3, CurrentLabelsFacts DEF GenInv
<1>5. last.kind \in Labelled => l1 < l /\ l2 < l
  BY <1>1, <1>2, <1>3, <1>4 DEF LabelsMade
<1> QED
  BY <1>1, <1>2, <1>3, <1>4, <1>5, Zenon

\* The instructions that end statements.
LEMMA LabelInstr ==
  ASSUME NEW op \in {"JMP", "LABEL"}, NEW n \in Nat
  PROVE  \E x \in AnyInstr :
           /\ x = Instr(op, Label(n), None, None)
           /\ x.op = op /\ x.var1 = Label(n)
           /\ \A l \in Nat : \A tc : n < l =>
                \A f \in 1 .. 3 : Arg(x, f).kind # "temp" /\ Made(Arg(x, f), tc, l)
<1>1. op \in Ops /\ None \in AnyOperand /\ Label(n) \in AnyOperand
  BY OperandFacts DEF Ops
<1>2. PICK x \in AnyInstr : /\ x = Instr(op, Label(n), None, None)
                            /\ x.op = op /\ x.var1 = Label(n) /\ x.var2 = None /\ x.reg = None
  BY <1>1, InstrExists
<1>3. \A f \in 1 .. 3 : Arg(x, f) = IF f = 1 THEN Label(n) ELSE None
  BY <1>2 DEF Arg
<1>4. Label(n).kind = "label" /\ Label(n).n = n /\ None.kind = "none" /\ None.n = 0
  BY OperandFacts
<1>5. \A l \in Nat : \A tc : n < l => \A f \in 1 .. 3 : Arg(x, f).kind # "temp" /\ Made(Arg(x, f), tc, l)
  BY <1>3, <1>4 DEF Made
<1> QED
  BY <1>2, <1>5, Zenon

LEMMA ConcatTwo ==
  ASSUME NEW c \in Seq(AnyInstr), NEW x \in AnyInstr, NEW y \in AnyInstr
  PROVE  /\ c \o <<x, y>> = Append(Append(c, x), y)
         /\ Append(c, x) \in Seq(AnyInstr) /\ Append(Append(c, x), y) \in Seq(AnyInstr)
  OBVIOUS

LEMMA ConcatThree ==
  ASSUME NEW c \in Seq(AnyInstr), NEW x \in AnyInstr, NEW y \in AnyInstr, NEW z \in AnyInstr
  PROVE  /\ c \o <<x, y, z>> = Append(Append(Append(c, x), y), z)
         /\ Append(c, x) \in Seq(AnyInstr) /\ Append(Append(c, x), y) \in Seq(AnyInstr)
         /\ Append(Append(Append(c, x), y), z) \in Seq(AnyInstr)
  OBVIOUS

LEMMA ThreeInstrs ==
  ASSUME NEW x \in AnyInstr, NEW y \in AnyInstr, NEW z \in AnyInstr
  PROVE  <<x, y>> \o <<z>> = <<x, y, z>>
<1>1. PICK s \in Seq(AnyInstr) : s = <<x, y>> /\ Len(s) = 2 /\ s[1] = x /\ s[2] = y
  <2>1. <<x, y>> \in Seq(AnyInstr) /\ Len(<<x, y>>) = 2 /\ <<x, y>>[1] = x /\ <<x, y>>[2] = y
    OBVIOUS
  <2> QED
    BY <2>1, Zenon
<1>2. PICK r \in Seq(AnyInstr) : /\ r = <<x, y, z>> /\ Len(r) = 3
                                  /\ r[1] = x /\ r[2] = y /\ r[3] = z
  <2>1. <<x, y, z>> \in Seq(AnyInstr) /\ Len(<<x, y, z>>) = 3
        /\ <<x, y, z>>[1] = x /\ <<x, y, z>>[2] = y /\ <<x, y, z>>[3] = z
    OBVIOUS
  <2> QED
    BY <2>1, Zenon
<1>3. s \o <<z>> = Append(s, z)
  BY ConcatOne
<1>4. /\ Append(s, z) \in Seq(AnyInstr) /\ Len(Append(s, z)) = 3
      /\ Append(s, z)[1] = x /\ Append(s, z)[2] = y /\ Append(s, z)[3] = z
  BY <1>1, AppendProperties
<1>5. Append(s, z) = r
  <2>1. Len(Append(s, z)) = Len(r) /\ \A i \in 1 .. Len(Append(s, z)) : i = 1 \/ i = 2 \/ i = 3
    BY <1>2, <1>4
  <2>2. \A i \in 1 .. Len(Append(s, z)) : Append(s, z)[i] = r[i]
    BY <1>2, <1>4, <2>1
  <2> QED
    BY <1>4, <2>1, <2>2, SeqEqual
<1> QED
  BY <1>1, <1>2, <1>3, <1>5, Zenon

\* ... have no temporaries.
LEMMA EmitTwo ==
  ASSUME GenTypes, NEW x \in AnyInstr, NEW y \in AnyInstr, Emit(<<x, y>>, temp_counter), operands' = <<>>,
         \A f \in 1 .. 3 : Arg(x, f).kind # "temp" /\ Made(Arg(x, f), temp_counter, label_counter'),
         \A f \in 1 .. 3 : Arg(y, f).kind # "temp" /\ Made(Arg(y, f), temp_counter, label_counter')
  PROVE  Emits
<1>1. PICK s \in Seq(AnyInstr) : s = <<x, y>> /\ Len(s) = 2 /\ s[1] = x /\ s[2] = y
  <2>1. <<x, y>> \in Seq(AnyInstr) /\ Len(<<x, y>>) = 2 /\ <<x, y>>[1] = x /\ <<x, y>>[2] = y
    OBVIOUS
  <2> QED
    BY <2>1, Zenon
<1>2. \A j \in 1 .. Len(s) : s[j] = x \/ s[j] = y
  BY <1>1
<1>3. AllMade(s, temp_counter, label_counter') /\ \A j \in 1 .. Len(s) : \A f \in 1 .. 3 : Arg(s[j], f).kind # "temp"
  BY <1>2 DEF AllMade
<1> QED
  BY <1>1, <1>3, EmitControl

LEMMA EmitThree ==
  ASSUME GenTypes, NEW x \in AnyInstr, NEW y \in AnyInstr, NEW z \in AnyInstr,
         Emit(<<x, y, z>>, temp_counter), operands' = <<>>,
         \A f \in 1 .. 3 : Arg(x, f).kind # "temp" /\ Made(Arg(x, f), temp_counter, label_counter'),
         \A f \in 1 .. 3 : Arg(y, f).kind # "temp" /\ Made(Arg(y, f), temp_counter, label_counter'),
         \A f \in 1 .. 3 : Arg(z, f).kind # "temp" /\ Made(Arg(z, f), temp_counter, label_counter')
  PROVE  Emits
<1>1. PICK s \in Seq(AnyInstr) : s = <<x, y, z>> /\ Len(s) = 3 /\ s[1] = x /\ s[2] = y /\ s[3] = z
  <2>1. <<x, y, z>> \in Seq(AnyInstr) /\ Len(<<x, y, z>>) = 3
        /\ <<x, y, z>>[1] = x /\ <<x, y, z>>[2] = y /\ <<x, y, z>>[3] = z
    OBVIOUS
  <2> QED
    BY <2>1, Zenon
<1>2. \A j \in 1 .. Len(s) : s[j] = x \/ s[j] = y \/ s[j] = z
  BY <1>1
<1>3. AllMade(s, temp_counter, label_counter') /\ \A j \in 1 .. Len(s) : \A f \in 1 .. 3 : Arg(s[j], f).kind # "temp"
  BY <1>2 DEF AllMade
<1> QED
  BY <1>1, <1>3, EmitControl

\* After the code of a step that closes the innermost block.
LEMMA Closed ==
  ASSUME GenInv, Emits, open # <<>>, Leave, label_counter' = label_counter, phase' = phase,
         NEW W, W = Awaited(open) \ {n \in Nat : Awaits(open[Len(open)], n)},
         NEW B, BackLabels(open) \subseteq B, NEW d \in Seq(AnyInstr), code' = d, LabelsFit(d, W, B)
  PROVE  ControlStep
<1>1. PICK c \in Seq(AnyInstr), w \in Seq(AnyBlock), l \in Nat, last \in AnyBlock, l1 \in Nat, l2 \in Nat :
           /\ c = code /\ w = open /\ l = label_counter
           /\ \A e \in 1 .. Len(w) : LabelsMade(w[e], l)
           /\ LabelsFit(c, Awaited(w), BackLabels(w)) /\ BlocksFit(w)
           /\ phase \in {"gen", "optimize", "done"}
           /\ Len(w) > 0 /\ Len(w) \in 1 .. Len(w)
           /\ last = w[Len(w)] /\ Here = last.kind
           /\ l1 = last.labels[1] /\ l2 = last.labels[2]
           /\ CurrentLabels[1] = Label(l1) /\ CurrentLabels[2] = Label(l2)
           /\ last.kind \in Labelled => l1 < l /\ l2 < l
  BY ClosingFacts
<1>2. PICK v \in Seq(AnyBlock) :
           /\ v = SubSeq(w, 1, Len(w) - 1) /\ Len(v) = Len(w) - 1
           /\ \A e \in 1 .. Len(v) : LabelsMade(v[e], l)
           /\ BlocksFit(v)
           /\ Awaited(v) = Awaited(w) \ {n \in Nat : Awaits(w[Len(w)], n)}
           /\ BackLabels(v) \subseteq BackLabels(w)
  BY <1>1, BlockClosed
<1>3. open' = v
  BY <1>1, <1>2 DEF Leave
<1>4. LabelsFit(d, Awaited(v), BackLabels(v))
  <2>1. W \cup {} = Awaited(v) /\ BackLabels(v) \subseteq B
    BY <1>1, <1>2
  <2>2. LabelsFit(d, W \cup {}, BackLabels(v))
    BY <2>1, NewLabelsFit
  <2> QED
    BY <2>1, <2>2
<1>5. LabelInv'
  BY <1>2, <1>3, <1>4 DEF LabelInv
<1>6. BlocksTyped
  <2>1. label_counter' = l
    BY <1>1
  <2>2. label_counter' \in Nat /\ label_counter <= label_counter' /\ phase' \in {"gen", "optimize", "done"}
    BY <1>1
  <2>3. open' \in Seq(AnyBlock) /\ \A e \in 1 .. Len(open') : LabelsMade(open'[e], label_counter')
    BY <1>2, <1>3, <2>1, Zenon
  <2> QED
    BY <2>2, <2>3, Zenon DEF BlocksTyped
<1> QED
  BY <1>5, <1>6 DEF ControlStep

LEMMA ElseEndStep ==
  ASSUME GenInv, GenElseEnd
  PROVE  ControlStep
<1>1. /\ open # <<>> /\ GenTypes /\ Leave /\ label_counter' = label_counter /\ phase' = phase
      /\ operands' = <<>> /\ Here = "else"
      /\ Emit(<<Instr("LABEL", CurrentLabels[2], None, None)>>, temp_counter)
  BY DEF GenElseEnd, Here, GenInv, AtBlockEnd, Target
<1>2. PICK c \in Seq(AnyInstr), w \in Seq(AnyBlock), l \in Nat, last \in AnyBlock, l1 \in Nat, l2 \in Nat :
           /\ c = code /\ w = open /\ l = label_counter
           /\ \A d \in 1 .. Len(w) : LabelsMade(w[d], l)
           /\ LabelsFit(c, Awaited(w), BackLabels(w)) /\ BlocksFit(w)
           /\ phase \in {"gen", "optimize", "done"}
           /\ Len(w) > 0 /\ Len(w) \in 1 .. Len(w)
           /\ last = w[Len(w)] /\ Here = last.kind
           /\ l1 = last.labels[1] /\ l2 = last.labels[2]
           /\ CurrentLabels[1] = Label(l1) /\ CurrentLabels[2] = Label(l2)
           /\ last.kind \in Labelled => l1 < l /\ l2 < l
  BY <1>1, ClosingFacts
<1>3. PICK x \in AnyInstr :
           /\ x = Instr("LABEL", Label(l2), None, None)
           /\ x.op = "LABEL" /\ x.var1 = Label(l2)
           /\ \A ll \in Nat : \A tc : l2 < ll =>
                \A f \in 1 .. 3 : Arg(x, f).kind # "temp" /\ Made(Arg(x, f), tc, ll)
  BY LabelInstr
<1>4. last.kind = "else" /\ l2 < l
  BY <1>1, <1>2 DEF Labelled
<1>5. PICK W \in SUBSET Nat, B \in SUBSET Nat : W = Awaited(w) /\ B = BackLabels(w)
  BY Zenon DEF Awaited, BackLabels
<1>6. l2 \in W /\ \A n \in Nat : Awaits(last, n) <=> n = l2
  BY <1>2, <1>4, <1>5 DEF Awaited, Awaits
<1>7. LabelsFit(Append(c, x), W \ {l2}, B \cup {l2})
  BY <1>2, <1>3, <1>5, <1>6, PlaceFits
<1>8. Emit(<<x>>, temp_counter)
  BY <1>1, <1>2, <1>3
<1>9. Emits
  <2>1. PICK s \in Seq(AnyInstr) : s = <<x>> /\ Len(s) = 1 /\ s[1] = x
    BY OneInstr
  <2>2. \A f \in 1 .. 3 : Arg(x, f).kind # "temp" /\ Made(Arg(x, f), temp_counter, label_counter')
    BY <1>1, <1>2, <1>3, <1>4
  <2>3. AllMade(s, temp_counter, label_counter') /\ \A j \in 1 .. Len(s) : \A f \in 1 .. 3 : Arg(s[j], f).kind # "temp"
    BY <2>1, <2>2 DEF AllMade
  <2> QED
    BY <1>1, <1>8, <2>1, <2>3, EmitControl
<1>10. PICK d \in Seq(AnyInstr) : d = Append(c, x) /\ code' = d
  BY <1>2, <1>8, ConcatOne DEF Emit
<1>11. W \ {l2} = Awaited(open) \ {n \in Nat : Awaits(open[Len(open)], n)}
  BY <1>2, <1>5, <1>6
<1>12. BackLabels(open) \subseteq B \cup {l2} /\ LabelsFit(d, W \ {l2}, B \cup {l2})
  BY <1>2, <1>5, <1>7, <1>10
<1> QED
  BY <1>1, <1>9, <1>10, <1>11, <1>12, Closed

LEMMA WhileEndStep ==
  ASSUME GenInv, GenWhileEnd
  PROVE  ControlStep
<1>1. /\ open # <<>> /\ GenTypes /\ Leave /\ label_counter' = label_counter /\ phase' = phase
      /\ operands' = <<>> /\ Here = "while"
      /\ Emit(<<Instr("JMP", CurrentLabels[1], None, None), Instr("LABEL", CurrentLabels[2], None, None)>>,
              temp_counter)
  BY DEF GenWhileEnd, Here, GenInv, AtBlockEnd, Target, Jump
<1>2. PICK c \in Seq(AnyInstr), w \in Seq(AnyBlock), l \in Nat, last \in AnyBlock, l1 \in Nat, l2 \in Nat :
           /\ c = code /\ w = open /\ l = label_counter
           /\ \A d \in 1 .. Len(w) : LabelsMade(w[d], l)
           /\ LabelsFit(c, Awaited(w), BackLabels(w)) /\ BlocksFit(w)
           /\ phase \in {"gen", "optimize", "done"}
           /\ Len(w) > 0 /\ Len(w) \in 1 .. Len(w)
           /\ last = w[Len(w)] /\ Here = last.kind
           /\ l1 = last.labels[1] /\ l2 = last.labels[2]
           /\ CurrentLabels[1] = Label(l1) /\ CurrentLabels[2] = Label(l2)
           /\ last.kind \in Labelled => l1 < l /\ l2 < l
  BY <1>1, ClosingFacts
<1>3. PICK x \in AnyInstr :
           /\ x = Instr("JMP", Label(l1), None, None)
           /\ x.op = "JMP" /\ x.var1 = Label(l1)
           /\ \A ll \in Nat : \A tc : l1 < ll =>
                \A f \in 1 .. 3 : Arg(x, f).kind # "temp" /\ Made(Arg(x, f), tc, ll)
  BY LabelInstr
<1>4. PICK y \in AnyInstr :
           /\ y = Instr("LABEL", Label(l2), None, None)
           /\ y.op = "LABEL" /\ y.var1 = Label(l2)
           /\ \A ll \in Nat : \A tc : l2 < ll =>
                \A f \in 1 .. 3 : Arg(y, f).kind # "temp" /\ Made(Arg(y, f), tc, ll)
  BY LabelInstr
<1>5. last.kind = "while" /\ l1 < l /\ l2 < l
  BY <1>1, <1>2 DEF Labelled
<1>6. PICK W \in SUBSET Nat, B \in SUBSET Nat : W = Awaited(w) /\ B = BackLabels(w)
  BY Zenon DEF Awaited, BackLabels
<1>7. l2 \in W /\ l1 \in B /\ \A n \in Nat : Awaits(last, n) <=> n = l2
  BY <1>2, <1>5, <1>6 DEF Awaited, BackLabels, Awaits, Returns
<1>8. PICK e \in Seq(AnyInstr), d \in Seq(AnyInstr) :
        e = Append(c, x) /\ d = Append(e, y) /\ d = c \o <<x, y>>
  <2>1. /\ c \o <<x, y>> = Append(Append(c, x), y)
        /\ Append(c, x) \in Seq(AnyInstr) /\ Append(Append(c, x), y) \in Seq(AnyInstr)
    BY ConcatTwo
  <2> QED
    BY <2>1, Zenon
<1>9. LabelsFit(e, W, B)
  BY <1>2, <1>3, <1>6, <1>7, <1>8, JumpFits
<1>10. LabelsFit(d, W \ {l2}, B \cup {l2})
  <2>1. LabelsFit(Append(e, y), W \ {l2}, B \cup {l2})
    BY <1>4, <1>7, <1>9, PlaceFits
  <2> QED
    BY <1>8, <2>1
<1>11. Emit(<<x, y>>, temp_counter)
  BY <1>1, <1>2, <1>3, <1>4
<1>12. Emits
  <2>1. \A f \in 1 .. 3 : Arg(x, f).kind # "temp" /\ Made(Arg(x, f), temp_counter, label_counter')
    BY <1>1, <1>2, <1>3, <1>5
  <2>2. \A f \in 1 .. 3 : Arg(y, f).kind # "temp" /\ Made(Arg(y, f), temp_counter, label_counter')
    BY <1>1, <1>2, <1>4, <1>5
  <2> QED
    BY <1>1, <1>11, <2>1, <2>2, EmitTwo
<1>13. code' = d
  BY <1>2, <1>8, <1>11 DEF Emit
<1>14. W \ {l2} = Awaited(open) \ {n \in Nat : Awaits(open[Len(open)], n)}
  BY <1>2, <1>6, <1>7
<1>15. BackLabels(open) \subseteq B \cup {l2}
  BY <1>2, <1>6
<1> QED
  BY <1>1, <1>10, <1>12, <1>13, <1>14, <1>15, Closed

LEMMA ThenEndStep ==
  ASSUME GenInv, NEW else \in BOOLEAN, GenThenEnd(else)
  PROVE  ControlStep
<1>1. /\ open # <<>> /\ GenTypes /\ label_counter' = label_counter /\ phase' = phase
      /\ operands' = <<>> /\ Here = "then"
      /\ Emit(<<Instr("JMP", CurrentLabels[2], None, None), Instr("LABEL", CurrentLabels[1], None, None)>>
                \o (IF else THEN <<>> ELSE <<Instr("LABEL", CurrentLabels[2], None, None)>>),
              temp_counter)
  BY DEF GenThenEnd, Here, GenInv, AtBlockEnd, Target, Jump
<1>2. PICK c \in Seq(AnyInstr), w \in Seq(AnyBlock), l \in Nat, last \in AnyBlock, l1 \in Nat, l2 \in Nat :
           /\ c = code /\ w = open /\ l = label_counter
           /\ \A d \in 1 .. Len(w) : LabelsMade(w[d], l)
           /\ LabelsFit(c, Awaited(w), BackLabels(w)) /\ BlocksFit(w)
           /\ phase \in {"gen", "optimize", "done"}
           /\ Len(w) > 0 /\ Len(w) \in 1 .. Len(w)
           /\ last = w[Len(w)] /\ Here = last.kind
           /\ l1 = last.labels[1] /\ l2 = last.labels[2]
           /\ CurrentLabels[1] = Label(l1) /\ CurrentLabels[2] = Label(l2)
           /\ last.kind \in Labelled => l1 < l /\ l2 < l
  BY <1>1, ClosingFacts
<1>3. PICK x \in AnyInstr :
           /\ x = Instr("JMP", Label(l2), None, None)
           /\ x.op = "JMP" /\ x.var1 = Label(l2)
           /\ \A ll \in Nat : \A tc : l2 < ll =>
                \A f \in 1 .. 3 : Arg(x, f).kind # "temp" /\ Made(Arg(x, f), tc, ll)
  BY LabelInstr
<1>4. PICK y \in AnyInstr :
           /\ y = Instr("LABEL", Label(l1), None, None)
           /\ y.op = "LABEL" /\ y.var1 = Label(l1)
           /\ \A ll \in Nat : \A tc : l1 < ll =>
                \A f \in 1 .. 3 : Arg(y, f).kind # "temp" /\ Made(Arg(y, f), tc, ll)
  BY LabelInstr
<1>5. PICK z \in AnyInstr :
           /\ z = Instr("LABEL", Label(l2), None, None)
           /\ z.op = "LABEL" /\ z.var1 = Label(l2)
           /\ \A ll \in Nat : \A tc : l2 < ll =>
                \A f \in 1 .. 3 : Arg(z, f).kind # "temp" /\ Made(Arg(z, f), tc, ll)
  BY LabelInstr
<1>6. last.kind = "then" /\ l1 < l /\ l2 < l /\ l1 # l2
  BY <1>1, <1>2 DEF Labelled, BlocksFit
<1>7. PICK W \in SUBSET Nat, B \in SUBSET Nat : W = Awaited(w) /\ B = BackLabels(w)
  BY Zenon DEF Awaited, BackLabels
<1>8. l2 \in W /\ l1 \in W /\ \A n \in Nat : Awaits(last, n) <=> n \in {l1, l2}
  BY <1>2, <1>6, <1>7 DEF Awaited, Awaits
<1>9. PICK e \in Seq(AnyInstr), d \in Seq(AnyInstr), g \in Seq(AnyInstr) :
        /\ e = Append(c, x) /\ d = Append(e, y) /\ g = Append(d, z)
        /\ d = c \o <<x, y>> /\ g = c \o <<x, y, z>>
  <2>1. /\ c \o <<x, y, z>> = Append(Append(Append(c, x), y), z)
        /\ c \o <<x, y>> = Append(Append(c, x), y)
        /\ Append(c, x) \in Seq(AnyInstr) /\ Append(Append(c, x), y) \in Seq(AnyInstr)
        /\ Append(Append(Append(c, x), y), z) \in Seq(AnyInstr)
    BY ConcatTwo, ConcatThree
  <2> QED
    BY <2>1, Zenon
<1>10. LabelsFit(e, W, B)
  BY <1>2, <1>3, <1>7, <1>8, <1>9, JumpFits
<1>11. LabelsFit(d, W \ {l1}, B \cup {l1})
  <2>1. LabelsFit(Append(e, y), W \ {l1}, B \cup {l1})
    BY <1>4, <1>8, <1>10, PlaceFits
  <2> QED
    BY <1>9, <2>1
<1>12. /\ \A f \in 1 .. 3 : Arg(x, f).kind # "temp" /\ Made(Arg(x, f), temp_counter, label_counter')
       /\ \A f \in 1 .. 3 : Arg(y, f).kind # "temp" /\ Made(Arg(y, f), temp_counter, label_counter')
       /\ \A f \in 1 .. 3 : Arg(z, f).kind # "temp" /\ Made(Arg(z, f), temp_counter, label_counter')
  BY <1>1, <1>2, <1>3, <1>4, <1>5, <1>6
<1>13. CASE ~else
  <2>1. Leave
    BY <1>13 DEF GenThenEnd
  <2>2. Emit(<<x, y, z>>, temp_counter)
    <3>1. <<x, y>> \o <<z>> = <<x, y, z>>
      BY ThreeInstrs
    <3>2. Emit(<<x, y>> \o <<z>>, temp_counter)
      BY <1>1, <1>2, <1>3, <1>4, <1>5, <1>13
    <3> QED
      BY <3>1, <3>2
  <2>3. Emits
    BY <1>1, <1>12, <2>2, EmitThree
  <2>4. PICK V \in SUBSET Nat, D \in SUBSET Nat : V = W \ {l1} /\ D = B \cup {l1} /\ l2 \in V
    <3>1. W \ {l1} \in SUBSET Nat /\ B \cup {l1} \in SUBSET Nat /\ l2 \in W \ {l1}
      BY <1>6, <1>8
    <3> QED
      BY <3>1, Zenon
  <2>5. LabelsFit(g, V \ {l2}, D \cup {l2})
    <3>1. LabelsFit(Append(d, z), V \ {l2}, D \cup {l2})
      BY <1>5, <1>11, <2>4, PlaceFits
    <3> QED
      BY <1>9, <3>1
  <2>6. code' = g
    BY <1>2, <1>9, <2>2 DEF Emit
  <2>7. V \ {l2} = Awaited(open) \ {n \in Nat : Awaits(open[Len(open)], n)}
    BY <1>2, <1>7, <1>8, <2>4
  <2>8. BackLabels(open) \subseteq D \cup {l2}
    BY <1>2, <1>7, <2>4
  <2> QED
    BY <1>1, <2>1, <2>3, <2>5, <2>6, <2>7, <2>8, Closed
<1>14. CASE else
  <2>1. open' = [w EXCEPT ![Len(w)].kind = "else", ![Len(w)].returned = FALSE]
    BY <1>2, <1>14 DEF GenThenEnd
  <2>2. Emit(<<x, y>>, temp_counter)
    <3>1. <<x, y>> \o <<>> = <<x, y>>
      OBVIOUS
    <3>2. Emit(<<x, y>> \o <<>>, temp_counter)
      BY <1>1, <1>2, <1>3, <1>4, <1>14
    <3> QED
      BY <3>1, <3>2
  <2>3. Emits
    BY <1>1, <1>12, <2>2, EmitTwo
  <2>4. PICK b \in AnyBlock : /\ b = [last EXCEPT !.kind = "else", !.returned = FALSE]
                              /\ b.kind = "else" /\ b.labels = last.labels
    <3>1. /\ [last EXCEPT !.kind = "else", !.returned = FALSE] \in AnyBlock
          /\ [last EXCEPT !.kind = "else", !.returned = FALSE].kind = "else"
          /\ [last EXCEPT !.kind = "else", !.returned = FALSE].labels = last.labels
      BY DEF AnyBlock, Labelled
    <3> QED
      BY <3>1, Zenon
  <2>5. open' = [w EXCEPT ![Len(w)] = b]
    BY <1>2, <2>1, <2>4
  <2>6. \A n \in Nat : (Awaits(b, n) <=> n = l2) /\ ~Returns(b, n)
    BY <1>2, <2>4 DEF Awaits, Returns
  <2>7. PICK v \in Seq(AnyBlock) :
           /\ v = [w EXCEPT ![Len(w)] = b]
           /\ \A k \in 1 .. Len(v) : LabelsMade(v[k], l)
           /\ BlocksFit(v)
           /\ Awaited(v) = Awaited(w) \ {n \in Nat : Awaits(w[Len(w)], n) /\ ~Awaits(b, n)}
           /\ BackLabels(v) \subseteq BackLabels(w) \cup {n \in Nat : Returns(b, n)}
    <3>1. LabelsMade(b, l) /\ b.kind \notin {"method", "then"} /\ w[Len(w)].kind # "method"
      BY <1>2, <1>6, <2>4 DEF LabelsMade, Labelled
    <3>2. \A n \in Nat : Awaits(b, n) => Awaits(w[Len(w)], n)
      BY <1>2, <1>8, <2>6
    <3>3. BlocksFit(w) /\ Len(w) > 0 /\ \A k \in 1 .. Len(w) : LabelsMade(w[k], l)
      BY <1>2
    <3>4. \E v \in Seq(AnyBlock) :
           /\ v = [w EXCEPT ![Len(w)] = b] /\ Len(v) = Len(w)
           /\ \A k \in 1 .. Len(v) : LabelsMade(v[k], l)
           /\ BlocksFit(v)
           /\ Awaited(v) = Awaited(w) \ {n \in Nat : Awaits(w[Len(w)], n) /\ ~Awaits(b, n)}
           /\ BackLabels(v) \subseteq BackLabels(w) \cup {n \in Nat : Returns(b, n)}
      BY <3>1, <3>2, <3>3, BlockChanged, Zenon
    <3> QED
      BY <3>4, Zenon
  <2>8. Awaited(v) = (W \ {l1}) \cup {} /\ BackLabels(v) \subseteq B \cup {l1}
    <3>1. {n \in Nat : Awaits(w[Len(w)], n) /\ ~Awaits(b, n)} = {l1}
      BY <1>2, <1>6, <1>8, <2>6
    <3>2. {n \in Nat : Returns(b, n)} = {}
      BY <2>6
    <3> QED
      BY <1>7, <2>7, <3>1, <3>2
  <2>9. LabelsFit(d, Awaited(v), BackLabels(v))
    <3>1. LabelsFit(d, (W \ {l1}) \cup {}, BackLabels(v))
      BY <1>11, <2>8, NewLabelsFit
    <3> QED
      BY <2>8, <3>1
  <2>10. code' = d /\ open' = v
    BY <1>2, <1>9, <2>2, <2>5, <2>7 DEF Emit
  <2>11. LabelInv'
    BY <2>7, <2>9, <2>10 DEF LabelInv
  <2>12. label_counter' = l /\ phase' = phase
    BY <1>1, <1>2
  <2>13. label_counter' \in Nat /\ label_counter <= label_counter' /\ phase' \in {"gen", "optimize", "done"}
    BY <1>2, <2>12
  <2>14. open' \in Seq(AnyBlock) /\ \A k \in 1 .. Len(open') : LabelsMade(open'[k], label_counter')
    BY <2>7, <2>10, <2>12, Zenon
  <2>15. BlocksTyped
    BY <2>13, <2>14, Zenon DEF BlocksTyped
  <2> QED
    BY <2>3, <2>11, <2>15 DEF ControlStep
<1> QED
  BY <1>13, <1>14

LEMMA BlockStep ==
  ASSUME GenInv, GenBlock
  PROVE  ControlStep
<1>1. PICK c \in Seq(AnyInstr), w \in Seq(AnyBlock), l \in Nat, tc \in Nat :
        /\ c = code /\ w = open /\ l = label_counter /\ tc = temp_counter
        /\ AllMade(c, tc, l)
        /\ \A d \in 1 .. Len(w) : LabelsMade(w[d], l)
        /\ LabelsFit(c, Awaited(w), BackLabels(w)) /\ BlocksFit(w)
        /\ phase \in {"gen", "optimize", "done"}
  BY InMethodFacts
<1>2. /\ open' = Append(w, Enter("block", 0, 0)) /\ w # <<>>
      /\ code' = c /\ UNCHANGED <<code, temp_counter, operands, cant_ap_h>>
      /\ label_counter' = l /\ phase' = phase
  BY <1>1 DEF GenBlock, AtStatement, Here
<1>3. PICK b \in AnyBlock : b = Enter("block", 0, 0) /\ b.kind = "block"
  BY BlockFacts
<1>4. \A n : ~Awaits(b, n) /\ ~Returns(b, n)
  BY <1>3 DEF Awaits, Returns
<1>5. PICK v : /\ v = Append(w, b) /\ v \in Seq(AnyBlock)
               /\ \A d \in 1 .. Len(v) : LabelsMade(v[d], l)
               /\ BlocksFit(v)
               /\ Awaited(v) = Awaited(w) \cup {n \in Nat : Awaits(b, n)}
               /\ BackLabels(v) = BackLabels(w) \cup {n \in Nat : Returns(b, n)}
  <2>1. LabelsMade(b, l) /\ b.kind # "method" /\ b.kind # "then"
    BY <1>3 DEF LabelsMade, Labelled
  <2>2. Len(w) > 0
    BY <1>2, EmptySeq, LenProperties
  <2> QED
    BY <1>1, <1>4, <2>1, <2>2, BlockOpened
<1>6. Awaited(v) = Awaited(w) /\ BackLabels(v) = BackLabels(w)
  BY <1>4, <1>5
<1>7. LabelInv'
  BY <1>1, <1>2, <1>3, <1>5, <1>6 DEF LabelInv
<1>8. BlocksTyped
  BY <1>1, <1>2, <1>3, <1>5 DEF BlocksTyped
<1> QED
  BY <1>1, <1>2, <1>7, <1>8 DEF ControlStep, Emits

LEMMA BlockEndStep ==
  ASSUME GenInv, GenBlockEnd
  PROVE  ControlStep
<1>1. /\ open # <<>> /\ Leave /\ label_counter' = label_counter /\ phase' = phase /\ Here = "block"
      /\ code' = code /\ UNCHANGED <<code, temp_counter, operands, cant_ap_h>>
  BY DEF GenBlockEnd, Here
<1>2. PICK c \in Seq(AnyInstr) :
           /\ c = code /\ Here = open[Len(open)].kind
           /\ LabelsFit(c, Awaited(open), BackLabels(open))
  BY <1>1, ClosingFacts
<1>3. Awaited(open) = Awaited(open) \ {n \in Nat : Awaits(open[Len(open)], n)}
  BY <1>1, <1>2 DEF Awaits
<1>4. Emits
  BY <1>1 DEF Emits
<1>5. code' = c /\ BackLabels(open) \subseteq BackLabels(open)
  BY <1>1, <1>2
<1> QED
  BY <1>1, <1>2, <1>3, <1>4, <1>5, Closed

LEMMA MethodStep ==
  ASSUME GenInv, GenMethod
  PROVE  ControlStep
<1>1. PICK c \in Seq(AnyInstr), w \in Seq(AnyBlock), l \in Nat, tc \in Nat :
        /\ c = code /\ w = open /\ l = label_counter /\ tc = temp_counter
        /\ AllMade(c, tc, l)
        /\ \A d \in 1 .. Len(w) : LabelsMade(w[d], l)
        /\ LabelsFit(c, Awaited(w), BackLabels(w)) /\ BlocksFit(w)
        /\ phase \in {"gen", "optimize", "done"}
  BY InMethodFacts
<1>2. /\ GenTypes /\ operands' = <<>> /\ label_counter' = l /\ phase' = phase /\ Here = "global"
      /\ Emit(<<Instr("ENTER", Name, None, None)>>, temp_counter)
      /\ open' = <<Enter("method", 0, 0)>>
  BY <1>1 DEF GenMethod, GenInv
<1>3. w = <<>>
  <2>1. ASSUME w # <<>> PROVE FALSE
    <3>1. open[Len(open)] \in AnyBlock /\ Here = open[Len(open)].kind
      BY <1>1, <1>2, <2>1, CurrentBlock
    <3> QED
      BY <1>2, <3>1 DEF AnyBlock, Labelled
  <2> QED
    BY <2>1
<1>4. Awaited(w) = {} /\ BackLabels(w) = {}
  BY <1>3 DEF Awaited, BackLabels
<1>5. PICK x \in AnyInstr :
        /\ x = Instr("ENTER", Name, None, None)
        /\ x.op = "ENTER" /\ x.var1 = Name /\ x.var2 = None /\ x.reg = None
  <2>1. "ENTER" \in Ops /\ None \in AnyOperand /\ Name \in AnyOperand
    BY OperandFacts DEF Ops
  <2> QED
    BY <2>1, InstrExists
<1>6. Emit(<<x>>, temp_counter)
  BY <1>2, <1>5
<1>7. Emits
  <2>1. Made(x.var1, temp_counter, label_counter') /\ x.var1.kind # "temp"
    BY <1>5, OperandFacts
  <2> QED
    BY <1>2, <1>5, <1>6, <2>1, EmitLabel
<1>8. PICK b \in AnyBlock : b = Enter("method", 0, 0) /\ b.kind = "method"
  <2>1. "method" \in {"method", "block"} \cup Labelled /\ 0 \in Nat
    OBVIOUS
  <2>2. \E b \in AnyBlock : /\ b = Enter("method", 0, 0) /\ b.kind = "method"
                            /\ b.labels[1] = 0 /\ b.labels[2] = 0
    BY <2>1, BlockFacts
  <2> QED
    BY <2>2, Zenon
<1>9. PICK v \in Seq(AnyBlock) : v = <<b>> /\ Len(v) = 1 /\ v[1] = b
  <2>1. <<b>> \in Seq(AnyBlock) /\ Len(<<b>>) = 1 /\ <<b>>[1] = b
    OBVIOUS
  <2> QED
    BY <2>1, Zenon
<1>10. \A n : ~Awaits(b, n) /\ ~Returns(b, n)
  BY <1>8 DEF Awaits, Returns
<1>11. Awaited(v) = {} /\ BackLabels(v) = {}
  BY <1>9, <1>10 DEF Awaited, BackLabels
<1>12. BlocksFit(v)
  BY <1>8, <1>9, <1>10 DEF BlocksFit
<1>13. LabelsFit(Append(c, x), {}, {})
  BY <1>1, <1>4, <1>5, MethodFits
<1>14. code' = Append(c, x)
  BY <1>1, <1>6, ConcatOne DEF Emit
<1>15. open' = v
  BY <1>2, <1>8, <1>9
<1>16. LabelInv'
  BY <1>11, <1>12, <1>13, <1>14, <1>15 DEF LabelInv
<1>17. BlocksTyped
  BY <1>1, <1>2, <1>8, <1>9, <1>15 DEF BlocksTyped, LabelsMade, Labelled
<1> QED
  BY <1>7, <1>16, <1>17 DEF ControlStep

LEMMA MethodEndStep ==
  ASSUME GenInv, GenMethodEnd
  PROVE  ControlStep
<1>1. /\ open # <<>> /\ GenTypes /\ Leave /\ label_counter' = label_counter /\ phase' = phase
      /\ operands' = <<>> /\ Here = "method"
      /\ Emit(<<Instr("LEAVE", Name, None, None)>>, temp_counter)
  BY DEF GenMethodEnd, Here, GenInv, AtBlockEnd
<1>2. PICK c \in Seq(AnyInstr), w \in Seq(AnyBlock), last \in AnyBlock :
           /\ c = code /\ w = open
           /\ LabelsFit(c, Awaited(w), BackLabels(w)) /\ BlocksFit(w)
           /\ Len(w) > 0 /\ Len(w) \in 1 .. Len(w)
           /\ last = w[Len(w)] /\ Here = last.kind
  BY <1>1, ClosingFacts
<1>3. Len(w) = 1 /\ w[1].kind = "method"
  BY <1>1, <1>2 DEF BlocksFit
<1>4. Awaited(w) = {} /\ BackLabels(w) = {}
  BY <1>3 DEF Awaited, BackLabels, Awaits, Returns
<1>5. PICK x \in AnyInstr :
        /\ x = Instr("LEAVE", Name, None, None)
        /\ x.op = "LEAVE" /\ x.var1 = Name /\ x.var2 = None /\ x.reg = None
  <2>1. "LEAVE" \in Ops /\ None \in AnyOperand /\ Name \in AnyOperand
    BY OperandFacts DEF Ops
  <2> QED
    BY <2>1, InstrExists
<1>6. Emit(<<x>>, temp_counter)
  BY <1>1, <1>5
<1>7. Emits
  <2>1. Made(x.var1, temp_counter, label_counter') /\ x.var1.kind # "temp"
    BY <1>5, OperandFacts
  <2> QED
    BY <1>1, <1>5, <1>6, <2>1, EmitLabel
<1>8. PICK d \in Seq(AnyInstr) : d = Append(c, x) /\ code' = d
  BY <1>2, <1>6, ConcatOne DEF Emit
<1>9. LabelsFit(d, {}, {})
  <2>1. LabelsFit(Append(c, x), {}, {})
    BY <1>2, <1>4, <1>5, MethodFits
  <2> QED
    BY <1>8, <2>1
<1>10. /\ {} = Awaited(open) \ {n \in Nat : Awaits(open[Len(open)], n)}
       /\ BackLabels(open) \subseteq {}
  BY <1>2, <1>4
<1> QED
  BY <1>1, <1>7, <1>8, <1>9, <1>10, Closed

\* Every step of the generator keeps the invariant.
LEMMA GenKept ==
  ASSUME GenInv, gen_code
  PROVE  GenInv' /\ Emits
<1>1. GenTypes /\ TempInv /\ PendingOnce
  BY DEF GenInv, TempInv
<1>2. CASE PlainAction
  <2>1. PlainStep
    BY <1>1, <1>2, PlainActionStep
  <2>2. ControlStep
    BY <2>1, PlainKeepsLabels
  <2> QED
    BY <1>1, <2>2, InvKept DEF ControlStep, GenInv
<1>3. CASE \/ GenIf \/ \E else \in BOOLEAN : GenThenEnd(else)
           \/ GenElseEnd \/ GenWhile \/ GenWhileTest \/ GenWhileEnd
           \/ GenBlock \/ GenBlockEnd \/ GenMethod \/ GenMethodEnd
  <2>1. ControlStep
    BY <1>3, IfStep, ThenEndStep, ElseEndStep, WhileStep, WhileTestStep, WhileEndStep,
       BlockStep, BlockEndStep, MethodStep, MethodEndStep
  <2> QED
    BY <1>1, <2>1, InvKept DEF ControlStep, GenInv
<1>4. CASE EndOfProgram
  <2>1. /\ UNCHANGED <<code, temp_counter, operands, cant_ap_h>> /\ label_counter' = label_counter
        /\ open' = open /\ phase' \in {"optimize", "done"}
    BY <1>4 DEF EndOfProgram, gen_vars
  <2>2. LabelInv'
    BY <2>1 DEF GenInv, LabelInv
  <2>3. BlocksTyped
    BY <1>1, <2>1 DEF BlocksTyped, GenTypes
  <2>4. Emits
    BY <2>1 DEF Emits
  <2> QED
    BY <1>1, <2>2, <2>3, <2>4, InvKept DEF GenInv
<1> QED
  BY <1>2, <1>3, <1>4 DEF gen_code, PlainAction

LEMMA GenInit ==
  ASSUME Init
  PROVE  GenInv
<1>1. /\ code = <<>> /\ operands = <<>> /\ open = <<>> /\ temp_counter = 0 /\ label_counter = 0
      /\ phase = "gen" /\ MaxCode \in Nat
  BY IntermediateCodeAssumption DEF Init
<1>2. GenTypes
  BY <1>1 DEF GenTypes, AllMade
<1>3. TempInv
  BY <1>1 DEF TempInv, PendingOnce, InOrder
<1>4. LabelInv
  <2>1. Awaited(<<>>) = {} /\ BackLabels(<<>>) = {} /\ BlocksFit(<<>>)
    BY DEF Awaited, BackLabels, BlocksFit
  <2>2. LabelsFit(<<>>, {}, {})
    BY DEF LabelsFit
  <2> QED
    BY <1>1, <2>1, <2>2 DEF LabelInv
<1> QED
  BY <1>2, <1>3, <1>4 DEF GenInv

-----------------------------------------------------------------------------
(* The list of temporaries.                                                *)

\* entry t counts the occurrences of temporary t, and is its only one
ListInv ==
  cant_ap_h = [t \in 1 .. temp_counter |->
                 [cant_ap |-> Cardinality(Occurrences(code, t)), locked |-> FALSE, list |-> {t}]]

LEMMA OccurrencesFinite ==
  ASSUME NEW c \in Seq(AnyInstr), NEW t
  PROVE  IsFiniteSet(Occurrences(c, t)) /\ Cardinality(Occurrences(c, t)) \in Nat
<1>1. Len(c) \in Int /\ 1 \in Int /\ 3 \in Int
  BY LenProperties
<1>2. IsFiniteSet(1 .. Len(c)) /\ IsFiniteSet(1 .. 3)
  BY <1>1, FS_Interval
<1>3. IsFiniteSet((1 .. Len(c)) \X (1 .. 3))
  BY <1>2, FS_Product
<1>4. Occurrences(c, t) \in SUBSET ((1 .. Len(c)) \X (1 .. 3))
  BY DEF Occurrences
<1>5. IsFiniteSet(Occurrences(c, t))
  BY <1>3, <1>4, FS_Subset
<1> QED
  BY <1>5, FS_CardinalityType

\* The occurrences in a longer piece of code.
LEMMA OccurrencesAdd ==
  ASSUME NEW c \in Seq(AnyInstr), NEW s \in Seq(AnyInstr), NEW t
  PROVE  Cardinality(Occurrences(c \o s, t)) =
           Cardinality(Occurrences(c, t)) + Cardinality(Occurrences(s, t))
<1>1. PICK d \in Seq(AnyInstr), m \in Nat, g \in Nat :
        /\ d = c \o s /\ m = Len(c) /\ g = Len(s) /\ Len(d) = m + g
        /\ \A i \in 1 .. m : d[i] = c[i]
        /\ \A i \in 1 .. g : d[m + i] = s[i]
        /\ \A i \in 1 .. Len(d) : i \in 1 .. m \/ \E j \in 1 .. g : i = m + j
  <2>1. /\ c \o s \in Seq(AnyInstr) /\ Len(c) \in Nat /\ Len(s) \in Nat
        /\ Len(c \o s) = Len(c) + Len(s)
        /\ \A i \in 1 .. Len(c) : (c \o s)[i] = c[i]
        /\ \A i \in 1 .. Len(s) : (c \o s)[Len(c) + i] = s[i]
        /\ \A i \in 1 .. Len(c \o s) : i \in 1 .. Len(c) \/ \E j \in 1 .. Len(s) : i = Len(c) + j
    BY CodeParts
  <2> QED
    BY <2>1, Zenon
<1> DEFINE old == Occurrences(c, t)
           new == Occurrences(s, t)
           shifted == {p \in Occurrences(d, t) : p[1] > m}
           F == [p \in new |-> <<m + p[1], p[2]>>]
<1>2. IsFiniteSet(old) /\ IsFiniteSet(new) /\ Cardinality(old) \in Nat /\ Cardinality(new) \in Nat
  BY OccurrencesFinite
<1>3. \A i \in 1 .. g : m + i \in 1 .. (m + g) /\ m + i > m
  OBVIOUS
<1>4. \A i \in 1 .. m : i \in 1 .. (m + g) /\ ~(i > m)
  OBVIOUS
<1>5. F \in [new -> shifted]
  <2>1. SUFFICES ASSUME NEW p \in new PROVE <<m + p[1], p[2]>> \in shifted
    OBVIOUS
  <2>2. p \in (1 .. g) \X (1 .. 3) /\ Arg(s[p[1]], p[2]) = Temp(t)
    BY <1>1 DEF Occurrences
  <2>3. m + p[1] \in 1 .. Len(d) /\ p[2] \in 1 .. 3 /\ m + p[1] > m /\ d[m + p[1]] = s[p[1]]
    BY <1>1, <1>3, <2>2
  <2>4. <<m + p[1], p[2]>> \in (1 .. Len(d)) \X (1 .. 3)
    BY <2>3
  <2>5. Arg(d[m + p[1]], p[2]) = Temp(t)
    BY <2>2, <2>3
  <2> QED
    BY <2>3, <2>4, <2>5 DEF Occurrences
<1>6. \A p, q \in new : F[p] = F[q] => p = q
  <2>1. SUFFICES ASSUME NEW p \in new, NEW q \in new, F[p] = F[q] PROVE p = q
    OBVIOUS
  <2>2. p \in (1 .. g) \X (1 .. 3) /\ q \in (1 .. g) \X (1 .. 3)
    BY <1>1 DEF Occurrences
  <2>3. m + p[1] = m + q[1] /\ p[2] = q[2]
    BY <2>1
  <2> QED
    BY <2>2, <2>3
<1>7. \A q \in shifted : \E p \in new : F[p] = q
  <2>1. SUFFICES ASSUME NEW q \in shifted PROVE \E p \in new : F[p] = q
    OBVIOUS
  <2>2. q \in (1 .. Len(d)) \X (1 .. 3) /\ Arg(d[q[1]], q[2]) = Temp(t) /\ q[1] > m
    BY DEF Occurrences
  <2>3. PICK j \in 1 .. g : q[1] = m + j
    BY <1>1, <2>2
  <2>4. <<j, q[2]>> \in new
    <3>1. <<j, q[2]>> \in (1 .. Len(s)) \X (1 .. 3) /\ Arg(s[j], q[2]) = Temp(t)
      BY <1>1, <2>2, <2>3
    <3> QED
      BY <3>1 DEF Occurrences
  <2>5. F[<<j, q[2]>>] = q
    BY <2>2, <2>3, <2>4
  <2> QED
    BY <2>4, <2>5
<1>8. IsFiniteSet(shifted) /\ Cardinality(shifted) = Cardinality(new)
  <2> HIDE DEF F, new, shifted
  <2>1. F \in Bijection(new, shifted)
    BY <1>5, <1>6, <1>7, Fun_IsBij
  <2>2. ExistsBijection(new, shifted)
    BY <2>1 DEF ExistsBijection
  <2> QED
    BY <1>2, <2>2, FS_Bijection
<1>9. Occurrences(d, t) = old \cup shifted
  <2>1. \A p \in (1 .. m) \X (1 .. 3) : d[p[1]] = c[p[1]] /\ p \in (1 .. Len(d)) \X (1 .. 3)
    BY <1>1, <1>4
  <2>2. old \subseteq Occurrences(d, t)
    BY <1>1, <2>1 DEF Occurrences
  <2>3. \A p \in Occurrences(d, t) : p \in old \/ p \in shifted
    <3>1. SUFFICES ASSUME NEW p \in Occurrences(d, t), ~(p[1] > m) PROVE p \in old
      OBVIOUS
    <3>2. p \in (1 .. Len(d)) \X (1 .. 3) /\ Arg(d[p[1]], p[2]) = Temp(t)
      BY DEF Occurrences
    <3>3. p \in (1 .. m) \X (1 .. 3)
      BY <3>1, <3>2
    <3> QED
      BY <1>1, <2>1, <3>2, <3>3 DEF Occurrences
  <2> QED
    BY <2>2, <2>3
<1>10. old \cap shifted = {}
  BY <1>1, <1>4 DEF Occurrences
<1>11. Cardinality(old \cup shifted) = Cardinality(old) + Cardinality(shifted) - 0
  <2> HIDE DEF old, shifted, new
  <2>1. Cardinality(old \cap shifted) = 0
    BY <1>10, FS_EmptySet
  <2> QED
    BY <1>2, <1>8, <2>1, FS_Union
<1> HIDE DEF F, shifted
<1> QED
  BY <1>1, <1>2, <1>8, <1>9, <1>11

LEMMA ListKept ==
  ASSUME GenTypes, ListInv, Emits
  PROVE  ListInv'
<1>1. CASE UNCHANGED <<code, temp_counter, operands, cant_ap_h>>
  BY <1>1 DEF ListInv
<1>2. CASE \E s \in Seq(AnyInstr), keep \in 0 .. Len(operands), n \in Nat : EmitStep(s, keep, n)
  <2>1. PICK s \in Seq(AnyInstr), keep \in 0 .. Len(operands), n \in Nat : EmitStep(s, keep, n)
    BY <1>2
  <2>2. PICK c \in Seq(AnyInstr), tc \in Nat, l \in Nat :
          c = code /\ tc = temp_counter /\ l = label_counter /\ AllMade(c, tc, l)
    BY DEF GenTypes
  <2>3. /\ code' = c \o s /\ temp_counter' = n /\ n \in {tc, tc + 1}
        /\ cant_ap_h' = Counted(cant_ap_h, n, s)
    BY <2>1, <2>2 DEF EmitStep, Emit
  <2> DEFINE entry(d, t) == [cant_ap |-> Cardinality(Occurrences(d, t)), locked |-> FALSE, list |-> {t}]
             h == [t \in 1 .. tc |-> entry(c, t)]
  <2>4. cant_ap_h = h
    BY <2>2 DEF ListInv
  <2>5. Len(h) = tc
    OBVIOUS
  <2>6. \A t \in 1 .. n : (IF t \in 1 .. Len(h)
                          THEN [h[t] EXCEPT !.cant_ap = @ + Cardinality(Occurrences(s, t))]
                          ELSE entry(s, t)) = entry(c \o s, t)
    <3>1. SUFFICES ASSUME NEW t \in 1 .. n
                   PROVE  (IF t \in 1 .. Len(h)
                           THEN [h[t] EXCEPT !.cant_ap = @ + Cardinality(Occurrences(s, t))]
                           ELSE entry(s, t)) = entry(c \o s, t)
      OBVIOUS
    <3>2. Cardinality(Occurrences(c \o s, t)) =
             Cardinality(Occurrences(c, t)) + Cardinality(Occurrences(s, t))
      BY OccurrencesAdd
    <3>3. CASE t \in 1 .. tc
      <4>1. h[t] = entry(c, t)
        BY <3>3
      <4> QED
        BY <2>5, <3>2, <3>3, <4>1
    <3>4. CASE t \notin 1 .. tc
      <4>1. t = tc + 1
        BY <2>3, <3>4
      <4>2. Occurrences(c, t) = {}
        <5>1. \A j \in 1 .. Len(c) : \A f \in 1 .. 3 : Arg(c[j], f).kind = "temp" => Arg(c[j], f).n \in 1 .. tc
          BY <2>2 DEF AllMade, Made
        <5>2. Temp(t).kind = "temp" /\ Temp(t).n \notin 1 .. tc
          BY <4>1 DEF Temp, Operand
        <5>3. \A j \in 1 .. Len(c) : \A f \in 1 .. 3 : Arg(c[j], f) # Temp(t)
          BY <5>1, <5>2
        <5> QED
          BY <5>3 DEF Occurrences
      <4>3. Cardinality(Occurrences(c, t)) = 0 /\ Cardinality(Occurrences(s, t)) \in Nat
        BY <4>2, FS_EmptySet, OccurrencesFinite
      <4>4. t \notin 1 .. Len(h)
        BY <2>5, <3>4
      <4>5. Cardinality(Occurrences(c \o s, t)) = Cardinality(Occurrences(s, t))
        BY <3>2, <4>3
      <4> HIDE DEF h
      <4> QED
        BY <4>4, <4>5
    <3> QED
      BY <3>3, <3>4
  <2>7. Counted(h, n, s) = [t \in 1 .. n |-> entry(c \o s, t)]
    <3> HIDE DEF h
    <3> QED
      BY <2>6 DEF Counted
  <2> QED
    BY <2>3, <2>4, <2>7 DEF ListInv
<1> QED
  BY <1>1, <1>2 DEF Emits


-----------------------------------------------------------------------------
(* The theorems about the generator.                                       *)

ListTyped ==
  /\ Len(cant_ap_h) = temp_counter
  /\ \A t \in 1 .. temp_counter : /\ cant_ap_h[t].cant_ap \in Nat
                                  /\ cant_ap_h[t].locked \in BOOLEAN
                                  /\ cant_ap_h[t].list \subseteq 1 .. temp_counter

\* an operand of the generated code or a pending one
Existing(o, n, l) ==
  o \in {None, Name, Constant} \cup {Temp(t) : t \in 1 .. n} \cup {Label(k) : k \in 0 .. (l - 1)}

LEMMA MadeExists ==
  ASSUME NEW n \in Nat, NEW l \in Nat, NEW o \in AnyOperand, Made(o, n, l)
  PROVE  Existing(o, n, l)
<1>1. CASE o.kind = "temp"
  <2>1. o.n \in 1 .. n /\ o = Temp(o.n)
    BY <1>1 DEF Made, AnyOperand, Temp, Operand
  <2> QED
    BY <2>1 DEF Existing
<1>2. CASE o.kind = "label"
  <2>1. o.n \in Nat /\ o.n < l /\ o = Label(o.n)
    BY <1>2 DEF Made, AnyOperand, Label, Operand
  <2>2. o.n \in 0 .. (l - 1)
    BY <2>1
  <2> QED
    BY <2>1, <2>2 DEF Existing
<1>3. CASE o.kind \notin {"temp", "label"}
  BY <1>3 DEF Made, AnyOperand, Existing, None, Name, Constant, Operand
<1> QED
  BY <1>1, <1>2, <1>3

LEMMA TypesHold ==
  ASSUME GenTypes, ListTyped
  PROVE  TypeOK
<1>1. PICK c \in Seq(AnyInstr), o \in Seq(AnyOperand), w \in Seq(AnyBlock), tc \in Nat, l \in Nat :
        /\ c = code /\ o = operands /\ w = open /\ tc = temp_counter /\ l = label_counter
        /\ AllMade(c, tc, l) /\ Len(c) <= MaxCode
        /\ \A k \in 1 .. Len(o) : Made(o[k], tc, l)
        /\ \A d \in 1 .. Len(w) : LabelsMade(w[d], l)
        /\ phase \in {"gen", "optimize", "done"}
  BY DEF GenTypes
<1>2. \A i \in 1 .. Len(c) : c[i].op \in Ops /\ \A f \in 1 .. 3 : Existing(Arg(c[i], f), tc, l)
  <2>1. SUFFICES ASSUME NEW i \in 1 .. Len(c)
                 PROVE  c[i].op \in Ops /\ \A f \in 1 .. 3 : Existing(Arg(c[i], f), tc, l)
    OBVIOUS
  <2>2. c[i] \in AnyInstr
    BY ElementOfSeq
  <2>3. c[i].op \in Ops /\ \A f \in 1 .. 3 : Arg(c[i], f) \in AnyOperand
    BY <2>2 DEF AnyInstr, Arg
  <2>4. \A f \in 1 .. 3 : Made(Arg(c[i], f), tc, l)
    BY <1>1 DEF AllMade
  <2> QED
    BY <2>3, <2>4, MadeExists
<1>3. \A k \in 1 .. Len(o) : Existing(o[k], tc, l)
  <2>1. \A k \in 1 .. Len(o) : o[k] \in AnyOperand
    BY ElementOfSeq
  <2> QED
    BY <1>1, <2>1, MadeExists
<1>4. \A d \in 1 .. Len(w) :
        /\ w[d].kind \in {"method", "block", "then", "else", "cond", "while"}
        /\ w[d].returned \in BOOLEAN
        /\ w[d].kind \in Labelled => \A j \in 1 .. 2 : Existing(Label(w[d].labels[j]), tc, l)
  <2>1. SUFFICES ASSUME NEW d \in 1 .. Len(w)
                 PROVE  /\ w[d].kind \in {"method", "block", "then", "else", "cond", "while"}
                        /\ w[d].returned \in BOOLEAN
                        /\ w[d].kind \in Labelled => \A j \in 1 .. 2 : Existing(Label(w[d].labels[j]), tc, l)
    OBVIOUS
  <2>2. w[d] \in AnyBlock /\ LabelsMade(w[d], l)
    BY <1>1, ElementOfSeq
  <2>3. \A j \in 1 .. 2 : j = 1 \/ j = 2
    OBVIOUS
  <2>4. \A j \in 1 .. 2 : w[d].labels[j] \in Nat
    BY <2>2, <2>3 DEF AnyBlock
  <2>5. w[d].kind \in Labelled => \A j \in 1 .. 2 : w[d].labels[j] \in 0 .. (l - 1)
    BY <2>2, <2>3, <2>4 DEF LabelsMade
  <2>6. w[d].kind \in Labelled => \A j \in 1 .. 2 : Existing(Label(w[d].labels[j]), tc, l)
    BY <2>5 DEF Existing
  <2> QED
    BY <2>2, <2>6 DEF AnyBlock, Labelled
<1> QED
  BY <1>1, <1>2, <1>3, <1>4 DEF TypeOK, ListTyped, Existing, Ops, Labelled

LEMMA ListIsTyped ==
  ASSUME GenTypes, ListInv
  PROVE  ListTyped
<1>1. PICK c \in Seq(AnyInstr), tc \in Nat : c = code /\ tc = temp_counter
  BY DEF GenTypes
<1>2. \A t : Cardinality(Occurrences(c, t)) \in Nat
  BY OccurrencesFinite
<1>3. Len(cant_ap_h) = tc
  BY <1>1 DEF ListInv
<1>4. ASSUME NEW t \in 1 .. tc
      PROVE  /\ cant_ap_h[t].cant_ap \in Nat
             /\ cant_ap_h[t].locked \in BOOLEAN
             /\ cant_ap_h[t].list \subseteq 1 .. tc
  <2>1. PICK n \in Nat : n = Cardinality(Occurrences(c, t))
    BY <1>2
  <2> DEFINE x == cant_ap_h[t]
  <2>2. x = [cant_ap |-> n, locked |-> FALSE, list |-> {t}]
    BY <1>1, <2>1 DEF ListInv
  <2> HIDE DEF x
  <2>3. x.cant_ap = n /\ x.locked = FALSE /\ x.list = {t}
    BY <2>2
  <2> QED
    BY <2>1, <2>3 DEF x
<1> QED
  BY <1>1, <1>3, <1>4 DEF ListTyped

LEMMA TempsHold ==
  ASSUME GenTypes, TempInv
  PROVE  TempsStayInTheirBlock
<1>1. PICK c \in Seq(AnyInstr), o \in Seq(AnyOperand), tc \in Nat :
        /\ c = code /\ o = operands /\ tc = temp_counter
        /\ \A t \in 1 .. tc : Written(c, o, t)
  BY DEF GenTypes, TempInv
<1>2. SUFFICES ASSUME NEW t \in 1 .. tc
               PROVE  \E i \in 1 .. Len(c) :
                        LET uses == Occurrences(c, t) \ {<<i, 3>>} IN
                        /\ <<i, 3>> \in Occurrences(c, t)
                        /\ Cardinality(uses) <= 1
                        /\ \A p \in uses : p[2] # 3 /\ p[1] > i /\ StraightIn(c, i, p[1])
                        /\ IsPending(o, t) => uses = {} /\ StraightIn(c, i, Len(c) + 1)
  BY <1>1, Zenon DEF TempsStayInTheirBlock, StraightLine, StraightIn, IsPending
<1>3. PICK i \in 1 .. Len(c) : WrittenAt(c, o, t, i)
  BY <1>1 DEF Written
<1> DEFINE uses == Occurrences(c, t) \ {<<i, 3>>}
<1>4. <<i, 3>> \in Occurrences(c, t)
  BY <1>3 DEF WrittenAt, Occurrences
<1>5. \A p \in uses : p[1] \in 1 .. Len(c) /\ p[2] \in 1 .. 3 /\ p = <<p[1], p[2]>> /\ UseOf(c, i, t, p[1], p[2])
  BY DEF Occurrences, UseOf
<1> HIDE DEF uses
<1>6. \A p \in uses : p[2] # 3 /\ p[1] > i /\ StraightIn(c, i, p[1])
  BY <1>3, <1>5 DEF WrittenAt
<1>7. \A p, q \in uses : p = q
  <2>1. \A p, q \in uses : p[1] = q[1] /\ p[2] = q[2]
    BY <1>3, <1>5 DEF WrittenAt
  <2> QED
    BY <1>5, <2>1
<1>8. Cardinality(uses) <= 1
  <2>1. CASE uses = {}
    <3>1. Cardinality(uses) = 0
      BY <2>1, FS_EmptySet
    <3> QED
      BY <3>1
  <2>2. CASE uses # {}
    <3>1. PICK p : p \in uses
      BY <2>2
    <3>2. uses = {p}
      BY <1>7, <3>1
    <3>3. Cardinality(uses) = 1
      BY <3>2, FS_Singleton
    <3> QED
      BY <3>3
  <2> QED
    BY <2>1, <2>2
<1>9. IsPending(o, t) => uses = {} /\ StraightIn(c, i, Len(c) + 1)
  BY <1>3, <1>5 DEF WrittenAt
<1> QED
  BY <1>4, <1>6, <1>8, <1>9 DEF uses

LEMMA JumpsHold ==
  ASSUME GenTypes, LabelInv
  PROVE  JumpsResolve
<1>1. SUFFICES ASSUME Here = "global"
               PROVE  \A i \in Jumps :
                        \E k \in 1 .. Len(code) : Targets(i) = {k} /\ SameMethod(code, i, k)
  BY DEF JumpsResolve, SameMethod
<1>2. PICK c \in Seq(AnyInstr), w \in Seq(AnyBlock) :
        c = code /\ w = open /\ LabelsFit(c, Awaited(w), BackLabels(w))
  BY DEF GenTypes, LabelInv
<1>3. w = <<>>
  <2>1. ASSUME w # <<>> PROVE FALSE
    <3>1. open[Len(open)] \in AnyBlock /\ Here = open[Len(open)].kind
      BY <1>2, <2>1, CurrentBlock
    <3> QED
      BY <1>1, <3>1 DEF AnyBlock, Labelled
  <2> QED
    BY <2>1
<1>4. Awaited(w) = {}
  BY <1>3 DEF Awaited
<1>5. TAKE i \in Jumps
<1>6. i \in 1 .. Len(c) /\ c[i].op \in {"JMP", "JMPF"}
  BY <1>2 DEF Jumps
<1>7. PICK n \in Nat, k \in 1 .. Len(c) :
        JumpsTo(c, i, n) /\ PlacedAt(c, n, k) /\ SameMethod(c, i, k)
  BY <1>2, <1>4, <1>6 DEF LabelsFit
<1>8. Destination(i) = Label(n)
  BY <1>2, <1>7 DEF JumpsTo, Destination
<1>9. Targets(i) = {j \in 1 .. Len(c) : PlacedAt(c, n, j)}
  BY <1>2, <1>8 DEF Targets, PlacedAt
<1>10. \A j \in 1 .. Len(c) : PlacedAt(c, n, j) => j = k
  BY <1>2, <1>7 DEF LabelsFit
<1>11. Targets(i) = {k}
  BY <1>7, <1>9, <1>10
<1> QED
  BY <1>2, <1>7, <1>11

\* The inductive invariant of the generator.
GeneratorInv == GenInv /\ ListInv

LEMMA GeneratorInvariant == Spec => []GeneratorInv
<1>1. Init => GeneratorInv
  <2>1. SUFFICES ASSUME Init PROVE GeneratorInv
    OBVIOUS
  <2>2. cant_ap_h = <<>> /\ temp_counter = 0
    BY <2>1 DEF Init
  <2>3. ListInv
    BY <2>2 DEF ListInv
  <2> QED
    BY <2>1, <2>3, GenInit DEF GeneratorInv
<1>2. GeneratorInv /\ [gen_code]_vars => GeneratorInv'
  <2>1. SUFFICES ASSUME GeneratorInv, [gen_code]_vars PROVE GeneratorInv'
    OBVIOUS
  <2>2. CASE gen_code
    <3>1. GenInv /\ GenTypes /\ ListInv
      BY <2>1 DEF GeneratorInv, GenInv
    <3>2. GenInv' /\ Emits
      BY <2>2, <3>1, GenKept
    <3>3. ListInv'
      BY <3>1, <3>2, ListKept
    <3> QED
      BY <3>2, <3>3 DEF GeneratorInv
  <2>3. CASE UNCHANGED vars
    <3>1. UNCHANGED <<code, temp_counter, label_counter, operands, open, cant_ap_h, phase>>
      BY <2>3 DEF vars, gen_vars
    <3>2. GenTypes' /\ LabelInv' /\ ListInv'
      BY <2>1, <3>1 DEF GeneratorInv, GenInv, GenTypes, LabelInv, ListInv
    <3>3. TempInv'
      BY <2>1, <3>1 DEF GeneratorInv, GenInv, TempInv, PendingOnce
    <3> QED
      BY <3>2, <3>3 DEF GeneratorInv, GenInv
  <2> QED
    BY <2>1, <2>2, <2>3
<1> QED
  BY <1>1, <1>2, PTL DEF Spec

\* Every variable has its type: only temporaries and labels that new_temp and new_label
\* have made are emitted or pending, and the list of temporaries has one entry for each
\* of them, in the order of creation, whatever the program.
THEOREM TypesOfTheGenerator == Spec => []TypeOK
<1>1. GeneratorInv => TypeOK
  BY ListIsTyped, TypesHold DEF GeneratorInv, GenInv
<1> QED
  BY <1>1, GeneratorInvariant, PTL

\* Every temporary is written once and read at most once, later in the basic block that
\* wrote it: expressions never keep a result over a label or a jump.
THEOREM TemporariesOfTheGenerator == Spec => []TempsStayInTheirBlock
<1>1. GeneratorInv => TempsStayInTheirBlock
  BY TempsHold DEF GeneratorInv, GenInv
<1> QED
  BY <1>1, GeneratorInvariant, PTL

\* gen_code_if and gen_code_while place every label they jump to exactly once, in the
\* method of the jump, also when a block is left at its return statement.
THEOREM JumpsOfTheGenerator == Spec => []JumpsResolve
<1>1. GeneratorInv => JumpsResolve
  BY JumpsHold DEF GeneratorInv, GenInv
<1> QED
  BY <1>1, GeneratorInvariant, PTL

=============================================================================
