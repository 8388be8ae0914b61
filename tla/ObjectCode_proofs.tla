------------------------- MODULE ObjectCode_proofs -------------------------
(***************************************************************************)
(* What the object code generator leaves in the assembly file and in its   *)
(* map of slots: for every program in intermediate code with the shape     *)
(* generateMethod gives it, of any length, with any number of methods,     *)
(* names and arguments.                                                    *)
(*                                                                         *)
(* The run of the compiled program touches none of it, so each invariant   *)
(* is kept by the steps of the generator alone.  What they have in common  *)
(* is said once (Appends): a step appends to asm and extends var_map by    *)
(* the operands of its instruction.                                        *)
(***************************************************************************)
EXTENDS ObjectCodeRun, SequenceTheorems, FunctionTheorems, FiniteSetTheorems, TLAPS

-----------------------------------------------------------------------------
(* The invariant.                                                          *)

IsSeq(s) == \E S : s \in Seq(S)

\* a map of slots: distinct, below the frame pointer, none below offset
MapOK(m) ==
  /\ m.offset \in Int /\ m.offset <= 0
  /\ \A x \in DOMAIN m.map : m.map[x] \in m.offset..-1
  /\ Injective(m.map)
  /\ IsFiniteSet(DOMAIN m.map)

\* slots are given out one by one
MapTight(m) == Cardinality(DOMAIN m.map) = -m.offset

Here == [map |-> var_map, offset |-> current_stack_offset]

\* the names of instruction k that are given a slot
Used(k) == {Key(Operands(k)[n]) : n \in {n \in 1..3 : HasSlot(Operands(k)[n])}}

ParamsOf(e) == {Params(code[e].var1.id)[j] : j \in DOMAIN Params(code[e].var1.id)}

PlaceInv ==
  /\ program \in Programs
  /\ i \in 1..(Len(code) + 1)
  /\ IsSeq(asm)
  /\ \A j \in DOMAIN asm : asm[j].of \in 1..(i - 1)

\* the method that is being compiled was entered at e
OpenInv(e) ==
  LET f == code[e].var1.id IN
  /\ MapTight(Here)
  /\ DOMAIN var_map \subseteq ParamsOf(e) \cup UNION {Used(k) : k \in e..(i - 1)}
  /\ Cardinality(FrameNames(e)) <= slots[f].frame
  /\ DOMAIN slots[f].map = {}

IsSlotRecord(r) == r = [map |-> r.map, frame |-> r.frame] /\ r.frame \in Nat

SlotInv ==
  /\ MapOK(Here)
  /\ SlotsDistinct
  /\ SlotsInFrame
  /\ \A f \in DOMAIN slots : IsSlotRecord(slots[f])
  /\ \A e \in 1..(i - 1) : code[e].op = "ENTER" => code[e].var1.id \in DOMAIN slots
  /\ \A e \in 1..(i - 1) : Within(code, e, i) => OpenInv(e)

CountInv ==
  /\ param_count \in Nat /\ stack_params \in 0..param_count
  /\ IsFiniteSet(PushesFor(i)) /\ Cardinality(PushesFor(i)) = stack_params
  /\ StackArgumentsRemoved

\* no method begins after asm[j]
Latest(j) == SameMethod(j, Len(asm))

EnteredInv(j, g) ==
  \E e \in 1..j : asm[e].op = "entry" /\ asm[e].a = Sym(g) /\ SameMethod(e, j)

LeftInv(j, g) ==
  \/ \E l \in j..Len(asm) : asm[l].op = "leave" /\ asm[l].a = Sym(g) /\ SameMethod(j, l)
  \/ \E e \in 1..(i - 1) : Within(code, e, i) /\ code[e].var1.id = g /\ Latest(j)

\* the jump at j stands in method g, and names the first characters of g
HomeInv(j) ==
  \E g : asm[j].a = Sym(FirstCharacters(g)) /\ EnteredInv(j, g) /\ LeftInv(j, g)

MarkInv ==
  /\ \A e \in 1..(i - 1) :
       Within(code, e, i) =>
         \E q \in 1..Len(asm) : asm[q].op = "entry" /\ asm[q].a = Sym(code[e].var1.id) /\ Latest(q)
  /\ \A j \in 1..Len(asm) : asm[j].op = "jmp_leave" => HomeInv(j)

GeneratedInv == PlaceInv /\ SlotInv /\ CountInv /\ MarkInv

-----------------------------------------------------------------------------
(* Sequences.                                                              *)

\* What a sequence is.
LEMMA SeqFacts ==
  ASSUME NEW s, IsSeq(s)
  PROVE  Len(s) \in Nat /\ DOMAIN s = 1..Len(s)
<1>1. PICK S : s \in Seq(S)
  BY DEF IsSeq
<1> QED
  BY <1>1, LenProperties

\* A sequence given by its elements.
LEMMA SeqByElements ==
  ASSUME NEW s, NEW n \in Nat, s = [k \in 1..n |-> s[k]]
  PROVE  IsSeq(s) /\ Len(s) = n
<1>1. s \in [1..n -> {s[k] : k \in 1..n}]
  <2>1. \A k \in 1..n : s[k] \in {s[j] : j \in 1..n}
    OBVIOUS
  <2> QED
    BY <2>1
<1>2. s \in Seq({s[k] : k \in 1..n})
  BY <1>1, SeqDef
<1>3. Len(s) \in Nat /\ DOMAIN s = 1..Len(s) /\ DOMAIN s = 1..n
  BY <1>1, <1>2, LenProperties
<1>4. Len(s) = n
  BY <1>3
<1> QED
  BY <1>2, <1>4 DEF IsSeq

\* One sequence after another, element by element.
LEMMA ConcatFacts ==
  ASSUME NEW s, NEW t, IsSeq(s), IsSeq(t)
  PROVE  /\ IsSeq(s \o t) /\ Len(s \o t) = Len(s) + Len(t)
         /\ \A k \in 1..Len(s) : (s \o t)[k] = s[k]
         /\ \A k \in 1..Len(t) : (s \o t)[Len(s) + k] = t[k]
<1>1. PICK S : s \in Seq(S)
  BY DEF IsSeq
<1>2. PICK T : t \in Seq(T)
  BY DEF IsSeq
<1>3. s \in Seq(S \cup T) /\ t \in Seq(S \cup T)
  BY <1>1, <1>2, SeqMonotonic
<1>4. /\ s \o t \in Seq(S \cup T) /\ Len(s \o t) = Len(s) + Len(t)
      /\ \A k \in 1..(Len(s) + Len(t)) :
           (s \o t)[k] = IF k <= Len(s) THEN s[k] ELSE t[k - Len(s)]
  BY <1>3, ConcatProperties
<1>5. Len(s) \in Nat /\ Len(t) \in Nat
  BY SeqFacts
<1>6. ASSUME NEW k \in 1..Len(s) PROVE (s \o t)[k] = s[k]
  BY <1>4, <1>5
<1>7. ASSUME NEW k \in 1..Len(t) PROVE (s \o t)[Len(s) + k] = t[k]
  <2>1. Len(s) + k \in 1..(Len(s) + Len(t)) /\ ~(Len(s) + k <= Len(s)) /\ Len(s) + k - Len(s) = k
    BY <1>5
  <2> QED
    BY <1>4, <2>1
<1> QED
  BY <1>4, <1>6, <1>7 DEF IsSeq

-----------------------------------------------------------------------------
(* Lists of instructions without a mark: no entry, no epilogue and no jump  *)
(* to one.                                                                 *)

Marks == {"entry", "leave", "jmp_leave"}

Plain(s) == IsSeq(s) /\ \A k \in 1..Len(s) : s[k].op \notin Marks

\* Such lists are: the empty one, ...
LEMMA PlainEmpty == Plain(<<>>)
<1>1. <<>> \in Seq({}) /\ Len(<<>>) = 0
  OBVIOUS
<1> QED
  BY <1>1 DEF Plain, IsSeq

\* ... one instruction without a mark, ...
LEMMA PlainOne ==
  ASSUME NEW a, a.op \notin Marks
  PROVE  Plain(<<a>>) /\ Len(<<a>>) = 1 /\ <<a>>[1] = a
<1>1. <<a>> \in Seq({a}) /\ Len(<<a>>) = 1 /\ <<a>>[1] = a
  OBVIOUS
<1>2. \A k \in 1..1 : k = 1
  OBVIOUS
<1> QED
  BY <1>1, <1>2 DEF Plain, IsSeq

\* ... two of them in a row, ...
LEMMA PlainConcat ==
  ASSUME NEW s, NEW t, Plain(s), Plain(t)
  PROVE  Plain(s \o t)
<1>1. /\ IsSeq(s \o t) /\ Len(s \o t) = Len(s) + Len(t)
      /\ \A k \in 1..Len(s) : (s \o t)[k] = s[k]
      /\ \A k \in 1..Len(t) : (s \o t)[Len(s) + k] = t[k]
  BY ConcatFacts DEF Plain
<1>2. Len(s) \in Nat /\ Len(t) \in Nat
  BY SeqFacts DEF Plain
<1>3. ASSUME NEW k \in 1..Len(s \o t) PROVE (s \o t)[k].op \notin Marks
  <2>1. CASE k \in 1..Len(s)
    BY <1>1, <2>1 DEF Plain
  <2>2. CASE k \notin 1..Len(s)
    <3>1. k - Len(s) \in 1..Len(t) /\ Len(s) + (k - Len(s)) = k
      BY <1>1, <1>2, <2>2
    <3>2. PICK j \in 1..Len(t) : Len(s) + j = k
      BY <3>1
    <3>3. (s \o t)[k] = t[j]
      BY <1>1, <3>2
    <3> QED
      BY <3>2, <3>3 DEF Plain
  <2> QED
    BY <2>1, <2>2
<1> QED
  BY <1>1, <1>3 DEF Plain

\* ... and several instructions without marks.
LEMMA PlainTuples ==
  ASSUME NEW a, NEW b, NEW c, NEW d,
         a.op \notin Marks, b.op \notin Marks, c.op \notin Marks, d.op \notin Marks
  PROVE  Plain(<<a, b>>) /\ Plain(<<a, b, c>>) /\ Plain(<<a, b, c, d>>)
<1> DEFINE S == {a, b, c, d}
<1>1. <<a, b>> \in Seq(S) /\ Len(<<a, b>>) = 2 /\ \A k \in 1..2 : <<a, b>>[k] \in S
  OBVIOUS
<1>2. <<a, b, c>> \in Seq(S) /\ Len(<<a, b, c>>) = 3 /\ \A k \in 1..3 : <<a, b, c>>[k] \in S
  OBVIOUS
<1>3. /\ <<a, b, c, d>> \in Seq(S) /\ Len(<<a, b, c, d>>) = 4
      /\ \A k \in 1..4 : <<a, b, c, d>>[k] \in S
  OBVIOUS
<1>4. \A x \in S : x.op \notin Marks
  OBVIOUS
<1> QED
  BY <1>1, <1>2, <1>3, <1>4 DEF Plain, IsSeq

\* The longest of them is that of a shift.
LEMMA PlainFive ==
  ASSUME NEW a, NEW b, NEW c, NEW d, NEW e, a.op \notin Marks, b.op \notin Marks,
         c.op \notin Marks, d.op \notin Marks, e.op \notin Marks
  PROVE  Plain(<<a, b, c, d, e>>)
<1> DEFINE S == {a, b, c, d, e}
<1>1. /\ <<a, b, c, d, e>> \in Seq(S) /\ Len(<<a, b, c, d, e>>) = 5
      /\ \A k \in 1..5 : <<a, b, c, d, e>>[k] \in S
  OBVIOUS
<1>2. \A x \in S : x.op \notin Marks
  OBVIOUS
<1> QED
  BY <1>1, <1>2 DEF Plain, IsSeq

\* An instruction of the assembly.
LEMMA AsmFields ==
  ASSUME NEW op, NEW a, NEW b
  PROVE  Asm(op, a, b).op = op /\ Asm(op, a, b).a = a /\ Asm(op, a, b).b = b
BY DEF Asm

\* A mov is no mark.
LEMMA MovPlain ==
  ASSUME NEW a, NEW b
  PROVE  Mov(a, b).op \notin Marks /\ Mov(a, b).op = "mov"
BY DEF Mov, Asm, Marks

-----------------------------------------------------------------------------
(* Slots given out.                                                        *)

\* One more slot.
LEMMA WithSlot ==
  ASSUME NEW m, MapOK(m), NEW x, x \notin DOMAIN m.map
  PROVE  LET n == [map |-> With(m.map, x, m.offset - 1), offset |-> m.offset - 1]
         IN  /\ MapOK(n) /\ DOMAIN n.map = DOMAIN m.map \cup {x}
             /\ MapTight(m) => MapTight(n)
<1> DEFINE n == [map |-> With(m.map, x, m.offset - 1), offset |-> m.offset - 1]
<1>1. /\ n.offset = m.offset - 1
      /\ DOMAIN n.map = DOMAIN m.map \cup {x}
      /\ n.map[x] = m.offset - 1
      /\ \A y \in DOMAIN m.map : n.map[y] = m.map[y]
  BY DEF With
<1>2. m.offset \in Int /\ m.offset <= 0 /\ \A y \in DOMAIN m.map : m.map[y] \in m.offset..-1
  BY DEF MapOK
<1>3. n.offset \in Int /\ n.offset <= 0 /\ \A y \in DOMAIN n.map : n.map[y] \in n.offset..-1
  BY <1>1, <1>2
<1>4. Injective(n.map)
  <2>1. ASSUME NEW y \in DOMAIN n.map, NEW z \in DOMAIN n.map, n.map[y] = n.map[z]
        PROVE  y = z
    <3>1. \A w \in DOMAIN m.map : n.map[w] # m.offset - 1
      BY <1>1, <1>2
    <3>2. \A v, w \in DOMAIN m.map : n.map[v] = n.map[w] => v = w
      BY <1>1 DEF MapOK, Injective
    <3> QED
      BY <1>1, <2>1, <3>1, <3>2
  <2> QED
    BY <2>1 DEF Injective
<1>5. IsFiniteSet(DOMAIN m.map)
  BY DEF MapOK
<1>6. /\ IsFiniteSet(DOMAIN m.map \cup {x})
      /\ Cardinality(DOMAIN m.map \cup {x}) = Cardinality(DOMAIN m.map) + 1
  BY <1>5, FS_AddElement
<1>7. IsFiniteSet(DOMAIN n.map) /\ Cardinality(DOMAIN n.map) = Cardinality(DOMAIN m.map) + 1
  BY <1>1, <1>6
<1>8. MapTight(m) => MapTight(n)
  <2>1. Cardinality(DOMAIN m.map) \in Nat
    BY <1>5, FS_CardinalityType
  <2> QED
    BY <1>1, <1>2, <1>7, <2>1 DEF MapTight
<1>9. MapOK(n)
  BY <1>3, <1>4, <1>7 DEF MapOK
<1> QED
  BY <1>1, <1>8, <1>9

\* What looking up an operand leaves of the map: get_operand_str.
MapGrows(m, n, names) ==
  /\ MapOK(m) => MapOK(n)
  /\ MapOK(m) /\ MapTight(m) => MapTight(n)
  /\ MapOK(m) => DOMAIN n.map \subseteq DOMAIN m.map \cup names

\* Looking up an operand gives a slot to its name at most.
LEMMA MappedGrows ==
  ASSUME NEW m, NEW o
  PROVE  MapGrows(m, Mapped(m, o), {Key(x) : x \in {y \in {o} : HasSlot(y)}})
<1> DEFINE names == {Key(x) : x \in {y \in {o} : HasSlot(y)}}
<1>1. CASE ~HasSlot(o)
  BY <1>1 DEF Mapped, MapGrows
<1>2. CASE HasSlot(o)
  <2>1. Key(o) \in names
    BY <1>2
  <2>2. Mapped(m, o) = get_var_offset(m, Key(o))
    BY <1>2 DEF Mapped
  <2>3. CASE Key(o) \in DOMAIN m.map
    BY <2>2, <2>3 DEF get_var_offset, MapGrows
  <2>4. CASE Key(o) \notin DOMAIN m.map
    <3>1. Mapped(m, o) = [map |-> With(m.map, Key(o), m.offset - 1), offset |-> m.offset - 1]
      BY <2>2, <2>4 DEF get_var_offset
    <3>2. SUFFICES ASSUME MapOK(m)
                   PROVE  /\ MapOK(Mapped(m, o)) /\ (MapTight(m) => MapTight(Mapped(m, o)))
                          /\ DOMAIN Mapped(m, o).map \subseteq DOMAIN m.map \cup names
      BY DEF MapGrows
    <3>3. /\ MapOK(Mapped(m, o)) /\ (MapTight(m) => MapTight(Mapped(m, o)))
          /\ DOMAIN Mapped(m, o).map = DOMAIN m.map \cup {Key(o)}
      <4>1. PICK x : x = Key(o)
        OBVIOUS
      <4>2. LET n == [map |-> With(m.map, x, m.offset - 1), offset |-> m.offset - 1]
            IN  /\ MapOK(n) /\ DOMAIN n.map = DOMAIN m.map \cup {x}
                /\ MapTight(m) => MapTight(n)
        BY <2>4, <3>2, <4>1, WithSlot
      <4> QED
        BY <3>1, <4>1, <4>2
    <3> QED
      BY <2>1, <3>3
  <2> QED
    BY <2>3, <2>4
<1> QED
  BY <1>1, <1>2

\* Look-ups one after another.
LEMMA GrowsTwice ==
  ASSUME NEW l, NEW m, NEW n, NEW A, NEW B, MapGrows(l, m, A), MapGrows(m, n, B)
  PROVE  MapGrows(l, n, A \cup B)
BY DEF MapGrows

\* the map once the operands of the current instruction have their slots
Extends(m) == MapGrows(Here, m, Used(i))

\* The look-ups of the actions: of none, of all three, of the target of a call.
LEMMA MapsExtend == Extends(Here) /\ Extends(MapAfter(in)) /\ Extends(Mapped(Here, in.reg))
<1> DEFINE names(o) == {Key(x) : x \in {y \in {o} : HasSlot(y)}}
<1>1. PICK l, m, n, k, a, b, c :
        /\ l = Here /\ a = in.var1 /\ b = in.var2 /\ c = in.reg
        /\ m = Mapped(l, a) /\ n = Mapped(m, b) /\ k = Mapped(n, c)
  OBVIOUS
<1>2. /\ MapGrows(l, m, names(a)) /\ MapGrows(m, n, names(b)) /\ MapGrows(n, k, names(c))
      /\ MapGrows(l, Mapped(l, c), names(c))
  BY <1>1, MappedGrows
<1>3. MapGrows(l, k, (names(a) \cup names(b)) \cup names(c))
  BY <1>2, GrowsTwice
<1>4. names(a) \subseteq Used(i) /\ names(b) \subseteq Used(i) /\ names(c) \subseteq Used(i)
  <2>1. Operands(i)[1] = a /\ Operands(i)[2] = b /\ Operands(i)[3] = c
    BY <1>1 DEF Operands, in
  <2>2. ASSUME NEW j \in 1..3 PROVE names(Operands(i)[j]) \subseteq Used(i)
    BY DEF Used
  <2> QED
    BY <2>1, <2>2
<1>5. MapGrows(l, l, Used(i))
  BY DEF MapGrows
<1>6. MapGrows(l, k, Used(i)) /\ MapGrows(l, Mapped(l, c), Used(i))
  BY <1>2, <1>3, <1>4 DEF MapGrows
<1>7. k = MapAfter(in)
  BY <1>1 DEF MapAfter, Here
<1> QED
  BY <1>1, <1>5, <1>6, <1>7 DEF Extends

-----------------------------------------------------------------------------
(* Steps of the generator.                                                 *)

\* s is appended to asm for the instruction at i
Emits(s) ==
  /\ IsSeq(asm') /\ Len(asm') = Len(asm) + Len(s)
  /\ \A k \in 1..Len(asm) : asm'[k] = asm[k]
  /\ \A k \in 1..Len(s) : /\ asm'[Len(asm) + k].op = s[k].op
                          /\ asm'[Len(asm) + k].a = s[k].a
                          /\ asm'[Len(asm) + k].b = s[k].b
                          /\ asm'[Len(asm) + k].of = i
                          /\ asm'[Len(asm) + k].first <=> k = 1

\* a step that emits s and leaves the map m
Appends(m, s) ==
  /\ Emits(s)
  /\ var_map' = m.map /\ current_stack_offset' = m.offset
  /\ i' = i + 1 /\ i <= Len(code) /\ UNCHANGED program

\* What Put does, element by element.
LEMMA PutAppends ==
  ASSUME IsSeq(asm), i <= Len(code), UNCHANGED program
  PROVE  \A m, s : IsSeq(s) /\ Put(m, s) => Appends(m, s)
<1> SUFFICES ASSUME NEW m, NEW s, IsSeq(s), Put(m, s) PROVE Appends(m, s)
  OBVIOUS
<1> DEFINE b == Block(s)
<1>1. Len(s) \in Nat /\ DOMAIN s = 1..Len(s)
  BY SeqFacts
<1>2. /\ b = [k \in 1..Len(s) |-> b[k]]
      /\ \A k \in 1..Len(s) : /\ b[k].op = s[k].op /\ b[k].a = s[k].a /\ b[k].b = s[k].b
                              /\ b[k].of = i /\ (b[k].first <=> k = 1)
  BY <1>1 DEF Block
<1>3. IsSeq(b) /\ Len(b) = Len(s)
  <2> HIDE DEF b
  <2>1. PICK c, n : c = b /\ n = Len(s)
    OBVIOUS
  <2>2. IsSeq(c) /\ Len(c) = n
    BY <1>1, <1>2, <2>1, SeqByElements
  <2> QED
    BY <2>1, <2>2
<1>4. /\ IsSeq(asm \o b) /\ Len(asm \o b) = Len(asm) + Len(b)
      /\ \A k \in 1..Len(asm) : (asm \o b)[k] = asm[k]
      /\ \A k \in 1..Len(b) : (asm \o b)[Len(asm) + k] = b[k]
  <2> HIDE DEF b
  <2>1. PICK c, d : c = b /\ d = asm
    OBVIOUS
  <2>2. /\ IsSeq(d \o c) /\ Len(d \o c) = Len(d) + Len(c)
        /\ \A k \in 1..Len(d) : (d \o c)[k] = d[k]
        /\ \A k \in 1..Len(c) : (d \o c)[Len(d) + k] = c[k]
    BY <1>3, <2>1, ConcatFacts
  <2> QED
    BY <2>1, <2>2
<1>5. asm' = asm \o b
  BY DEF Put
<1>6. Emits(s)
  <2> HIDE DEF b
  <2> QED
    BY <1>2, <1>3, <1>4, <1>5 DEF Emits
<1> QED
  BY <1>6 DEF Appends, Put

Special == {"ENTER", "LEAVE", "RET", "PARAM", "CALL"}

\* an instruction that begins or ends nothing, passes nothing and calls nothing
PlainStep ==
  \E m, s : Appends(m, s) /\ Extends(m) /\ Plain(s) /\ Keeps /\ code[i].op \notin Special

\* The actions but five are plain steps.
LEMMA PlainActions ==
  ASSUME IsSeq(asm), UNCHANGED program,
         \/ I_EXTERN \/ I_LOADVAL \/ I_STORE \/ I_LOAD \/ I_ADD \/ I_DIV \/ I_SHIFT_RIGHT
         \/ I_MIN \/ I_NEG \/ I_LES \/ I_LABEL \/ I_JMP \/ I_JMPF
  PROVE  PlainStep
<1>1. ASSUME NEW m, NEW s, Extends(m), Plain(s), Put(m, s), Keeps, i <= Len(code),
             code[i].op \notin Special
      PROVE  PlainStep
  <2>1. Appends(m, s)
    BY <1>1, PutAppends DEF Plain
  <2> QED
    BY <1>1, <2>1 DEF PlainStep
<1>2. Here = [map |-> var_map, offset |-> current_stack_offset]
  BY DEF Here
<1>3. ASSUME NEW m, NEW instrs, Plain(instrs) PROVE Plain(Through(m, instrs))
  <2>1. PICK a, b : a = Mov(op1(m), rax) /\ b = Mov(rax, dest(m))
    OBVIOUS
  <2>2. Plain(<<a>>) /\ Plain(<<b>>)
    BY <2>1, MovPlain, PlainOne
  <2>3. Plain(<<a>> \o instrs)
    BY <1>3, <2>2, PlainConcat
  <2>4. Plain((<<a>> \o instrs) \o <<b>>)
    BY <2>2, <2>3, PlainConcat
  <2> QED
    BY <2>1, <2>4 DEF Through
<1>4. PICK m : m = MapAfter(in)
  OBVIOUS
<1>5. Extends(m) /\ Extends(Here)
  BY <1>4, MapsExtend
<1>6. CASE I_EXTERN \/ I_LOAD
  <2>1. Put(Here, <<>>) /\ Keeps /\ i <= Len(code) /\ code[i].op \notin Special
    BY <1>2, <1>6 DEF I_EXTERN, I_LOAD, Case, Special
  <2>2. PICK h, s : h = Here /\ s = <<>>
    OBVIOUS
  <2> QED
    BY <1>1, <1>5, <2>1, <2>2, PlainEmpty
<1>7. CASE I_LOADVAL \/ I_LABEL \/ I_JMP
  <2>1. PICK a, b, c : /\ a = Mov(op1(m), dest(m)) /\ b = Asm("label", op1(m), Nil)
                       /\ c = Asm("jmp", op1(m), Nil)
    OBVIOUS
  <2>2. a.op \notin Marks /\ b.op \notin Marks /\ c.op \notin Marks
    <3>1. a.op \notin Marks
      BY <2>1, MovPlain
    <3>2. b.op \notin Marks /\ c.op \notin Marks
      BY <2>1, AsmFields DEF Marks
    <3> QED
      BY <3>1, <3>2
  <2>3. Plain(<<a>>) /\ Plain(<<b>>) /\ Plain(<<c>>)
    BY <2>2, PlainOne
  <2>4. CASE I_LOADVAL
    <3>1. Put(m, <<a>>) /\ Keeps /\ i <= Len(code) /\ code[i].op \notin Special
      BY <1>4, <2>1, <2>4 DEF I_LOADVAL, Case, Special
    <3> QED
      BY <1>1, <1>5, <2>3, <3>1
  <2>5. CASE I_LABEL
    <3>1. Put(m, <<b>>) /\ Keeps /\ i <= Len(code) /\ code[i].op \notin Special
      BY <1>4, <2>1, <2>5 DEF I_LABEL, Case, Special
    <3> QED
      BY <1>1, <1>5, <2>3, <3>1
  <2>6. CASE I_JMP
    <3>1. Put(m, <<c>>) /\ Keeps /\ i <= Len(code) /\ code[i].op \notin Special
      BY <1>4, <2>1, <2>6 DEF I_JMP, Case, Special
    <3> QED
      BY <1>1, <1>5, <2>3, <3>1
  <2> QED
    BY <1>7, <2>4, <2>5, <2>6
<1>8. CASE I_STORE
  <2>1. PICK a, b : /\ a = Mov(op1(m), rax) /\ b = Mov(rax, dest(m)) /\ Put(m, <<a, b>>)
                    /\ Keeps /\ i <= Len(code) /\ code[i].op \notin Special
    BY <1>4, <1>8 DEF I_STORE, Case, Special
  <2>2. Plain(<<a, b>>)
    BY <2>1, MovPlain, PlainTuples
  <2> QED
    BY <1>1, <1>5, <2>1, <2>2
<1>9. CASE I_ADD
  <2>1. PICK a : /\ a = Asm(op_str, op2(m), rax) /\ Put(m, Through(m, <<a>>))
                 /\ Keeps /\ i <= Len(code) /\ code[i].op \notin Special
                 /\ in.op \in {"ADD", "SUB", "MUL", "AND", "OR"}
    BY <1>4, <1>9 DEF I_ADD, Case, Special, in
  <2>2. op_str \in {"add", "sub", "imul", "and", "or"}
    BY <2>1 DEF op_str
  <2>3. a.op \notin Marks
    BY <2>1, <2>2, AsmFields DEF Marks
  <2>4. PICK s : s = Through(m, <<a>>)
    OBVIOUS
  <2>5. Plain(s)
    BY <1>3, <2>3, <2>4, PlainOne
  <2> QED
    BY <1>1, <1>5, <2>1, <2>4, <2>5
<1>10. CASE I_DIV
  <2>1. PICK a, b, c, d :
          /\ a = Mov(op1(m), rax) /\ b = Asm("cqo", Nil, Nil) /\ c = Asm("idiv", op2(m), Nil)
          /\ d = Mov(IF in.op = "DIV" THEN rax ELSE Reg("rdx"), dest(m))
          /\ Put(m, <<a, b, c, d>>)
          /\ Keeps /\ i <= Len(code) /\ code[i].op \notin Special
    BY <1>4, <1>10 DEF I_DIV, Case, Special
  <2>2. Plain(<<a, b, c, d>>)
    <3>1. a.op \notin Marks /\ d.op \notin Marks
      BY <2>1, MovPlain
    <3>2. b.op \notin Marks /\ c.op \notin Marks
      BY <2>1, AsmFields DEF Marks
    <3> QED
      BY <3>1, <3>2, PlainTuples
  <2> QED
    BY <1>1, <1>5, <2>1, <2>2
<1>11. CASE I_SHIFT_RIGHT
  <2>1. PICK a, b, c, d, e :
          /\ a = Asm("cqo", Nil, Nil) /\ b = Mov(Imm(Bias), Reg("rcx"))
          /\ c = Asm("and", Reg("rcx"), Reg("rdx"))
          /\ d = Asm("add", Reg("rdx"), rax) /\ e = Asm("sar", op2(m), rax)
          /\ Put(m, Through(m, <<a, b, c, d, e>>))
          /\ Keeps /\ i <= Len(code) /\ code[i].op \notin Special
    BY <1>4, <1>11 DEF I_SHIFT_RIGHT, Case, Special
  <2>2. Plain(<<a, b, c, d, e>>)
    <3>1. a.op \notin Marks /\ c.op \notin Marks /\ d.op \notin Marks /\ e.op \notin Marks
      BY <2>1, AsmFields DEF Marks
    <3>2. b.op \notin Marks
      BY <2>1, MovPlain
    <3> QED
      BY <3>1, <3>2, PlainFive
  <2>4. PICK s : s = Through(m, <<a, b, c, d, e>>)
    OBVIOUS
  <2>5. Plain(s)
    BY <1>3, <2>2, <2>4
  <2> QED
    BY <1>1, <1>5, <2>1, <2>4, <2>5
<1>12. CASE I_MIN
  <2>1. PICK a : /\ a = Asm("neg", rax, Nil) /\ Put(m, Through(m, <<a>>))
                 /\ Keeps /\ i <= Len(code) /\ code[i].op \notin Special
    BY <1>4, <1>12 DEF I_MIN, Case, Special
  <2>2. a.op \notin Marks
    BY <2>1, AsmFields DEF Marks
  <2>3. PICK s : s = Through(m, <<a>>)
    OBVIOUS
  <2>4. Plain(s)
    BY <1>3, <2>2, <2>3, PlainOne
  <2> QED
    BY <1>1, <1>5, <2>1, <2>3, <2>4
<1>13. CASE I_NEG
  <2>1. PICK a, b : /\ a = Asm("cmp", Imm(0), rax) /\ b = Asm("sete", rax, Nil)
                    /\ Put(m, Through(m, <<a, b>>))
                    /\ Keeps /\ i <= Len(code) /\ code[i].op \notin Special
    BY <1>4, <1>13 DEF I_NEG, Case, Special
  <2>2. a.op \notin Marks /\ b.op \notin Marks
    BY <2>1, AsmFields DEF Marks
  <2>3. PICK s : s = Through(m, <<a, b>>)
    OBVIOUS
  <2>4. Plain(s)
    BY <1>3, <2>2, <2>3, PlainTuples
  <2> QED
    BY <1>1, <1>5, <2>1, <2>3, <2>4
<1>14. CASE I_LES
  <2>1. PICK a, b : /\ a = Asm("cmp", op2(m), rax) /\ b = Asm(set_instr, rax, Nil)
                    /\ Put(m, Through(m, <<a, b>>))
                    /\ Keeps /\ i <= Len(code)
                    /\ code[i].op \in Relational \cup {"EQ"}
    BY <1>4, <1>14 DEF I_LES, Case
  <2>2. set_instr \in {"setl", "setg", "sete", "setne", "setle", "setge"}
        /\ code[i].op \notin Special
    BY <2>1 DEF set_instr, Relational, in, Special
  <2>3. a.op \notin Marks /\ b.op \notin Marks
    BY <2>1, <2>2, AsmFields DEF Marks
  <2>4. PICK s : s = Through(m, <<a, b>>)
    OBVIOUS
  <2>5. Plain(s)
    BY <1>3, <2>3, <2>4, PlainTuples
  <2> QED
    BY <1>1, <1>5, <2>1, <2>2, <2>4, <2>5
<1>15. CASE I_JMPF
  <2>1. PICK a, b, c : /\ a = Mov(op1(m), rax) /\ b = Asm("cmp", Imm(0), rax)
                       /\ c = Asm("jz", dest(m), Nil) /\ Put(m, <<a, b, c>>)
                       /\ Keeps /\ i <= Len(code) /\ code[i].op \notin Special
    BY <1>4, <1>15 DEF I_JMPF, Case, Special
  <2>2. Plain(<<a, b, c>>)
    <3>1. a.op \notin Marks
      BY <2>1, MovPlain
    <3>2. b.op \notin Marks /\ c.op \notin Marks
      BY <2>1, AsmFields DEF Marks
    <3> QED
      BY <3>1, <3>2, PlainTuples
  <2> QED
    BY <1>1, <1>5, <2>1, <2>2
<1> QED
  BY <1>6, <1>7, <1>8, <1>9, <1>10, <1>11, <1>12, <1>13, <1>14, <1>15

\* the list begins with a, and has no other mark
BeginsWith(s, a) ==
  IsSeq(s) /\ Len(s) >= 1 /\ s[1] = a /\ \A k \in 2..Len(s) : s[k].op \notin Marks

\* A marked instruction stays first when others follow it.
LEMMA BeginsConcat ==
  ASSUME NEW s, NEW a, NEW t, BeginsWith(s, a), Plain(t)
  PROVE  BeginsWith(s \o t, a)
<1>1. /\ IsSeq(s \o t) /\ Len(s \o t) = Len(s) + Len(t)
      /\ \A k \in 1..Len(s) : (s \o t)[k] = s[k]
      /\ \A k \in 1..Len(t) : (s \o t)[Len(s) + k] = t[k]
  BY ConcatFacts DEF Plain, BeginsWith
<1>2. Len(s) \in Nat /\ Len(t) \in Nat /\ Len(s) >= 1
  BY SeqFacts DEF Plain, BeginsWith
<1>3. (s \o t)[1] = a
  BY <1>1, <1>2 DEF BeginsWith
<1>4. ASSUME NEW k \in 2..Len(s \o t) PROVE (s \o t)[k].op \notin Marks
  <2>1. CASE k <= Len(s)
    <3>1. k \in 1..Len(s) /\ k \in 2..Len(s)
      BY <1>2, <2>1
    <3> QED
      BY <1>1, <3>1 DEF BeginsWith
  <2>2. CASE ~(k <= Len(s))
    <3>1. k - Len(s) \in 1..Len(t) /\ Len(s) + (k - Len(s)) = k
      BY <1>1, <1>2, <2>2
    <3>2. PICK j \in 1..Len(t) : Len(s) + j = k
      BY <3>1
    <3>3. (s \o t)[k] = t[j]
      BY <1>1, <3>2
    <3> QED
      BY <3>2, <3>3 DEF Plain
  <2> QED
    BY <2>1, <2>2
<1> QED
  BY <1>1, <1>2, <1>3, <1>4 DEF BeginsWith

\* The epilogue is such a list, and so are the first instructions of a method.
LEMMA BeginsTuple ==
  ASSUME NEW a, NEW b, NEW c, NEW d,
         b.op \notin Marks, c.op \notin Marks, d.op \notin Marks
  PROVE  BeginsWith(<<a, b, c>>, a) /\ BeginsWith(<<a, b, c, d>>, a)
<1>1. <<a, b, c>> \in Seq({a, b, c}) /\ Len(<<a, b, c>>) = 3 /\ <<a, b, c>>[1] = a
  OBVIOUS
<1>2. \A k \in 2..3 : <<a, b, c>>[k] \in {b, c}
  OBVIOUS
<1>3. <<a, b, c, d>> \in Seq({a, b, c, d}) /\ Len(<<a, b, c, d>>) = 4 /\ <<a, b, c, d>>[1] = a
  OBVIOUS
<1>4. \A k \in 2..4 : <<a, b, c, d>>[k] \in {b, c, d}
  OBVIOUS
<1>5. BeginsWith(<<a, b, c>>, a)
  <2>1. PICK s : s = <<a, b, c>>
    OBVIOUS
  <2>2. s \in Seq({a, b, c}) /\ Len(s) = 3 /\ s[1] = a /\ \A k \in 2..3 : s[k].op \notin Marks
    BY <1>1, <1>2, <2>1
  <2>3. BeginsWith(s, a)
    BY <2>2 DEF BeginsWith, IsSeq
  <2> QED
    BY <2>1, <2>3
<1>6. BeginsWith(<<a, b, c, d>>, a)
  <2>1. PICK s : s = <<a, b, c, d>>
    OBVIOUS
  <2>2. /\ s \in Seq({a, b, c, d}) /\ Len(s) = 4 /\ s[1] = a
        /\ \A k \in 2..4 : s[k].op \notin Marks
    BY <1>3, <1>4, <2>1
  <2>3. BeginsWith(s, a)
    BY <2>2 DEF BeginsWith, IsSeq
  <2> QED
    BY <2>1, <2>3
<1> QED
  BY <1>5, <1>6

\* What the assumption says of the program.
LEMMA CodeFacts ==
  ASSUME program \in Programs
  PROVE  /\ Len(code) \in Nat /\ DOMAIN code = 1..Len(code) /\ MethodShape(code)
         /\ \A k \in 1..Len(code) :
              code[k].op = "ENTER" =>
                LET ps == Params(code[k].var1.id)
                IN  IsSeq(ps) /\ Len(ps) \in Nat /\ ParametersDiffer(ps)
<1>1. IsSequence(code) /\ MethodShape(code)
  BY ProgramsAssumption DEF code
<1>2. Len(code) \in Nat /\ DOMAIN code = 1..Len(code)
  BY <1>1 DEF IsSequence
<1>3. ASSUME NEW k \in 1..Len(code), code[k].op = "ENTER"
      PROVE  LET ps == Params(code[k].var1.id)
             IN  IsSeq(ps) /\ Len(ps) \in Nat /\ ParametersDiffer(ps)
  <2>1. PICK ps : ps = Params(code[k].var1.id)
    OBVIOUS
  <2>2. code[k].var1.id \in DOMAIN program.methods
    BY <1>2, <1>3, ProgramsAssumption DEF code
  <2>3. IsSequence(ps) /\ ParametersDiffer(ps)
    BY <2>1, <2>2, ProgramsAssumption DEF Params
  <2>4. IsSeq(ps)
    BY <2>3, SeqByElements DEF IsSequence
  <2> QED
    BY <2>1, <2>3, <2>4 DEF IsSequence
<1> QED
  BY <1>1, <1>2, <1>3

\* Copying the arguments marks nothing.
LEMMA CopiesPlain ==
  ASSUME NEW n \in Nat
  PROVE  Plain(ArgCopies(n))
<1> DEFINE r == IF n < 6 THEN n ELSE 6
           s == [j \in 1..r |-> Mov(Reg(arg_regs[j]), Slot(-j))]
           t == [k \in 1..(2 * (n - r)) |->
                   IF k % 2 = 1 THEN Mov(Slot(2 + k \div 2), rax)
                   ELSE Mov(rax, Slot(-(6 + k \div 2)))]
<1>1. PICK p, q : p = r /\ q = 2 * (n - r) /\ p \in Nat /\ q \in Nat
  <2>1. r \in Nat /\ 2 * (n - r) \in Nat
    OBVIOUS
  <2> QED
    BY <2>1
<1>2. Plain(s)
  <2>1. s = [j \in 1..p |-> s[j]] /\ \A j \in 1..p : s[j].op \notin Marks
    BY <1>1, MovPlain
  <2>2. PICK x : x = s
    OBVIOUS
  <2>3. IsSeq(x) /\ Len(x) = p
    BY <1>1, <2>1, <2>2, SeqByElements
  <2> QED
    BY <2>1, <2>2, <2>3 DEF Plain
<1>3. Plain(t)
  <2>1. t = [j \in 1..q |-> t[j]] /\ \A j \in 1..q : t[j].op \notin Marks
    BY <1>1, MovPlain
  <2>2. PICK x : x = t
    OBVIOUS
  <2>3. IsSeq(x) /\ Len(x) = q
    BY <1>1, <2>1, <2>2, SeqByElements
  <2> QED
    BY <2>1, <2>2, <2>3 DEF Plain
<1>4. ArgCopies(n) = s \o t
  BY DEF ArgCopies
<1>5. PICK x, y : x = s /\ y = t
  OBVIOUS
<1> QED
  BY <1>2, <1>3, <1>4, <1>5, PlainConcat

EnterStep ==
  \E s : LET f == code[i].var1.id IN
    /\ code[i].op = "ENTER" /\ Appends(ArgMap(f), s)
    /\ BeginsWith(s, Asm("entry", Sym(f), Nil))
    /\ slots' = With(slots, f, [map |-> <<>>, frame |-> total_stack_size])
    /\ UNCHANGED <<param_count, stack_params>>

LeaveStep ==
  \E s : LET f == code[i].var1.id IN
    /\ code[i].op = "LEAVE" /\ Appends([map |-> <<>>, offset |-> current_stack_offset], s)
    /\ BeginsWith(s, Asm("leave", Sym(f), Nil))
    /\ slots' = [slots EXCEPT ![f].map = var_map]
    /\ UNCHANGED <<param_count, stack_params>>

RetStep ==
  \E m, s : /\ code[i].op = "RET" /\ Appends(m, s) /\ Extends(m) /\ IsSeq(s)
            /\ Len(s) >= 1 /\ s[Len(s)] = Asm("jmp_leave", Sym(current_func_name), Nil)
            /\ \A k \in 1..(Len(s) - 1) : s[k].op \notin Marks
            /\ Keeps

ParamStep ==
  \E m, s : /\ code[i].op = "PARAM" /\ Appends(m, s) /\ Extends(m) /\ Plain(s)
            /\ Len(s) = 1 /\ s[1].op = IF param_count < 6 THEN "mov" ELSE "push"
            /\ stack_params' = IF param_count < 6 THEN stack_params ELSE stack_params + 1
            /\ param_count' = param_count + 1
            /\ UNCHANGED slots

CallStep ==
  \E m, s : /\ code[i].op = "CALL" /\ Appends(m, s) /\ Extends(m) /\ Plain(s)
            /\ Len(s) = IF stack_params > 0 THEN 3 ELSE 2
            /\ s[1].op = "call" /\ s[2].op = "mov"
            /\ stack_params > 0 => s[3] = Asm("add", Imm(stack_params), Reg("rsp"))
            /\ param_count' = 0 /\ stack_params' = 0
            /\ UNCHANGED slots

\* I_ENTER appends an entry and instructions without marks, in the map of the arguments.
LEMMA EnterActs ==
  ASSUME IsSeq(asm), UNCHANGED program, program \in Programs, i \in 1..(Len(code) + 1), I_ENTER
  PROVE  EnterStep
<1> DEFINE f == code[i].var1.id
           reserve == IF total_stack_size > 0
                      THEN <<Asm("sub", Imm(total_stack_size), Reg("rsp"))>> ELSE <<>>
<1>1. PICK a, b, c, r, z :
        /\ a = Asm("entry", Sym(f), Nil) /\ b = Asm("push", Reg("rbp"), Nil)
        /\ c = Mov(Reg("rsp"), Reg("rbp")) /\ r = reserve /\ z = ArgCopies(Len(Params(f)))
  OBVIOUS
<1>2. /\ i <= Len(code) /\ code[i].op = "ENTER"
      /\ Put(ArgMap(f), (<<a, b, c>> \o r) \o z)
      /\ slots' = With(slots, f, [map |-> <<>>, frame |-> total_stack_size])
      /\ UNCHANGED <<param_count, stack_params>>
  BY <1>1 DEF I_ENTER, in, Case
<1>3. Plain(r)
  <2>1. PICK d : d = Asm("sub", Imm(total_stack_size), Reg("rsp"))
    OBVIOUS
  <2>2. d.op \notin Marks
    BY <2>1, AsmFields DEF Marks
  <2> QED
    BY <1>1, <2>1, <2>2, PlainEmpty, PlainOne
<1>4. Plain(z)
  <2>1. Len(code) \in Nat
    BY CodeFacts
  <2>2. i \in 1..Len(code) /\ code[i].op = "ENTER"
    BY <1>2, <2>1
  <2>3. Len(Params(f)) \in Nat
    BY <2>2, CodeFacts
  <2> QED
    BY <1>1, <2>3, CopiesPlain
<1>5. BeginsWith((<<a, b, c>> \o r) \o z, a)
  <2>1. b.op \notin Marks /\ c.op \notin Marks
    <3>1. b.op \notin Marks
      BY <1>1, AsmFields DEF Marks
    <3>2. c.op \notin Marks
      BY <1>1, MovPlain
    <3> QED
      BY <3>1, <3>2
  <2>2. BeginsWith(<<a, b, c>>, a)
    BY <2>1, BeginsTuple
  <2>3. BeginsWith(<<a, b, c>> \o r, a)
    BY <1>3, <2>2, BeginsConcat
  <2> QED
    BY <1>4, <2>3, BeginsConcat
<1>6. Appends(ArgMap(f), (<<a, b, c>> \o r) \o z)
  <2>1. IsSeq((<<a, b, c>> \o r) \o z)
    BY <1>5 DEF BeginsWith
  <2> QED
    BY <1>2, <2>1, PutAppends
<1> QED
  BY <1>1, <1>2, <1>5, <1>6 DEF EnterStep

\* I_LEAVE appends a leave first and keeps the map in slots.
LEMMA LeaveActs ==
  ASSUME IsSeq(asm), UNCHANGED program, I_LEAVE
  PROVE  LeaveStep
<1> DEFINE f == code[i].var1.id
           m == [map |-> <<>>, offset |-> current_stack_offset]
<1>1. PICK a, b, c, d : /\ a = Asm("leave", Sym(f), Nil) /\ b = Mov(Reg("rbp"), Reg("rsp"))
                        /\ c = Asm("pop", Reg("rbp"), Nil) /\ d = Asm("ret", Nil, Nil)
  OBVIOUS
<1>2. /\ i <= Len(code) /\ code[i].op = "LEAVE" /\ Put(m, <<a, b, c, d>>)
      /\ slots' = [slots EXCEPT ![f].map = var_map]
      /\ UNCHANGED <<param_count, stack_params>>
  BY <1>1 DEF I_LEAVE, in, Case
<1>3. BeginsWith(<<a, b, c, d>>, a)
  <2>1. b.op \notin Marks
    BY <1>1, MovPlain
  <2>2. c.op \notin Marks /\ d.op \notin Marks
    BY <1>1, AsmFields DEF Marks
  <2> QED
    BY <2>1, <2>2, BeginsTuple
<1>4. Appends(m, <<a, b, c, d>>)
  BY <1>2, <1>3, PutAppends DEF BeginsWith
<1> QED
  BY <1>1, <1>2, <1>3, <1>4 DEF LeaveStep

\* I_RET appends a jump to the epilogue last.
LEMMA RetActs ==
  ASSUME IsSeq(asm), UNCHANGED program, I_RET
  PROVE  RetStep
<1>1. PICK m, s, a : /\ m = MapAfter(in) /\ a = Asm("jmp_leave", Sym(current_func_name), Nil)
                     /\ s = IF in.var1.kind # "none" THEN <<Mov(op1(m), rax)>> ELSE <<>>
  OBVIOUS
<1>2. i <= Len(code) /\ code[i].op = "RET" /\ Put(m, s \o <<a>>) /\ Keeps /\ Extends(m)
  BY <1>1, MapsExtend DEF I_RET, in, Case
<1>3. Plain(s)
  BY <1>1, MovPlain, PlainOne, PlainEmpty
<1>4. IsSeq(<<a>>) /\ Len(<<a>>) = 1 /\ <<a>>[1] = a
  <2>1. <<a>> \in Seq({a}) /\ Len(<<a>>) = 1 /\ <<a>>[1] = a
    OBVIOUS
  <2> QED
    BY <2>1 DEF IsSeq
<1>5. PICK t : t = s \o <<a>>
  OBVIOUS
<1>6. /\ IsSeq(t) /\ Len(t) = Len(s) + 1
      /\ \A k \in 1..Len(s) : t[k] = s[k]
      /\ t[Len(s) + 1] = a
  <2>1. PICK b : b = <<a>>
    OBVIOUS
  <2>2. /\ IsSeq(s \o b) /\ Len(s \o b) = Len(s) + Len(b)
        /\ \A k \in 1..Len(s) : (s \o b)[k] = s[k]
        /\ \A k \in 1..Len(b) : (s \o b)[Len(s) + k] = b[k]
    BY <1>3, <1>4, <2>1, ConcatFacts DEF Plain
  <2>3. 1 \in 1..Len(b)
    BY <1>4, <2>1
  <2> QED
    BY <1>4, <1>5, <2>1, <2>2, <2>3
<1>7. Len(s) \in Nat
  BY <1>3, SeqFacts DEF Plain
<1>8. Len(t) >= 1 /\ t[Len(t)] = a /\ \A k \in 1..(Len(t) - 1) : t[k].op \notin Marks
  BY <1>3, <1>6, <1>7 DEF Plain
<1>9. Appends(m, t)
  BY <1>2, <1>5, <1>6, PutAppends
<1> QED
  BY <1>1, <1>2, <1>6, <1>8, <1>9 DEF RetStep

\* I_PARAM appends one instruction, a push from the seventh argument on.
LEMMA ParamActs ==
  ASSUME IsSeq(asm), UNCHANGED program, I_PARAM
  PROVE  ParamStep
<1>1. PICK m, a, b : /\ m = MapAfter(in) /\ a = Mov(op1(m), Reg(arg_regs[param_count + 1]))
                     /\ b = Asm("push", op1(m), Nil)
  OBVIOUS
<1>2. /\ i <= Len(code) /\ code[i].op = "PARAM" /\ Extends(m)
      /\ Put(m, IF param_count < 6 THEN <<a>> ELSE <<b>>)
      /\ stack_params' = IF param_count < 6 THEN stack_params ELSE stack_params + 1
      /\ param_count' = param_count + 1 /\ UNCHANGED slots
  BY <1>1, MapsExtend DEF I_PARAM, in, Case
<1>3. a.op = "mov" /\ b.op = "push"
  BY <1>1, MovPlain, AsmFields
<1>4. /\ Plain(<<a>>) /\ Len(<<a>>) = 1 /\ <<a>>[1].op = "mov"
      /\ Plain(<<b>>) /\ Len(<<b>>) = 1 /\ <<b>>[1].op = "push"
  BY <1>3, PlainOne DEF Marks
<1>5. PICK s : s = IF param_count < 6 THEN <<a>> ELSE <<b>>
  OBVIOUS
<1>6. Plain(s) /\ Len(s) = 1 /\ s[1].op = IF param_count < 6 THEN "mov" ELSE "push"
  BY <1>4, <1>5
<1>7. Appends(m, s)
  BY <1>2, <1>5, <1>6, PutAppends DEF Plain
<1> QED
  BY <1>2, <1>6, <1>7 DEF ParamStep

\* I_CALL appends the call and, if there are stack arguments, what removes them.
LEMMA CallActs ==
  ASSUME IsSeq(asm), UNCHANGED program, I_CALL
  PROVE  CallStep
<1>1. PICK m, a, b, c : /\ m = Mapped(Here, in.reg)
                        /\ a = Asm("call", Sym(in.var1.id), Nil) /\ b = Mov(rax, dest(m))
                        /\ c = Asm("add", Imm(stack_params), Reg("rsp"))
  OBVIOUS
<1>2. /\ i <= Len(code) /\ code[i].op = "CALL" /\ Extends(m)
      /\ Put(m, <<a, b>> \o (IF stack_params > 0 THEN <<c>> ELSE <<>>))
      /\ param_count' = 0 /\ stack_params' = 0 /\ UNCHANGED slots
  BY <1>1, MapsExtend DEF I_CALL, in, Case, AfterCall, Here
<1>3. a.op = "call" /\ b.op = "mov" /\ c.op = "add"
  BY <1>1, MovPlain, AsmFields
<1>4. PICK p, r, s : p = <<a, b>> /\ r = (IF stack_params > 0 THEN <<c>> ELSE <<>>) /\ s = p \o r
  OBVIOUS
<1>5. /\ Plain(p) /\ Len(p) = 2 /\ p[1] = a /\ p[2] = b
      /\ Plain(r) /\ Len(r) = (IF stack_params > 0 THEN 1 ELSE 0)
      /\ stack_params > 0 => r[1] = c
  <2>1. a.op \notin Marks /\ b.op \notin Marks /\ c.op \notin Marks
    BY <1>3 DEF Marks
  <2>2. Plain(<<a, b>>) /\ Len(<<a, b>>) = 2 /\ <<a, b>>[1] = a /\ <<a, b>>[2] = b
    BY <2>1, PlainTuples
  <2>3. Plain(<<c>>) /\ Len(<<c>>) = 1 /\ <<c>>[1] = c
    BY <2>1, PlainOne
  <2>4. Plain(<<>>) /\ Len(<<>>) = 0
    BY PlainEmpty
  <2> QED
    BY <1>4, <2>2, <2>3, <2>4
<1>6. /\ Len(s) = Len(p) + Len(r) /\ s[1] = a /\ s[2] = b
      /\ stack_params > 0 => s[3] = c
  <2>1. /\ Len(s) = Len(p) + Len(r)
        /\ \A k \in 1..Len(p) : s[k] = p[k]
        /\ \A k \in 1..Len(r) : s[Len(p) + k] = r[k]
    BY <1>4, <1>5, ConcatFacts DEF Plain
  <2>2. 1 \in 1..Len(p) /\ 2 \in 1..Len(p) /\ (stack_params > 0 => 1 \in 1..Len(r)) /\ Len(p) + 1 = 3
    BY <1>5
  <2> QED
    BY <1>5, <2>1, <2>2
<1>7. Put(m, s) /\ Plain(s) /\ Len(s) = IF stack_params > 0 THEN 3 ELSE 2
  BY <1>2, <1>4, <1>5, <1>6, PlainConcat
<1>8. Appends(m, s)
  BY <1>2, <1>7, PutAppends DEF Plain
<1> QED
  BY <1>1, <1>2, <1>3, <1>6, <1>7, <1>8 DEF CallStep

\* The steps of the generator are of six forms.
LEMMA GeneratorSteps ==
  ASSUME PlaceInv, UNCHANGED program, generate_object_code
  PROVE  PlainStep \/ EnterStep \/ LeaveStep \/ RetStep \/ ParamStep \/ CallStep
BY PlainActions, EnterActs, LeaveActs, RetActs, ParamActs, CallActs
   DEF PlaceInv, generate_object_code

-----------------------------------------------------------------------------
(* Every step finds the program it began with, and asm longer.             *)

\* The program does not change, and nothing that only depends on it.
LEMMA Static ==
  ASSUME UNCHANGED program
  PROVE  /\ code' = code
         /\ \A f : Params(f)' = Params(f)
         /\ \A e : FrameNames(e)' = FrameNames(e)
         /\ \A e : ParamsOf(e)' = ParamsOf(e)
         /\ \A e : Used(e)' = Used(e)
         /\ \A e : ParametersOccur(e)' <=> ParametersOccur(e)
<1>1. code' = code /\ \A f : Params(f)' = Params(f)
  BY DEF code, Params
<1>2. \A e : Operands(e)' = Operands(e)
  BY <1>1 DEF Operands
<1>3. \A e : FrameNames(e)' = FrameNames(e)
  <2>1. \A e : EndOfMethod(e)' = EndOfMethod(e)
    BY <1>1 DEF EndOfMethod
  <2> QED
    BY <1>2, <2>1 DEF FrameNames
<1>4. \A e : ParamsOf(e)' = ParamsOf(e)
  BY <1>1 DEF ParamsOf
<1>5. \A e : Used(e)' = Used(e)
  BY <1>2 DEF Used
<1>6. \A e : ParametersOccur(e)' <=> ParametersOccur(e)
  BY <1>1, <1>3 DEF ParametersOccur
<1> QED
  BY <1>1, <1>3, <1>4, <1>5, <1>6

\* asm' is asm and s, for the instruction at i
Longer(s) ==
  \A j \in 1..Len(asm') :
    \/ j \in 1..Len(asm) /\ asm'[j] = asm[j]
    \/ \E k \in 1..Len(s) :
         /\ j = Len(asm) + k /\ asm'[j].of = i
         /\ asm'[j].op = s[k].op /\ asm'[j].a = s[k].a /\ asm'[j].b = s[k].b

\* Appending keeps the place of all that is there.
LEMMA AppendsPlace ==
  ASSUME PlaceInv
  PROVE  \A m, s : IsSeq(s) /\ Appends(m, s) =>
           /\ PlaceInv' /\ Longer(s) /\ Len(asm) \in Nat /\ Len(s) \in Nat
           /\ DOMAIN asm = 1..Len(asm) /\ DOMAIN asm' = 1..Len(asm')
           /\ Len(code) \in Nat /\ i \in 1..Len(code)
<1> SUFFICES ASSUME NEW m, NEW s, IsSeq(s), Appends(m, s)
             PROVE  /\ PlaceInv' /\ Longer(s) /\ Len(asm) \in Nat /\ Len(s) \in Nat
                    /\ DOMAIN asm = 1..Len(asm) /\ DOMAIN asm' = 1..Len(asm')
                    /\ Len(code) \in Nat /\ i \in 1..Len(code)
  OBVIOUS
<1>1. PICK a, b : a = asm /\ b = asm'
  OBVIOUS
<1>2. /\ Len(a) \in Nat /\ DOMAIN a = 1..Len(a) /\ Len(b) \in Nat /\ DOMAIN b = 1..Len(b)
      /\ Len(s) \in Nat /\ Len(b) = Len(a) + Len(s)
  BY <1>1, SeqFacts DEF PlaceInv, Appends, Emits
<1>3. Longer(s)
  <2>1. ASSUME NEW j \in 1..Len(b)
        PROVE  \/ j \in 1..Len(a) /\ b[j] = a[j]
               \/ \E k \in 1..Len(s) :
                    /\ j = Len(a) + k /\ b[j].of = i
                    /\ b[j].op = s[k].op /\ b[j].a = s[k].a /\ b[j].b = s[k].b
    <3>1. CASE j <= Len(a)
      <4>1. j \in 1..Len(a)
        BY <1>2, <3>1
      <4> QED
        BY <1>1, <4>1 DEF Appends, Emits
    <3>2. CASE ~(j <= Len(a))
      <4>1. j - Len(a) \in 1..Len(s) /\ j = Len(a) + (j - Len(a))
        BY <1>2, <3>2
      <4>2. PICK k \in 1..Len(s) : j = Len(a) + k
        BY <4>1
      <4> QED
        BY <1>1, <4>2 DEF Appends, Emits
    <3> QED
      BY <3>1, <3>2
  <2> QED
    BY <1>1, <2>1 DEF Longer
<1>4. Len(code) \in Nat /\ i \in 1..Len(code)
  BY CodeFacts DEF PlaceInv, Appends
<1>5. PlaceInv'
  <2>1. program' \in Programs /\ i' \in 1..(Len(code') + 1)
    BY <1>4, Static DEF PlaceInv, Appends
  <2>2. ASSUME NEW j \in 1..Len(b) PROVE b[j].of \in 1..i
    <3>1. CASE j \in 1..Len(a) /\ b[j] = a[j]
      <4>1. a[j].of \in 1..(i - 1)
        BY <1>1, <1>2, <3>1 DEF PlaceInv
      <4> QED
        BY <1>4, <3>1, <4>1
    <3>2. CASE b[j].of = i
      BY <1>4, <3>2
    <3> QED
      BY <1>1, <1>3, <3>1, <3>2 DEF Longer
  <2>3. i' - 1 = i
    BY <1>4 DEF Appends
  <2> QED
    BY <1>1, <1>2, <2>1, <2>2, <2>3 DEF PlaceInv, Appends, Emits
<1> QED
  BY <1>1, <1>2, <1>3, <1>4, <1>5

-----------------------------------------------------------------------------
(* Slots.                                                                  *)

\* A method is open after an instruction that neither enters nor leaves if it was before.
LEMMA WithinStep ==
  ASSUME NEW e \in Nat, NEW k \in Nat, NEW c, c[k].op \notin {"ENTER", "LEAVE"}
  PROVE  /\ Within(c, e, k + 1) => e < k /\ Within(c, e, k)
         /\ Within(c, e, k) => Within(c, e, k + 1)
<1>1. Within(c, e, k + 1) => e < k /\ Within(c, e, k)
  BY DEF Within
<1>2. ASSUME Within(c, e, k), NEW j \in (e + 1)..((k + 1) - 1)
      PROVE  c[j].op \notin {"ENTER", "LEAVE"}
  <2>1. j \in (e + 1)..(k - 1) \/ j = k
    OBVIOUS
  <2> QED
    BY <1>2, <2>1 DEF Within
<1> QED
  BY <1>1, <1>2 DEF Within

\* Only one method is open.
LEMMA OneOpen ==
  ASSUME NEW c, NEW k \in Nat, NEW e \in Nat, NEW d \in Nat, Within(c, e, k), Within(c, d, k)
  PROVE  e = d
<1>1. ASSUME NEW x \in Nat, NEW y \in Nat, Within(c, x, k), Within(c, y, k), x < y PROVE FALSE
  <2>1. y \in (x + 1)..(k - 1)
    BY <1>1 DEF Within
  <2> QED
    BY <1>1, <2>1 DEF Within
<1>2. ~(e < d) /\ ~(d < e)
  BY <1>1
<1> QED
  BY <1>2

\* Inside a method and between methods the slots given out stay, and more are given out.
LEMMA SlotsInside ==
  ASSUME PlaceInv, SlotInv, code[i].op \notin {"ENTER", "LEAVE"}, UNCHANGED slots
  PROVE  \A m, s : IsSeq(s) /\ Appends(m, s) /\ Extends(m) => SlotInv'
<1> SUFFICES ASSUME NEW m, NEW s, IsSeq(s), Appends(m, s), Extends(m) PROVE SlotInv'
  OBVIOUS
<1>1. i \in Nat /\ i' = i + 1 /\ i \in 1..Len(code) /\ UNCHANGED program
  BY AppendsPlace DEF Appends
<1>2. code' = code
  BY <1>1, Static
<1>3. Here' = [map |-> m.map, offset |-> m.offset] /\ var_map' = m.map
  BY DEF Here, Appends
<1>4. MapOK(m) /\ (MapTight(Here) => MapTight(m)) /\ DOMAIN m.map \subseteq DOMAIN var_map \cup Used(i)
  <2>1. Here.map = var_map
    BY DEF Here
  <2> QED
    BY <2>1 DEF SlotInv, Extends, MapGrows
<1>5. MapOK(Here') /\ (MapTight(m) => MapTight(Here'))
  BY <1>3, <1>4 DEF MapOK, MapTight
<1>6. MapOK(Here)' /\ (MapTight(m) => MapTight(Here)')
  BY <1>5 DEF MapOK, MapTight, Injective
<1>7. SlotsDistinct'
  <2>1. Injective(var_map')
    BY <1>3, <1>4 DEF MapOK
  <2>2. \A f \in DOMAIN slots : Injective(slots[f].map)
    BY DEF SlotInv, SlotsDistinct
  <2> QED
    BY <2>1, <2>2 DEF SlotsDistinct, Injective
<1>8. \A e \in 1..(i' - 1) : code'[e].op = "ENTER" => e \in 1..(i - 1) /\ code[e].op = "ENTER"
  BY <1>1, <1>2
<1>9. SlotsInFrame'
  BY <1>1, <1>2, <1>8, Static DEF SlotInv, SlotsInFrame
<1>10. ASSUME NEW e \in 1..(i' - 1), Within(code, e, i') PROVE OpenInv(e)'
  <2>1. e \in Nat /\ e \in 1..(i - 1) /\ Within(code, e, i)
    BY <1>1, <1>10, WithinStep
  <2>2. OpenInv(e)
    BY <2>1 DEF SlotInv
  <2>3. MapTight(Here)'
    BY <1>4, <1>6, <2>2 DEF OpenInv
  <2>4. DOMAIN var_map' \subseteq ParamsOf(e) \cup UNION {Used(k) : k \in e..(i' - 1)}
    <3>1. DOMAIN var_map \subseteq ParamsOf(e) \cup UNION {Used(k) : k \in e..(i - 1)}
      BY <2>2 DEF OpenInv
    <3>2. e..(i - 1) \subseteq e..(i' - 1) /\ i \in e..(i' - 1)
      BY <1>1, <2>1
    <3> QED
      BY <1>3, <1>4, <3>1, <3>2
  <2>5. /\ FrameNames(e)' = FrameNames(e) /\ ParamsOf(e)' = ParamsOf(e)
        /\ \A k : Used(k)' = Used(k)
    BY <1>1, Static
  <2> QED
    BY <1>2, <2>2, <2>3, <2>4, <2>5 DEF OpenInv
<1>11. \A e \in 1..(i' - 1) : Within(code, e, i)' => Within(code, e, i')
  BY <1>2 DEF Within
<1>12. \A e \in 1..(i' - 1) : code'[e].op = "ENTER" => code'[e].var1.id \in DOMAIN slots'
  BY <1>2, <1>8 DEF SlotInv
<1>13. (\A f \in DOMAIN slots : IsSlotRecord(slots[f]))'
  BY DEF SlotInv, IsSlotRecord
<1> QED
  BY <1>6, <1>7, <1>9, <1>10, <1>11, <1>12, <1>13 DEF SlotInv

\* The prescan ends at the method's LEAVE.
LEMMA EndIsLeave ==
  ASSUME program \in Programs, NEW e \in 1..Len(code), code[e].op = "ENTER"
  PROVE  EndOfMethod(e) \in (e + 1)..Len(code) /\ Encloses(code, e, EndOfMethod(e))
<1>1. Len(code) \in Nat /\ DOMAIN code = 1..Len(code) /\ MethodShape(code)
  BY CodeFacts
<1>2. PICK l \in DOMAIN code : Encloses(code, e, l)
  BY <1>1 DEF MethodShape
<1> DEFINE ends == {j \in (e + 1)..Len(code) :
                      code[j].op = "LEAVE" /\ code[j].var1.id = code[e].var1.id}
<1>3. l \in ends
  BY <1>1, <1>2 DEF Encloses, Within
<1>4. ASSUME NEW k \in ends PROVE l <= k
  <2>1. k \notin (e + 1)..(l - 1)
    BY <1>2, <1>4 DEF Encloses, Within
  <2> QED
    BY <1>1, <1>4, <2>1
<1>5. EndOfMethod(e) \in ends /\ \A k \in ends : EndOfMethod(e) <= k
  BY <1>3, <1>4 DEF EndOfMethod
<1>6. EndOfMethod(e) = l
  BY <1>1, <1>3, <1>4, <1>5
<1> QED
  BY <1>2, <1>3, <1>6

\* The prescan meets finitely many names.
LEMMA FrameFinite ==
  ASSUME program \in Programs, NEW e \in 1..Len(code), code[e].op = "ENTER"
  PROVE  IsFiniteSet(FrameNames(e)) /\ Cardinality(FrameNames(e)) \in Nat
<1>1. PICK l \in Int : l = EndOfMethod(e)
  BY EndIsLeave, CodeFacts
<1> DEFINE P == (e..l) \X (1..3)
           g == [p \in P |-> NameOf(Operands(p[1])[p[2]])]
<1>2. IsFiniteSet(P)
  <2>1. e \in Int /\ l \in Int /\ 1 \in Int /\ 3 \in Int
    BY <1>1
  <2>2. IsFiniteSet(e..l) /\ IsFiniteSet(1..3)
    BY <2>1, FS_Interval
  <2> QED
    BY <2>2, FS_Product
<1>3. IsFiniteSet({g[p] : p \in P})
  <2>1. PICK h : h = g
    OBVIOUS
  <2>2. h \in [P -> {h[p] : p \in P}] /\ \A y \in {h[p] : p \in P} : \E p \in P : h[p] = y
    BY <2>1
  <2>3. h \in Surjection(P, {h[p] : p \in P})
    BY <2>2, Fun_IsSurj
  <2>4. IsFiniteSet({h[p] : p \in P})
    BY <1>2, <2>3, FS_Surjection
  <2> QED
    BY <2>1, <2>4
<1>4. FrameNames(e) \subseteq {g[p] : p \in P}
  <2>1. ASSUME NEW k \in e..l, NEW n \in 1..3 PROVE NameOf(Operands(k)[n]) \in {g[p] : p \in P}
    <3>1. <<k, n>> \in P
      OBVIOUS
    <3>2. g[<<k, n>>] = NameOf(Operands(k)[n])
      BY <3>1
    <3> QED
      BY <3>1, <3>2
  <2> HIDE DEF P, g
  <2> QED
    BY <1>1, <2>1 DEF FrameNames
<1>5. IsFiniteSet(FrameNames(e))
  <2>1. FrameNames(e) \in SUBSET {g[p] : p \in P}
    BY <1>4
  <2> QED
    BY <1>3, <2>1, FS_Subset
<1> QED
  BY <1>5, FS_CardinalityType

\* Arguments have the first slots, in their order.
LEMMA ArgMapFacts ==
  ASSUME program \in Programs, NEW e \in 1..Len(code), code[e].op = "ENTER"
  PROVE  LET m == ArgMap(code[e].var1.id)
         IN  MapOK(m) /\ MapTight(m) /\ DOMAIN m.map = ParamsOf(e)
<1>1. PICK ps : ps = Params(code[e].var1.id)
  OBVIOUS
<1>2. Len(ps) \in Nat /\ DOMAIN ps = 1..Len(ps) /\ ParametersDiffer(ps)
  BY <1>1, CodeFacts, SeqFacts
<1>3. PICK m : m = ArgMap(code[e].var1.id)
  OBVIOUS
<1>4. /\ m.offset = -Len(ps) /\ DOMAIN m.map = {ps[j] : j \in DOMAIN ps}
      /\ \A x \in DOMAIN m.map : m.map[x] = -(CHOOSE j \in DOMAIN ps : ps[j] = x)
  BY <1>1, <1>3 DEF ArgMap
<1>5. ASSUME NEW x \in DOMAIN m.map PROVE \E j \in 1..Len(ps) : ps[j] = x /\ m.map[x] = -j
  BY <1>2, <1>4
<1>6. \A x \in DOMAIN m.map : m.map[x] \in m.offset..-1
  <2>1. ASSUME NEW x \in DOMAIN m.map PROVE m.map[x] \in m.offset..-1
    <3>1. PICK j \in 1..Len(ps) : ps[j] = x /\ m.map[x] = -j
      BY <1>5
    <3>2. -j \in (-Len(ps))..-1
      BY <1>2
    <3> QED
      BY <1>4, <3>1, <3>2
  <2> QED
    BY <2>1
<1>7. Injective(m.map)
  <2>1. ASSUME NEW x \in DOMAIN m.map, NEW y \in DOMAIN m.map, m.map[x] = m.map[y] PROVE x = y
    <3>1. PICK j \in 1..Len(ps) : ps[j] = x /\ m.map[x] = -j
      BY <1>5
    <3>2. PICK k \in 1..Len(ps) : ps[k] = y /\ m.map[y] = -k
      BY <1>5
    <3>3. -j = -k
      BY <2>1, <3>1, <3>2
    <3>4. j = k
      BY <3>3
    <3> QED
      BY <3>1, <3>2, <3>4
  <2> QED
    BY <2>1 DEF Injective
<1>8. IsFiniteSet(DOMAIN m.map) /\ Cardinality(DOMAIN m.map) = Len(ps)
  <2>1. PICK S, g : S = DOMAIN m.map /\ g = [j \in 1..Len(ps) |-> ps[j]]
    OBVIOUS
  <2>2. g \in [1..Len(ps) -> S] /\ \A j \in 1..Len(ps) : g[j] = ps[j]
    BY <1>2, <1>4, <2>1
  <2>3. \A j, k \in 1..Len(ps) : g[j] = g[k] => j = k
    BY <1>2, <2>2 DEF ParametersDiffer
  <2>4. \A x \in S : \E j \in 1..Len(ps) : g[j] = x
    BY <1>2, <1>4, <2>1, <2>2
  <2>5. g \in Bijection(1..Len(ps), S)
    BY <2>2, <2>3, <2>4, Fun_IsBij
  <2>6. ExistsBijection(1..Len(ps), S)
    BY <2>5 DEF ExistsBijection
  <2>7. IsFiniteSet(1..Len(ps))
    BY <1>2, FS_Interval
  <2> QED
    BY <1>2, <2>1, <2>6, <2>7, FS_Bijection, FS_CountingElements
<1>9. m.offset \in Int /\ m.offset <= 0 /\ Cardinality(DOMAIN m.map) = -m.offset
  <2>1. PICK n \in Nat : n = Len(ps)
    BY <1>2
  <2>2. m.offset = -n
    BY <1>4, <2>1
  <2>3. Cardinality(DOMAIN m.map) = n
    BY <1>8, <2>1
  <2>4. -n \in Int /\ -n <= 0 /\ n = -(-n)
    OBVIOUS
  <2> QED
    BY <2>2, <2>3, <2>4
<1>10. DOMAIN m.map = ParamsOf(e)
  BY <1>1, <1>4 DEF ParamsOf
<1> QED
  BY <1>3, <1>6, <1>7, <1>8, <1>9, <1>10 DEF MapOK, MapTight

\* A method begins with the slots of its arguments.
LEMMA SlotsEnter ==
  ASSUME PlaceInv, SlotInv, EnterStep
  PROVE  SlotInv'
<1>1. PICK s, f :
        /\ f = code[i].var1.id /\ code[i].op = "ENTER" /\ Appends(ArgMap(f), s) /\ IsSeq(s)
        /\ slots' = With(slots, f, [map |-> <<>>, frame |-> total_stack_size])
  BY DEF EnterStep, BeginsWith
<1>2. PICK m : m = ArgMap(f)
  OBVIOUS
<1>3. i \in Nat /\ i' = i + 1 /\ i \in 1..Len(code) /\ UNCHANGED program
  BY <1>1, AppendsPlace DEF Appends
<1>4. code' = code
  BY <1>3, Static
<1>5. Here' = [map |-> m.map, offset |-> m.offset] /\ var_map' = m.map
  BY <1>1, <1>2 DEF Here, Appends
<1>6. MapOK(m) /\ MapTight(m) /\ DOMAIN m.map = ParamsOf(i)
  BY <1>1, <1>2, <1>3, ArgMapFacts DEF PlaceInv
<1>7. MapOK(Here') /\ MapTight(Here')
  BY <1>5, <1>6 DEF MapOK, MapTight
<1>8. MapOK(Here)' /\ MapTight(Here)'
  BY <1>7 DEF MapOK, MapTight, Injective
<1>9. total_stack_size \in Nat /\ Cardinality(FrameNames(i)) <= total_stack_size
  <2>1. Cardinality(FrameNames(i)) \in Nat
    BY <1>1, <1>3, FrameFinite DEF PlaceInv
  <2> QED
    BY <2>1 DEF total_stack_size
<1>10. /\ DOMAIN slots' = DOMAIN slots \cup {f}
       /\ slots'[f].frame = total_stack_size /\ slots'[f].map = <<>>
       /\ \A g \in DOMAIN slots : g # f => slots'[g] = slots[g]
  BY <1>1 DEF With
<1>11. DOMAIN slots'[f].map = {}
  BY <1>10
<1>12. SlotsDistinct'
  <2>1. Injective(var_map')
    BY <1>5, <1>6 DEF MapOK
  <2>2. \A g \in DOMAIN slots' : Injective(slots'[g].map)
    BY <1>10, <1>11 DEF SlotInv, SlotsDistinct, Injective
  <2> QED
    BY <2>1, <2>2 DEF SlotsDistinct, Injective
<1>13. ASSUME NEW e \in 1..(i' - 1), code'[e].op = "ENTER"
       PROVE  e = i \/ (e \in 1..(i - 1) /\ code[e].var1.id # f /\ code[e].var1.id \in DOMAIN slots)
  <2>1. CASE e # i
    <3>1. e \in 1..(i - 1) /\ e \in 1..Len(code) /\ code[e].op = "ENTER"
      BY <1>3, <1>4, <1>13, <2>1
    <3>2. MethodShape(code) /\ DOMAIN code = 1..Len(code)
      BY CodeFacts DEF PlaceInv
    <3>3. code[e].var1.id # code[i].var1.id
      BY <1>1, <1>3, <2>1, <3>1, <3>2 DEF MethodShape
    <3> QED
      BY <1>1, <3>1, <3>3 DEF SlotInv
  <2> QED
    BY <2>1
<1>14. SlotsInFrame'
  <2>1. ASSUME NEW e \in 1..(i' - 1), code'[e].op = "ENTER", ParametersOccur(e)',
               NEW x \in DOMAIN slots'[code'[e].var1.id].map
        PROVE  slots'[code'[e].var1.id].map[x] \in (-slots'[code'[e].var1.id].frame)..-1
    <3>1. e # i
      BY <1>1, <1>4, <1>11, <2>1
    <3>2. /\ e \in 1..(i - 1) /\ code[e].op = "ENTER"
          /\ slots'[code'[e].var1.id] = slots[code[e].var1.id]
      BY <1>4, <1>10, <1>13, <2>1, <3>1
    <3>3. ParametersOccur(e)
      BY <1>3, <2>1, Static
    <3> QED
      BY <2>1, <3>2, <3>3 DEF SlotInv, SlotsInFrame
  <2> QED
    BY <2>1 DEF SlotsInFrame
<1>15. ASSUME NEW e \in 1..(i' - 1), Within(code, e, i') PROVE e = i
  <2>1. CASE e # i
    <3>1. i \in (e + 1)..(i' - 1)
      BY <1>3, <2>1
    <3> QED
      BY <1>1, <1>15, <3>1 DEF Within
  <2> QED
    BY <2>1
<1>16. ASSUME NEW e \in 1..(i' - 1), Within(code, e, i') PROVE OpenInv(e)'
  <2>1. e = i
    BY <1>15, <1>16
  <2>2. /\ FrameNames(e)' = FrameNames(i) /\ ParamsOf(e)' = ParamsOf(i)
        /\ code'[e].var1.id = f
    <3>1. FrameNames(e)' = FrameNames(e) /\ ParamsOf(e)' = ParamsOf(e)
      BY <1>3, Static
    <3>2. FrameNames(e) = FrameNames(i) /\ ParamsOf(e) = ParamsOf(i)
      BY <2>1
    <3> QED
      BY <1>1, <1>4, <2>1, <3>1, <3>2
  <2>3. DOMAIN var_map' \subseteq ParamsOf(e)'
    BY <1>5, <1>6, <2>2
  <2>4. Cardinality(FrameNames(e)') <= slots'[f].frame
    BY <1>9, <1>10, <2>2
  <2> QED
    BY <1>8, <1>11, <2>2, <2>3, <2>4 DEF OpenInv
<1>17. \A e \in 1..(i' - 1) : Within(code, e, i)' => Within(code, e, i')
  BY <1>4 DEF Within
<1>18. \A e \in 1..(i' - 1) : code'[e].op = "ENTER" => code'[e].var1.id \in DOMAIN slots'
  BY <1>1, <1>4, <1>10, <1>13
<1>19. (\A g \in DOMAIN slots : IsSlotRecord(slots[g]))'
  <2>1. slots'[f] = [map |-> <<>>, frame |-> total_stack_size]
    BY <1>1 DEF With
  <2>2. IsSlotRecord(slots'[f])
    BY <1>9, <2>1 DEF IsSlotRecord
  <2>3. \A g \in DOMAIN slots' : IsSlotRecord(slots'[g])
    BY <1>10, <2>2 DEF SlotInv
  <2> QED
    BY <2>3 DEF IsSlotRecord
<1> QED
  BY <1>8, <1>12, <1>14, <1>16, <1>17, <1>18, <1>19 DEF SlotInv

\* What a method was given slots for fits in the frame that its prescan reserved.
LEMMA OpenFits ==
  ASSUME PlaceInv, SlotInv, NEW e \in 1..(i - 1), i \in 1..Len(code), Encloses(code, e, i),
         ParametersOccur(e)
  PROVE  \A x \in DOMAIN var_map : var_map[x] \in (-slots[code[e].var1.id].frame)..-1
<1> DEFINE f == code[e].var1.id
<1>1. /\ Len(code) \in Nat /\ e \in 1..Len(code) /\ code[e].op = "ENTER"
      /\ Within(code, e, i) /\ OpenInv(e)
  BY CodeFacts DEF PlaceInv, SlotInv, Encloses, Within
<1>2. PICK l : l = EndOfMethod(e) /\ l \in (e + 1)..Len(code) /\ Encloses(code, e, l)
  BY <1>1, EndIsLeave DEF PlaceInv
<1>3. i <= l
  <2>1. l \notin (e + 1)..(i - 1)
    BY <1>1, <1>2 DEF Encloses, Within
  <2> QED
    BY <1>1, <1>2, <2>1
<1>4. \A x \in DOMAIN var_map : <<FALSE, x>> \in FrameNames(e)
  <2>1. ASSUME NEW x \in ParamsOf(e) PROVE <<FALSE, x>> \in FrameNames(e)
    BY <2>1 DEF ParamsOf, ParametersOccur
  <2>2. ASSUME NEW k \in e..(i - 1), NEW x \in Used(k) PROVE <<FALSE, x>> \in FrameNames(e)
    <3>1. PICK n \in 1..3 : HasSlot(Operands(k)[n]) /\ x = Key(Operands(k)[n])
      BY <2>2 DEF Used
    <3>2. NameOf(Operands(k)[n]) = <<FALSE, x>> /\ Prescanned(Operands(k)[n])
      BY <3>1 DEF HasSlot, Prescanned, NameOf
    <3>3. k \in e..EndOfMethod(e)
      BY <1>1, <1>2, <1>3
    <3>4. <<FALSE, x>> \in {NameOf(Operands(k)[j]) : j \in {j \in 1..3 : Prescanned(Operands(k)[j])}}
      BY <3>2
    <3> QED
      BY <3>3, <3>4 DEF FrameNames
  <2>3. DOMAIN var_map \subseteq ParamsOf(e) \cup UNION {Used(k) : k \in e..(i - 1)}
    BY <1>1 DEF OpenInv
  <2> QED
    BY <2>1, <2>2, <2>3
<1>5. IsFiniteSet(DOMAIN var_map) /\ Cardinality(DOMAIN var_map) <= Cardinality(FrameNames(e))
  <2>1. IsFiniteSet(DOMAIN var_map)
    BY DEF SlotInv, MapOK, Here
  <2>2. PICK S, T, g : /\ S = DOMAIN var_map /\ T = FrameNames(e)
                       /\ g = [x \in S |-> <<FALSE, x>>]
    OBVIOUS
  <2>3. g \in [S -> T] /\ \A x, y \in S : g[x] = g[y] => x = y
    <3>1. g \in [S -> T]
      BY <1>4, <2>2
    <3>2. ASSUME NEW x \in S, NEW y \in S, g[x] = g[y] PROVE x = y
      <4>1. <<FALSE, x>> = <<FALSE, y>>
        BY <2>2, <3>2
      <4> QED
        BY <4>1
    <3> QED
      BY <3>1, <3>2
  <2>4. g \in Injection(S, T)
    BY <2>3, Fun_IsInj
  <2>5. IsFiniteSet(T)
    BY <1>1, <2>2, FrameFinite DEF PlaceInv
  <2> QED
    BY <2>1, <2>2, <2>4, <2>5, FS_Injection
<1>6. /\ Cardinality(DOMAIN var_map) = -current_stack_offset /\ current_stack_offset \in Int
      /\ Cardinality(FrameNames(e)) <= slots[f].frame
      /\ \A x \in DOMAIN var_map : var_map[x] \in current_stack_offset..-1
  BY <1>1 DEF OpenInv, SlotInv, MapOK, MapTight, Here
<1>7. Cardinality(FrameNames(e)) \in Nat /\ slots[f].frame \in Nat
  BY <1>1, FrameFinite DEF PlaceInv, SlotInv, IsSlotRecord
<1>8. -slots[f].frame <= current_stack_offset
  BY <1>5, <1>6, <1>7, SMTT(30)
<1> QED
  BY <1>6, <1>7, <1>8, SMTT(30)

\* A method ends: its map is kept, and it fits the frame.
LEMMA SlotsLeave ==
  ASSUME PlaceInv, SlotInv, LeaveStep
  PROVE  SlotInv'
<1>1. PICK s, f, n :
        /\ n = [map |-> <<>>, offset |-> current_stack_offset]
        /\ f = code[i].var1.id /\ code[i].op = "LEAVE" /\ Appends(n, s) /\ IsSeq(s)
        /\ slots' = [slots EXCEPT ![f].map = var_map]
  BY DEF LeaveStep, BeginsWith
<1>2. i \in Nat /\ i' = i + 1 /\ i \in 1..Len(code) /\ UNCHANGED program
  BY <1>1, AppendsPlace DEF Appends
<1>3. code' = code
  BY <1>2, Static
<1>4. PICK d \in 1..(i - 1) : Encloses(code, d, i)
  <2>1. DOMAIN code = 1..Len(code) /\ MethodShape(code)
    BY CodeFacts DEF PlaceInv
  <2>2. PICK d \in 1..Len(code) : Encloses(code, d, i)
    BY <1>1, <1>2, <2>1 DEF MethodShape
  <2>3. d \in 1..(i - 1)
    BY <1>2, <2>2 DEF Encloses, Within
  <2> QED
    BY <2>2, <2>3
<1>5. code[d].op = "ENTER" /\ code[d].var1.id = f /\ f \in DOMAIN slots
  BY <1>1, <1>4 DEF Encloses, Within, SlotInv
<1>6. /\ DOMAIN slots' = DOMAIN slots /\ slots'[f] = [map |-> var_map, frame |-> slots[f].frame]
      /\ slots'[f].map = var_map
      /\ \A g \in DOMAIN slots : slots'[g].frame = slots[g].frame
      /\ \A g \in DOMAIN slots : g # f => slots'[g] = slots[g]
  <2>1. slots[f] = [map |-> slots[f].map, frame |-> slots[f].frame]
    BY <1>5 DEF SlotInv, IsSlotRecord
  <2>2. [slots[f] EXCEPT !.map = var_map] = [map |-> var_map, frame |-> slots[f].frame]
    BY <2>1
  <2>3. slots' = [slots EXCEPT ![f] = [map |-> var_map, frame |-> slots[f].frame]]
    BY <1>1, <2>2
  <2> QED
    BY <1>5, <2>3
<1>7. var_map' = <<>> /\ DOMAIN var_map' = {} /\ current_stack_offset' = current_stack_offset
  BY <1>1 DEF Appends
<1>8. MapOK(Here)'
  <2>1. IsFiniteSet({})
    BY FS_EmptySet
  <2>2. current_stack_offset \in Int /\ current_stack_offset <= 0
    BY DEF SlotInv, MapOK, Here
  <2> QED
    BY <1>7, <2>1, <2>2 DEF MapOK, Here, Injective
<1>9. SlotsDistinct'
  <2>1. Injective(var_map) /\ \A g \in DOMAIN slots : Injective(slots[g].map)
    BY DEF SlotInv, SlotsDistinct
  <2>2. \A g \in DOMAIN slots' : Injective(slots'[g].map)
    BY <1>6, <2>1
  <2>3. Injective(var_map')
    BY <1>7 DEF Injective
  <2> QED
    BY <2>2, <2>3 DEF SlotsDistinct, Injective
<1>10. SlotsInFrame'
  <2>1. ASSUME NEW e \in 1..(i' - 1), code'[e].op = "ENTER", ParametersOccur(e)',
               NEW x \in DOMAIN slots'[code'[e].var1.id].map
        PROVE  slots'[code'[e].var1.id].map[x] \in (-slots'[code'[e].var1.id].frame)..-1
    <3>1. e \in 1..(i - 1) /\ code[e].op = "ENTER" /\ ParametersOccur(e)
      BY <1>1, <1>2, <1>3, <2>1, Static
    <3>2. code[e].var1.id \in DOMAIN slots
      BY <3>1 DEF SlotInv
    <3>3. CASE code[e].var1.id = f
      <4>1. MethodShape(code) /\ DOMAIN code = 1..Len(code)
        BY CodeFacts DEF PlaceInv
      <4>2. e = d
        <5>1. e \in DOMAIN code /\ d \in DOMAIN code
          BY <1>2, <3>1, <4>1
        <5> QED
          BY <1>5, <3>1, <3>3, <4>1, <5>1, SMTT(30) DEF MethodShape
      <4>3. \A y \in DOMAIN var_map : var_map[y] \in (-slots[f].frame)..-1
        BY <1>2, <1>4, <1>5, <3>1, <4>2, OpenFits
      <4> QED
        BY <1>3, <1>5, <1>6, <2>1, <3>3, <4>3
    <3>4. CASE code[e].var1.id # f
      BY <1>3, <1>6, <2>1, <3>1, <3>2, <3>4 DEF SlotInv, SlotsInFrame
    <3> QED
      BY <3>3, <3>4
  <2> QED
    BY <2>1 DEF SlotsInFrame
<1>11. ASSUME NEW e \in 1..(i' - 1), Within(code, e, i') PROVE FALSE
  <2>1. CASE e # i
    <3>1. i \in (e + 1)..(i' - 1)
      BY <1>2, <2>1
    <3> QED
      BY <1>1, <1>11, <3>1 DEF Within
  <2>2. CASE e = i
    BY <1>1, <1>11, <2>2 DEF Within
  <2> QED
    BY <2>1, <2>2
<1>12. \A e \in 1..(i' - 1) : Within(code, e, i)' => Within(code, e, i')
  BY <1>3 DEF Within
<1>13. \A e \in 1..(i' - 1) : code'[e].op = "ENTER" => code'[e].var1.id \in DOMAIN slots'
  <2>1. \A e \in 1..(i' - 1) : e \in 1..(i - 1) \/ e = i
    BY <1>2
  <2> QED
    BY <1>1, <1>3, <1>6, <2>1 DEF SlotInv
<1>14. (\A g \in DOMAIN slots : IsSlotRecord(slots[g]))'
  <2>1. \A g \in DOMAIN slots' : IsSlotRecord(slots'[g])
    BY <1>6 DEF SlotInv, IsSlotRecord
  <2> QED
    BY <2>1 DEF IsSlotRecord
<1> QED
  BY <1>8, <1>9, <1>10, <1>11, <1>12, <1>13, <1>14 DEF SlotInv

-----------------------------------------------------------------------------
(* Arguments on the stack.                                                 *)

\* A step changes nothing of what was pushed and removed for the calls before it.
LEMMA CountsStable ==
  ASSUME PlaceInv
  PROVE  \A m, s : IsSeq(s) /\ Appends(m, s) =>
           /\ \A c \in 1..i : PushesFor(c)' = PushesFor(c)
           /\ \A c \in 1..(i - 1) : RemovedAfter(c)' = RemovedAfter(c)
<1> SUFFICES ASSUME NEW m, NEW s, IsSeq(s), Appends(m, s)
             PROVE  /\ \A c \in 1..i : PushesFor(c)' = PushesFor(c)
                    /\ \A c \in 1..(i - 1) : RemovedAfter(c)' = RemovedAfter(c)
  OBVIOUS
<1>1. /\ Longer(s) /\ DOMAIN asm = 1..Len(asm) /\ DOMAIN asm' = 1..Len(asm')
      /\ Len(asm) \in Nat /\ Len(s) \in Nat /\ Len(asm') = Len(asm) + Len(s) /\ i \in Nat
      /\ code' = code
  BY AppendsPlace, Static DEF Appends, Emits
<1>2. 1..Len(asm) \subseteq 1..Len(asm') /\ \A j \in 1..Len(asm) : asm'[j] = asm[j]
  BY <1>1 DEF Appends, Emits
<1>3. \A j \in 1..Len(asm') : j \in 1..Len(asm) \/ asm'[j].of = i
  BY <1>1 DEF Longer
<1>4. ASSUME NEW c \in 1..i PROVE PushesFor(c)' = PushesFor(c)
  <2>1. ~(i < c)
    BY <1>1
  <2>2. ASSUME NEW j PROVE j \in PushesFor(c)' <=> j \in PushesFor(c)
    BY <1>1, <1>2, <1>3, <2>1 DEF PushesFor
  <2>3. PICK A, B : A = PushesFor(c)' /\ B = PushesFor(c)
    OBVIOUS
  <2>4. \A j : j \in A <=> j \in B
    BY <2>2, <2>3
  <2>5. A = B
    BY <2>4
  <2> QED
    BY <2>3, <2>5
<1>5. ASSUME NEW c \in 1..(i - 1) PROVE RemovedAfter(c)' = RemovedAfter(c)
  <2>1. i # c
    BY <1>1
  <2>2. ASSUME NEW j PROVE j \in RemovedAfter(c)' <=> j \in RemovedAfter(c)
    BY <1>1, <1>2, <1>3, <2>1 DEF RemovedAfter, Reg, Place
  <2>3. PICK A, B : A = RemovedAfter(c)' /\ B = RemovedAfter(c)
    OBVIOUS
  <2>4. \A j : j \in A <=> j \in B
    BY <2>2, <2>3
  <2>5. A = B
    BY <2>4
  <2> QED
    BY <2>3, <2>5
<1> QED
  BY <1>4, <1>5

\* what StackArgumentsRemoved says of the call at c
CallCounted(c) ==
  code[c].op = "CALL" =>
    IF PushesFor(c) = {} THEN RemovedAfter(c) = {}
    ELSE \E j \in DOMAIN asm : /\ RemovedAfter(c) = {j}
                              /\ asm[j].a = Imm(Cardinality(PushesFor(c)))

\* What was said of earlier calls stays true.
LEMMA OldCallsCounted ==
  ASSUME PlaceInv, StackArgumentsRemoved
  PROVE  \A m, s : IsSeq(s) /\ Appends(m, s) => \A c \in 1..(i - 1) : CallCounted(c)'
<1> SUFFICES ASSUME NEW m, NEW s, IsSeq(s), Appends(m, s), NEW c \in 1..(i - 1)
             PROVE  CallCounted(c)'
  OBVIOUS
<1>1. /\ DOMAIN asm = 1..Len(asm) /\ DOMAIN asm' = 1..Len(asm')
      /\ Len(asm) \in Nat /\ Len(s) \in Nat /\ Len(asm') = Len(asm) + Len(s) /\ i \in Nat
      /\ code' = code
  BY AppendsPlace, Static DEF Appends, Emits
<1>2. DOMAIN asm \subseteq DOMAIN asm' /\ \A j \in DOMAIN asm : asm'[j] = asm[j]
  BY <1>1 DEF Appends, Emits
<1>3. PushesFor(c)' = PushesFor(c) /\ RemovedAfter(c)' = RemovedAfter(c)
  BY <1>1, CountsStable
<1>4. CallCounted(c)
  BY DEF StackArgumentsRemoved, CallCounted
<1> QED
  BY <1>1, <1>2, <1>3, <1>4 DEF CallCounted, Imm, Place

\* Pushes of the call that is being prepared.
LEMMA PushesNext ==
  ASSUME PlaceInv, code[i].op # "CALL"
  PROVE  \A m, s : IsSeq(s) /\ Appends(m, s) =>
           PushesFor(i)' = PushesFor(i)
             \cup {j \in 1..Len(asm') : j > Len(asm) /\ asm'[j].op = "push" /\ code[i].op = "PARAM"}
<1> SUFFICES ASSUME NEW m, NEW s, IsSeq(s), Appends(m, s)
             PROVE  PushesFor(i)' = PushesFor(i)
                      \cup {j \in 1..Len(asm') :
                              j > Len(asm) /\ asm'[j].op = "push" /\ code[i].op = "PARAM"}
  OBVIOUS
<1>1. /\ Longer(s) /\ DOMAIN asm = 1..Len(asm) /\ DOMAIN asm' = 1..Len(asm')
      /\ Len(asm) \in Nat /\ Len(s) \in Nat /\ Len(asm') = Len(asm) + Len(s) /\ i \in Nat
      /\ code' = code /\ i' = i + 1
      /\ \A j \in 1..Len(asm) : asm[j].of \in 1..(i - 1)
  BY AppendsPlace, Static DEF Appends, Emits, PlaceInv
<1>2. \A j \in 1..Len(asm) : j \in 1..Len(asm') /\ asm'[j] = asm[j]
  BY <1>1 DEF Appends, Emits
<1>3. \A j \in 1..Len(asm') : j > Len(asm) => asm'[j].of = i
  BY <1>1 DEF Longer
<1>4. ASSUME NEW j \in 1..Len(asm) PROVE j \in PushesFor(i)' <=> j \in PushesFor(i)
  <2>1. PICK o \in 1..(i - 1) : o = asm[j].of /\ asm'[j].of = o
    BY <1>1, <1>2
  <2>2. o < i /\ o < i + 1
    BY <1>1
  <2>3. (\A k \in o..((i + 1) - 1) : code[k].op # "CALL") <=> (\A k \in o..(i - 1) : code[k].op # "CALL")
    <3>1. ASSUME NEW k \in o..((i + 1) - 1) PROVE k = i \/ k \in o..(i - 1)
      BY <1>1
    <3>2. ASSUME NEW k \in o..(i - 1) PROVE k \in o..((i + 1) - 1)
      BY <1>1
    <3> QED
      BY <3>1, <3>2
  <2>4. j \in PushesFor(i)' <=> asm[j].op = "push" /\ code[o].op = "PARAM"
                                 /\ \A k \in o..((i + 1) - 1) : code[k].op # "CALL"
    BY <1>1, <1>2, <2>1, <2>2 DEF PushesFor
  <2>5. j \in PushesFor(i) <=> asm[j].op = "push" /\ code[o].op = "PARAM"
                                 /\ \A k \in o..(i - 1) : code[k].op # "CALL"
    BY <1>1, <2>1, <2>2 DEF PushesFor
  <2> QED
    BY <2>3, <2>4, <2>5
<1>5. ASSUME NEW j \in 1..Len(asm'), j > Len(asm)
      PROVE  j \in PushesFor(i)' <=> asm'[j].op = "push" /\ code[i].op = "PARAM"
  <2>1. asm'[j].of = i /\ i < i + 1
    BY <1>1, <1>3, <1>5
  <2>2. \A k \in i..((i + 1) - 1) : code[k].op # "CALL"
    <3>1. \A k \in i..((i + 1) - 1) : k = i
      BY <1>1
    <3> QED
      BY <3>1
  <2> QED
    BY <1>1, <2>1, <2>2 DEF PushesFor
<1>6. PushesFor(i)' \subseteq 1..Len(asm') /\ PushesFor(i) \subseteq 1..Len(asm)
  BY <1>1 DEF PushesFor
<1>7. \A j \in 1..Len(asm') : j \in 1..Len(asm) \/ j > Len(asm)
  BY <1>1
<1>8. \A j \in 1..Len(asm) : j \in 1..Len(asm') /\ ~(j > Len(asm))
  BY <1>1
<1>9. PICK A, B, C : /\ A = PushesFor(i)' /\ B = PushesFor(i)
                     /\ C = {j \in 1..Len(asm') :
                               j > Len(asm) /\ asm'[j].op = "push" /\ code[i].op = "PARAM"}
  OBVIOUS
<1>10. \A j : j \in A <=> j \in B \cup C
  BY <1>4, <1>5, <1>6, <1>7, <1>8, <1>9
<1>11. A = B \cup C
  BY <1>10
<1> QED
  BY <1>9, <1>11

\* The steps that neither pass an argument nor call.
LEMMA CountsKept ==
  ASSUME PlaceInv, CountInv, code[i].op \notin {"PARAM", "CALL"},
         UNCHANGED <<param_count, stack_params>>
  PROVE  \A m, s : IsSeq(s) /\ Appends(m, s) => CountInv'
<1> SUFFICES ASSUME NEW m, NEW s, IsSeq(s), Appends(m, s) PROVE CountInv'
  OBVIOUS
<1>1. i' = i + 1 /\ i \in Nat /\ code' = code
  BY AppendsPlace, Static DEF Appends
<1>2. PushesFor(i)' = PushesFor(i)
  BY PushesNext
<1>3. StackArgumentsRemoved'
  <2>1. ASSUME NEW c \in 1..(i' - 1) PROVE CallCounted(c)'
    <3>1. CASE c = i
      BY <1>1, <3>1 DEF CallCounted
    <3>2. CASE c # i
      <4>1. c \in 1..(i - 1)
        BY <1>1, <3>2
      <4> QED
        BY <4>1, OldCallsCounted DEF CountInv
    <3> QED
      BY <3>1, <3>2
  <2> QED
    BY <2>1 DEF StackArgumentsRemoved, CallCounted
<1>4. IsFiniteSet(PushesFor(i)') /\ Cardinality(PushesFor(i)') = stack_params'
  BY <1>2 DEF CountInv
<1> QED
  BY <1>3, <1>4 DEF CountInv

\* One more argument: the count of pushes follows.
LEMMA CountsParam ==
  ASSUME PlaceInv, CountInv, ParamStep
  PROVE  CountInv'
<1>1. PICK m, s : /\ code[i].op = "PARAM" /\ Appends(m, s) /\ IsSeq(s)
                  /\ Len(s) = 1 /\ s[1].op = IF param_count < 6 THEN "mov" ELSE "push"
                  /\ stack_params' = IF param_count < 6 THEN stack_params ELSE stack_params + 1
                  /\ param_count' = param_count + 1
  BY DEF ParamStep, Plain
<1>2. /\ i' = i + 1 /\ i \in Nat /\ code' = code /\ Len(asm) \in Nat
      /\ Len(asm') = Len(asm) + 1 /\ asm'[Len(asm) + 1].op = s[1].op
      /\ DOMAIN asm = 1..Len(asm)
  <2>1. 1 \in 1..Len(s) /\ UNCHANGED program /\ i' = i + 1
    BY <1>1 DEF Appends
  <2>2. code' = code
    BY <2>1, Static
  <2>3. i \in Nat /\ Len(asm) \in Nat /\ DOMAIN asm = 1..Len(asm)
    BY <1>1, AppendsPlace
  <2>4. Len(asm') = Len(asm) + 1 /\ asm'[Len(asm) + 1].op = s[1].op
    BY <1>1, <2>1 DEF Appends, Emits
  <2> QED
    BY <2>1, <2>2, <2>3, <2>4
<1>3. StackArgumentsRemoved'
  <2>1. ASSUME NEW c \in 1..(i' - 1) PROVE CallCounted(c)'
    <3>1. CASE c = i
      BY <1>1, <1>2, <3>1 DEF CallCounted
    <3>2. CASE c # i
      <4>1. c \in 1..(i - 1)
        BY <1>2, <3>2
      <4> QED
        BY <1>1, <4>1, OldCallsCounted DEF CountInv
    <3> QED
      BY <3>1, <3>2
  <2> QED
    BY <2>1 DEF StackArgumentsRemoved, CallCounted
<1>4. PushesFor(i)' = PushesFor(i)
        \cup {j \in 1..Len(asm') : j > Len(asm) /\ asm'[j].op = "push" /\ code[i].op = "PARAM"}
  BY <1>1, PushesNext
<1>5. \A j \in 1..Len(asm') : j > Len(asm) => j = Len(asm) + 1
  BY <1>2
<1>6. param_count \in Nat /\ stack_params \in Nat /\ stack_params <= param_count
  BY DEF CountInv
<1>7. CASE param_count < 6
  <2>1. PushesFor(i)' = PushesFor(i)
    BY <1>1, <1>2, <1>4, <1>5, <1>7
  <2>2. stack_params' = stack_params /\ stack_params \in 0..param_count'
    BY <1>1, <1>6, <1>7
  <2> QED
    BY <1>1, <1>3, <1>6, <2>1, <2>2 DEF CountInv
<1>8. CASE ~(param_count < 6)
  <2>1. PushesFor(i)' = PushesFor(i) \cup {Len(asm) + 1}
    <3>1. Len(asm) + 1 \in 1..Len(asm') /\ Len(asm) + 1 > Len(asm)
      BY <1>2
    <3> QED
      BY <1>1, <1>2, <1>4, <1>5, <1>8, <3>1
  <2>2. Len(asm) + 1 \notin PushesFor(i)
    <3>1. Len(asm) + 1 \notin DOMAIN asm
      BY <1>2
    <3> QED
      BY <3>1 DEF PushesFor
  <2>3. IsFiniteSet(PushesFor(i)') /\ Cardinality(PushesFor(i)') = stack_params + 1
    <3>1. PICK P, x : P = PushesFor(i) /\ x = Len(asm) + 1
      OBVIOUS
    <3>2. IsFiniteSet(P) /\ Cardinality(P) = stack_params /\ x \notin P
      BY <2>2, <3>1 DEF CountInv
    <3>3. IsFiniteSet(P \cup {x}) /\ Cardinality(P \cup {x}) = Cardinality(P) + 1
      BY <3>2, FS_AddElement
    <3> QED
      BY <2>1, <3>1, <3>2, <3>3
  <2>4. stack_params' = stack_params + 1 /\ stack_params + 1 \in 0..(param_count + 1)
    BY <1>1, <1>6, <1>8
  <2> QED
    BY <1>1, <1>3, <1>6, <2>3, <2>4 DEF CountInv
<1> QED
  BY <1>7, <1>8

\* A call removes what was pushed for it, and the counts start again.
LEMMA CountsCall ==
  ASSUME PlaceInv, CountInv, CallStep
  PROVE  CountInv'
<1>1. PICK m, s : /\ code[i].op = "CALL" /\ Appends(m, s) /\ IsSeq(s)
                  /\ Len(s) = IF stack_params > 0 THEN 3 ELSE 2
                  /\ s[1].op = "call" /\ s[2].op = "mov"
                  /\ stack_params > 0 => s[3] = Asm("add", Imm(stack_params), Reg("rsp"))
                  /\ param_count' = 0 /\ stack_params' = 0
  BY DEF CallStep, Plain
<1>2. /\ i' = i + 1 /\ i \in Nat /\ i \in 1..i /\ code' = code /\ Len(asm) \in Nat
      /\ Len(asm') = Len(asm) + Len(s) /\ Longer(s)
      /\ DOMAIN asm = 1..Len(asm) /\ DOMAIN asm' = 1..Len(asm')
      /\ \A j \in 1..Len(asm) : asm'[j] = asm[j] /\ asm[j].of \in 1..(i - 1)
  <2>1. UNCHANGED program /\ i' = i + 1 /\ Len(asm') = Len(asm) + Len(s)
    BY <1>1 DEF Appends, Emits
  <2>2. code' = code
    BY <2>1, Static
  <2>3. /\ i \in Nat /\ i \in 1..Len(code) /\ Len(asm) \in Nat /\ Longer(s)
        /\ DOMAIN asm = 1..Len(asm) /\ DOMAIN asm' = 1..Len(asm')
    BY <1>1, AppendsPlace
  <2>4. \A j \in 1..Len(asm) : asm'[j] = asm[j] /\ asm[j].of \in 1..(i - 1)
    BY <1>1, <2>3 DEF Appends, Emits, PlaceInv
  <2>5. i \in 1..i
    BY <2>3
  <2> QED
    BY <2>1, <2>2, <2>3, <2>4, <2>5
<1>3. PICK n \in Nat, p \in Nat : n = i /\ p = stack_params
  BY <1>2 DEF CountInv
<1>4. PushesFor(n)' = PushesFor(n)
  BY <1>1, <1>2, <1>3, CountsStable
<1>5. IsFiniteSet(PushesFor(n)) /\ Cardinality(PushesFor(n)) = p
  <2>1. PushesFor(n) = PushesFor(i)
    BY <1>3
  <2> QED
    BY <1>3, <2>1 DEF CountInv
<1>6. ASSUME NEW j \in RemovedAfter(n)'
      PROVE  p > 0 /\ j = Len(asm) + 3 /\ asm'[j].a = Imm(p)
  <2>1. j \in 1..Len(asm') /\ asm'[j].of = n /\ asm'[j].op = "add"
    BY <1>2, <1>6 DEF RemovedAfter
  <2>2. j \notin 1..Len(asm)
    <3>1. n \notin 1..(i - 1)
      BY <1>3
    <3> QED
      BY <1>2, <2>1, <3>1
  <2>3. PICK k \in 1..Len(s) : /\ j = Len(asm) + k
                               /\ asm'[j].op = s[k].op /\ asm'[j].a = s[k].a
    BY <1>2, <2>1, <2>2 DEF Longer
  <2>4. k \notin {1, 2}
    BY <1>1, <2>1, <2>3
  <2>5. p > 0 /\ k = 3
    BY <1>1, <1>3, <2>4
  <2> QED
    BY <1>1, <1>3, <2>3, <2>5, AsmFields
<1>7. ASSUME p > 0 PROVE Len(asm) + 3 \in DOMAIN asm' /\ Len(asm) + 3 \in RemovedAfter(n)'
  <2>1. 3 \in 1..Len(s) /\ Len(asm) + 3 \in 1..Len(asm')
    BY <1>1, <1>2, <1>3, <1>7
  <2>2. /\ asm'[Len(asm) + 3].op = s[3].op /\ asm'[Len(asm) + 3].b = s[3].b
        /\ asm'[Len(asm) + 3].of = i
    BY <1>1, <2>1 DEF Appends, Emits
  <2>3. s[3].op = "add" /\ s[3].b = Reg("rsp")
    BY <1>1, <1>3, <1>7, AsmFields
  <2> QED
    BY <1>2, <1>3, <2>1, <2>2, <2>3 DEF RemovedAfter, Reg, Place
<1>8. CallCounted(n)'
  <2>1. CASE p = 0
    <3>1. PushesFor(n)' = {}
      BY <1>4, <1>5, <2>1, FS_EmptySet
    <3>2. RemovedAfter(n)' = {}
      BY <1>6, <2>1
    <3> QED
      BY <3>1, <3>2 DEF CallCounted
  <2>2. CASE p # 0
    <3>1. PushesFor(n)' # {} /\ Cardinality(PushesFor(n)') = p
      BY <1>4, <1>5, <2>2, FS_EmptySet
    <3>2. p > 0
      BY <2>2
    <3>3. RemovedAfter(n)' = {Len(asm) + 3} /\ asm'[Len(asm) + 3].a = Imm(p)
      BY <1>6, <1>7, <3>2
    <3>4. \E j \in DOMAIN asm' : RemovedAfter(n)' = {j} /\ asm'[j].a = Imm(Cardinality(PushesFor(n)'))
      BY <1>7, <3>1, <3>2, <3>3
    <3> QED
      BY <3>1, <3>4 DEF CallCounted, Imm, Place
  <2> QED
    BY <2>1, <2>2
<1>9. StackArgumentsRemoved'
  <2>1. ASSUME NEW c \in 1..(i' - 1) PROVE CallCounted(c)'
    <3>1. CASE c = n
      BY <1>8, <3>1
    <3>2. CASE c # n
      <4>1. c \in 1..(i - 1)
        BY <1>2, <1>3, <3>2
      <4> QED
        BY <1>1, <4>1, OldCallsCounted DEF CountInv
    <3> QED
      BY <3>1, <3>2
  <2> QED
    BY <2>1 DEF StackArgumentsRemoved, CallCounted
<1>10. PushesFor(i)' = {}
  <2>1. ASSUME NEW j \in PushesFor(i)' PROVE FALSE
    <3>1. /\ j \in 1..Len(asm') /\ asm'[j].of < i' /\ code[asm'[j].of].op = "PARAM"
          /\ \A k \in asm'[j].of..(i' - 1) : code[k].op # "CALL"
      BY <1>2, <2>1 DEF PushesFor
    <3>2. asm'[j].of \in 1..i
      <4>1. CASE j \in 1..Len(asm)
        BY <1>2, <4>1
      <4>2. CASE j \notin 1..Len(asm)
        BY <1>2, <3>1, <4>2 DEF Longer
      <4> QED
        BY <4>1, <4>2
    <3>3. i \in asm'[j].of..(i' - 1)
      BY <1>2, <3>2
    <3> QED
      BY <1>1, <3>1, <3>3
  <2> QED
    BY <2>1
<1>11. IsFiniteSet(PushesFor(i)') /\ Cardinality(PushesFor(i)') = 0
  BY <1>10, FS_EmptySet
<1> QED
  BY <1>1, <1>9, <1>11 DEF CountInv

-----------------------------------------------------------------------------
(* Returns.                                                                *)

\* Methods are not nested.
LEMMA NotNested ==
  ASSUME program \in Programs, NEW k \in 1..(Len(code) + 1),
         k \in 1..Len(code) => code[k].op = "ENTER"
  PROVE  \A e \in 1..(k - 1) : ~Within(code, e, k)
<1> SUFFICES ASSUME NEW e \in 1..(k - 1), Within(code, e, k) PROVE FALSE
  OBVIOUS
<1>1. Len(code) \in Nat /\ DOMAIN code = 1..Len(code) /\ MethodShape(code)
  BY CodeFacts
<1>2. e \in 1..Len(code) /\ code[e].op = "ENTER"
  BY <1>1 DEF Within
<1>3. PICK l \in 1..Len(code) : Encloses(code, e, l)
  BY <1>1, <1>2 DEF MethodShape
<1>4. l \in Nat /\ e < l /\ code[l].op = "LEAVE" /\ Within(code, e, l)
  BY <1>3 DEF Encloses, Within
<1>5. ~(l < k)
  <2>1. CASE l < k
    <3>1. l \in (e + 1)..(k - 1)
      BY <1>1, <1>4, <2>1
    <3> QED
      BY <1>4, <3>1 DEF Within
  <2> QED
    BY <2>1
<1>6. k \in 1..Len(code) /\ code[k].op = "ENTER"
  BY <1>1, <1>3, <1>5
<1>7. k # l
  BY <1>4, <1>6
<1>8. k \in (e + 1)..(l - 1)
  BY <1>1, <1>4, <1>5, <1>6, <1>7
<1> QED
  BY <1>4, <1>6, <1>8 DEF Within

\* What was appended before stays between the same methods.
LEMMA SameMethodStays ==
  ASSUME PlaceInv
  PROVE  \A m, s : IsSeq(s) /\ Appends(m, s) =>
           /\ \A j \in 1..Len(asm) : j \in 1..Len(asm') /\ asm'[j] = asm[j]
           /\ \A j, k \in 1..Len(asm) : SameMethod(j, k)' <=> SameMethod(j, k)
           /\ \A g : \A j \in 1..Len(asm) : EnteredInv(j, g) => EnteredInv(j, g)'
<1> SUFFICES ASSUME NEW m, NEW s, IsSeq(s), Appends(m, s)
             PROVE  /\ \A j \in 1..Len(asm) : j \in 1..Len(asm') /\ asm'[j] = asm[j]
                    /\ \A j, k \in 1..Len(asm) : SameMethod(j, k)' <=> SameMethod(j, k)
                    /\ \A g : \A j \in 1..Len(asm) : EnteredInv(j, g) => EnteredInv(j, g)'
  OBVIOUS
<1>1. Len(asm) \in Nat /\ Len(s) \in Nat /\ Len(asm') = Len(asm) + Len(s)
  BY AppendsPlace DEF Appends, Emits
<1>2. \A j \in 1..Len(asm) : j \in 1..Len(asm') /\ asm'[j] = asm[j]
  BY <1>1 DEF Appends, Emits
<1>3. ASSUME NEW j \in 1..Len(asm), NEW k \in 1..Len(asm)
      PROVE  SameMethod(j, k)' <=> SameMethod(j, k)
  <2>1. \A n \in (j + 1)..k : n \in 1..Len(asm)
    BY <1>1
  <2> QED
    BY <1>2, <2>1 DEF SameMethod
<1>4. ASSUME NEW g, NEW j \in 1..Len(asm), EnteredInv(j, g) PROVE EnteredInv(j, g)'
  <2>1. PICK e \in 1..j : asm[e].op = "entry" /\ asm[e].a = Sym(g) /\ SameMethod(e, j)
    BY <1>4 DEF EnteredInv
  <2>2. e \in 1..Len(asm)
    BY <1>1
  <2>3. asm'[e].op = "entry" /\ asm'[e].a = Sym(g) /\ SameMethod(e, j)'
    BY <1>2, <1>3, <2>1, <2>2
  <2> QED
    BY <2>3 DEF EnteredInv, Sym, Place
<1> QED
  BY <1>2, <1>3, <1>4

\* If no method begins in s, the last one that did is still the last.
LEMMA LatestStays ==
  ASSUME PlaceInv
  PROVE  \A m, s : IsSeq(s) /\ Appends(m, s) /\ (\A k \in 1..Len(s) : s[k].op # "entry") =>
           \A j \in 1..Len(asm) : Latest(j) => /\ Latest(j)'
                                               /\ \A k \in 1..Len(asm') : SameMethod(j, k)'
<1> SUFFICES ASSUME NEW m, NEW s, IsSeq(s), Appends(m, s), \A k \in 1..Len(s) : s[k].op # "entry",
                    NEW j \in 1..Len(asm), Latest(j)
             PROVE  Latest(j)' /\ \A k \in 1..Len(asm') : SameMethod(j, k)'
  OBVIOUS
<1>1. /\ Len(asm) \in Nat /\ Len(s) \in Nat /\ Len(asm') = Len(asm) + Len(s) /\ Longer(s)
  BY AppendsPlace DEF Appends, Emits
<1>2. ASSUME NEW n \in (j + 1)..Len(asm') PROVE asm'[n].op # "entry"
  <2>1. n \in 1..Len(asm')
    BY <1>1
  <2>2. CASE n \in 1..Len(asm) /\ asm'[n] = asm[n]
    <3>1. n \in (j + 1)..Len(asm)
      BY <1>1, <2>2
    <3> QED
      BY <2>2, <3>1 DEF Latest, SameMethod
  <2>3. CASE \E k \in 1..Len(s) : asm'[n].op = s[k].op
    BY <2>3
  <2> QED
    BY <1>1, <2>1, <2>2, <2>3 DEF Longer
<1>3. \A k \in 1..Len(asm') : (j + 1)..k \subseteq (j + 1)..Len(asm')
  BY <1>1
<1> QED
  BY <1>2, <1>3 DEF Latest, SameMethod

\* the method that is open has its entry in asm, and none is after it
OpenEntered(e) ==
  Within(code, e, i) =>
    \E q \in 1..Len(asm) : asm[q].op = "entry" /\ asm[q].a = Sym(code[e].var1.id) /\ Latest(q)

\* a jump of s to an epilogue is its last instruction, and to the epilogue of the
\* method that is open
JumpsHome(s) ==
  \A k \in 1..Len(s) :
    /\ s[k].op # "entry"
    /\ s[k].op = "jmp_leave" =>
         /\ k = Len(s)
         /\ \E e \in 1..(i - 1) :
              Within(code, e, i) /\ s[k].a = Sym(FirstCharacters(code[e].var1.id))

\* Inside a method its entry stays the latest, and a return knows it.
LEMMA MarksInside ==
  ASSUME PlaceInv, MarkInv, code[i].op \notin {"ENTER", "LEAVE"}
  PROVE  \A m, s : IsSeq(s) /\ Appends(m, s) /\ JumpsHome(s) => MarkInv'
<1> SUFFICES ASSUME NEW m, NEW s, IsSeq(s), Appends(m, s), JumpsHome(s) PROVE MarkInv'
  OBVIOUS
<1>1. /\ i \in Nat /\ i' = i + 1 /\ UNCHANGED program
      /\ Len(asm) \in Nat /\ Len(s) \in Nat /\ Len(asm') = Len(asm) + Len(s) /\ Longer(s)
  BY AppendsPlace DEF Appends, Emits
<1>2. code' = code
  BY <1>1, Static
<1>3. /\ \A j \in 1..Len(asm) : j \in 1..Len(asm') /\ asm'[j] = asm[j]
      /\ \A j, k \in 1..Len(asm) : SameMethod(j, k)' <=> SameMethod(j, k)
      /\ \A g : \A j \in 1..Len(asm) : EnteredInv(j, g) => EnteredInv(j, g)'
  BY SameMethodStays
<1>4. \A j \in 1..Len(asm) : Latest(j) => Latest(j)' /\ \A k \in 1..Len(asm') : SameMethod(j, k)'
  BY LatestStays DEF JumpsHome
<1>5. ASSUME NEW e \in 1..(i' - 1) PROVE Within(code, e, i') <=> e \in 1..(i - 1) /\ Within(code, e, i)
  <2>1. e \in Nat
    BY <1>1
  <2>2. Within(code, e, i + 1) => e < i /\ Within(code, e, i)
    BY <1>1, <2>1, WithinStep
  <2>3. Within(code, e, i) => Within(code, e, i + 1)
    BY <1>1, <2>1, WithinStep
  <2> QED
    BY <1>1, <2>1, <2>2, <2>3
<1>6. ASSUME NEW e \in 1..(i' - 1) PROVE OpenEntered(e)'
  <2>1. SUFFICES ASSUME Within(code, e, i')
                 PROVE  \E q \in 1..Len(asm') : /\ asm'[q].op = "entry" /\ Latest(q)'
                                                /\ asm'[q].a = Sym(code[e].var1.id)
    BY <1>2 DEF OpenEntered, Within, Sym, Place
  <2>2. PICK q \in 1..Len(asm) : asm[q].op = "entry" /\ asm[q].a = Sym(code[e].var1.id) /\ Latest(q)
    BY <1>5, <2>1 DEF MarkInv
  <2> QED
    BY <1>3, <1>4, <2>2
<1>7. ASSUME NEW j \in 1..Len(asm'), asm'[j].op = "jmp_leave" PROVE HomeInv(j)'
  <2>1. CASE j \in 1..Len(asm)
    <3>1. HomeInv(j) /\ asm'[j] = asm[j]
      BY <1>3, <1>7, <2>1 DEF MarkInv
    <3>2. PICK g : asm[j].a = Sym(FirstCharacters(g)) /\ EnteredInv(j, g) /\ LeftInv(j, g)
      BY <3>1 DEF HomeInv
    <3>3. ASSUME \E l \in j..Len(asm) : asm[l].op = "leave" /\ asm[l].a = Sym(g) /\ SameMethod(j, l)
          PROVE  LeftInv(j, g)'
      <4>1. PICK l \in j..Len(asm) : asm[l].op = "leave" /\ asm[l].a = Sym(g) /\ SameMethod(j, l)
        BY <3>3
      <4>2. l \in 1..Len(asm) /\ l \in j..Len(asm')
        BY <1>1, <2>1
      <4>3. asm'[l].op = "leave" /\ asm'[l].a = Sym(g) /\ SameMethod(j, l)'
        BY <1>3, <2>1, <4>1, <4>2
      <4> QED
        BY <4>2, <4>3 DEF LeftInv, Sym, Place
    <3>4. ASSUME \E e \in 1..(i - 1) : Within(code, e, i) /\ code[e].var1.id = g /\ Latest(j)
          PROVE  LeftInv(j, g)'
      <4>1. PICK e \in 1..(i - 1) : Within(code, e, i) /\ code[e].var1.id = g /\ Latest(j)
        BY <3>4
      <4>2. e \in 1..(i' - 1)
        BY <1>1
      <4>3. Within(code, e, i') /\ Latest(j)'
        BY <1>4, <1>5, <2>1, <4>1, <4>2
      <4> QED
        BY <1>2, <4>1, <4>2, <4>3 DEF LeftInv, Within
    <3>5. LeftInv(j, g)'
      BY <3>2, <3>3, <3>4 DEF LeftInv
    <3>6. EnteredInv(j, g)' /\ asm'[j].a = Sym(FirstCharacters(g))
      BY <1>3, <2>1, <3>1, <3>2
    <3> QED
      BY <3>5, <3>6 DEF HomeInv, Sym, Place
  <2>2. CASE j \notin 1..Len(asm)
    <3>1. PICK k \in 1..Len(s) : /\ j = Len(asm) + k
                                 /\ asm'[j].op = s[k].op /\ asm'[j].a = s[k].a
      BY <1>1, <2>2 DEF Longer
    <3>2. PICK e \in 1..(i - 1) :
            Within(code, e, i) /\ s[k].a = Sym(FirstCharacters(code[e].var1.id))
      BY <1>7, <3>1 DEF JumpsHome
    <3>3. j = Len(asm')
      BY <1>1, <1>7, <3>1 DEF JumpsHome
    <3>4. PICK q \in 1..Len(asm) : asm[q].op = "entry" /\ asm[q].a = Sym(code[e].var1.id) /\ Latest(q)
      BY <3>2 DEF MarkInv
    <3>5. q \in 1..j /\ asm'[q] = asm[q] /\ SameMethod(q, j)'
      <4>1. q \in 1..j
        BY <1>1, <3>1
      <4> QED
        BY <1>3, <1>4, <3>4, <4>1
    <3>6. PICK g : g = code[e].var1.id
      OBVIOUS
    <3>11. EnteredInv(j, g)'
      BY <3>4, <3>5, <3>6 DEF EnteredInv, Sym, Place
    <3>7. Latest(j)'
      <4>1. (j + 1)..Len(asm') = {}
        BY <1>1, <3>3
      <4> QED
        BY <4>1 DEF Latest, SameMethod
    <3>8. e \in 1..(i' - 1)
      BY <1>1
    <3>9. Within(code, e, i')
      BY <1>5, <3>2, <3>8
    <3>10. LeftInv(j, g)'
      BY <1>2, <3>6, <3>7, <3>8, <3>9 DEF LeftInv, Within
    <3>12. asm'[j].a = Sym(FirstCharacters(g))
      BY <3>1, <3>2, <3>6
    <3> QED
      BY <3>10, <3>11, <3>12 DEF HomeInv, Sym, Place
  <2> QED
    BY <2>1, <2>2
<1> QED
  BY <1>6, <1>7 DEF MarkInv, OpenEntered

\* A list without marks.
LEMMA PlainJumpsHome ==
  \A s : Plain(s) => JumpsHome(s)
BY DEF Plain, JumpsHome, Marks

\* The nearest ENTER before a return is that of the method that is open.
LEMMA RetJumpsHome ==
  ASSUME PlaceInv, RetStep
  PROVE  \E m, s : IsSeq(s) /\ Appends(m, s) /\ Extends(m) /\ JumpsHome(s)
<1>1. PICK m, s : /\ code[i].op = "RET" /\ Appends(m, s) /\ Extends(m) /\ IsSeq(s)
                  /\ Len(s) >= 1 /\ s[Len(s)] = Asm("jmp_leave", Sym(current_func_name), Nil)
                  /\ \A k \in 1..(Len(s) - 1) : s[k].op \notin Marks
  BY DEF RetStep
<1>2. i \in 1..Len(code) /\ Len(s) \in Nat /\ i \in Nat
  BY <1>1, AppendsPlace
<1>3. PICK e \in 1..(i - 1) : Within(code, e, i)
  <2>1. DOMAIN code = 1..Len(code) /\ MethodShape(code)
    BY CodeFacts DEF PlaceInv
  <2>2. PICK e \in 1..Len(code) : Within(code, e, i)
    BY <1>1, <1>2, <2>1 DEF MethodShape
  <2>3. e \in 1..(i - 1)
    BY <1>2, <2>2 DEF Within
  <2> QED
    BY <2>2, <2>3
<1>4. current_func_name = FirstCharacters(code[e].var1.id)
  <2>1. e \in Enters
    BY <1>2, <1>3 DEF Enters, Within
  <2>2. ASSUME NEW k \in Enters PROVE k <= e
    <3>1. k # i
      BY <1>1, <2>2 DEF Enters
    <3>2. k \notin (e + 1)..(i - 1)
      BY <1>3, <2>2 DEF Enters, Within
    <3> QED
      BY <1>2, <2>2, <3>1, <3>2 DEF Enters
  <2>3. \A j \in Enters : (\A k \in Enters : k <= j) => j = e
    <3>1. ASSUME NEW j \in Enters, \A k \in Enters : k <= j PROVE j = e
      <4>1. e <= j /\ j <= e /\ j \in Nat
        BY <1>2, <2>1, <2>2, <3>1 DEF Enters
      <4> QED
        BY <1>2, <4>1
    <3> QED
      BY <3>1
  <2> DEFINE last == CHOOSE j \in Enters : \A k \in Enters : k <= j
  <2>4. last = e
    <3>1. \E j \in Enters : \A k \in Enters : k <= j
      BY <2>1, <2>2
    <3>2. last \in Enters /\ \A k \in Enters : k <= last
      BY <3>1
    <3> QED
      BY <2>3, <3>2
  <2> QED
    BY <2>4 DEF current_func_name
<1>5. JumpsHome(s)
  <2>1. s[Len(s)].op = "jmp_leave" /\ s[Len(s)].a = Sym(FirstCharacters(code[e].var1.id))
    BY <1>1, <1>4, AsmFields
  <2>2. \A k \in 1..Len(s) : k = Len(s) \/ k \in 1..(Len(s) - 1)
    BY <1>1, <1>2
  <2> QED
    BY <1>1, <1>3, <2>1, <2>2 DEF JumpsHome, Marks
<1> QED
  BY <1>1, <1>5

\* A method begins: its entry becomes the latest.
LEMMA MarksEnter ==
  ASSUME PlaceInv, MarkInv, EnterStep
  PROVE  MarkInv'
<1>1. PICK m, s, f : /\ f = code[i].var1.id /\ code[i].op = "ENTER" /\ Appends(m, s)
                     /\ BeginsWith(s, Asm("entry", Sym(f), Nil))
  BY DEF EnterStep
<1>2. /\ IsSeq(s) /\ Len(s) >= 1 /\ s[1].op = "entry" /\ s[1].a = Sym(f)
      /\ \A k \in 2..Len(s) : s[k].op \notin Marks
  BY <1>1, AsmFields DEF BeginsWith
<1>3. /\ i \in Nat /\ i' = i + 1 /\ i \in 1..Len(code) /\ UNCHANGED program /\ Longer(s)
      /\ Len(asm) \in Nat /\ Len(s) \in Nat /\ Len(asm') = Len(asm) + Len(s)
  <2>1. /\ Longer(s) /\ Len(asm) \in Nat /\ Len(s) \in Nat /\ i \in 1..Len(code) /\ Len(code) \in Nat
    BY <1>1, <1>2, AppendsPlace
  <2>2. i' = i + 1 /\ UNCHANGED program /\ Emits(s)
    BY <1>1 DEF Appends
  <2>3. Len(asm') = Len(asm) + Len(s)
    BY <2>2 DEF Emits
  <2> QED
    BY <2>1, <2>2, <2>3
<1>4. code' = code
  BY <1>3, Static
<1>5. /\ \A j \in 1..Len(asm) : j \in 1..Len(asm') /\ asm'[j] = asm[j]
      /\ \A j, k \in 1..Len(asm) : SameMethod(j, k)' <=> SameMethod(j, k)
      /\ \A g : \A j \in 1..Len(asm) : EnteredInv(j, g) => EnteredInv(j, g)'
  BY <1>1, <1>2, SameMethodStays
<1>6. \A e \in 1..(i - 1) : ~Within(code, e, i)
  <2>1. i \in 1..(Len(code) + 1)
    BY DEF PlaceInv
  <2> QED
    BY <1>1, <2>1, NotNested DEF PlaceInv
<1>7. ASSUME NEW j \in 1..Len(asm'), j \notin 1..Len(asm)
      PROVE  \/ j = Len(asm) + 1
             \/ asm'[j].op \notin Marks
  <2>1. PICK k \in 1..Len(s) : j = Len(asm) + k /\ asm'[j].op = s[k].op
    BY <1>3, <1>7 DEF Longer
  <2>2. k = 1 \/ k \in 2..Len(s)
    BY <1>3
  <2> QED
    BY <1>2, <2>1, <2>2
<1>8. /\ Len(asm) + 1 \in 1..Len(asm') /\ asm'[Len(asm) + 1].op = "entry"
      /\ asm'[Len(asm) + 1].a = Sym(f)
  <2>1. 1 \in 1..Len(s)
    BY <1>2, <1>3
  <2>2. asm'[Len(asm) + 1].op = s[1].op /\ asm'[Len(asm) + 1].a = s[1].a
    BY <1>1, <2>1 DEF Appends, Emits
  <2> QED
    BY <1>2, <1>3, <2>2
<1>9. \A n \in (Len(asm) + 2)..Len(asm') : asm'[n].op # "entry"
  <2>1. ASSUME NEW n \in (Len(asm) + 2)..Len(asm') PROVE asm'[n].op # "entry"
    <3>1. n \in 1..Len(asm') /\ n \notin 1..Len(asm) /\ n # Len(asm) + 1
      BY <1>3
    <3> QED
      BY <1>7, <3>1 DEF Marks
  <2> QED
    BY <2>1
<1>10. ASSUME NEW e \in 1..(i' - 1), Within(code, e, i')
       PROVE  \E q \in 1..Len(asm') : /\ asm'[q].op = "entry" /\ Latest(q)'
                                      /\ asm'[q].a = Sym(code[e].var1.id)
  <2>1. e = i
    <3>1. CASE e # i
      <4>1. i \in (e + 1)..(i' - 1)
        BY <1>3, <3>1
      <4> QED
        BY <1>1, <1>10, <4>1 DEF Within
    <3> QED
      BY <3>1
  <2>2. PICK q : q = Len(asm) + 1
    OBVIOUS
  <2>3. (q + 1)..Len(asm') = (Len(asm) + 2)..Len(asm')
    BY <1>3, <2>2
  <2>4. Latest(q)'
    BY <1>9, <2>3 DEF Latest, SameMethod
  <2> QED
    BY <1>1, <1>8, <2>1, <2>2, <2>4
<1>11. ASSUME NEW j \in 1..Len(asm'), asm'[j].op = "jmp_leave" PROVE HomeInv(j)'
  <2>1. j \in 1..Len(asm)
    BY <1>7, <1>8, <1>11 DEF Marks
  <2>2. HomeInv(j) /\ asm'[j] = asm[j]
    BY <1>5, <1>11, <2>1 DEF MarkInv
  <2>7. PICK g : asm[j].a = Sym(FirstCharacters(g)) /\ EnteredInv(j, g) /\ LeftInv(j, g)
    BY <2>2 DEF HomeInv
  <2>3. PICK l \in j..Len(asm) : asm[l].op = "leave" /\ asm[l].a = Sym(g) /\ SameMethod(j, l)
    BY <1>6, <2>7 DEF LeftInv
  <2>4. l \in 1..Len(asm) /\ l \in j..Len(asm')
    BY <1>3, <2>1
  <2>5. asm'[l].op = "leave" /\ asm'[l].a = Sym(g) /\ SameMethod(j, l)'
    BY <1>5, <2>1, <2>3, <2>4
  <2>6. LeftInv(j, g)'
    BY <2>4, <2>5 DEF LeftInv, Sym, Place
  <2>8. EnteredInv(j, g)' /\ asm'[j].a = Sym(FirstCharacters(g))
    BY <1>5, <2>1, <2>2, <2>7
  <2> QED
    BY <2>6, <2>8 DEF HomeInv, Sym, Place
<1>12. ASSUME NEW e \in 1..(i' - 1) PROVE OpenEntered(e)'
  BY <1>4, <1>10 DEF OpenEntered, Within, Sym, Place
<1> QED
  BY <1>11, <1>12 DEF MarkInv, OpenEntered

\* A method ends: its returns have their epilogue.
LEMMA MarksLeave ==
  ASSUME PlaceInv, MarkInv, LeaveStep
  PROVE  MarkInv'
<1>1. PICK m, s, f : /\ f = code[i].var1.id /\ code[i].op = "LEAVE" /\ Appends(m, s)
                     /\ BeginsWith(s, Asm("leave", Sym(f), Nil))
  BY DEF LeaveStep
<1>2. /\ IsSeq(s) /\ Len(s) >= 1 /\ s[1].op = "leave" /\ s[1].a = Sym(f)
      /\ \A k \in 2..Len(s) : s[k].op \notin Marks
  BY <1>1, AsmFields DEF BeginsWith
<1>3. /\ i \in Nat /\ i' = i + 1 /\ i \in 1..Len(code) /\ UNCHANGED program /\ Longer(s)
      /\ Len(asm) \in Nat /\ Len(s) \in Nat /\ Len(asm') = Len(asm) + Len(s)
  <2>1. /\ Longer(s) /\ Len(asm) \in Nat /\ Len(s) \in Nat /\ i \in 1..Len(code) /\ Len(code) \in Nat
    BY <1>1, <1>2, AppendsPlace
  <2>2. i' = i + 1 /\ UNCHANGED program /\ Emits(s)
    BY <1>1 DEF Appends
  <2>3. Len(asm') = Len(asm) + Len(s)
    BY <2>2 DEF Emits
  <2> QED
    BY <2>1, <2>2, <2>3
<1>4. code' = code
  BY <1>3, Static
<1>5. /\ \A j \in 1..Len(asm) : j \in 1..Len(asm') /\ asm'[j] = asm[j]
      /\ \A j, k \in 1..Len(asm) : SameMethod(j, k)' <=> SameMethod(j, k)
      /\ \A g : \A j \in 1..Len(asm) : EnteredInv(j, g) => EnteredInv(j, g)'
  BY <1>1, <1>2, SameMethodStays
<1>6. \A k \in 1..Len(s) : s[k].op \notin {"entry", "jmp_leave"}
  <2>1. \A k \in 1..Len(s) : k = 1 \/ k \in 2..Len(s)
    BY <1>3
  <2> QED
    BY <1>2, <2>1 DEF Marks
<1>7. \A j \in 1..Len(asm) : Latest(j) => Latest(j)' /\ \A k \in 1..Len(asm') : SameMethod(j, k)'
  BY <1>1, <1>2, <1>6, LatestStays
<1>8. /\ Len(asm) + 1 \in 1..Len(asm') /\ asm'[Len(asm) + 1].op = "leave"
      /\ asm'[Len(asm) + 1].a = Sym(f)
  <2>1. 1 \in 1..Len(s)
    BY <1>2, <1>3
  <2>2. asm'[Len(asm) + 1].op = s[1].op /\ asm'[Len(asm) + 1].a = s[1].a
    BY <1>1, <2>1 DEF Appends, Emits
  <2> QED
    BY <1>2, <1>3, <2>2
<1>9. PICK d \in Nat : Encloses(code, d, i)
  <2>1. DOMAIN code = 1..Len(code) /\ MethodShape(code)
    BY CodeFacts DEF PlaceInv
  <2> QED
    BY <1>1, <1>3, <2>1 DEF MethodShape
<1>10. ASSUME NEW e \in 1..(i' - 1), Within(code, e, i') PROVE FALSE
  <2>1. CASE e # i
    <3>1. i \in (e + 1)..(i' - 1)
      BY <1>3, <2>1
    <3> QED
      BY <1>1, <1>10, <3>1 DEF Within
  <2>2. CASE e = i
    BY <1>1, <1>10, <2>2 DEF Within
  <2> QED
    BY <2>1, <2>2
<1>11. ASSUME NEW j \in 1..Len(asm'), asm'[j].op = "jmp_leave" PROVE HomeInv(j)'
  <2>1. j \in 1..Len(asm)
    BY <1>3, <1>6, <1>11 DEF Longer
  <2>2. HomeInv(j) /\ asm'[j] = asm[j]
    BY <1>5, <1>11, <2>1 DEF MarkInv
  <2>5. PICK g : asm[j].a = Sym(FirstCharacters(g)) /\ EnteredInv(j, g) /\ LeftInv(j, g)
    BY <2>2 DEF HomeInv
  <2>3. ASSUME \E l \in j..Len(asm) : asm[l].op = "leave" /\ asm[l].a = Sym(g) /\ SameMethod(j, l)
        PROVE  LeftInv(j, g)'
    <3>1. PICK l \in j..Len(asm) : asm[l].op = "leave" /\ asm[l].a = Sym(g) /\ SameMethod(j, l)
      BY <2>3
    <3>2. l \in 1..Len(asm) /\ l \in j..Len(asm')
      BY <1>3, <2>1
    <3>3. asm'[l].op = "leave" /\ asm'[l].a = Sym(g) /\ SameMethod(j, l)'
      BY <1>5, <2>1, <3>1, <3>2
    <3> QED
      BY <3>2, <3>3 DEF LeftInv, Sym, Place
  <2>4. ASSUME \E e \in 1..(i - 1) : Within(code, e, i) /\ code[e].var1.id = g /\ Latest(j)
        PROVE  LeftInv(j, g)'
    <3>1. PICK e \in 1..(i - 1) : Within(code, e, i) /\ code[e].var1.id = g /\ Latest(j)
      BY <2>4
    <3>2. e = d
      <4>1. e \in Nat /\ Within(code, d, i)
        BY <1>3, <1>9 DEF Encloses
      <4>2. PICK k \in Nat : k = i
        BY <1>3
      <4>3. PICK c : c = code
        OBVIOUS
      <4> QED
        BY <1>9, <3>1, <4>1, <4>2, <4>3, OneOpen
    <3>3. f = g
      BY <1>1, <1>9, <3>1, <3>2 DEF Encloses
    <3>4. PICK l : l = Len(asm) + 1
      OBVIOUS
    <3>5. l \in j..Len(asm') /\ l \in 1..Len(asm')
      BY <1>3, <1>8, <2>1, <3>4
    <3>6. SameMethod(j, l)'
      BY <1>7, <2>1, <3>1, <3>5
    <3> QED
      BY <1>8, <3>3, <3>4, <3>5, <3>6 DEF LeftInv, Sym, Place
  <2>6. LeftInv(j, g)'
    BY <2>3, <2>4, <2>5 DEF LeftInv
  <2>7. EnteredInv(j, g)' /\ asm'[j].a = Sym(FirstCharacters(g))
    BY <1>5, <2>1, <2>2, <2>5
  <2> QED
    BY <2>6, <2>7 DEF HomeInv, Sym, Place
<1>12. ASSUME NEW e \in 1..(i' - 1) PROVE OpenEntered(e)'
  BY <1>4, <1>10 DEF OpenEntered, Within
<1> QED
  BY <1>11, <1>12 DEF MarkInv, OpenEntered

-----------------------------------------------------------------------------
(* The theorems.                                                           *)

\* Nothing is generated yet.
LEMMA GeneratedInit ==
  ASSUME Init
  PROVE  GeneratedInv
<1>1. /\ program \in Programs /\ i = 1 /\ var_map = <<>> /\ current_stack_offset = 0
      /\ param_count = 0 /\ stack_params = 0 /\ asm = <<>> /\ slots = <<>>
  BY DEF Init, ObjInit
<1>2. Len(code) \in Nat
  BY <1>1, CodeFacts
<1>3. DOMAIN asm = {} /\ DOMAIN slots = {} /\ DOMAIN var_map = {} /\ Len(asm) = 0
  BY <1>1
<1>4. \A e : e \notin 1..(i - 1)
  BY <1>1
<1>5. PlaceInv
  <2>1. IsSeq(asm)
    BY <1>1, PlainEmpty DEF Plain
  <2> QED
    BY <1>1, <1>2, <1>3, <2>1 DEF PlaceInv
<1>6. SlotInv
  <2>1. MapOK(Here) /\ Injective(var_map)
    <3>1. IsFiniteSet({})
      BY FS_EmptySet
    <3> QED
      BY <1>1, <1>3, <3>1 DEF MapOK, Here, Injective
  <2> QED
    BY <1>3, <1>4, <2>1 DEF SlotInv, SlotsDistinct, SlotsInFrame
<1>7. CountInv
  <2>1. PushesFor(i) = {}
    BY <1>3 DEF PushesFor
  <2>2. IsFiniteSet(PushesFor(i)) /\ Cardinality(PushesFor(i)) = 0
    BY <2>1, FS_EmptySet
  <2> QED
    BY <1>1, <1>4, <2>2 DEF CountInv, StackArgumentsRemoved
<1>8. MarkInv
  <2>1. \A j : j \notin 1..Len(asm)
    BY <1>3
  <2> QED
    BY <1>4, <2>1 DEF MarkInv
<1> QED
  BY <1>5, <1>6, <1>7, <1>8 DEF GeneratedInv

\* Each of the six forms of a step keeps each part of the invariant.
LEMMA GeneratedCompile ==
  ASSUME GeneratedInv, Compile
  PROVE  GeneratedInv'
<1>1. PlaceInv /\ SlotInv /\ CountInv /\ MarkInv /\ UNCHANGED program /\ generate_object_code
  BY DEF GeneratedInv, Compile, ir_vars
<1>2. PlainStep \/ EnterStep \/ LeaveStep \/ RetStep \/ ParamStep \/ CallStep
  BY <1>1, GeneratorSteps
<1>3. CASE PlainStep
  <2>1. PICK m, s : /\ Appends(m, s) /\ Extends(m) /\ Plain(s) /\ Keeps
                    /\ code[i].op \notin Special
    BY <1>3 DEF PlainStep
  <2>2. IsSeq(s) /\ JumpsHome(s)
    BY <2>1, PlainJumpsHome DEF Plain
  <2>3. /\ code[i].op \notin {"ENTER", "LEAVE"} /\ code[i].op \notin {"PARAM", "CALL"}
        /\ UNCHANGED slots /\ UNCHANGED <<param_count, stack_params>>
    BY <2>1 DEF Special, Keeps
  <2>4. PlaceInv'
    BY <1>1, <2>1, <2>2, AppendsPlace
  <2>5. SlotInv'
    BY <1>1, <2>1, <2>2, <2>3, SlotsInside
  <2>6. CountInv'
    BY <1>1, <2>1, <2>2, <2>3, CountsKept
  <2>7. MarkInv'
    BY <1>1, <2>1, <2>2, <2>3, MarksInside
  <2> QED
    BY <2>4, <2>5, <2>6, <2>7 DEF GeneratedInv
<1>4. CASE EnterStep
  <2>1. PICK m, s : Appends(m, s) /\ IsSeq(s) /\ code[i].op = "ENTER"
                    /\ UNCHANGED <<param_count, stack_params>>
    BY <1>4 DEF EnterStep, BeginsWith
  <2>2. PlaceInv'
    BY <1>1, <2>1, AppendsPlace
  <2>3. CountInv'
    BY <1>1, <2>1, CountsKept
  <2> QED
    BY <1>1, <1>4, <2>2, <2>3, SlotsEnter, MarksEnter DEF GeneratedInv
<1>5. CASE LeaveStep
  <2>1. PICK m, s : Appends(m, s) /\ IsSeq(s) /\ code[i].op = "LEAVE"
                    /\ UNCHANGED <<param_count, stack_params>>
    BY <1>5 DEF LeaveStep, BeginsWith
  <2>2. PlaceInv'
    BY <1>1, <2>1, AppendsPlace
  <2>3. CountInv'
    BY <1>1, <2>1, CountsKept
  <2> QED
    BY <1>1, <1>5, <2>2, <2>3, SlotsLeave, MarksLeave DEF GeneratedInv
<1>6. CASE RetStep
  <2>1. code[i].op = "RET" /\ UNCHANGED slots /\ UNCHANGED <<param_count, stack_params>>
    BY <1>6 DEF RetStep, Keeps
  <2>2. PICK m, s : IsSeq(s) /\ Appends(m, s) /\ Extends(m) /\ JumpsHome(s)
    BY <1>1, <1>6, RetJumpsHome
  <2>3. PlaceInv'
    BY <1>1, <2>2, AppendsPlace
  <2>4. SlotInv'
    BY <1>1, <2>1, <2>2, SlotsInside
  <2>5. CountInv'
    BY <1>1, <2>1, <2>2, CountsKept
  <2>6. MarkInv'
    BY <1>1, <2>1, <2>2, MarksInside
  <2> QED
    BY <2>3, <2>4, <2>5, <2>6 DEF GeneratedInv
<1>7. CASE ParamStep \/ CallStep
  <2>1. PICK m, s : /\ code[i].op \in {"PARAM", "CALL"} /\ Appends(m, s) /\ Extends(m)
                    /\ Plain(s) /\ UNCHANGED slots
    BY <1>7 DEF ParamStep, CallStep
  <2>2. IsSeq(s) /\ JumpsHome(s) /\ code[i].op \notin {"ENTER", "LEAVE"}
    BY <2>1, PlainJumpsHome DEF Plain
  <2>3. PlaceInv'
    BY <1>1, <2>1, <2>2, AppendsPlace
  <2>4. SlotInv'
    BY <1>1, <2>1, <2>2, SlotsInside
  <2>5. MarkInv'
    BY <1>1, <2>1, <2>2, MarksInside
  <2> QED
    BY <1>1, <1>7, <2>3, <2>4, <2>5, CountsParam, CountsCall DEF GeneratedInv
<1> QED
  BY <1>2, <1>3, <1>4, <1>5, <1>6, <1>7

-----------------------------------------------------------------------------
(* The compiled program touches nothing of this.                           *)

\* What only depends on the program and on the variables of the generator stays.
LEMMA GeneratedStays ==
  ASSUME GeneratedInv, UNCHANGED <<program, obj_vars>>
  PROVE  GeneratedInv'
<1>1. /\ program' = program /\ i' = i /\ var_map' = var_map /\ asm' = asm /\ slots' = slots
      /\ current_stack_offset' = current_stack_offset
      /\ param_count' = param_count /\ stack_params' = stack_params
  BY DEF obj_vars
<1>2. code' = code /\ Here' = Here
  BY <1>1 DEF code, Here
<1>3. PlaceInv'
  BY <1>1, <1>2 DEF GeneratedInv, PlaceInv
<1>4. ASSUME NEW e PROVE FrameNames(e)' = FrameNames(e)
  BY <1>1, <1>2 DEF FrameNames, EndOfMethod, Operands
<1>5. SlotInv'
  <2>1. ASSUME NEW e PROVE ParametersOccur(e)' = ParametersOccur(e)
    BY <1>1, <1>2, <1>4 DEF ParametersOccur, Params
  <2>2. SlotsInFrame'
    BY <1>1, <1>2, <2>1 DEF GeneratedInv, SlotInv, SlotsInFrame
  <2>3. ASSUME NEW e, OpenInv(e) PROVE OpenInv(e)'
    <3>1. \A k : Used(k)' = Used(k)
      BY <1>1, <1>2 DEF Used, Operands
    <3>2. ParamsOf(e)' = ParamsOf(e)
      BY <1>1, <1>2 DEF ParamsOf, Params
    <3>3. (UNION {Used(k) : k \in e..(i - 1)})' = UNION {Used(k) : k \in e..(i - 1)}
      BY <1>1, <3>1
    <3> QED
      BY <1>1, <1>2, <1>4, <2>3, <3>2, <3>3 DEF OpenInv
  <2>4. SlotsDistinct'
    BY <1>1 DEF GeneratedInv, SlotInv, SlotsDistinct
  <2> QED
    BY <1>1, <1>2, <2>2, <2>3, <2>4 DEF GeneratedInv, SlotInv
<1>6. CountInv'
  <2>1. ASSUME NEW c PROVE PushesFor(c)' = PushesFor(c) /\ RemovedAfter(c)' = RemovedAfter(c)
    BY <1>1, <1>2 DEF PushesFor, RemovedAfter
  <2>2. StackArgumentsRemoved'
    BY <1>1, <1>2, <2>1 DEF GeneratedInv, CountInv, StackArgumentsRemoved
  <2> QED
    BY <1>1, <2>1, <2>2 DEF GeneratedInv, CountInv
<1>7. MarkInv'
  <2>1. \A j, k : SameMethod(j, k)' = SameMethod(j, k)
    BY <1>1 DEF SameMethod
  <2>2. \A j, g : Latest(j)' = Latest(j) /\ EnteredInv(j, g)' = EnteredInv(j, g)
    BY <1>1, <2>1 DEF Latest, EnteredInv
  <2>3. \A j, g : LeftInv(j, g) => LeftInv(j, g)'
    BY <1>1, <1>2, <2>1, <2>2 DEF LeftInv
  <2>4. \A j : HomeInv(j) => HomeInv(j)'
    BY <1>1, <2>2, <2>3 DEF HomeInv
  <2> QED
    BY <1>1, <1>2, <2>2, <2>4 DEF GeneratedInv, MarkInv
<1> QED
  BY <1>3, <1>5, <1>6, <1>7 DEF GeneratedInv

\* The invariant is inductive: of the steps of Next only Compile changes what it
\* is about.
LEMMA GeneratedNext == GeneratedInv /\ [Next]_vars => GeneratedInv'
<1> SUFFICES ASSUME GeneratedInv, [Next]_vars PROVE GeneratedInv'
  OBVIOUS
<1>1. CASE Compile
  BY <1>1, GeneratedCompile DEF Compile, ir_vars
<1>2. CASE Start
  BY <1>2, GeneratedStays DEF Start
<1>3. CASE Run
  <2>1. program' = program
    BY <1>3 DEF Run, Execute, ir_vars
  <2> QED
    BY <1>3, <2>1, GeneratedStays DEF Run
<1>4. CASE Halt
  BY <1>4, GeneratedStays DEF Halt, ir_vars
<1>5. CASE Unresolved
  BY <1>5, GeneratedStays DEF Unresolved, ir_vars
<1>6. CASE UNCHANGED vars
  BY <1>6, GeneratedStays DEF vars, ir_vars
<1> QED
  BY <1>1, <1>2, <1>3, <1>4, <1>5, <1>6 DEF Next

-----------------------------------------------------------------------------
(* The theorems.                                                           *)

\* The invariant says all five properties.
LEMMA GeneratedSays ==
  ASSUME GeneratedInv
  PROVE  /\ ObjTypeOK /\ SlotsDistinct /\ SlotsInFrame
         /\ StackArgumentsRemoved /\ ReturnsToTheirMethod
<1>1. ObjTypeOK
  BY DEF GeneratedInv, PlaceInv, SlotInv, CountInv, MapOK, Here, IsSlotRecord, ObjTypeOK
<1>2. SlotsDistinct /\ SlotsInFrame /\ StackArgumentsRemoved
  BY DEF GeneratedInv, SlotInv, CountInv
<1>3. ReturnsToTheirMethod
  <2>1. DOMAIN asm = 1..Len(asm)
    BY SeqFacts DEF GeneratedInv, PlaceInv
  <2>2. SUFFICES ASSUME NEW j \in 1..Len(asm), asm[j].op = "jmp_leave"
                 PROVE  \E e \in 1..j :
                          /\ asm[e].op = "entry" /\ SameMethod(e, j)
                          /\ ShortName(asm[e].a.n) =>
                               /\ asm[j].a = asm[e].a
                               /\ Generated => \E l \in j..Len(asm) :
                                                 /\ asm[l].op = "leave" /\ asm[l].a = asm[j].a
                                                 /\ SameMethod(j, l)
    BY <2>1 DEF ReturnsToTheirMethod
  <2>3. PICK g : asm[j].a = Sym(FirstCharacters(g)) /\ EnteredInv(j, g) /\ LeftInv(j, g)
    BY <2>2 DEF GeneratedInv, MarkInv, HomeInv
  <2>4. ASSUME Generated PROVE \A e \in 1..(i - 1) : ~Within(code, e, i)
    <3>1. program \in Programs /\ i \in 1..(Len(code) + 1) /\ i = Len(code) + 1
      BY <2>4 DEF GeneratedInv, PlaceInv, Generated
    <3>2. Len(code) \in Nat
      BY <3>1, CodeFacts
    <3>3. PICK k : k = i
      OBVIOUS
    <3>4. k \in 1..(Len(code) + 1) /\ (k \in 1..Len(code) => code[k].op = "ENTER")
      BY <3>1, <3>2, <3>3
    <3> QED
      BY <3>1, <3>3, <3>4, NotNested
  <2>5. Generated =>
          \E l \in j..Len(asm) : asm[l].op = "leave" /\ asm[l].a = Sym(g) /\ SameMethod(j, l)
    BY <2>3, <2>4 DEF LeftInv
  <2>6. PICK e \in 1..j : asm[e].op = "entry" /\ asm[e].a = Sym(g) /\ SameMethod(e, j)
    BY <2>3 DEF EnteredInv
  <2>7. ShortName(asm[e].a.n) => FirstCharacters(g) = g
    BY <2>6 DEF ShortName, Sym, Place
  <2> QED
    BY <2>3, <2>5, <2>6, <2>7
<1> QED
  BY <1>1, <1>2, <1>3

\* The invariant holds in every state.
LEMMA GeneratedAlways == Spec => []GeneratedInv
  BY GeneratedInit, GeneratedNext, PTL DEF Spec

\* Every variable of the generator keeps its type: slots are below the frame
\* pointer, and the arguments on the stack are among the arguments counted
\* (object_code.c:13-28, 296-323).
THEOREM TypesOfTheObjectCode == Spec => []ObjTypeOK
<1>1. GeneratedInv => ObjTypeOK
  BY GeneratedSays
<1> QED
  BY <1>1, GeneratedAlways, PTL

\* However many names a method has, no two of them share a slot, those of its
\* arguments included (object_code.c:13-28, 123-144).
THEOREM SlotsOfNamesDiffer == Spec => []SlotsDistinct
<1>1. GeneratedInv => SlotsDistinct
  BY GeneratedSays
<1> QED
  BY <1>1, GeneratedAlways, PTL

\* The frame a method reserves, sized by the prescan, has room for every slot
\* the pass gives out, if the parameters of the method occur in its code
\* (object_code.c:90-121).
THEOREM SlotsFitTheFrame == Spec => []SlotsInFrame
<1>1. GeneratedInv => SlotsInFrame
  BY GeneratedSays
<1> QED
  BY <1>1, GeneratedAlways, PTL

\* After every call %rsp goes up by the words its own arguments took on the
\* stack, however the calls follow one another (object_code.c:296-323).
THEOREM ArgumentsAreRemoved == Spec => []StackArgumentsRemoved
<1>1. GeneratedInv => StackArgumentsRemoved
  BY GeneratedSays
<1> QED
  BY <1>1, GeneratedAlways, PTL

\* Every return stands in the code of a method and, unless its name has more than
\* 63 characters, jumps to the epilogue of this method (object_code.c:148-179).
THEOREM ReturnsStayInTheirMethod == Spec => []ReturnsToTheirMethod
<1>1. GeneratedInv => ReturnsToTheirMethod
  BY GeneratedSays
<1> QED
  BY <1>1, GeneratedAlways, PTL

-----------------------------------------------------------------------------
(* Where the code of an instruction is.                                    *)

\* A concatenation given by its elements.
LEMMA ConcatIs ==
  ASSUME NEW S, NEW s \in Seq(S), NEW t \in Seq(S), NEW u \in Seq(S), Len(u) = Len(s) + Len(t),
         \A k \in 1..Len(s) : u[k] = s[k], \A k \in 1..Len(t) : u[Len(s) + k] = t[k]
  PROVE  s \o t = u
<1>1. /\ s \o t \in Seq(S) /\ Len(s \o t) = Len(s) + Len(t)
      /\ \A k \in 1..(Len(s) + Len(t)) : (s \o t)[k] = IF k <= Len(s) THEN s[k] ELSE t[k - Len(s)]
  BY ConcatProperties
<1>2. Len(s) \in Nat /\ Len(t) \in Nat
  BY LenProperties
<1>3. ASSUME NEW k \in 1..(Len(s) + Len(t)) PROVE (s \o t)[k] = u[k]
  <2>1. CASE k <= Len(s)
    BY <1>1, <1>2, <2>1
  <2>2. CASE ~(k <= Len(s))
    <3>1. k - Len(s) \in 1..Len(t) /\ Len(s) + (k - Len(s)) = k
      BY <1>2, <2>2
    <3>2. PICK j \in 1..Len(t) : j = k - Len(s) /\ Len(s) + j = k
      BY <3>1
    <3> QED
      BY <1>1, <2>2, <3>2
  <2> QED
    BY <2>1, <2>2
<1> QED
  BY <1>1, <1>3, SeqEqual

\* Lists put together from tuples.
LEMMA JoinNone ==
  ASSUME NEW a, NEW b
  PROVE  <<>> \o <<a>> = <<a>> /\ <<a, b>> \o <<>> = <<a, b>>
<1>1. PICK S : S = {a, b}
  OBVIOUS
<1>2. <<>> \in Seq(S) /\ <<a>> \in Seq(S) /\ <<a, b>> \in Seq(S)
  BY <1>1
<1> QED
  BY <1>2, ConcatEmptySeq

LEMMA JoinOneOne ==
  ASSUME NEW a, NEW b
  PROVE  <<a>> \o <<b>> = <<a, b>>
<1>0. PICK S : S = {a, b}
  OBVIOUS
<1>1. PICK s, t, u : s = <<a>> /\ t = <<b>> /\ u = <<a, b>>
  OBVIOUS
<1>2. /\ s \in Seq(S) /\ t \in Seq(S) /\ u \in Seq(S) /\ Len(s) = 1 /\ Len(t) = 1 /\ Len(u) = 2
      /\ u[1] = s[1] /\ u[2] = t[1]
  BY <1>0, <1>1
<1>3. \A k \in 1..1 : k = 1
  OBVIOUS
<1>4. /\ s \in Seq(S) /\ t \in Seq(S) /\ u \in Seq(S) /\ Len(u) = Len(s) + Len(t)
      /\ \A k \in 1..Len(s) : u[k] = s[k]
      /\ \A k \in 1..Len(t) : u[Len(s) + k] = t[k]
  BY <1>2, <1>3
<1>5. s \o t = u
  BY <1>4, ConcatIs, Zenon
<1> QED
  BY <1>1, <1>5

LEMMA JoinTwoOne ==
  ASSUME NEW a, NEW b, NEW c
  PROVE  <<a, b>> \o <<c>> = <<a, b, c>>
<1>0. PICK S : S = {a, b, c}
  OBVIOUS
<1>1. PICK s, t, u : s = <<a, b>> /\ t = <<c>> /\ u = <<a, b, c>>
  OBVIOUS
<1>2. /\ s \in Seq(S) /\ t \in Seq(S) /\ u \in Seq(S) /\ Len(s) = 2 /\ Len(t) = 1 /\ Len(u) = 3
      /\ u[1] = s[1] /\ u[2] = s[2] /\ u[3] = t[1]
  BY <1>0, <1>1
<1>3. (\A k \in 1..1 : k = 1) /\ (\A k \in 1..2 : k = 1 \/ k = 2)
  OBVIOUS
<1>4. /\ s \in Seq(S) /\ t \in Seq(S) /\ u \in Seq(S) /\ Len(u) = Len(s) + Len(t)
      /\ \A k \in 1..Len(s) : u[k] = s[k]
      /\ \A k \in 1..Len(t) : u[Len(s) + k] = t[k]
  BY <1>2, <1>3
<1>5. s \o t = u
  BY <1>4, ConcatIs, Zenon
<1> QED
  BY <1>1, <1>5

LEMMA JoinOneTwo ==
  ASSUME NEW a, NEW b, NEW c
  PROVE  <<a>> \o <<b, c>> = <<a, b, c>>
<1>0. PICK S : S = {a, b, c}
  OBVIOUS
<1>1. PICK s, t, u : s = <<a>> /\ t = <<b, c>> /\ u = <<a, b, c>>
  OBVIOUS
<1>2. /\ s \in Seq(S) /\ t \in Seq(S) /\ u \in Seq(S) /\ Len(s) = 1 /\ Len(t) = 2 /\ Len(u) = 3
      /\ u[1] = s[1] /\ u[2] = t[1] /\ u[3] = t[2]
  BY <1>0, <1>1
<1>3. (\A k \in 1..1 : k = 1) /\ (\A k \in 1..2 : k = 1 \/ k = 2)
  OBVIOUS
<1>4. /\ s \in Seq(S) /\ t \in Seq(S) /\ u \in Seq(S) /\ Len(u) = Len(s) + Len(t)
      /\ \A k \in 1..Len(s) : u[k] = s[k]
      /\ \A k \in 1..Len(t) : u[Len(s) + k] = t[k]
  BY <1>2, <1>3
<1>5. s \o t = u
  BY <1>4, ConcatIs, Zenon
<1> QED
  BY <1>1, <1>5

LEMMA JoinThreeOne ==
  ASSUME NEW a, NEW b, NEW c, NEW d
  PROVE  <<a, b, c>> \o <<d>> = <<a, b, c, d>>
<1>0. PICK S : S = {a, b, c, d}
  OBVIOUS
<1>1. PICK s, t, u : s = <<a, b, c>> /\ t = <<d>> /\ u = <<a, b, c, d>>
  OBVIOUS
<1>2. /\ s \in Seq(S) /\ t \in Seq(S) /\ u \in Seq(S) /\ Len(s) = 3 /\ Len(t) = 1 /\ Len(u) = 4
      /\ u[1] = s[1] /\ u[2] = s[2] /\ u[3] = s[3] /\ u[4] = t[1]
  BY <1>0, <1>1
<1>3. (\A k \in 1..1 : k = 1) /\ (\A k \in 1..3 : k = 1 \/ k = 2 \/ k = 3)
  OBVIOUS
<1>4. /\ s \in Seq(S) /\ t \in Seq(S) /\ u \in Seq(S) /\ Len(u) = Len(s) + Len(t)
      /\ \A k \in 1..Len(s) : u[k] = s[k]
      /\ \A k \in 1..Len(t) : u[Len(s) + k] = t[k]
  BY <1>2, <1>3
<1>5. s \o t = u
  BY <1>4, ConcatIs, Zenon
<1> QED
  BY <1>1, <1>5

LEMMA JoinOneFive ==
  ASSUME NEW a, NEW b, NEW c, NEW d, NEW e, NEW f
  PROVE  <<a>> \o <<b, c, d, e, f>> = <<a, b, c, d, e, f>>
<1>0. PICK S : S = {a, b, c, d, e, f}
  OBVIOUS
<1>1. PICK s, t, u : s = <<a>> /\ t = <<b, c, d, e, f>> /\ u = <<a, b, c, d, e, f>>
  OBVIOUS
<1>2. /\ s \in Seq(S) /\ t \in Seq(S) /\ u \in Seq(S) /\ Len(s) = 1 /\ Len(t) = 5 /\ Len(u) = 6
      /\ u[1] = s[1] /\ u[2] = t[1] /\ u[3] = t[2] /\ u[4] = t[3] /\ u[5] = t[4] /\ u[6] = t[5]
  BY <1>0, <1>1
<1>3. (\A k \in 1..1 : k = 1) /\ (\A k \in 1..5 : k = 1 \/ k = 2 \/ k = 3 \/ k = 4 \/ k = 5)
  OBVIOUS
<1>4. /\ s \in Seq(S) /\ t \in Seq(S) /\ u \in Seq(S) /\ Len(u) = Len(s) + Len(t)
      /\ \A k \in 1..Len(s) : u[k] = s[k]
      /\ \A k \in 1..Len(t) : u[Len(s) + k] = t[k]
  BY <1>2, <1>3
<1>5. s \o t = u
  BY <1>4, ConcatIs, Zenon
<1> QED
  BY <1>1, <1>5

LEMMA JoinSixOne ==
  ASSUME NEW a, NEW b, NEW c, NEW d, NEW e, NEW f, NEW g
  PROVE  <<a, b, c, d, e, f>> \o <<g>> = <<a, b, c, d, e, f, g>>
<1>0. PICK S : S = {a, b, c, d, e, f, g}
  OBVIOUS
<1>1. PICK s, t, u : s = <<a, b, c, d, e, f>> /\ t = <<g>> /\ u = <<a, b, c, d, e, f, g>>
  OBVIOUS
<1>2. /\ s \in Seq(S) /\ t \in Seq(S) /\ u \in Seq(S) /\ Len(s) = 6 /\ Len(t) = 1 /\ Len(u) = 7
      /\ u[1] = s[1] /\ u[2] = s[2] /\ u[3] = s[3] /\ u[4] = s[4] /\ u[5] = s[5] /\ u[6] = s[6]
      /\ u[7] = t[1]
  BY <1>0, <1>1
<1>3. (\A k \in 1..1 : k = 1) /\ (\A k \in 1..6 : k = 1 \/ k = 2 \/ k = 3 \/ k = 4 \/ k = 5 \/ k = 6)
  OBVIOUS
<1>4. /\ s \in Seq(S) /\ t \in Seq(S) /\ u \in Seq(S) /\ Len(u) = Len(s) + Len(t)
      /\ \A k \in 1..Len(s) : u[k] = s[k]
      /\ \A k \in 1..Len(t) : u[Len(s) + k] = t[k]
  BY <1>2, <1>3
<1>5. s \o t = u
  BY <1>4, ConcatIs, Zenon
<1> QED
  BY <1>1, <1>5

\* What Through puts together.
LEMMA ThroughOne ==
  ASSUME NEW a, NEW b, NEW c
  PROVE  (<<a>> \o <<b>>) \o <<c>> = <<a, b, c>>
<1>1. <<a>> \o <<b>> = <<a, b>> /\ <<a, b>> \o <<c>> = <<a, b, c>>
  BY JoinOneOne, JoinTwoOne, Zenon
<1> QED
  BY <1>1

LEMMA ThroughTwo ==
  ASSUME NEW a, NEW b, NEW c, NEW d
  PROVE  (<<a>> \o <<b, c>>) \o <<d>> = <<a, b, c, d>>
<1>1. <<a>> \o <<b, c>> = <<a, b, c>> /\ <<a, b, c>> \o <<d>> = <<a, b, c, d>>
  BY JoinOneTwo, JoinThreeOne, Zenon
<1> QED
  BY <1>1

LEMMA ThroughFive ==
  \A a, b, c, d, e, f, g :
    (<<a>> \o <<b, c, d, e, f>>) \o <<g>> = <<a, b, c, d, e, f, g>>
<1> SUFFICES ASSUME NEW a, NEW b, NEW c, NEW d, NEW e, NEW f, NEW g
             PROVE  (<<a>> \o <<b, c, d, e, f>>) \o <<g>> = <<a, b, c, d, e, f, g>>
  OBVIOUS
<1>1. <<a>> \o <<b, c, d, e, f>> = <<a, b, c, d, e, f>>
  BY JoinOneFive, ZenonT(60)
<1>2. <<a, b, c, d, e, f>> \o <<g>> = <<a, b, c, d, e, f, g>>
  BY JoinSixOne, ZenonT(60)
<1> QED
  BY <1>1, <1>2

\* the instructions of the method entered at e
In(e, k) == code[e].op = "ENTER" /\ (k = e \/ Within(code, e, k))

\* the slots of the method entered at e, as far as they are given out, and its frame
SlotsOf(e) == [map |-> IF Within(code, e, i) THEN var_map ELSE slots[code[e].var1.id].map]
FrameOf(e) == slots[code[e].var1.id].frame

\* of n arguments, those on the stack
Extra(n) == IF n > 6 THEN n - 6 ELSE 0

\* asm[j] is x, and asm[b] to asm[c - 1] are s
IsAt(j, x)     == asm[j].op = x.op /\ asm[j].a = x.a /\ asm[j].b = x.b
Lines(b, c, s) == c = b + Len(s) /\ \A q \in 1..Len(s) : IsAt(b + (q - 1), s[q])

OneStep == {"ADD", "SUB", "MUL", "AND", "OR"}
Compares == Relational \cup {"EQ"}
Silent == {"LOAD", "EXTERN"}
Landmarks == {"entry", "leave", "label"}

Mnemonic(op) ==
  CASE op = "ADD" -> "add" [] op = "SUB" -> "sub" [] op = "MUL" -> "imul"
    [] op = "AND" -> "and" [] op = "OR" -> "or"

Setter(op) ==
  CASE op = "LES" -> "setl" [] op = "GRT" -> "setg" [] op = "EQ" -> "sete"
    [] op = "NEQ" -> "setne" [] op = "LEQ" -> "setle" [] op = "GEQ" -> "setge"

Entry(f, size) ==
  <<Asm("entry", Sym(f), Nil), Asm("push", Reg("rbp"), Nil), Mov(Reg("rsp"), Reg("rbp"))>>
    \o (IF size > 0 THEN <<Asm("sub", Imm(size), Reg("rsp"))>> ELSE <<>>)

\* s is the text of an instruction with the operands x, y and z that computes
IsSum(in_, x, y, z, s) ==
  LET op == in_.op IN
  /\ op = "LOADVAL" => s = <<Mov(x, z)>>
  /\ op = "STORE" => s = <<Mov(x, rax), Mov(rax, z)>>
  /\ op \in OneStep => s = <<Mov(x, rax), Asm(Mnemonic(op), y, rax), Mov(rax, z)>>
  /\ op \in Division =>
       s = <<Mov(x, rax), Asm("cqo", Nil, Nil), Asm("idiv", y, Nil),
             Mov(IF op = "DIV" THEN rax ELSE Reg("rdx"), z)>>
  /\ op = "SHIFT_RIGHT" =>
       s = <<Mov(x, rax), Asm("cqo", Nil, Nil), Mov(Imm(2 ^ in_.var2.id - 1), Reg("rcx")),
             Asm("and", Reg("rcx"), Reg("rdx")), Asm("add", Reg("rdx"), rax),
             Asm("sar", y, rax), Mov(rax, z)>>
  /\ op = "MIN" => s = <<Mov(x, rax), Asm("neg", rax, Nil), Mov(rax, z)>>
  /\ op = "NEG" =>
       s = <<Mov(x, rax), Asm("cmp", Imm(0), rax), Asm("sete", rax, Nil), Mov(rax, z)>>
  /\ op \in Compares =>
       s = <<Mov(x, rax), Asm("cmp", y, rax), Asm(Setter(op), rax, Nil), Mov(rax, z)>>

\* the same for an instruction that directs control, in method f
IsTurn(in_, f, x, z, s) ==
  LET op == in_.op
      to == Sym(in_.var1.id)
  IN  /\ op = "LEAVE" =>
           s = <<Asm("leave", to, Nil), Mov(Reg("rbp"), Reg("rsp")),
                 Asm("pop", Reg("rbp"), Nil), Asm("ret", Nil, Nil)>>
      /\ op = "RET" =>
           s = IF in_.var1.kind # "none" THEN <<Mov(x, rax), Asm("jmp_leave", Sym(f), Nil)>>
               ELSE <<Asm("jmp_leave", Sym(f), Nil)>>
      /\ op = "LABEL" => s = <<Asm("label", to, Nil)>>
      /\ op = "JMP" => s = <<Asm("jmp", to, Nil)>>
      /\ op = "JMPF" =>
           s = <<Mov(x, rax), Asm("cmp", Imm(0), rax), Asm("jz", Sym(in_.reg.id), Nil)>>

\* the same for an instruction of a call, with p parameters, the p-th parameter
\* being passed
IsPassing(in_, p, size, x, z, s) ==
  LET op == in_.op
      to == Sym(in_.var1.id)
  IN  /\ op \in Silent => s = <<>>
      /\ op = "ENTER" => s = Entry(in_.var1.id, size) \o ArgCopies(p)
      /\ op = "PARAM" =>
           s = IF p < 6 THEN <<Mov(x, Reg(arg_regs[p + 1]))>> ELSE <<Asm("push", x, Nil)>>
      /\ op = "CALL" =>
           s = IF p > 6 THEN <<Asm("call", to, Nil), Mov(rax, z), Asm("add", Imm(p - 6), Reg("rsp"))>>
               ELSE <<Asm("call", to, Nil), Mov(rax, z)>>

\* the parameters of what instruction k enters or calls, or those passed before k
Parameters(k) ==
  IF code[k].op \in {"ENTER", "CALL"} THEN Len(Params(code[k].var1.id))
  ELSE CHOOSE n \in Nat : Passed(code, k, n)

IsText(k, f, m, size, s) ==
  LET x == Str(m, code[k].var1)
      y == Str(m, code[k].var2)
      z == Str(m, code[k].reg)
  IN  /\ IsSum(code[k], x, y, z, s) /\ IsTurn(code[k], f, x, z, s)
      /\ IsPassing(code[k], Parameters(k), size, x, z, s)

\* the operands of instruction k that are looked up, and their names in m
LookedUp(k) ==
  {n \in 1..3 : code[k].op \notin {"ENTER", "LEAVE"} \cup Silent /\ (code[k].op = "CALL" => n = 3)}

Known(k, m) ==
  \A n \in LookedUp(k) : HasSlot(Operands(k)[n]) => Key(Operands(k)[n]) \in DOMAIN m.map

\* n has the slots of m
Grown(m, n) == \A x \in DOMAIN m.map : x \in DOMAIN n.map /\ n.map[x] = m.map[x]

\* Looking an operand up gives it a slot, if it is a name, and moves none.
LEMMA MappedKeeps ==
  ASSUME NEW m, NEW o
  PROVE  Grown(m, Mapped(m, o)) /\ (HasSlot(o) => Key(o) \in DOMAIN Mapped(m, o).map)
<1>1. CASE ~HasSlot(o)
  BY <1>1 DEF Mapped, Grown
<1>2. CASE HasSlot(o)
  <2>1. PICK x : x = Key(o)
    OBVIOUS
  <2>2. Mapped(m, o) = get_var_offset(m, x)
    BY <1>2, <2>1 DEF Mapped
  <2>3. CASE x \in DOMAIN m.map
    BY <2>1, <2>2, <2>3 DEF get_var_offset, Grown
  <2>4. CASE x \notin DOMAIN m.map
    <3>1. PICK n : n = get_var_offset(m, x)
      OBVIOUS
    <3>2. n.map = With(m.map, x, m.offset - 1)
      BY <2>4, <3>1 DEF get_var_offset
    <3>3. DOMAIN n.map = DOMAIN m.map \cup {x} /\ \A y \in DOMAIN m.map : n.map[y] = m.map[y]
      BY <2>4, <3>2 DEF With
    <3> QED
      BY <2>1, <2>2, <3>1, <3>3 DEF Grown
  <2> QED
    BY <2>3, <2>4
<1> QED
  BY <1>1, <1>2

\* Look-ups one after another move none either.
LEMMA GrownTwice ==
  ASSUME NEW l, NEW m, NEW n, Grown(l, m), Grown(m, n)
  PROVE  Grown(l, n)
BY DEF Grown

\* What the look-ups of the actions leave.
LEMMA LookUps ==
  /\ Grown(Here, MapAfter(in)) /\ Grown(Here, Mapped(Here, in.reg)) /\ Grown(Here, Here)
  /\ code[i].op \in {"ENTER", "LEAVE"} \cup Silent => Known(i, Here)
  /\ code[i].op = "CALL" => Known(i, Mapped(Here, in.reg))
  /\ Known(i, MapAfter(in))
<1>1. PICK l, m, n, k, a, b, c :
        /\ l = Here /\ a = in.var1 /\ b = in.var2 /\ c = in.reg
        /\ m = Mapped(l, a) /\ n = Mapped(m, b) /\ k = Mapped(n, c)
  OBVIOUS
<1>2. /\ Grown(l, m) /\ Grown(m, n) /\ Grown(n, k) /\ Grown(l, Mapped(l, c))
      /\ HasSlot(a) => Key(a) \in DOMAIN m.map
      /\ HasSlot(b) => Key(b) \in DOMAIN n.map
      /\ HasSlot(c) => Key(c) \in DOMAIN k.map /\ Key(c) \in DOMAIN Mapped(l, c).map
  BY <1>1, MappedKeeps
<1>3. Grown(l, n) /\ Grown(l, k)
  BY <1>2, GrownTwice
<1>4. Operands(i)[1] = a /\ Operands(i)[2] = b /\ Operands(i)[3] = c
  BY <1>1 DEF Operands, in
<1>5. /\ HasSlot(a) => Key(a) \in DOMAIN k.map
      /\ HasSlot(b) => Key(b) \in DOMAIN k.map
  BY <1>2 DEF Grown
<1>6. Known(i, k)
  BY <1>2, <1>4, <1>5 DEF Known, LookedUp
<1>7. code[i].op = "CALL" => Known(i, Mapped(l, c))
  BY <1>2, <1>4 DEF Known, LookedUp
<1>8. k = MapAfter(in)
  BY <1>1 DEF MapAfter, Here
<1>9. Grown(l, l) /\ (code[i].op \in {"ENTER", "LEAVE"} \cup Silent => Known(i, l))
  BY DEF Grown, Known, LookedUp
<1> QED
  BY <1>1, <1>2, <1>3, <1>6, <1>7, <1>8, <1>9

\* As many arguments are passed before k as are passed before k.
LEMMA PassedOnce ==
  ASSUME NEW c, NEW k \in Nat, NEW n, NEW m, Passed(c, k, n), Passed(c, k, m)
  PROVE  n = m
<1>1. ASSUME NEW x, NEW y, Passed(c, k, x), Passed(c, k, y), x < y PROVE FALSE
  <2>1. x \in Nat /\ y \in Nat /\ y <= k - 1 /\ x <= k - 1
    BY <1>1 DEF Passed
  <2>2. k - x - 1 \in (k - y)..(k - 1) /\ k - x > 1
    BY <1>1, <2>1
  <2> QED
    BY <1>1, <2>2 DEF Passed
<1>2. n \in Int /\ m \in Int
  BY DEF Passed
<1> QED
  BY <1>1, <1>2

Below(map) == \A x \in DOMAIN map : map[x] \in Int /\ map[x] < 0

TallyInv ==
  /\ Passed(code, i, param_count) /\ stack_params = Extra(param_count)
  /\ \A f \in DOMAIN slots : slots[f].frame % 2 = 0 /\ Below(slots[f].map)

\* a step that emits the text of its instruction
EmitsText ==
  \E m, s : /\ Appends(m, s) /\ IsSeq(s)
            /\ IsText(i, current_func_name, m, total_stack_size, s)
            /\ code[i].op \notin {"ENTER", "LEAVE"} => Grown(Here, m) /\ Known(i, m)

\* Short lists are sequences.
LEMMA TuplesAreSeqs ==
  ASSUME NEW a, NEW b, NEW c, NEW d, NEW e, NEW f, NEW g
  PROVE  /\ IsSeq(<<>>) /\ IsSeq(<<a>>) /\ IsSeq(<<a, b>>) /\ IsSeq(<<a, b, c>>)
         /\ IsSeq(<<a, b, c, d>>) /\ IsSeq(<<a, b, c, d, e, f, g>>)
<1>1. PICK S : S = {a, b, c, d, e, f, g}
  OBVIOUS
<1>2. /\ <<>> \in Seq(S) /\ <<a>> \in Seq(S) /\ <<a, b>> \in Seq(S) /\ <<a, b, c>> \in Seq(S)
      /\ <<a, b, c, d>> \in Seq(S) /\ <<a, b, c, d, e, f, g>> \in Seq(S)
  BY <1>1
<1> QED
  BY <1>2 DEF IsSeq

\* What an action that computes emits is the text of its instruction.
LEMMA SumText ==
  ASSUME IsSeq(asm), UNCHANGED program,
         \/ I_LOADVAL \/ I_STORE \/ I_ADD \/ I_DIV \/ I_SHIFT_RIGHT \/ I_MIN \/ I_NEG \/ I_LES
  PROVE  EmitsText
<1>1. PICK m, x, y, z : m = MapAfter(in) /\ x = op1(m) /\ y = op2(m) /\ z = dest(m)
  OBVIOUS
<1>2. Grown(Here, m) /\ Known(i, m)
  BY <1>1, LookUps
<1>3. ASSUME NEW s, IsSeq(s), Put(m, s), IsSum(code[i], x, y, z, s), i <= Len(code),
             code[i].op \in {"LOADVAL", "STORE", "SHIFT_RIGHT", "MIN", "NEG"}
                              \cup OneStep \cup Division \cup Compares
      PROVE  EmitsText
  <2>1. Appends(m, s)
    BY <1>3, PutAppends
  <2>2. /\ IsTurn(code[i], current_func_name, x, z, s)
        /\ IsPassing(code[i], Parameters(i), total_stack_size, x, z, s)
    BY <1>3 DEF IsTurn, IsPassing, OneStep, Division, Compares, Relational, Silent
  <2>3. IsText(i, current_func_name, m, total_stack_size, s)
    BY <1>1, <1>3, <2>2 DEF IsText, op1, op2, dest, in
  <2> QED
    BY <1>2, <1>3, <2>1, <2>3 DEF EmitsText
<1>4. CASE I_LOADVAL
  <2>1. PICK a, s : a = Mov(x, z) /\ s = <<a>>
    OBVIOUS
  <2>2. Put(m, s) /\ i <= Len(code) /\ code[i].op = "LOADVAL"
    BY <1>1, <1>4, <2>1 DEF I_LOADVAL, Case, in
  <2>3. IsSum(code[i], x, y, z, s)
    BY <2>1, <2>2 DEF IsSum, OneStep, Division, Compares, Relational
  <2> QED
    BY <1>3, <2>1, <2>2, <2>3, TuplesAreSeqs
<1>5. CASE I_STORE
  <2>1. PICK a, b, s : a = Mov(x, rax) /\ b = Mov(rax, z) /\ s = <<a, b>>
    OBVIOUS
  <2>2. Put(m, s) /\ i <= Len(code) /\ code[i].op = "STORE"
    BY <1>1, <1>5, <2>1 DEF I_STORE, Case, in
  <2>3. IsSum(code[i], x, y, z, s)
    BY <2>1, <2>2 DEF IsSum, OneStep, Division, Compares, Relational
  <2> QED
    BY <1>3, <2>1, <2>2, <2>3, TuplesAreSeqs
<1>6. CASE I_ADD
  <2>1. PICK a, b, c, s : /\ a = Mov(x, rax) /\ b = Asm(op_str, y, rax) /\ c = Mov(rax, z)
                          /\ s = <<a, b, c>>
    OBVIOUS
  <2>2. Put(m, (<<a>> \o <<b>>) \o <<c>>) /\ i <= Len(code) /\ code[i].op \in OneStep
    BY <1>1, <1>6, <2>1 DEF I_ADD, Case, in, Through, OneStep
  <2>3. Put(m, s)
    BY <2>1, <2>2, ThroughOne
  <2>4. op_str = Mnemonic(code[i].op)
    BY <2>2 DEF op_str, Mnemonic, in
  <2>5. IsSum(code[i], x, y, z, s)
    BY <2>1, <2>2, <2>4 DEF IsSum, OneStep, Division, Compares, Relational
  <2> QED
    BY <1>3, <2>1, <2>2, <2>3, <2>5, TuplesAreSeqs
<1>7. CASE I_DIV
  <2>1. PICK a, b, c, d, s :
          /\ a = Mov(x, rax) /\ b = Asm("cqo", Nil, Nil) /\ c = Asm("idiv", y, Nil)
          /\ d = Mov(IF in.op = "DIV" THEN rax ELSE Reg("rdx"), z) /\ s = <<a, b, c, d>>
    OBVIOUS
  <2>2. Put(m, s) /\ i <= Len(code) /\ code[i].op \in Division
    BY <1>1, <1>7, <2>1 DEF I_DIV, Case, in, Division
  <2>3. IsSum(code[i], x, y, z, s)
    BY <2>1, <2>2 DEF IsSum, OneStep, Division, Compares, Relational, in
  <2> QED
    BY <1>3, <2>1, <2>2, <2>3, TuplesAreSeqs
<1>8. CASE I_SHIFT_RIGHT
  <2>1. PICK a, b, c, d, e, f, g, s :
          /\ a = Mov(x, rax) /\ b = Asm("cqo", Nil, Nil) /\ c = Mov(Imm(Bias), Reg("rcx"))
          /\ d = Asm("and", Reg("rcx"), Reg("rdx")) /\ e = Asm("add", Reg("rdx"), rax)
          /\ f = Asm("sar", y, rax) /\ g = Mov(rax, z) /\ s = <<a, b, c, d, e, f, g>>
    OBVIOUS
  <2>2. /\ Put(m, (<<a>> \o <<b, c, d, e, f>>) \o <<g>>) /\ i <= Len(code)
        /\ code[i].op = "SHIFT_RIGHT"
    BY <1>1, <1>8, <2>1 DEF I_SHIFT_RIGHT, Case, in, Through
  <2>7. (<<a>> \o <<b, c, d, e, f>>) \o <<g>> = <<a, b, c, d, e, f, g>>
    BY ThroughFive
  <2>3. Put(m, s)
    BY <2>1, <2>2, <2>7
  <2>4. Bias = 2 ^ code[i].var2.id - 1
    BY DEF Bias, in
  <2>5. IsSum(code[i], x, y, z, s)
    BY <2>1, <2>2, <2>4 DEF IsSum, OneStep, Division, Compares, Relational
  <2> QED
    BY <1>3, <2>1, <2>2, <2>3, <2>5, TuplesAreSeqs
<1>9. CASE I_MIN
  <2>1. PICK a, b, c, s : /\ a = Mov(x, rax) /\ b = Asm("neg", rax, Nil) /\ c = Mov(rax, z)
                          /\ s = <<a, b, c>>
    OBVIOUS
  <2>2. Put(m, (<<a>> \o <<b>>) \o <<c>>) /\ i <= Len(code) /\ code[i].op = "MIN"
    BY <1>1, <1>9, <2>1 DEF I_MIN, Case, in, Through
  <2>3. Put(m, s)
    BY <2>1, <2>2, ThroughOne
  <2>4. IsSum(code[i], x, y, z, s)
    BY <2>1, <2>2 DEF IsSum, OneStep, Division, Compares, Relational
  <2> QED
    BY <1>3, <2>1, <2>2, <2>3, <2>4, TuplesAreSeqs
<1>10. CASE I_NEG
  <2>1. PICK a, b, c, d, s :
          /\ a = Mov(x, rax) /\ b = Asm("cmp", Imm(0), rax) /\ c = Asm("sete", rax, Nil)
          /\ d = Mov(rax, z) /\ s = <<a, b, c, d>>
    OBVIOUS
  <2>2. Put(m, (<<a>> \o <<b, c>>) \o <<d>>) /\ i <= Len(code) /\ code[i].op = "NEG"
    BY <1>1, <1>10, <2>1 DEF I_NEG, Case, in, Through
  <2>3. Put(m, s)
    BY <2>1, <2>2, ThroughTwo
  <2>4. IsSum(code[i], x, y, z, s)
    BY <2>1, <2>2 DEF IsSum, OneStep, Division, Compares, Relational
  <2> QED
    BY <1>3, <2>1, <2>2, <2>3, <2>4, TuplesAreSeqs
<1>11. CASE I_LES
  <2>1. PICK a, b, c, d, s :
          /\ a = Mov(x, rax) /\ b = Asm("cmp", y, rax) /\ c = Asm(set_instr, rax, Nil)
          /\ d = Mov(rax, z) /\ s = <<a, b, c, d>>
    OBVIOUS
  <2>2. Put(m, (<<a>> \o <<b, c>>) \o <<d>>) /\ i <= Len(code) /\ code[i].op \in Compares
    BY <1>1, <1>11, <2>1 DEF I_LES, Case, in, Through, Compares
  <2>3. Put(m, s)
    BY <2>1, <2>2, ThroughTwo
  <2>4. set_instr = Setter(code[i].op)
    BY <2>2 DEF set_instr, Setter, in, Compares, Relational
  <2>5. IsSum(code[i], x, y, z, s)
    BY <2>1, <2>2, <2>4 DEF IsSum, OneStep, Division, Compares, Relational
  <2> QED
    BY <1>3, <2>1, <2>2, <2>3, <2>5, TuplesAreSeqs
<1> QED
  BY <1>4, <1>5, <1>6, <1>7, <1>8, <1>9, <1>10, <1>11


\* What the assumption says of the calls, jumps and operands of the program.
LEMMA ShapeFacts ==
  ASSUME program \in Programs
  PROVE  /\ JumpShape(code) /\ CallShape(code, program.methods)
         /\ \A k \in 1..Len(code) : OperandShape(code[k])
<1>1. DOMAIN code = 1..Len(code)
  BY CodeFacts
<1> QED
  BY <1>1, ProgramsAssumption DEF code

\* Between calls no argument is counted.
LEMMA NoneCounted ==
  ASSUME PlaceInv, TallyInv, i \in 1..Len(code), code[i].op \notin {"PARAM", "CALL"}
  PROVE  param_count = 0
<1>1. Len(code) \in Nat /\ DOMAIN code = 1..Len(code) /\ CallShape(code, program.methods)
  BY CodeFacts, ShapeFacts DEF PlaceInv
<1>2. PICK n \in Nat, k \in Nat : n = param_count /\ k = i /\ n <= k - 1 /\ k >= 1
  BY <1>1 DEF TallyInv, Passed
<1>3. ASSUME n > 0 PROVE FALSE
  <2>1. k - 1 \in (k - n)..(k - 1) /\ k - 1 \in 1..Len(code)
    BY <1>1, <1>2, <1>3
  <2>2. code[k - 1].op = "PARAM"
    BY <1>2, <2>1 DEF TallyInv, Passed
  <2>3. code[(k - 1) + 1].op \in {"PARAM", "CALL"}
    BY <1>1, <2>1, <2>2 DEF CallShape
  <2>4. (k - 1) + 1 = i
    BY <1>2
  <2> QED
    BY <2>3, <2>4
<1> QED
  BY <1>2, <1>3

\* What an action that directs control emits is the text of its instruction.
LEMMA TurnText ==
  ASSUME PlaceInv, UNCHANGED program,
         \/ I_EXTERN \/ I_LOAD \/ I_LEAVE \/ I_RET \/ I_LABEL \/ I_JMP \/ I_JMPF
  PROVE  EmitsText
<1>0. IsSeq(asm) /\ Len(code) \in Nat
  BY CodeFacts DEF PlaceInv
<1>1. PICK m, x, y, z : m = MapAfter(in) /\ x = op1(m) /\ y = op2(m) /\ z = dest(m)
  OBVIOUS
<1>2. Grown(Here, m) /\ Known(i, m) /\ Grown(Here, Here)
  BY <1>1, LookUps
<1>3. ASSUME NEW n, NEW s, IsSeq(s), Put(n, s), i <= Len(code),
             code[i].op \in {"LEAVE", "RET", "LABEL", "JMP", "JMPF"} \cup Silent,
             \/ n = m /\ IsTurn(code[i], current_func_name, x, z, s)
             \/ /\ code[i].op \in {"LEAVE"} \cup Silent
                /\ code[i].op = "LEAVE" => \A u, v : IsTurn(code[i], current_func_name, u, v, s)
                /\ code[i].op \in Silent => n = Here /\ s = <<>>,
             code[i].op \in Silent => s = <<>>
      PROVE  EmitsText
  <2>1. Appends(n, s)
    BY <1>0, <1>3, PutAppends
  <2>2. \A u, v, w : IsSum(code[i], u, v, w, s)
    BY <1>3 DEF IsSum, OneStep, Division, Compares, Relational, Silent
  <2>3. \A u, w : IsPassing(code[i], Parameters(i), total_stack_size, u, w, s)
    BY <1>3 DEF IsPassing, Silent
  <2>4. PICK u, w : u = Str(n, code[i].var1) /\ w = Str(n, code[i].reg)
    OBVIOUS
  <2>5. IsTurn(code[i], current_func_name, u, w, s)
    <3>1. CASE n = m /\ IsTurn(code[i], current_func_name, x, z, s)
      BY <1>1, <2>4, <3>1 DEF op1, dest, in
    <3>2. CASE code[i].op = "LEAVE" /\ \A a, b : IsTurn(code[i], current_func_name, a, b, s)
      BY <3>2
    <3>3. CASE code[i].op \in Silent
      BY <3>3 DEF IsTurn, Silent
    <3> QED
      BY <1>3, <3>1, <3>2, <3>3
  <2>6. IsText(i, current_func_name, n, total_stack_size, s)
    BY <2>2, <2>3, <2>4, <2>5 DEF IsText
  <2>7. code[i].op \notin {"ENTER", "LEAVE"} => Grown(Here, n) /\ Known(i, n)
    BY <1>2, <1>3, LookUps
  <2> QED
    BY <1>3, <2>1, <2>6, <2>7 DEF EmitsText
<1>4. CASE I_EXTERN \/ I_LOAD
  <2>1. Put(Here, <<>>) /\ i <= Len(code) /\ code[i].op \in Silent
    BY <1>4 DEF I_EXTERN, I_LOAD, Case, in, Here, Silent
  <2> QED
    BY <1>3, <2>1, TuplesAreSeqs DEF Silent
<1>5. CASE I_LEAVE
  <2>1. PICK n, a, b, c, d, s :
          /\ n = [map |-> <<>>, offset |-> current_stack_offset]
          /\ a = Asm("leave", Sym(in.var1.id), Nil) /\ b = Mov(Reg("rbp"), Reg("rsp"))
          /\ c = Asm("pop", Reg("rbp"), Nil) /\ d = Asm("ret", Nil, Nil) /\ s = <<a, b, c, d>>
    OBVIOUS
  <2>2. Put(n, s) /\ i <= Len(code) /\ code[i].op = "LEAVE"
    BY <1>5, <2>1 DEF I_LEAVE, Case, in
  <2>3. \A u, v : IsTurn(code[i], current_func_name, u, v, s)
    BY <2>1, <2>2 DEF IsTurn, in
  <2>4. IsSeq(s)
    BY <2>1, TuplesAreSeqs
  <2> QED
    BY <1>3, <2>2, <2>3, <2>4 DEF Silent
<1>6. CASE I_RET
  <2>1. PICK a, b, s : /\ a = Mov(x, rax) /\ b = Asm("jmp_leave", Sym(current_func_name), Nil)
                       /\ s = IF in.var1.kind # "none" THEN <<a, b>> ELSE <<b>>
    OBVIOUS
  <2>2. /\ Put(m, (IF in.var1.kind # "none" THEN <<a>> ELSE <<>>) \o <<b>>)
        /\ i <= Len(code) /\ code[i].op = "RET"
    BY <1>1, <1>6, <2>1 DEF I_RET, Case, in
  <2>3. <<a>> \o <<b>> = <<a, b>> /\ <<>> \o <<b>> = <<b>>
    BY JoinOneOne, JoinNone
  <2>4. Put(m, s)
    BY <2>1, <2>2, <2>3
  <2>5. IsTurn(code[i], current_func_name, x, z, s)
    BY <2>1, <2>2 DEF IsTurn, in
  <2>6. IsSeq(s)
    BY <2>1, TuplesAreSeqs
  <2> QED
    BY <1>3, <2>2, <2>4, <2>5, <2>6 DEF Silent
<1>7. ASSUME i <= Len(code), code[i].op \in {"LABEL", "JMP", "JMPF"}
      PROVE  /\ code[i].op \in {"LABEL", "JMP"} => x = Sym(code[i].var1.id)
             /\ code[i].op = "JMPF" => z = Sym(code[i].reg.id)
  <2>1. i \in 1..Len(code)
    BY <1>0, <1>7 DEF PlaceInv
  <2>2. OperandShape(code[i])
    BY <2>1, ShapeFacts DEF PlaceInv
  <2> QED
    BY <1>1, <1>7, <2>2 DEF OperandShape, op1, dest, in, Str, HasSlot
<1>8. CASE I_LABEL \/ I_JMP
  <2>1. PICK a, s : /\ a = Asm(IF code[i].op = "LABEL" THEN "label" ELSE "jmp", x, Nil)
                    /\ s = <<a>>
    OBVIOUS
  <2>2. Put(m, s) /\ i <= Len(code) /\ code[i].op \in {"LABEL", "JMP"}
    BY <1>1, <1>8, <2>1 DEF I_LABEL, I_JMP, Case, in
  <2>3. IsTurn(code[i], current_func_name, x, z, s)
    BY <1>7, <2>1, <2>2 DEF IsTurn, in
  <2>4. IsSeq(s)
    BY <2>1, TuplesAreSeqs
  <2> QED
    BY <1>3, <2>2, <2>3, <2>4 DEF Silent
<1>9. CASE I_JMPF
  <2>1. PICK a, b, c, s : /\ a = Mov(x, rax) /\ b = Asm("cmp", Imm(0), rax)
                          /\ c = Asm("jz", z, Nil) /\ s = <<a, b, c>>
    OBVIOUS
  <2>2. Put(m, s) /\ i <= Len(code) /\ code[i].op = "JMPF"
    BY <1>1, <1>9, <2>1 DEF I_JMPF, Case, in
  <2>3. IsTurn(code[i], current_func_name, x, z, s)
    BY <1>7, <2>1, <2>2 DEF IsTurn, in
  <2>4. IsSeq(s)
    BY <2>1, TuplesAreSeqs
  <2> QED
    BY <1>3, <2>2, <2>3, <2>4 DEF Silent
<1> QED
  BY <1>4, <1>5, <1>6, <1>8, <1>9

\* So is what an action emits that passes an argument, calls or enters.
LEMMA PassingText ==
  ASSUME PlaceInv, TallyInv, UNCHANGED program, I_ENTER \/ I_PARAM \/ I_CALL
  PROVE  EmitsText
<1>0. IsSeq(asm) /\ Len(code) \in Nat
  BY CodeFacts DEF PlaceInv
<1>1. ASSUME NEW n, NEW s, IsSeq(s), Put(n, s), i <= Len(code),
             code[i].op \in {"ENTER", "PARAM", "CALL"},
             IsPassing(code[i], Parameters(i), total_stack_size,
                       Str(n, code[i].var1), Str(n, code[i].reg), s),
             code[i].op # "ENTER" => Grown(Here, n) /\ Known(i, n)
      PROVE  EmitsText
  <2>1. Appends(n, s)
    BY <1>0, <1>1, PutAppends
  <2>2. \A u, v, w : IsSum(code[i], u, v, w, s)
    BY <1>1 DEF IsSum, OneStep, Division, Compares, Relational
  <2>3. \A u, w : IsTurn(code[i], current_func_name, u, w, s)
    BY <1>1 DEF IsTurn
  <2>4. IsText(i, current_func_name, n, total_stack_size, s)
    BY <1>1, <2>2, <2>3 DEF IsText
  <2> QED
    BY <1>1, <2>1, <2>4 DEF EmitsText
<1>2. CASE I_ENTER
  <2>1. PICK f, n, p, s : /\ f = code[i].var1.id /\ n = ArgMap(f) /\ p = Len(Params(f))
                          /\ s = Entry(f, total_stack_size) \o ArgCopies(p)
    OBVIOUS
  <2>2. Put(n, s) /\ i <= Len(code) /\ code[i].op = "ENTER"
    BY <1>2, <2>1 DEF I_ENTER, Case, in, Entry
  <2>3. PICK t : Appends(n, t) /\ BeginsWith(t, Asm("entry", Sym(f), Nil))
    BY <1>0, <1>2, <2>1, EnterActs DEF EnterStep, PlaceInv
  <2>4. IsSeq(s)
    <3>1. PICK a, b, c : a = Asm("entry", Sym(f), Nil) /\ b = Asm("push", Reg("rbp"), Nil)
                         /\ c = Mov(Reg("rsp"), Reg("rbp"))
      OBVIOUS
    <3>2. PICK r : r = IF total_stack_size > 0
                       THEN <<Asm("sub", Imm(total_stack_size), Reg("rsp"))>> ELSE <<>>
      OBVIOUS
    <3>3. IsSeq(<<a, b, c>>) /\ IsSeq(r)
      BY <3>2, TuplesAreSeqs
    <3>4. PICK t3 : t3 = <<a, b, c>>
      OBVIOUS
    <3>5. IsSeq(t3 \o r)
      BY <3>3, <3>4, ConcatFacts
    <3>6. Entry(f, total_stack_size) = t3 \o r
      BY <3>1, <3>2, <3>4 DEF Entry
    <3>7. p \in Nat
      BY <1>0, <2>1, <2>2, CodeFacts DEF PlaceInv
    <3>8. IsSeq(ArgCopies(p))
      BY <3>7, CopiesPlain DEF Plain
    <3> QED
      BY <2>1, <3>5, <3>6, <3>8, ConcatFacts
  <2>5. IsPassing(code[i], Parameters(i), total_stack_size,
                  Str(n, code[i].var1), Str(n, code[i].reg), s)
    BY <2>1, <2>2 DEF IsPassing, Parameters, Silent
  <2> QED
    BY <1>1, <2>2, <2>4, <2>5
<1>3. CASE I_PARAM
  <2>1. PICK m, x, a, b, s :
          /\ m = MapAfter(in) /\ x = op1(m) /\ a = Mov(x, Reg(arg_regs[param_count + 1]))
          /\ b = Asm("push", x, Nil) /\ s = IF param_count < 6 THEN <<a>> ELSE <<b>>
    OBVIOUS
  <2>2. Put(m, s) /\ i <= Len(code) /\ code[i].op = "PARAM"
    BY <1>3, <2>1 DEF I_PARAM, Case, in
  <2>3. Parameters(i) = param_count
    <3>1. Passed(code, i, param_count) /\ i \in Nat
      BY <1>0 DEF TallyInv, PlaceInv
    <3>2. param_count \in Nat
      BY <3>1 DEF Passed
    <3>3. \A n \in Nat : Passed(code, i, n) => n = param_count
      BY <3>1, PassedOnce
    <3> QED
      BY <2>2, <3>1, <3>2, <3>3 DEF Parameters
  <2>4. IsPassing(code[i], Parameters(i), total_stack_size,
                  Str(m, code[i].var1), Str(m, code[i].reg), s)
    BY <2>1, <2>2, <2>3 DEF IsPassing, Silent, op1, in
  <2>5. IsSeq(s)
    BY <2>1, TuplesAreSeqs
  <2> QED
    BY <1>1, <2>1, <2>2, <2>4, <2>5, LookUps
<1>4. CASE I_CALL
  <2>1. PICK m, z, a, b, c, s :
          /\ m = Mapped(Here, in.reg) /\ z = dest(m) /\ a = Asm("call", Sym(in.var1.id), Nil)
          /\ b = Mov(rax, z) /\ c = Asm("add", Imm(stack_params), Reg("rsp"))
          /\ s = IF stack_params > 0 THEN <<a, b, c>> ELSE <<a, b>>
    OBVIOUS
  <2>2. /\ Put(m, <<a, b>> \o (IF stack_params > 0 THEN <<c>> ELSE <<>>))
        /\ i <= Len(code) /\ code[i].op = "CALL"
    BY <1>4, <2>1 DEF I_CALL, Case, in, AfterCall, Here
  <2>3. <<a, b>> \o <<c>> = <<a, b, c>> /\ <<a, b>> \o <<>> = <<a, b>>
    BY JoinTwoOne, JoinNone
  <2>4. Put(m, s)
    BY <2>1, <2>2, <2>3
  <2>5. PICK p : p = param_count
    OBVIOUS
  <2>6. Parameters(i) = p /\ p \in Nat /\ stack_params = Extra(p)
    <3>1. Passed(code, i, p) /\ i \in 1..Len(code) /\ stack_params = Extra(p)
      BY <1>0, <2>2, <2>5 DEF TallyInv, PlaceInv
    <3>2. Passed(code, i, Len(Params(code[i].var1.id)))
      BY <2>2, <3>1, CodeFacts, ShapeFacts DEF CallShape, PlaceInv, Params
    <3>3. p = Len(Params(code[i].var1.id))
      BY <3>1, <3>2, PassedOnce
    <3>4. p \in Nat
      BY <3>1 DEF Passed
    <3> QED
      BY <2>2, <3>1, <3>3, <3>4 DEF Parameters
  <2>7. (stack_params > 0 <=> p > 6) /\ (p > 6 => stack_params = p - 6)
    BY <2>6 DEF Extra
  <2>8. IsPassing(code[i], Parameters(i), total_stack_size,
                  Str(m, code[i].var1), Str(m, code[i].reg), s)
    BY <2>1, <2>2, <2>6, <2>7 DEF IsPassing, Silent, dest, in
  <2>9. IsSeq(s)
    BY <2>1, TuplesAreSeqs
  <2>10. Grown(Here, m) /\ Known(i, m)
    BY <2>1, <2>2, LookUps
  <2> QED
    BY <1>1, <2>2, <2>4, <2>8, <2>9, <2>10
<1> QED
  BY <1>2, <1>3, <1>4

\* Every step of the generator emits the text of its instruction.
LEMMA GeneratorText ==
  ASSUME PlaceInv, TallyInv, UNCHANGED program, generate_object_code
  PROVE  EmitsText
BY SumText, TurnText, PassingText DEF generate_object_code, PlaceInv


-----------------------------------------------------------------------------
(* The text of ENTER.                                                      *)

InRegs(n) == IF n < 6 THEN n ELSE 6
Prelude(size) == IF size > 0 THEN 4 ELSE 3

\* Halves of odd and even numbers.
LEMMA Halves ==
  /\ \A t \in Nat \ {0} : /\ (2 * t - 1) % 2 = 1 /\ (2 * t - 1) \div 2 = t - 1
                          /\ (2 * t) % 2 = 0 /\ (2 * t) \div 2 = t
  /\ \A k \in Nat \ {0} : \E t \in Nat \ {0} : k = 2 * t - 1 \/ k = 2 * t
<1>1. ASSUME NEW t \in Nat \ {0}
      PROVE  /\ (2 * t - 1) % 2 = 1 /\ (2 * t - 1) \div 2 = t - 1
             /\ (2 * t) % 2 = 0 /\ (2 * t) \div 2 = t
  OBVIOUS
<1>2. ASSUME NEW k \in Nat \ {0} PROVE \E t \in Nat \ {0} : k = 2 * t - 1 \/ k = 2 * t
  <2>1. PICK t \in Int : t = (k + 1) \div 2
    OBVIOUS
  <2>2. t \in Nat \ {0} /\ (k = 2 * t - 1 \/ k = 2 * t)
    BY <2>1
  <2> QED
    BY <2>2
<1> QED
  BY <1>1, <1>2

\* The copies of n arguments, one by one.
LEMMA CopiesText ==
  ASSUME NEW n \in Nat
  PROVE  LET s == ArgCopies(n)
             r == InRegs(n)
         IN  /\ IsSeq(s) /\ Len(s) = r + 2 * (n - r)
             /\ \A j \in 1..r : s[j] = Mov(Reg(arg_regs[j]), Slot(-j))
             /\ \A t \in 1..(n - r) : /\ s[r + (2 * t - 1)] = Mov(Slot(1 + t), rax)
                                      /\ s[r + 2 * t] = Mov(rax, Slot(-(6 + t)))
<1> DEFINE r == InRegs(n)
           s == [j \in 1..r |-> Mov(Reg(arg_regs[j]), Slot(-j))]
           t == [k \in 1..(2 * (n - r)) |->
                   IF k % 2 = 1 THEN Mov(Slot(2 + k \div 2), rax)
                   ELSE Mov(rax, Slot(-(6 + k \div 2)))]
<1>1. PICK p, q : p = r /\ q = 2 * (n - r) /\ p \in Nat /\ q \in Nat /\ n - p \in Nat
  <2>1. r \in Nat /\ 2 * (n - r) \in Nat /\ n - r \in Nat
    BY DEF InRegs
  <2> QED
    BY <2>1
<1>2. PICK x, y : x = s /\ y = t
  OBVIOUS
<1>3. /\ IsSeq(x) /\ Len(x) = p
      /\ \A j \in 1..p : x[j] = Mov(Reg(arg_regs[j]), Slot(-j))
  <2>1. x = [j \in 1..p |-> x[j]] /\ \A j \in 1..p : x[j] = Mov(Reg(arg_regs[j]), Slot(-j))
    BY <1>1, <1>2
  <2> QED
    BY <1>1, <2>1, SeqByElements
<1>4. /\ IsSeq(y) /\ Len(y) = q
      /\ \A k \in 1..q : y[k] = IF k % 2 = 1 THEN Mov(Slot(2 + k \div 2), rax)
                                ELSE Mov(rax, Slot(-(6 + k \div 2)))
  <2>1. /\ y = [k \in 1..q |-> y[k]]
        /\ \A k \in 1..q : y[k] = IF k % 2 = 1 THEN Mov(Slot(2 + k \div 2), rax)
                                  ELSE Mov(rax, Slot(-(6 + k \div 2)))
    BY <1>1, <1>2
  <2> QED
    BY <1>1, <2>1, SeqByElements
<1>5. ArgCopies(n) = x \o y
  BY <1>2 DEF ArgCopies, InRegs
<1>6. /\ IsSeq(x \o y) /\ Len(x \o y) = p + q
      /\ \A j \in 1..p : (x \o y)[j] = x[j]
      /\ \A k \in 1..q : (x \o y)[p + k] = y[k]
  <2>1. /\ IsSeq(x \o y) /\ Len(x \o y) = Len(x) + Len(y)
        /\ \A j \in 1..Len(x) : (x \o y)[j] = x[j]
        /\ \A k \in 1..Len(y) : (x \o y)[Len(x) + k] = y[k]
    <3>1. IsSeq(x) /\ IsSeq(y)
      BY <1>3, <1>4
    <3> QED
      BY <3>1, ConcatFacts
  <2>2. Len(x) = p /\ Len(y) = q
    BY <1>3, <1>4
  <2> QED
    BY <2>1, <2>2
<1>7. ASSUME NEW k \in 1..(n - p)
      PROVE  /\ (x \o y)[p + (2 * k - 1)] = Mov(Slot(1 + k), rax)
             /\ (x \o y)[p + 2 * k] = Mov(rax, Slot(-(6 + k)))
  <2>1. /\ 2 * k - 1 \in 1..q /\ 2 * k \in 1..q /\ k \in Nat \ {0}
        /\ 2 + (k - 1) = 1 + k
    BY <1>1
  <2>2. PICK a, b : a = 2 * k - 1 /\ b = 2 * k
    OBVIOUS
  <2>3. /\ a % 2 = 1 /\ 2 + (a \div 2) = 1 + k /\ b % 2 # 1 /\ b \div 2 = k
        /\ a \in 1..q /\ b \in 1..q
    BY <2>1, <2>2, Halves
  <2>4. y[a] = Mov(Slot(1 + k), rax) /\ y[b] = Mov(rax, Slot(-(6 + k)))
    BY <1>4, <2>3
  <2> QED
    BY <1>6, <2>2, <2>3, <2>4
<1> HIDE DEF s, t
<1> QED
  BY <1>1, <1>3, <1>5, <1>6, <1>7

\* s enters f, with n arguments, r of them in registers, and a frame of size words
IsEntry(s, f, size, n, h, r) ==
  /\ IsSeq(s) /\ Len(s) = h + (r + 2 * (n - r))
  /\ s[1] = Asm("entry", Sym(f), Nil) /\ s[2] = Asm("push", Reg("rbp"), Nil)
  /\ s[3] = Mov(Reg("rsp"), Reg("rbp"))
  /\ size > 0 => s[4] = Asm("sub", Imm(size), Reg("rsp"))
  /\ \A j \in 1..r : s[h + j] = Mov(Reg(arg_regs[j]), Slot(-j))
  /\ \A t \in 1..(n - r) : /\ s[h + (r + (2 * t - 1))] = Mov(Slot(1 + t), rax)
                           /\ s[h + (r + 2 * t)] = Mov(rax, Slot(-(6 + t)))

\* The text of an ENTER, line by line.
LEMMA EntryText ==
  \A f : \A size \in Nat, n \in Nat :
    IsEntry(Entry(f, size) \o ArgCopies(n), f, size, n, Prelude(size), InRegs(n))
<1> SUFFICES ASSUME NEW f, NEW size \in Nat, NEW n \in Nat, NEW s, NEW h, NEW r,
                    s = Entry(f, size) \o ArgCopies(n), h = Prelude(size), r = InRegs(n)
             PROVE  IsEntry(s, f, size, n, h, r)
  OBVIOUS
<1>1. PICK a, b, c, d, z :
        /\ a = Asm("entry", Sym(f), Nil) /\ b = Asm("push", Reg("rbp"), Nil)
        /\ c = Mov(Reg("rsp"), Reg("rbp")) /\ d = Asm("sub", Imm(size), Reg("rsp"))
        /\ z = ArgCopies(n)
  OBVIOUS
<1>2. PICK x : x = IF size > 0 THEN <<a, b, c, d>> ELSE <<a, b, c>>
  OBVIOUS
<1>3. Entry(f, size) = x
  <2>1. <<a, b, c>> \o <<d>> = <<a, b, c, d>>
    BY JoinThreeOne
  <2>2. <<a, b, c>> \o <<>> = <<a, b, c>>
    <3>1. PICK S : S = {a, b, c}
      OBVIOUS
    <3>2. <<a, b, c>> \in Seq(S)
      BY <3>1
    <3> QED
      BY <3>2, ConcatEmptySeq
  <2>3. Entry(f, size) = <<a, b, c>> \o (IF size > 0 THEN <<d>> ELSE <<>>)
    BY <1>1 DEF Entry
  <2> QED
    BY <1>2, <2>1, <2>2, <2>3
<1>4. h \in Nat
  BY DEF Prelude
<1>5. /\ IsSeq(x) /\ Len(x) = h /\ x[1] = a /\ x[2] = b /\ x[3] = c /\ (size > 0 => x[4] = d)
  <2>1. IsSeq(x)
    BY <1>2, TuplesAreSeqs
  <2> QED
    BY <1>2, <1>4, <2>1 DEF Prelude
<1>6. /\ IsSeq(z) /\ Len(z) = r + 2 * (n - r) /\ r \in Nat /\ n - r \in Nat
      /\ \A j \in 1..r : z[j] = Mov(Reg(arg_regs[j]), Slot(-j))
      /\ \A t \in 1..(n - r) : /\ z[r + (2 * t - 1)] = Mov(Slot(1 + t), rax)
                               /\ z[r + 2 * t] = Mov(rax, Slot(-(6 + t)))
  <2>1. r \in Nat /\ n - r \in Nat
    BY <1>1 DEF InRegs
  <2> QED
    BY <1>1, <2>1, CopiesText
<1>7. /\ IsSeq(x \o z) /\ Len(x \o z) = h + (r + 2 * (n - r))
      /\ \A k \in 1..h : (x \o z)[k] = x[k]
      /\ \A k \in 1..Len(z) : (x \o z)[h + k] = z[k]
  <2>1. /\ IsSeq(x \o z) /\ Len(x \o z) = Len(x) + Len(z)
        /\ \A j \in 1..Len(x) : (x \o z)[j] = x[j]
        /\ \A k \in 1..Len(z) : (x \o z)[Len(x) + k] = z[k]
    <3>1. IsSeq(x) /\ IsSeq(z)
      BY <1>5, <1>6
    <3> QED
      BY <3>1, ConcatFacts
  <2>2. Len(x) = h /\ Len(z) = r + 2 * (n - r)
    BY <1>5, <1>6
  <2> QED
    BY <2>1, <2>2
<1>8. 1 \in 1..h /\ 2 \in 1..h /\ 3 \in 1..h /\ (size > 0 => 4 \in 1..h)
  BY <1>4 DEF Prelude
<1>9. /\ \A j \in 1..r : j \in 1..Len(z)
      /\ \A t \in 1..(n - r) : r + (2 * t - 1) \in 1..Len(z) /\ r + 2 * t \in 1..Len(z)
  <2>1. PICK d1 \in Nat, r1 \in Nat : d1 = n - r /\ r1 = r /\ Len(z) = r1 + 2 * d1
    BY <1>6
  <2>2. \A j \in 1..r1 : j \in 1..(r1 + 2 * d1)
    OBVIOUS
  <2>3. \A t \in 1..d1 : r1 + (2 * t - 1) \in 1..(r1 + 2 * d1) /\ r1 + 2 * t \in 1..(r1 + 2 * d1)
    OBVIOUS
  <2> QED
    BY <2>1, <2>2, <2>3
<1>10. /\ \A j \in 1..r : (x \o z)[h + j] = Mov(Reg(arg_regs[j]), Slot(-j))
       /\ \A t \in 1..(n - r) :
            /\ (x \o z)[h + (r + (2 * t - 1))] = Mov(Slot(1 + t), rax)
            /\ (x \o z)[h + (r + 2 * t)] = Mov(rax, Slot(-(6 + t)))
  <2>1. \A j \in 1..r : (x \o z)[h + j] = Mov(Reg(arg_regs[j]), Slot(-j))
    BY <1>6, <1>7, <1>9
  <2>2. ASSUME NEW t \in 1..(n - r)
        PROVE  /\ (x \o z)[h + (r + (2 * t - 1))] = Mov(Slot(1 + t), rax)
               /\ (x \o z)[h + (r + 2 * t)] = Mov(rax, Slot(-(6 + t)))
    <3>1. PICK k, l : k = r + (2 * t - 1) /\ l = r + 2 * t
      OBVIOUS
    <3>2. k \in 1..Len(z) /\ l \in 1..Len(z) /\ z[k] = Mov(Slot(1 + t), rax)
          /\ z[l] = Mov(rax, Slot(-(6 + t)))
      BY <1>6, <1>9, <3>1
    <3> QED
      BY <1>7, <3>1, <3>2
  <2> QED
    BY <2>1, <2>2
<1>11. (x \o z)[1] = a /\ (x \o z)[2] = b /\ (x \o z)[3] = c /\ (size > 0 => (x \o z)[4] = d)
  BY <1>5, <1>7, <1>8
<1>12. Entry(f, size) \o ArgCopies(n) = x \o z
  BY <1>1, <1>3
<1>13. s = x \o z
  BY <1>12
<1>14. /\ IsSeq(s) /\ Len(s) = h + (r + 2 * (n - r))
       /\ s[1] = a /\ s[2] = b /\ s[3] = c /\ (size > 0 => s[4] = d)
       /\ \A j \in 1..r : s[h + j] = Mov(Reg(arg_regs[j]), Slot(-j))
       /\ \A t \in 1..(n - r) : /\ s[h + (r + (2 * t - 1))] = Mov(Slot(1 + t), rax)
                                /\ s[h + (r + 2 * t)] = Mov(rax, Slot(-(6 + t)))
  BY <1>7, <1>10, <1>11, <1>13
<1> QED
  BY <1>1, <1>14 DEF IsEntry

\* Which line of it a line is.
LEMMA EntryLines ==
  ASSUME NEW size \in Nat, NEW n \in Nat,
         NEW q \in 1..(Prelude(size) + (InRegs(n) + 2 * (n - InRegs(n))))
  PROVE  LET h == Prelude(size)
             r == InRegs(n)
         IN  \/ q \in 1..3 \/ (q = 4 /\ size > 0)
             \/ \E j \in 1..r : q = h + j
             \/ \E t \in 1..(n - r) : q = h + (r + (2 * t - 1)) \/ q = h + (r + 2 * t)
<1>1. PICK h, r : /\ h = Prelude(size) /\ r = InRegs(n) /\ h \in Nat /\ r \in Nat /\ n - r \in Nat
                  /\ (h = 3 \/ (h = 4 /\ size > 0))
  <2>1. Prelude(size) \in Nat /\ InRegs(n) \in Nat /\ n - InRegs(n) \in Nat
    BY DEF Prelude, InRegs
  <2> QED
    BY <2>1 DEF Prelude
<1>2. CASE q <= h
  BY <1>1, <1>2
<1>3. CASE q > h /\ q <= h + r
  <2>1. q - h \in 1..r /\ q = h + (q - h)
    BY <1>1, <1>3
  <2> QED
    BY <1>1, <2>1
<1>4. CASE q > h + r
  <2>1. PICK k \in Nat \ {0} : k = q - (h + r) /\ q = h + (r + k) /\ k <= 2 * (n - r)
    BY <1>1, <1>4
  <2>2. PICK t \in Nat \ {0} : k = 2 * t - 1 \/ k = 2 * t
    BY Halves
  <2>3. t \in 1..(n - r)
    BY <1>1, <2>1, <2>2
  <2> QED
    BY <1>1, <2>1, <2>2, <2>3
<1> QED
  BY <1>1, <1>2, <1>3, <1>4


-----------------------------------------------------------------------------
(* Landmarks, and texts as the map grows.                                  *)

Ops ==
  {"ENTER", "LEAVE", "RET", "LOADVAL", "STORE", "SHIFT_RIGHT", "MIN", "NEG", "LABEL", "JMP",
   "JMPF", "PARAM", "CALL"} \cup OneStep \cup Division \cup Compares \cup Silent

\* The generator has an action for these.
LEMMA GeneratorOps ==
  ASSUME generate_object_code
  PROVE  code[i].op \in Ops
<1>1. \A ops : Case(ops) => code[i].op \in ops
  BY DEF Case
<1>2. CASE I_EXTERN \/ I_ENTER \/ I_LEAVE \/ I_RET \/ I_LOAD \/ I_LABEL \/ I_JMP \/ I_JMPF
  BY <1>1, <1>2 DEF I_EXTERN, I_ENTER, I_LEAVE, I_RET, I_LOAD, I_LABEL, I_JMP, I_JMPF, Ops, Silent
<1>3. CASE I_LOADVAL \/ I_STORE \/ I_SHIFT_RIGHT \/ I_MIN \/ I_NEG \/ I_PARAM \/ I_CALL
  BY <1>1, <1>3 DEF I_LOADVAL, I_STORE, I_SHIFT_RIGHT, I_MIN, I_NEG, I_PARAM, I_CALL, Ops
<1>4. CASE I_ADD \/ I_DIV \/ I_LES
  BY <1>1, <1>4 DEF I_ADD, I_DIV, I_LES, Ops, OneStep, Division, Compares
<1> QED
  BY <1>2, <1>3, <1>4 DEF generate_object_code

\* the instruction of the intermediate code whose code begins with a landmark
Origin(op) ==
  CASE op = "entry" -> "ENTER" [] op = "leave" -> "LEAVE" [] op = "label" -> "LABEL"

NoMark(a) == a.op \notin Landmarks

\* s can be the text of instruction k
Marked(k, s) ==
  \A q \in 1..Len(s) :
    s[q].op \in Landmarks =>
      q = 1 /\ code[k].op = Origin(s[q].op) /\ s[q].a = Sym(code[k].var1.id)

\* In a short list without landmarks but the first line, landmarks are first.
LEMMA Headed ==
  ASSUME NEW s, NEW a, NEW b, NEW c, NEW d, NEW e, NEW f, NEW g,
         NoMark(b), NoMark(c), NoMark(d), NoMark(e), NoMark(f), NoMark(g),
         \/ s = <<>> \/ s = <<a>> \/ s = <<a, b>> \/ s = <<a, b, c>> \/ s = <<a, b, c, d>>
         \/ s = <<a, b, c, d, e, f, g>>
  PROVE  \A q \in 1..Len(s) : s[q].op \in Landmarks => q = 1 /\ s[q] = a
<1>1. CASE s = <<>>
  <2>1. Len(s) = 0
    BY <1>1
  <2> QED
    BY <2>1
<1>2. CASE s = <<a>> \/ s = <<a, b>> \/ s = <<a, b, c>> \/ s = <<a, b, c, d>>
  BY <1>2 DEF NoMark
<1>3. CASE s = <<a, b, c, d, e, f, g>>
  <2>1. /\ Len(s) = 7 /\ s[1] = a /\ s[2] = b /\ s[3] = c /\ s[4] = d /\ s[5] = e /\ s[6] = f
        /\ s[7] = g
    BY <1>3
  <2>2. ASSUME NEW q \in 1..7
        PROVE  q = 1 \/ q = 2 \/ q = 3 \/ q = 4 \/ q = 5 \/ q = 6 \/ q = 7
    OBVIOUS
  <2> QED
    BY <2>1, <2>2 DEF NoMark
<1> QED
  BY <1>1, <1>2, <1>3

\* Only the lines of ENTER, LEAVE and LABEL are landmarks, the first of each.
LEMMA TextMarks ==
  ASSUME program \in Programs, NEW k \in 1..Len(code), NEW f, NEW m, NEW size \in Nat, NEW s,
         IsText(k, f, m, size, s), code[k].op \in Ops
  PROVE  Marked(k, s)
<1>1. PICK x, y, z, p :
        /\ x = Str(m, code[k].var1) /\ y = Str(m, code[k].var2) /\ z = Str(m, code[k].reg)
        /\ p = Parameters(k)
  OBVIOUS
<1>2. /\ IsSum(code[k], x, y, z, s) /\ IsTurn(code[k], f, x, z, s)
      /\ IsPassing(code[k], p, size, x, z, s)
  BY <1>1 DEF IsText
<1>3. \A a, b : NoMark(Mov(a, b))
  BY MovPlain DEF NoMark, Landmarks
<1>4. \A a, b, op : op \notin Landmarks => NoMark(Asm(op, a, b))
  BY AsmFields DEF NoMark
<1> DEFINE idle == Asm("cqo", Nil, Nil)
<1>5. NoMark(idle)
  BY <1>4 DEF Landmarks
<1> HIDE DEF idle
<1>6. ASSUME NEW a, NEW b, NEW c, NEW d, NEW e, NEW g, NEW h,
             NoMark(a), NoMark(b), NoMark(c), NoMark(d), NoMark(e), NoMark(g), NoMark(h),
             \/ s = <<>> \/ s = <<a>> \/ s = <<a, b>> \/ s = <<a, b, c>> \/ s = <<a, b, c, d>>
             \/ s = <<a, b, c, d, e, g, h>>
      PROVE  Marked(k, s)
  <2>1. \A q \in 1..Len(s) : s[q].op \in Landmarks => q = 1 /\ s[q] = a
    BY <1>6, Headed
  <2> QED
    BY <1>6, <2>1 DEF Marked, NoMark
<1>12. ASSUME NEW a, NEW b, NEW c, NoMark(a), NoMark(b), NoMark(c),
              s = <<>> \/ s = <<a>> \/ s = <<a, b>> \/ s = <<a, b, c>>
       PROVE  Marked(k, s)
  <2>1. \A q \in 1..Len(s) : s[q].op \notin Landmarks
    BY <1>12 DEF NoMark
  <2> QED
    BY <2>1 DEF Marked
<1>7. CASE code[k].op \in {"LOADVAL", "STORE", "SHIFT_RIGHT", "MIN", "NEG"}
  <2>1. PICK a, b, c, d, e, g, h :
          /\ a = Mov(x, rax) /\ b = idle /\ c = Mov(Imm(2 ^ code[k].var2.id - 1), Reg("rcx"))
          /\ d = Asm("and", Reg("rcx"), Reg("rdx")) /\ e = Asm("add", Reg("rdx"), rax)
          /\ g = Asm("sar", y, rax) /\ h = Mov(rax, z)
    OBVIOUS
  <2>2. NoMark(a) /\ NoMark(b) /\ NoMark(c) /\ NoMark(d) /\ NoMark(e) /\ NoMark(g) /\ NoMark(h)
    BY <1>3, <1>4, <1>5, <2>1 DEF Landmarks
  <2>3. PICK u, v, w, l : /\ u = Asm("neg", rax, Nil) /\ v = Asm("cmp", Imm(0), rax)
                       /\ w = Asm("sete", rax, Nil) /\ l = Mov(x, z)
    OBVIOUS
  <2>4. NoMark(u) /\ NoMark(v) /\ NoMark(w) /\ NoMark(l)
    BY <1>3, <1>4, <2>3 DEF Landmarks
  <2>5. CASE code[k].op = "LOADVAL"
    <3>1. s = <<l>>
      BY <1>2, <2>3, <2>5 DEF IsSum
    <3> QED
      BY <1>6, <2>4, <3>1
  <2>6. CASE code[k].op = "STORE"
    <3>1. s = <<a, h>>
      BY <1>2, <2>1, <2>6 DEF IsSum
    <3> QED
      BY <1>6, <2>2, <3>1
  <2>7. CASE code[k].op = "SHIFT_RIGHT"
    <3>1. s = <<a, b, c, d, e, g, h>>
      BY <1>2, <2>1, <2>7 DEF IsSum, idle
    <3> QED
      BY <1>6, <2>2, <3>1
  <2>8. CASE code[k].op = "MIN"
    <3>1. s = <<a, u, h>>
      BY <1>2, <2>1, <2>3, <2>8 DEF IsSum
    <3> QED
      BY <1>6, <2>2, <2>4, <3>1
  <2>9. CASE code[k].op = "NEG"
    <3>1. s = <<a, v, w, h>>
      BY <1>2, <2>1, <2>3, <2>9 DEF IsSum
    <3> QED
      BY <1>6, <2>2, <2>4, <3>1
  <2> QED
    BY <1>7, <2>5, <2>6, <2>7, <2>8, <2>9
<1>8. CASE code[k].op \in OneStep \cup Division \cup Compares
  <2>1. PICK a, b, c, d : /\ a = Mov(x, rax) /\ b = Asm(Mnemonic(code[k].op), y, rax)
                          /\ c = Mov(rax, z) /\ d = idle
    OBVIOUS
  <2>2. PICK e, g, h, l : /\ e = Asm("idiv", y, Nil) /\ g = Asm("cmp", y, rax)
                          /\ h = Asm(Setter(code[k].op), rax, Nil)
                          /\ l = Mov(IF code[k].op = "DIV" THEN rax ELSE Reg("rdx"), z)
    OBVIOUS
  <2>3. NoMark(a) /\ NoMark(c) /\ NoMark(d) /\ NoMark(e) /\ NoMark(g) /\ NoMark(l)
    BY <1>3, <1>4, <1>5, <2>1, <2>2 DEF Landmarks
  <2>4. CASE code[k].op \in OneStep
    <3>1. Mnemonic(code[k].op) \notin Landmarks
      BY <2>4 DEF OneStep, Mnemonic, Landmarks
    <3>2. s = <<a, b, c>>
      BY <1>2, <2>1, <2>4 DEF IsSum
    <3>3. NoMark(b)
      BY <1>4, <2>1, <3>1
    <3> QED
      BY <1>6, <2>3, <3>2, <3>3
  <2>5. CASE code[k].op \in Division
    <3>1. s = <<a, d, e, l>>
      BY <1>2, <2>1, <2>2, <2>5 DEF IsSum, idle
    <3> QED
      BY <1>6, <2>3, <3>1
  <2>6. CASE code[k].op \in Compares
    <3>1. Setter(code[k].op) \notin Landmarks
      BY <2>6 DEF Compares, Relational, Setter, Landmarks
    <3>2. s = <<a, g, h, c>>
      BY <1>2, <2>1, <2>2, <2>6 DEF IsSum
    <3>3. NoMark(h)
      BY <1>4, <2>2, <3>1
    <3> QED
      BY <1>6, <2>3, <3>2, <3>3
  <2> QED
    BY <1>8, <2>4, <2>5, <2>6
<1>9. CASE code[k].op \in {"RET", "JMP", "JMPF", "PARAM", "CALL"} \cup Silent
  <2>1. PICK a, b, c, d :
          /\ a = Mov(x, rax) /\ b = Asm("jmp_leave", Sym(f), Nil)
          /\ c = Asm("jmp", Sym(code[k].var1.id), Nil) /\ d = Asm("cmp", Imm(0), rax)
    OBVIOUS
  <2>2. PICK e, g, h :
          /\ e = Asm("jz", Sym(code[k].reg.id), Nil) /\ g = Mov(x, Reg(arg_regs[p + 1]))
          /\ h = Asm("push", x, Nil)
    OBVIOUS
  <2>3. PICK u, v, w : /\ u = Asm("call", Sym(code[k].var1.id), Nil) /\ v = Mov(rax, z)
                       /\ w = Asm("add", Imm(p - 6), Reg("rsp"))
    OBVIOUS
  <2>4. NoMark(a) /\ NoMark(b) /\ NoMark(c) /\ NoMark(d)
    BY <1>3, <1>4, <2>1 DEF Landmarks
  <2>5. NoMark(e) /\ NoMark(g) /\ NoMark(h) /\ NoMark(u) /\ NoMark(v) /\ NoMark(w)
    BY <1>3, <1>4, <2>2, <2>3 DEF Landmarks
  <2>6. CASE code[k].op = "RET"
    <3>1. s = <<a, b>> \/ s = <<b>>
      BY <1>2, <2>1, <2>6 DEF IsTurn
    <3> QED
      BY <1>6, <2>4, <3>1
  <2>7. CASE code[k].op = "JMP"
    <3>1. s = <<c>>
      BY <1>2, <2>1, <2>7 DEF IsTurn
    <3> QED
      BY <1>6, <2>4, <3>1
  <2>8. CASE code[k].op = "JMPF"
    <3>1. s = <<a, d, e>>
      BY <1>2, <2>1, <2>2, <2>8 DEF IsTurn
    <3> QED
      BY <1>6, <2>4, <2>5, <3>1
  <2>9. CASE code[k].op = "PARAM"
    <3>1. s = <<g>> \/ s = <<h>>
      BY <1>2, <2>2, <2>9 DEF IsPassing
    <3> QED
      BY <1>12, <2>5, <3>1
  <2>10. CASE code[k].op = "CALL"
    <3>1. s = <<u, v, w>> \/ s = <<u, v>>
      BY <1>2, <2>3, <2>10 DEF IsPassing
    <3> QED
      BY <1>12, <2>5, <3>1
  <2>11. CASE code[k].op \in Silent
    <3>1. s = <<>>
      BY <1>2, <2>11 DEF IsPassing
    <3> QED
      BY <1>6, <2>4, <3>1
  <2> QED
    BY <1>9, <2>6, <2>7, <2>8, <2>9, <2>10, <2>11
<1>10. CASE code[k].op \in {"LEAVE", "LABEL"}
  <2>1. PICK a, b, c, d, e :
          /\ a = Asm("leave", Sym(code[k].var1.id), Nil) /\ b = Mov(Reg("rbp"), Reg("rsp"))
          /\ c = Asm("pop", Reg("rbp"), Nil) /\ d = Asm("ret", Nil, Nil)
          /\ e = Asm("label", Sym(code[k].var1.id), Nil)
    OBVIOUS
  <2>2. NoMark(b) /\ NoMark(c) /\ NoMark(d)
    BY <1>3, <1>4, <2>1 DEF Landmarks
  <2>3. CASE code[k].op = "LEAVE"
    <3>1. s = <<a, b, c, d>>
      BY <1>2, <2>1, <2>3 DEF IsTurn
    <3>2. \A q \in 1..Len(s) : s[q].op \in Landmarks => q = 1 /\ s[q] = a
      BY <2>2, <3>1 DEF NoMark
    <3>3. a.op = "leave" /\ a.a = Sym(code[k].var1.id)
      BY <2>1, AsmFields
    <3> QED
      BY <2>3, <3>2, <3>3 DEF Marked, Origin
  <2>4. CASE code[k].op = "LABEL"
    <3>1. s = <<e>>
      BY <1>2, <2>1, <2>4 DEF IsTurn
    <3>2. \A q \in 1..Len(s) : s[q].op \in Landmarks => q = 1 /\ s[q] = e
      BY <2>2, <3>1, Headed
    <3>3. e.op = "label" /\ e.a = Sym(code[k].var1.id)
      BY <2>1, AsmFields
    <3> QED
      BY <2>4, <3>2, <3>3 DEF Marked, Origin
  <2> QED
    BY <1>10, <2>3, <2>4
<1>11. CASE code[k].op = "ENTER"
  <2>1. PICK n \in Nat : n = p
    BY <1>1, <1>11, CodeFacts DEF Parameters
  <2>2. PICK l : l = code[k].var1.id
    OBVIOUS
  <2>3. s = Entry(l, size) \o ArgCopies(n)
    BY <1>2, <1>11, <2>1, <2>2 DEF IsPassing
  <2>4. PICK h, r : h = Prelude(size) /\ r = InRegs(n)
    OBVIOUS
  <2>8. IsEntry(s, l, size, n, h, r)
    BY <2>3, <2>4, EntryText
  <2>5. /\ Len(s) = h + (r + 2 * (n - r))
        /\ s[1] = Asm("entry", Sym(l), Nil) /\ s[2] = Asm("push", Reg("rbp"), Nil)
        /\ s[3] = Mov(Reg("rsp"), Reg("rbp"))
        /\ size > 0 => s[4] = Asm("sub", Imm(size), Reg("rsp"))
        /\ \A j \in 1..r : s[h + j] = Mov(Reg(arg_regs[j]), Slot(-j))
        /\ \A t \in 1..(n - r) : /\ s[h + (r + (2 * t - 1))] = Mov(Slot(1 + t), rax)
                                 /\ s[h + (r + 2 * t)] = Mov(rax, Slot(-(6 + t)))
    BY <2>8 DEF IsEntry
  <2>6. ASSUME NEW q \in 1..Len(s), s[q].op \in Landmarks PROVE q = 1
    <3>1. \/ q \in 1..3 \/ (q = 4 /\ size > 0)
          \/ \E j \in 1..r : q = h + j
          \/ \E t \in 1..(n - r) : q = h + (r + (2 * t - 1)) \/ q = h + (r + 2 * t)
      BY <2>4, <2>5, EntryLines, SMTT(30)
    <3>2. NoMark(s[2]) /\ NoMark(s[3]) /\ (size > 0 => NoMark(s[4]))
      BY <1>3, <1>4, <2>5 DEF Landmarks
    <3>3. /\ \A j \in 1..r : NoMark(s[h + j])
          /\ \A t \in 1..(n - r) : /\ NoMark(s[h + (r + (2 * t - 1))])
                                   /\ NoMark(s[h + (r + 2 * t)])
      BY <1>3, <2>5
    <3>4. q \in 1..3 => q = 1 \/ q = 2 \/ q = 3
      OBVIOUS
    <3> QED
      BY <2>6, <3>1, <3>2, <3>3, <3>4 DEF NoMark
  <2>7. s[1].op = "entry" /\ s[1].a = Sym(l)
    BY <2>5, AsmFields
  <2> QED
    BY <1>11, <2>2, <2>6, <2>7 DEF Marked, Origin
<1> QED
  BY <1>7, <1>8, <1>9, <1>10, <1>11 DEF Ops

\* The text of an instruction whose names have slots stays when others are given out.
LEMMA TextGrows ==
  ASSUME NEW k, NEW f, NEW m, NEW n, NEW size, NEW s,
         IsText(k, f, m, size, s), Known(k, m), Grown(m, n)
  PROVE  IsText(k, f, n, size, s) /\ Known(k, n)
<1>1. Known(k, n)
  BY DEF Known, Grown
<1>2. ASSUME NEW o, HasSlot(o) => Key(o) \in DOMAIN m.map PROVE Str(n, o) = Str(m, o)
  BY <1>2 DEF Str, Grown
<1>3. PICK a, b, c : /\ a = code[k].var1 /\ b = code[k].var2 /\ c = code[k].reg
                     /\ Operands(k)[1] = a /\ Operands(k)[2] = b /\ Operands(k)[3] = c
  BY DEF Operands
<1>4. CASE code[k].op \notin {"ENTER", "LEAVE", "CALL"} \cup Silent
  <2>1. LookedUp(k) = 1..3
    BY <1>4 DEF LookedUp
  <2>2. Str(n, a) = Str(m, a) /\ Str(n, b) = Str(m, b) /\ Str(n, c) = Str(m, c)
    BY <1>2, <1>3, <2>1 DEF Known
  <2> QED
    BY <1>1, <1>3, <2>2 DEF IsText
<1>5. CASE code[k].op = "CALL"
  <2>1. 3 \in LookedUp(k)
    BY <1>5 DEF LookedUp, Silent
  <2>2. Str(n, c) = Str(m, c)
    BY <1>2, <1>3, <2>1 DEF Known
  <2>3. \A x, y, z : IsSum(code[k], x, y, z, s)
    BY <1>5 DEF IsSum, OneStep, Division, Compares, Relational
  <2>4. \A x, z : IsTurn(code[k], f, x, z, s)
    BY <1>5 DEF IsTurn
  <2>5. ASSUME NEW x, NEW y, NEW z, IsPassing(code[k], Parameters(k), size, x, z, s)
        PROVE  IsPassing(code[k], Parameters(k), size, y, z, s)
    BY <1>5, <2>5 DEF IsPassing, Silent
  <2> QED
    BY <1>1, <1>3, <2>2, <2>3, <2>4, <2>5 DEF IsText
<1>6. CASE code[k].op \in {"ENTER", "LEAVE"} \cup Silent
  <2>1. \A x, y, z : IsSum(code[k], x, y, z, s)
    BY <1>6 DEF IsSum, OneStep, Division, Compares, Relational, Silent
  <2>2. ASSUME NEW u, NEW v, NEW x, NEW z, IsTurn(code[k], f, x, z, s)
        PROVE  IsTurn(code[k], f, u, v, s)
    BY <1>6, <2>2 DEF IsTurn, Silent
  <2>3. ASSUME NEW u, NEW v, NEW x, NEW z, IsPassing(code[k], Parameters(k), size, x, z, s)
        PROVE  IsPassing(code[k], Parameters(k), size, u, v, s)
    BY <1>6, <2>3 DEF IsPassing, Silent
  <2>4. PICK x, z : IsTurn(code[k], f, x, z, s) /\ IsPassing(code[k], Parameters(k), size, x, z, s)
    BY DEF IsText
  <2> QED
    BY <1>1, <2>1, <2>2, <2>3, <2>4 DEF IsText
<1> QED
  BY <1>4, <1>5, <1>6

\* Only RET and ENTER depend on the method and on its frame.
LEMMA TextOf ==
  ASSUME NEW k, NEW f, NEW e, NEW m, NEW size, NEW room, NEW s, IsText(k, f, m, size, s),
         code[k].op = "RET" => e = f, code[k].op = "ENTER" => room = size
  PROVE  IsText(k, e, m, room, s)
<1>1. PICK x, y, z, p :
        /\ x = Str(m, code[k].var1) /\ y = Str(m, code[k].var2) /\ z = Str(m, code[k].reg)
        /\ p = Parameters(k)
  OBVIOUS
<1>2. /\ IsSum(code[k], x, y, z, s) /\ IsTurn(code[k], f, x, z, s)
      /\ IsPassing(code[k], p, size, x, z, s)
  BY <1>1 DEF IsText
<1>3. IsTurn(code[k], e, x, z, s)
  <2>1. CASE code[k].op = "RET"
    BY <1>2, <2>1
  <2>2. CASE code[k].op # "RET"
    BY <1>2, <2>2 DEF IsTurn
  <2> QED
    BY <2>1, <2>2
<1>4. IsPassing(code[k], p, room, x, z, s)
  <2>1. CASE code[k].op = "ENTER"
    BY <1>2, <2>1
  <2>2. CASE code[k].op # "ENTER"
    BY <1>2, <2>2 DEF IsPassing
  <2> QED
    BY <2>1, <2>2
<1> QED
  BY <1>1, <1>2, <1>3, <1>4 DEF IsText


-----------------------------------------------------------------------------
(* The count of the arguments.                                             *)

\* The arguments counted are those passed since the last call, and frames are even.
LEMMA TallyStep ==
  ASSUME PlaceInv, SlotInv, TallyInv, UNCHANGED program, generate_object_code
  PROVE  TallyInv'
<1>1. PICK m, s : Appends(m, s) /\ IsSeq(s)
  BY GeneratorText DEF EmitsText
<1>2. /\ i' = i + 1 /\ i \in 1..Len(code) /\ code' = code /\ Len(code) \in Nat
      /\ DOMAIN code = 1..Len(code)
  <2>1. i \in 1..Len(code) /\ Len(code) \in Nat
    BY <1>1, AppendsPlace
  <2>2. code' = code
    BY Static
  <2> QED
    BY <1>1, <2>1, <2>2, CodeFacts DEF Appends, PlaceInv
<1>3. PICK k \in Nat, n \in Nat : k = i /\ n = param_count /\ Passed(code, k, n) /\ k >= 1
  BY <1>2 DEF TallyInv, Passed
<1>4. PlainStep \/ EnterStep \/ LeaveStep \/ RetStep \/ ParamStep \/ CallStep
  BY GeneratorSteps
<1>5. ASSUME code[k].op # "PARAM" PROVE Passed(code, k + 1, 0)
  <2>1. (k + 1) - 0 - 1 = k /\ ~(\E j \in ((k + 1) - 0)..((k + 1) - 1) : TRUE) /\ 0 \in 0..((k + 1) - 1)
    BY <1>3
  <2> QED
    BY <1>5, <2>1 DEF Passed
<1>6. Passed(code, i, param_count)' /\ (stack_params = Extra(param_count))'
  <2>1. CASE code[i].op \notin {"PARAM", "CALL"}
    <3>1. param_count = 0
      BY <1>2, <2>1, NoneCounted
    <3>2. param_count' = param_count /\ stack_params' = stack_params
      BY <1>4, <2>1 DEF PlainStep, EnterStep, LeaveStep, RetStep, ParamStep, CallStep, Keeps
    <3>3. Passed(code, k + 1, 0)
      BY <1>3, <1>5, <2>1
    <3> QED
      BY <1>2, <1>3, <3>1, <3>2, <3>3 DEF TallyInv, Extra
  <2>2. CASE code[i].op = "CALL"
    <3>1. param_count' = 0 /\ stack_params' = 0
      BY <1>4, <2>2 DEF PlainStep, Special, EnterStep, LeaveStep, RetStep, ParamStep, CallStep
    <3>2. Passed(code, k + 1, 0)
      BY <1>3, <1>5, <2>2
    <3> QED
      BY <1>2, <1>3, <3>1, <3>2 DEF Extra
  <2>3. CASE code[i].op = "PARAM"
    <3>1. /\ stack_params' = IF param_count < 6 THEN stack_params ELSE stack_params + 1
          /\ param_count' = param_count + 1
      BY <1>4, <2>3 DEF PlainStep, Special, EnterStep, LeaveStep, RetStep, ParamStep, CallStep
    <3>2. Passed(code, k + 1, n + 1)
      <4>1. n + 1 \in 0..((k + 1) - 1) /\ (k + 1) - (n + 1) = k - n
        BY <1>3 DEF Passed
      <4>2. ASSUME NEW j \in (k - n)..((k + 1) - 1) PROVE code[j].op = "PARAM"
        <5>1. j = k \/ j \in (k - n)..(k - 1)
          BY <1>3
        <5> QED
          BY <1>3, <2>3, <5>1 DEF Passed
      <4>3. k - n > 1 => code[k - n - 1].op # "PARAM"
        BY <1>3 DEF Passed
      <4> QED
        BY <4>1, <4>2, <4>3 DEF Passed
    <3>3. stack_params = Extra(n)
      BY <1>3 DEF TallyInv
    <3>4. stack_params' = Extra(n + 1)
      BY <1>3, <3>1, <3>3 DEF Extra
    <3> QED
      BY <1>2, <1>3, <3>1, <3>2, <3>4
  <2> QED
    BY <2>1, <2>2, <2>3
<1>7. \A f \in DOMAIN slots' : slots'[f].frame % 2 = 0 /\ Below(slots'[f].map)
  <2>1. CASE EnterStep
    <3>1. PICK f, r : /\ f = code[i].var1.id /\ r = [map |-> <<>>, frame |-> total_stack_size]
                      /\ slots' = With(slots, f, r) /\ code[i].op = "ENTER"
      BY <2>1 DEF EnterStep
    <3>2. r.frame % 2 = 0
      <4>1. Cardinality(FrameNames(i)) \in Nat
        BY <1>2, <3>1, FrameFinite DEF PlaceInv
      <4>2. PICK c \in Nat : c = Cardinality(FrameNames(i))
        BY <4>1
      <4>3. (IF c % 2 = 0 THEN c ELSE c + 1) % 2 = 0
        OBVIOUS
      <4>4. total_stack_size = IF c % 2 = 0 THEN c ELSE c + 1
        BY <4>2 DEF total_stack_size
      <4>5. r.frame = total_stack_size
        BY <3>1
      <4> QED
        BY <4>3, <4>4, <4>5
    <3>5. Below(r.map)
      BY <3>1 DEF Below
    <3> HIDE DEF TallyInv
    <3>3. \A g \in DOMAIN slots : slots[g].frame % 2 = 0 /\ Below(slots[g].map)
      BY DEF TallyInv
    <3>4. \A g \in DOMAIN slots' : slots'[g] = r \/ (g \in DOMAIN slots /\ slots'[g] = slots[g])
      BY <3>1 DEF With
    <3> QED
      BY <3>2, <3>3, <3>4, <3>5
  <2>2. CASE LeaveStep
    <3>1. PICK f : slots' = [slots EXCEPT ![f].map = var_map]
      BY <2>2 DEF LeaveStep
    <3>2. \A g \in DOMAIN slots :
            IsSlotRecord(slots[g]) /\ slots[g].frame % 2 = 0 /\ Below(slots[g].map)
      BY DEF SlotInv, TallyInv
    <3>3. \A g \in DOMAIN slots' :
            /\ g \in DOMAIN slots /\ slots'[g].frame = slots[g].frame
            /\ slots'[g].map = slots[g].map \/ slots'[g].map = var_map
      BY <3>1, <3>2 DEF IsSlotRecord
    <3>4. Below(var_map)
      BY DEF SlotInv, MapOK, Here, Below
    <3> QED
      BY <3>2, <3>3, <3>4
  <2>3. CASE ~EnterStep /\ ~LeaveStep
    <3>1. UNCHANGED slots
      BY <1>4, <2>3 DEF PlainStep, Keeps, RetStep, ParamStep, CallStep
    <3> QED
      BY <3>1 DEF TallyInv
  <2> QED
    BY <2>1, <2>2, <2>3
<1> QED
  BY <1>6, <1>7 DEF TallyInv

-----------------------------------------------------------------------------
(* The slots of a method.                                                  *)

\* the slots of methods behind are kept, those of the open method grow
SlotsKept ==
  \A e \in 1..(i - 1) :
    code[e].op = "ENTER" =>
      /\ Grown(SlotsOf(e), [map |-> SlotsOf(e).map'])
      /\ FrameOf(e)' = FrameOf(e)

\* What the methods have so far they keep.
LEMMA SlotsStay ==
  ASSUME PlaceInv, SlotInv, TallyInv, UNCHANGED program, generate_object_code
  PROVE  SlotsKept
<1>1. PICK m, s : /\ Appends(m, s) /\ IsSeq(s)
                  /\ code[i].op \notin {"ENTER", "LEAVE"} => Grown(Here, m)
  BY GeneratorText DEF EmitsText
<1>2. /\ i' = i + 1 /\ i \in 1..Len(code) /\ code' = code /\ var_map' = m.map
      /\ Len(code) \in Nat /\ DOMAIN code = 1..Len(code) /\ MethodShape(code)
  <2>1. i \in 1..Len(code) /\ Len(code) \in Nat
    BY <1>1, AppendsPlace
  <2>2. code' = code
    BY Static
  <2> QED
    BY <1>1, <2>1, <2>2, CodeFacts DEF Appends, PlaceInv
<1>3. PlainStep \/ EnterStep \/ LeaveStep \/ RetStep \/ ParamStep \/ CallStep
  BY GeneratorSteps
<1>4. SUFFICES ASSUME NEW e \in 1..(i - 1), code[e].op = "ENTER"
               PROVE  /\ Grown(SlotsOf(e), [map |-> SlotsOf(e).map'])
                      /\ FrameOf(e)' = FrameOf(e)
  BY DEF SlotsKept
<1>5. PICK f, k : f = code[e].var1.id /\ k = i /\ e \in Nat /\ k \in Nat
  BY <1>2
<1>6. f \in DOMAIN slots /\ IsSlotRecord(slots[f])
  BY <1>4, <1>5 DEF SlotInv
<1>7. /\ SlotsOf(e).map = IF Within(code, e, k) THEN var_map ELSE slots[f].map
      /\ SlotsOf(e).map' = IF Within(code, e, k + 1) THEN var_map' ELSE slots'[f].map
      /\ FrameOf(e) = slots[f].frame /\ FrameOf(e)' = slots'[f].frame
  BY <1>2, <1>5 DEF SlotsOf, FrameOf
<1>8. PICK a, b : a = SlotsOf(e) /\ b = SlotsOf(e).map'
  OBVIOUS
<1>12. \A p, q \in 1..Len(code) :
         code[p].op = "ENTER" /\ code[q].op = "ENTER" /\ code[p].var1.id = code[q].var1.id => p = q
  BY <1>2 DEF MethodShape
<1>13. e \in 1..Len(code) /\ k \in 1..Len(code) /\ e # k
  BY <1>2, <1>5
<1>9. CASE code[k].op \notin {"ENTER", "LEAVE"}
  <2>1. UNCHANGED slots
    BY <1>3, <1>5, <1>9 DEF PlainStep, EnterStep, LeaveStep, RetStep, ParamStep, CallStep, Keeps
  <2>2. Within(code, e, k + 1) <=> Within(code, e, k)
    BY <1>5, <1>9, WithinStep
  <2>3. CASE Within(code, e, k)
    <3>1. a.map = var_map /\ b = m.map
      BY <1>2, <1>7, <1>8, <2>2, <2>3
    <3>2. Grown(Here, m)
      BY <1>1, <1>5, <1>9
    <3>3. Grown(a, [map |-> b])
      BY <3>1, <3>2 DEF Grown, Here
    <3> QED
      BY <1>7, <1>8, <2>1, <3>3
  <2>4. CASE ~Within(code, e, k)
    <3>1. a.map = b
      BY <1>7, <1>8, <2>1, <2>2, <2>4
    <3>2. Grown(a, [map |-> b])
      BY <3>1 DEF Grown
    <3> QED
      BY <1>7, <1>8, <2>1, <3>2
  <2> QED
    BY <2>3, <2>4
<1>10. CASE code[k].op = "ENTER"
  <2>1. ~Within(code, e, k)
    BY <1>2, <1>5, <1>10, NotNested DEF PlaceInv
  <2>2. ~Within(code, e, k + 1)
    <3>1. k \in (e + 1)..((k + 1) - 1)
      BY <1>4, <1>5
    <3> QED
      BY <1>10, <3>1 DEF Within
  <2>3. PICK g, r : slots' = With(slots, g, r) /\ g = code[k].var1.id
    BY <1>3, <1>5, <1>10 DEF PlainStep, Special, EnterStep, LeaveStep, RetStep, ParamStep, CallStep
  <2>4. g # f
    BY <1>4, <1>5, <1>10, <1>12, <1>13, <2>3
  <2>5. slots'[f] = slots[f]
    BY <1>6, <2>3, <2>4 DEF With
  <2>6. a.map = b
    BY <1>7, <1>8, <2>1, <2>2, <2>5
  <2>7. Grown(a, [map |-> b])
    BY <2>6 DEF Grown
  <2> QED
    BY <1>7, <1>8, <2>5, <2>7
<1>11. CASE code[k].op = "LEAVE"
  <2>1. PICK g : slots' = [slots EXCEPT ![g].map = var_map] /\ g = code[k].var1.id
    BY <1>3, <1>5, <1>11 DEF PlainStep, Special, EnterStep, LeaveStep, RetStep, ParamStep, CallStep
  <2>2. ~Within(code, e, k + 1)
    <3>1. k \in (e + 1)..((k + 1) - 1)
      BY <1>4, <1>5
    <3> QED
      BY <1>11, <3>1 DEF Within
  <2>3. f # g => slots'[f] = slots[f]
    BY <1>6, <2>1
  <2>4. f = g => slots'[f].map = var_map /\ slots'[f].frame = slots[f].frame
    BY <1>6, <2>1 DEF IsSlotRecord
  <2>5. f = g <=> Within(code, e, k)
    <3>1. PICK d \in 1..Len(code) : code[d].op = "ENTER" /\ Encloses(code, d, k)
      BY <1>2, <1>5, <1>11 DEF MethodShape
    <3>2. Within(code, d, k) /\ code[d].var1.id = g
      BY <2>1, <3>1 DEF Encloses
    <3>3. f = g => e = d
      BY <1>4, <1>5, <1>12, <1>13, <3>1, <3>2
    <3>4. Within(code, e, k) => e = d
      BY <1>2, <1>5, <3>1, <3>2, OneOpen
    <3> QED
      BY <1>5, <3>2, <3>3, <3>4
  <2>6. a.map = b /\ FrameOf(e)' = FrameOf(e)
    BY <1>7, <1>8, <2>2, <2>3, <2>4, <2>5
  <2>7. Grown(a, [map |-> b])
    BY <2>6 DEF Grown
  <2> QED
    BY <1>8, <2>6, <2>7
<1> QED
  BY <1>9, <1>10, <1>11


-----------------------------------------------------------------------------
(* The layout of the code.                                                 *)

\* B[k] is the place in asm where the code of instruction k begins
Begins(B) ==
  /\ B \in [1..i -> Nat \ {0}] /\ B[1] = 1 /\ B[i] = Len(asm) + 1
  /\ \A k, l \in 1..i : k <= l => B[k] <= B[l]
  /\ \A k, l \in 1..i : k <= l /\ (\A j \in k..(l - 1) : code[j].op \in Silent) => B[k] = B[l]

\* asm[j] is among the code of its instruction, and a landmark begins this code
Originates(B, j) ==
  LET k == asm[j].of IN
  /\ k \in 1..(i - 1) /\ B[k] <= j /\ j < B[k + 1] /\ (asm[j].first <=> j = B[k])
  /\ asm[j].op \in Landmarks =>
       j = B[k] /\ code[k].op = Origin(asm[j].op) /\ asm[j].a = Sym(code[k].var1.id)

\* the code of instruction k of the method entered at e is its text
Laid(B, e, k) ==
  /\ Known(k, SlotsOf(e)) /\ code[k].op \in Ops
  /\ \E s : /\ IsText(k, FirstCharacters(code[e].var1.id), SlotsOf(e), FrameOf(e), s)
            /\ IsSeq(s) /\ Lines(B[k], B[k + 1], s)

\* argument j is at word -j of its frame
ArgumentSlots(e) ==
  LET ps == Params(code[e].var1.id)
  IN  \A j \in 1..Len(ps) : ps[j] \in DOMAIN SlotsOf(e).map /\ SlotsOf(e).map[ps[j]] = -j

ArgumentsLaid == \A e \in 1..(i - 1) : code[e].op = "ENTER" => ArgumentSlots(e)

Layout(B) ==
  /\ Begins(B)
  /\ \A j \in 1..Len(asm) : Originates(B, j)
  /\ \A e, k \in 1..(i - 1) : In(e, k) => Laid(B, e, k)
  /\ ArgumentsLaid

LayoutInv == TallyInv /\ \E B : Layout(B)

\* The beginnings of one more instruction.
LEMMA BeginsStep ==
  ASSUME PlaceInv, NEW m, NEW s, Appends(m, s), IsSeq(s), code[i].op \in Silent => s = <<>>,
         NEW B, Begins(B), NEW C, C = [k \in 1..(i + 1) |-> IF k <= i THEN B[k] ELSE Len(asm') + 1]
  PROVE  Begins(C)'
<1>1. /\ i' = i + 1 /\ i \in 1..Len(code) /\ Len(code) \in Nat /\ code' = code
      /\ Len(asm) \in Nat /\ Len(s) \in Nat
  <2>1. code' = code
    BY Static DEF Appends
  <2> QED
    BY <2>1, AppendsPlace DEF Appends
<1>2. Len(asm') = Len(asm) + Len(s) /\ (code[i].op \in Silent => Len(s) = 0)
  BY DEF Appends, Emits
<1>3. PICK n, p, q : n = i /\ p = Len(asm) /\ q = Len(asm') /\ n \in Nat \ {0} /\ p \in Nat
                     /\ q \in Nat /\ p <= q
  BY <1>1, <1>2
<1>4. /\ B \in [1..n -> Nat \ {0}] /\ B[1] = 1 /\ B[n] = p + 1
      /\ \A k, l \in 1..n : k <= l => B[k] <= B[l]
      /\ \A k, l \in 1..n : k <= l /\ (\A j \in k..(l - 1) : code[j].op \in Silent) => B[k] = B[l]
  BY <1>3 DEF Begins
<1>5. C = [k \in 1..(n + 1) |-> IF k <= n THEN B[k] ELSE q + 1]
  BY <1>3
<1>6. \A k \in 1..n : C[k] = B[k] /\ k <= n /\ k \in 1..(n + 1)
  BY <1>3, <1>5
<1>7. C[n + 1] = q + 1 /\ n + 1 \in 1..(n + 1) /\ 1 \in 1..n /\ n \in 1..n
  BY <1>3, <1>5
<1>8. C \in [1..(n + 1) -> Nat \ {0}] /\ C[1] = 1
  BY <1>3, <1>4, <1>5, <1>6, <1>7
<1>9. ASSUME NEW k \in 1..(n + 1), NEW l \in 1..(n + 1), k <= l
      PROVE  /\ C[k] <= C[l]
             /\ (\A j \in k..(l - 1) : code[j].op \in Silent) => C[k] = C[l]
  <2>1. CASE l <= n
    <3>1. k \in 1..n /\ l \in 1..n
      BY <1>3, <1>9, <2>1
    <3> QED
      BY <1>4, <1>6, <1>9, <3>1
  <2>2. CASE k = n + 1
    <3>1. k = l
      BY <1>3, <1>9, <2>2
    <3>2. C[k] \in Nat
      BY <1>8
    <3> QED
      BY <3>1, <3>2
  <2>3. CASE l = n + 1 /\ k # n + 1
    <3>1. k \in 1..n /\ n \in 1..n /\ k <= n
      BY <1>3, <2>3
    <3>2. C[k] = B[k] /\ B[k] <= p + 1 /\ B[k] \in Nat
      BY <1>4, <1>6, <3>1
    <3>3. C[k] <= C[l]
      BY <1>3, <1>7, <2>3, <3>2
    <3>4. ASSUME \A j \in k..(l - 1) : code[j].op \in Silent PROVE C[k] = C[l]
      <4>1. n \in k..(l - 1) /\ (\A j \in k..(n - 1) : j \in k..(l - 1))
        BY <1>3, <2>3, <3>1
      <4>2. B[k] = B[n]
        BY <1>4, <3>1, <3>4, <4>1
      <4>3. q = p
        BY <1>1, <1>2, <1>3, <3>4, <4>1
      <4> QED
        BY <1>4, <1>7, <2>3, <3>2, <4>2, <4>3
    <3> QED
      BY <3>3, <3>4
  <2> QED
    BY <1>3, <1>9, <2>1, <2>2, <2>3
<1>10. Begins(C)' <=> /\ C \in [1..(n + 1) -> Nat \ {0}] /\ C[1] = 1 /\ C[n + 1] = q + 1
                      /\ \A k, l \in 1..(n + 1) : k <= l => C[k] <= C[l]
                      /\ \A k, l \in 1..(n + 1) :
                           k <= l /\ (\A j \in k..(l - 1) : code[j].op \in Silent) => C[k] = C[l]
  BY <1>1, <1>3 DEF Begins
<1> QED
  BY <1>7, <1>8, <1>9, <1>10

\* Each line knows its instruction.
LEMMA OriginatesStep ==
  ASSUME PlaceInv, NEW m, NEW s, Appends(m, s), IsSeq(s), Marked(i, s),
         NEW B, Begins(B), \A j \in 1..Len(asm) : Originates(B, j),
         NEW C, C = [k \in 1..(i + 1) |-> IF k <= i THEN B[k] ELSE Len(asm') + 1]
  PROVE  \A j \in 1..Len(asm') : Originates(C, j)'
<1>1. /\ i' = i + 1 /\ i \in 1..Len(code) /\ Len(code) \in Nat /\ code' = code
      /\ Len(asm) \in Nat /\ Len(s) \in Nat
  <2>1. code' = code
    BY Static DEF Appends
  <2> QED
    BY <2>1, AppendsPlace DEF Appends
<1>2. /\ Len(asm') = Len(asm) + Len(s)
      /\ \A k \in 1..Len(asm) : asm'[k] = asm[k]
      /\ \A k \in 1..Len(s) : /\ asm'[Len(asm) + k].op = s[k].op
                              /\ asm'[Len(asm) + k].a = s[k].a
                              /\ asm'[Len(asm) + k].of = i
                              /\ asm'[Len(asm) + k].first <=> k = 1
  BY DEF Appends, Emits
<1>3. PICK n, p, q, r : /\ n = i /\ p = Len(asm) /\ q = Len(asm') /\ n \in Nat \ {0} /\ p \in Nat
                        /\ r = Len(s) /\ r \in Nat /\ q = p + r
  <2>1. i \in Nat \ {0} /\ Len(asm') \in Nat /\ Len(asm') = Len(asm) + Len(s)
    BY <1>1, <1>2
  <2> QED
    BY <1>1, <2>1, Zenon
<1>4. B \in [1..n -> Nat \ {0}] /\ B[n] = p + 1
  BY <1>3 DEF Begins
<1>5. C[n + 1] = q + 1 /\ \A k \in 1..n : C[k] = B[k]
  BY <1>3
<1>6. SUFFICES ASSUME NEW j \in 1..q PROVE Originates(C, j)'
  BY <1>3
<1>7. PICK x, k : x = asm'[j] /\ k = x.of
  OBVIOUS
<1>8. Originates(C, j)' <=>
        /\ k \in 1..n /\ C[k] <= j /\ j < C[k + 1] /\ (x.first <=> j = C[k])
        /\ x.op \in Landmarks =>
             j = C[k] /\ code[k].op = Origin(x.op) /\ x.a = Sym(code[k].var1.id)
  <2>1. i' - 1 = n
    BY <1>1, <1>3
  <2> QED
    BY <1>1, <1>7, <2>1 DEF Originates
<1>9. CASE j <= p
  <2>1. j \in 1..p /\ x = asm[j]
    BY <1>2, <1>3, <1>7, <1>9
  <2>2. Originates(B, j)
    BY <1>3, <2>1
  <2>3. /\ k \in 1..(n - 1) /\ B[k] <= j /\ j < B[k + 1] /\ (x.first <=> j = B[k])
        /\ x.op \in Landmarks =>
             j = B[k] /\ code[k].op = Origin(x.op) /\ x.a = Sym(code[k].var1.id)
    BY <1>3, <1>7, <2>1, <2>2 DEF Originates
  <2>4. k \in 1..n /\ k + 1 \in 1..n
    BY <1>3, <2>3
  <2>5. C[k] = B[k] /\ C[k + 1] = B[k + 1]
    BY <1>5, <2>4
  <2> QED
    BY <1>8, <2>3, <2>4, <2>5
<1>10. CASE ~(j <= p)
  <2>1. PICK h \in 1..r : j = p + h
    <3>1. j - p \in 1..r /\ j = p + (j - p)
      BY <1>3, <1>10
    <3> QED
      BY <3>1
  <2>2. x.op = s[h].op /\ x.a = s[h].a /\ k = n /\ (x.first <=> h = 1)
    BY <1>2, <1>3, <1>7, <2>1
  <2>3. n \in 1..n /\ C[n] = p + 1
    BY <1>3, <1>4, <1>5
  <2>4. C[n] <= j /\ j < C[n + 1] /\ (h = 1 <=> j = C[n])
    BY <1>3, <1>5, <2>1, <2>3
  <2>5. x.op \in Landmarks => h = 1 /\ code[n].op = Origin(x.op) /\ x.a = Sym(code[n].var1.id)
    BY <1>3, <2>1, <2>2 DEF Marked
  <2> QED
    BY <1>8, <2>2, <2>3, <2>4, <2>5
<1> QED
  BY <1>9, <1>10

\* Texts do not depend on the state but for the program.
LEMMA TextStays ==
  ASSUME UNCHANGED program
  PROVE  \A k, f, m, size, s : (IsText(k, f, m, size, s)' <=> IsText(k, f, m, size, s))
                               /\ (Known(k, m)' <=> Known(k, m))
<1>1. code' = code /\ \A f : Params(f)' = Params(f)
  BY Static
<1>2. \A k : Parameters(k)' = Parameters(k)
  BY <1>1 DEF Parameters
<1>3. \A k : Operands(k)' = Operands(k) /\ LookedUp(k)' = LookedUp(k)
  BY <1>1 DEF Operands, LookedUp
<1>4. \A k, m : Known(k, m)' <=> Known(k, m)
  BY <1>3 DEF Known
<1> QED
  BY <1>1, <1>2, <1>4 DEF IsText

\* What is laid out stays, and the code of the next instruction is laid out.
LEMMA LaidStep ==
  ASSUME PlaceInv, SlotInv, TallyInv, UNCHANGED program, generate_object_code,
         NEW m, NEW s, Appends(m, s), IsSeq(s),
         IsText(i, current_func_name, m, total_stack_size, s),
         code[i].op \notin {"ENTER", "LEAVE"} => Known(i, m),
         NEW B, Begins(B), \A e, k \in 1..(i - 1) : In(e, k) => Laid(B, e, k),
         NEW C, C = [k \in 1..(i + 1) |-> IF k <= i THEN B[k] ELSE Len(asm') + 1]
  PROVE  \A e, k \in 1..i : In(e, k) => Laid(C, e, k)'
<1>1. /\ i' = i + 1 /\ i \in 1..Len(code) /\ Len(code) \in Nat /\ code' = code
      /\ Len(asm) \in Nat /\ Len(s) \in Nat
  <2>1. code' = code
    BY Static
  <2> QED
    BY <2>1, AppendsPlace DEF Appends
<1>2. /\ Len(asm') = Len(asm) + Len(s)
      /\ \A k \in 1..Len(asm) : asm'[k] = asm[k]
      /\ \A k \in 1..Len(s) : /\ asm'[Len(asm) + k].op = s[k].op
                              /\ asm'[Len(asm) + k].a = s[k].a
                              /\ asm'[Len(asm) + k].b = s[k].b
  BY DEF Appends, Emits
<1>3. PICK n, p, q, r : /\ n = i /\ p = Len(asm) /\ q = Len(asm') /\ n \in Nat \ {0} /\ p \in Nat
                        /\ r = Len(s) /\ r \in Nat /\ q = p + r
  <2>1. i \in Nat \ {0} /\ Len(asm') \in Nat /\ Len(asm') = Len(asm) + Len(s)
    BY <1>1, <1>2
  <2> QED
    BY <1>1, <2>1, Zenon
<1>4. /\ B \in [1..n -> Nat \ {0}] /\ B[n] = p + 1
      /\ \A k, l \in 1..n : k <= l => B[k] <= B[l]
  BY <1>3 DEF Begins
<1>5. C[n + 1] = q + 1 /\ \A k \in 1..n : C[k] = B[k]
  BY <1>3
<1>6. SUFFICES ASSUME NEW e \in 1..n, NEW k \in 1..n, In(e, k) PROVE Laid(C, e, k)'
  BY <1>3
<1>7. PICK f, mm, size, label : /\ f = code[e].var1.id /\ mm = SlotsOf(e).map' /\ size = FrameOf(e)'
                                /\ label = FirstCharacters(f)
  OBVIOUS
<1>8. ASSUME NEW t, NEW g, IsText(k, label, [map |-> g], size, t), Known(k, [map |-> g]), g = mm,
             IsSeq(t), code[k].op \in Ops, Lines(C[k], C[k + 1], t)'
      PROVE  Laid(C, e, k)'
  <2>1. IsText(k, label, [map |-> g], size, t)' /\ Known(k, [map |-> g])'
    BY <1>8, TextStays
  <2>2. SlotsOf(e)' = [map |-> g]
    BY <1>7, <1>8 DEF SlotsOf
  <2>3. FirstCharacters(code[e].var1.id)' = label
    BY <1>1, <1>7
  <2>4. FrameOf(e)' = size
    BY <1>7
  <2>5. (code[k].op)' = code[k].op
    BY <1>1
  <2> QED
    BY <1>8, <2>1, <2>2, <2>3, <2>4, <2>5 DEF Laid
<1>9. CASE k # n
  <2>1. k \in 1..(n - 1) /\ e \in 1..(n - 1) /\ k + 1 \in 1..n /\ code[e].op = "ENTER"
    BY <1>3, <1>6, <1>9 DEF In, Within
  <2>2. Laid(B, e, k)
    BY <1>3, <1>6, <2>1
  <2>3. PICK t, a, room : /\ a = SlotsOf(e) /\ room = FrameOf(e) /\ IsText(k, label, a, room, t)
                          /\ Known(k, a) /\ IsSeq(t) /\ Lines(B[k], B[k + 1], t)
                          /\ code[k].op \in Ops
    BY <1>7, <2>2 DEF Laid
  <2>4. Grown(a, [map |-> mm]) /\ room = size
    <3>1. SlotsKept
      BY SlotsStay
    <3> QED
      BY <1>3, <1>7, <2>1, <2>3, <3>1 DEF SlotsKept
  <2>5. IsText(k, label, [map |-> mm], size, t) /\ Known(k, [map |-> mm])
    BY <2>3, <2>4, TextGrows
  <2>6. C[k] = B[k] /\ C[k + 1] = B[k + 1] /\ B[k] \in Nat \ {0} /\ B[k + 1] <= p + 1
    <3>1. k \in 1..n /\ n \in 1..n /\ k + 1 <= n
      BY <1>3, <2>1
    <3> QED
      BY <1>4, <1>5, <2>1, <3>1
  <2>7. Lines(C[k], C[k + 1], t)'
    <3>1. B[k + 1] = B[k] + Len(t) /\ \A h \in 1..Len(t) : IsAt(B[k] + (h - 1), t[h])
      BY <2>3 DEF Lines
    <3>2. \A h \in 1..Len(t) : B[k] + (h - 1) \in 1..p
      <4>1. PICK b \in Nat \ {0}, l \in Nat : b = B[k] /\ l = Len(t) /\ b + l <= p + 1
        <5>1. Len(t) \in Nat
          BY <2>3, SeqFacts
        <5> QED
          BY <2>6, <3>1, <5>1
      <4>2. \A x \in Nat \ {0}, y, z \in Nat : x + y <= z + 1 => \A h \in 1..y : x + (h - 1) \in 1..z
        OBVIOUS
      <4>3. \A h \in 1..l : b + (h - 1) \in 1..p
        BY <1>3, <4>1, <4>2
      <4> QED
        BY <4>1, <4>3
    <3>3. ASSUME NEW h \in 1..Len(t) PROVE IsAt(B[k] + (h - 1), t[h])'
      <4>1. PICK j \in 1..p : j = B[k] + (h - 1)
        BY <3>2
      <4>2. IsAt(j, t[h]) /\ asm'[j] = asm[j]
        BY <1>2, <1>3, <3>1, <4>1
      <4> QED
        BY <4>1, <4>2 DEF IsAt
    <3> QED
      BY <2>6, <3>1, <3>3 DEF Lines
  <2> QED
    BY <1>8, <2>3, <2>5, <2>7
<1>10. CASE k = n
  <2>1. C[k] = p + 1 /\ C[k + 1] = (p + 1) + r
    <3>1. n \in 1..n
      BY <1>3
    <3> QED
      BY <1>3, <1>4, <1>5, <1>10, <3>1
  <2>2. Lines(C[k], C[k + 1], s)'
    <3>1. ASSUME NEW h \in 1..r PROVE IsAt((p + 1) + (h - 1), s[h])'
      <4>1. (p + 1) + (h - 1) = p + h
        BY <1>3
      <4> QED
        BY <1>2, <1>3, <4>1 DEF IsAt
    <3> QED
      BY <1>3, <2>1, <3>1 DEF Lines
  <2>3. PlainStep \/ EnterStep \/ LeaveStep \/ RetStep \/ ParamStep \/ CallStep
    BY GeneratorSteps
  <2>4. k \in Nat /\ e \in Nat /\ k = i /\ e <= k
    BY <1>3, <1>10
  <2>9. code[k].op \in Ops
    BY <2>4, GeneratorOps
  <2>5. ~(code[k].op = "ENTER" /\ e < k)
    <3>1. ASSUME code[k].op = "ENTER", e < k PROVE FALSE
      <4>1. Within(code, e, k)
        BY <1>6, <3>1 DEF In
      <4>2. e \in 1..(k - 1)
        BY <2>4, <3>1
      <4>3. k \in 1..(Len(code) + 1)
        BY <1>1, <2>4
      <4> QED
        BY <3>1, <4>1, <4>2, <4>3, NotNested DEF PlaceInv
    <3> QED
      BY <3>1
  <2>6. CASE code[k].op = "ENTER"
    <3>1. e = k
      BY <2>4, <2>5, <2>6
    <3>2. PICK u : u = total_stack_size
      OBVIOUS
    <3>3. slots' = With(slots, f, [map |-> <<>>, frame |-> u])
      BY <1>7, <2>3, <2>4, <2>6, <3>1, <3>2
      DEF PlainStep, Special, EnterStep, LeaveStep, RetStep, ParamStep, CallStep
    <3>4. slots'[f] = [map |-> <<>>, frame |-> u]
      BY <3>3 DEF With
    <3>5. size = u
      BY <1>1, <1>7, <3>4 DEF FrameOf
    <3>6. \A b : IsText(k, label, [map |-> b], size, s) /\ Known(k, [map |-> b])
      <4>1. SUFFICES ASSUME NEW b PROVE IsText(k, label, [map |-> b], size, s) /\ Known(k, [map |-> b])
        OBVIOUS
      <4>2. PICK z : z = current_func_name
        OBVIOUS
      <4>3. IsText(k, z, m, size, s) /\ Known(k, m) /\ LookedUp(k) = {}
        BY <2>4, <2>6, <3>2, <3>5, <4>2 DEF Known, LookedUp
      <4>4. IsText(k, label, m, size, s)
        BY <2>6, <4>3, TextOf
      <4>5. \A v, w, x, y : IsPassing(code[k], Parameters(k), size, v, w, s)
                              => IsPassing(code[k], Parameters(k), size, x, y, s)
        BY <2>6 DEF IsPassing, Silent
      <4>6. \A x, y, v : IsSum(code[k], x, y, v, s) /\ IsTurn(code[k], label, x, y, s)
        BY <2>6 DEF IsSum, IsTurn, OneStep, Division, Compares, Relational
      <4>7. IsText(k, label, [map |-> b], size, s)
        BY <4>4, <4>5, <4>6 DEF IsText
      <4> QED
        BY <4>3, <4>7 DEF Known
    <3> QED
      BY <1>8, <2>2, <2>9, <3>6
  <2>7. CASE code[k].op = "LEAVE"
    <3>1. PICK z, u : z = current_func_name /\ u = total_stack_size /\ IsText(k, z, m, u, s)
      BY <2>4
    <3>2. IsText(k, label, m, size, s)
      BY <2>7, <3>1, TextOf
    <3>3. ASSUME NEW b PROVE IsText(k, label, [map |-> b], size, s)
      <4>1. \A v, w, x, y : IsTurn(code[k], label, v, w, s) => IsTurn(code[k], label, x, y, s)
        BY <2>7 DEF IsTurn
      <4>2. \A x, y, v : IsSum(code[k], x, y, v, s)
        BY <2>7 DEF IsSum, OneStep, Division, Compares, Relational
      <4>3. \A x, v : IsPassing(code[k], Parameters(k), size, x, v, s)
        BY <2>7 DEF IsPassing, Silent
      <4> QED
        BY <3>2, <4>1, <4>2, <4>3 DEF IsText
    <3>4. \A b : Known(k, b)
      BY <2>7 DEF Known, LookedUp
    <3> QED
      BY <1>8, <2>2, <2>9, <3>3, <3>4
  <2>8. CASE code[k].op \notin {"ENTER", "LEAVE"}
    <3>1. Within(code, e, k) /\ e < k
      BY <1>6, <2>8 DEF In, Within
    <3>2. Within(code, e, k + 1)
      BY <2>4, <2>8, <3>1, WithinStep
    <3>3. mm = m.map
      <4>1. mm = var_map'
        BY <1>1, <1>7, <2>4, <3>2 DEF SlotsOf
      <4> QED
        BY <4>1 DEF Appends
    <3>4. PICK z, u : z = current_func_name /\ u = total_stack_size /\ IsText(k, z, m, u, s)
      BY <2>4
    <3>5. code[k].op = "RET" => z = label
      <4>1. Enters = {j \in 1..k : code[j].op = "ENTER"}
        BY <2>4 DEF Enters
      <4>2. e \in Enters /\ \A j \in Enters : j <= e
        <5>1. code[e].op = "ENTER"
          BY <3>1 DEF Within
        <5>2. ASSUME NEW j \in Enters PROVE j <= e
          <6>1. j \in 1..k /\ code[j].op = "ENTER"
            BY <4>1
          <6>2. j # k
            BY <2>8, <6>1
          <6>3. j > e => j \in (e + 1)..(k - 1)
            BY <2>4, <6>1, <6>2
          <6> QED
            BY <2>4, <3>1, <6>1, <6>3 DEF Within
        <5> QED
          BY <2>4, <4>1, <5>1, <5>2
      <4>3. \A j \in Enters : (\A h \in Enters : h <= j) => j = e
        <5>1. \A j \in Enters : j \in Nat
          BY <2>4, <4>1
        <5> QED
          BY <2>4, <4>2, <5>1
      <4>4. (CHOOSE j \in Enters : \A h \in Enters : h <= j) = e
        BY <4>2, <4>3
      <4> QED
        BY <1>7, <3>4, <4>4 DEF current_func_name
    <3>6. IsText(k, label, m, size, s) /\ Known(k, m)
      BY <2>4, <2>8, <3>4, <3>5, TextOf
    <3>7. IsText(k, label, [map |-> mm], size, s) /\ Known(k, [map |-> mm])
      <4>1. Grown(m, [map |-> mm])
        BY <3>3 DEF Grown
      <4> QED
        BY <3>6, <4>1, TextGrows
    <3> QED
      BY <1>8, <2>2, <2>9, <3>7
  <2> QED
    BY <2>6, <2>7, <2>8
<1> QED
  BY <1>9, <1>10


\* The arguments keep their slots.
LEMMA ArgumentSlotsStep ==
  ASSUME PlaceInv, SlotInv, TallyInv, UNCHANGED program, generate_object_code,
         ArgumentsLaid
  PROVE  ArgumentsLaid'
<1>1. /\ i' = i + 1 /\ i \in 1..Len(code) /\ Len(code) \in Nat /\ code' = code
      /\ \A f : Params(f)' = Params(f)
  <2>1. code' = code /\ \A f : Params(f)' = Params(f)
    BY Static
  <2>2. PICK m, s : Appends(m, s) /\ IsSeq(s)
    BY GeneratorText DEF EmitsText
  <2> QED
    BY <2>1, <2>2, AppendsPlace DEF Appends
<1>2. PICK n : n = i /\ n \in Nat \ {0}
  BY <1>1
<1>3. SUFFICES ASSUME NEW e \in 1..n, code[e].op = "ENTER" PROVE ArgumentSlots(e)'
  BY <1>1, <1>2 DEF ArgumentsLaid
<1>4. PICK f, ps : f = code[e].var1.id /\ ps = Params(f)
  OBVIOUS
<1>5. SUFFICES ASSUME NEW j \in 1..Len(ps)
               PROVE  ps[j] \in DOMAIN SlotsOf(e).map' /\ SlotsOf(e).map'[ps[j]] = -j
  <2>1. (Params(code[e].var1.id))' = ps
    BY <1>1, <1>4
  <2>2. SlotsOf(e)' = [map |-> SlotsOf(e).map']
    BY DEF SlotsOf
  <2>3. PICK g : g = SlotsOf(e).map' /\ SlotsOf(e)' = [map |-> g]
    BY <2>2
  <2> QED
    BY <2>1, <2>3 DEF ArgumentSlots
<1>6. CASE e # n
  <2>1. e \in 1..(n - 1)
    BY <1>2, <1>6
  <2>2. ps[j] \in DOMAIN SlotsOf(e).map /\ SlotsOf(e).map[ps[j]] = -j
    BY <1>2, <1>3, <1>4, <2>1 DEF ArgumentSlots, ArgumentsLaid
  <2>3. Grown(SlotsOf(e), [map |-> SlotsOf(e).map'])
    BY <1>2, <1>3, <2>1, SlotsStay DEF SlotsKept
  <2> QED
    BY <2>2, <2>3 DEF Grown
<1>7. CASE e = n
  <2>1. e = i /\ e \in 1..Len(code)
    BY <1>1, <1>2, <1>7
  <2>2. PlainStep \/ EnterStep \/ LeaveStep \/ RetStep \/ ParamStep \/ CallStep
    BY GeneratorSteps
  <2>3. PICK s : Appends(ArgMap(f), s)
    BY <1>3, <1>4, <2>1, <2>2
    DEF PlainStep, Special, EnterStep, LeaveStep, RetStep, ParamStep, CallStep
  <2>4. SlotsOf(e).map' = ArgMap(f).map
    <3>1. Within(code, e, n + 1)
      <4>1. (e + 1)..((n + 1) - 1) = {}
        BY <1>2, <1>7
      <4> QED
        BY <1>2, <1>3, <1>7, <4>1 DEF Within
    <3>2. SlotsOf(e).map' = var_map'
      BY <1>1, <1>2, <3>1 DEF SlotsOf
    <3> QED
      BY <2>3, <3>2 DEF Appends
  <2>5. IsSeq(ps) /\ Len(ps) \in Nat /\ ParametersDiffer(ps)
    BY <1>3, <1>4, <2>1, CodeFacts DEF PlaceInv
  <2>6. DOMAIN ps = 1..Len(ps)
    BY <2>5, SeqFacts
  <2>7. ArgMap(f).map = [x \in {ps[k] : k \in DOMAIN ps} |-> -(CHOOSE k \in DOMAIN ps : ps[k] = x)]
    BY <1>4 DEF ArgMap
  <2>8. \A k \in DOMAIN ps : ps[k] = ps[j] => k = j
    BY <2>5, <2>6 DEF ParametersDiffer
  <2>9. (CHOOSE k \in DOMAIN ps : ps[k] = ps[j]) = j
    BY <2>6, <2>8
  <2> QED
    BY <2>4, <2>6, <2>7, <2>9
<1> QED
  BY <1>6, <1>7

\* The layout grows by the code of one instruction.
LEMMA LayoutCompile ==
  ASSUME PlaceInv, SlotInv, LayoutInv, UNCHANGED program, generate_object_code
  PROVE  LayoutInv'
<1>1. TallyInv /\ TallyInv'
  BY TallyStep DEF LayoutInv
<1>2. PICK m, s : /\ Appends(m, s) /\ IsSeq(s)
                  /\ IsText(i, current_func_name, m, total_stack_size, s)
                  /\ code[i].op \notin {"ENTER", "LEAVE"} => Known(i, m)
  BY <1>1, GeneratorText DEF EmitsText
<1>3. /\ i' = i + 1 /\ i \in 1..Len(code) /\ Len(code) \in Nat /\ code' = code
  <2>1. code' = code
    BY Static
  <2> QED
    BY <1>2, <2>1, AppendsPlace DEF Appends
<1>4. PICK B : Layout(B)
  BY DEF LayoutInv
<1>5. PICK C : C = [k \in 1..(i + 1) |-> IF k <= i THEN B[k] ELSE Len(asm') + 1]
  OBVIOUS
<1>6. /\ Begins(B) /\ \A j \in 1..Len(asm) : Originates(B, j)
      /\ \A e, k \in 1..(i - 1) : In(e, k) => Laid(B, e, k)
      /\ ArgumentsLaid
  BY <1>4 DEF Layout
<1>7. Begins(C)'
  <2>1. code[i].op \in Silent => s = <<>>
    BY <1>2 DEF IsText, IsPassing
  <2> QED
    BY <1>2, <1>5, <1>6, <2>1, BeginsStep
<1>8. (\A j \in 1..Len(asm) : Originates(C, j))'
  <2>1. PICK k, f, z : /\ k = i /\ f = current_func_name /\ z = total_stack_size
                       /\ k \in 1..Len(code) /\ code[k].op \in Ops
    BY <1>3, GeneratorOps
  <2>2. IsText(k, f, m, z, s)
    BY <1>2, <2>1
  <2>3. Marked(k, s)
    <3>1. CASE code[k].op = "ENTER"
      <4>1. Cardinality(FrameNames(i)) \in Nat
        BY <2>1, <3>1, FrameFinite DEF PlaceInv
      <4>2. z \in Nat
        BY <2>1, <4>1 DEF total_stack_size
      <4> QED
        BY <2>1, <2>2, <4>2, TextMarks DEF PlaceInv
    <3>2. CASE code[k].op # "ENTER"
      <4>1. IsText(k, f, m, 0, s)
        BY <2>2, <3>2, TextOf
      <4> QED
        BY <2>1, <4>1, TextMarks DEF PlaceInv
    <3> QED
      BY <3>1, <3>2
  <2>4. Marked(i, s)
    BY <2>1, <2>3
  <2>5. \A j \in 1..Len(asm') : Originates(C, j)'
    BY <1>2, <1>5, <1>6, <2>4, OriginatesStep
  <2> QED
    BY <2>5
<1>9. (\A e, k \in 1..(i - 1) : In(e, k) => Laid(C, e, k))'
  <2>1. \A e, k \in 1..i : In(e, k) => Laid(C, e, k)'
    BY <1>1, <1>2, <1>5, <1>6, LaidStep
  <2>2. \A e, k : In(e, k)' <=> In(e, k)
    BY <1>3 DEF In
  <2>3. (1..(i - 1))' = 1..i
    BY <1>3
  <2> QED
    BY <2>1, <2>2, <2>3
<1>10. ArgumentsLaid'
  BY <1>1, <1>6, ArgumentSlotsStep
<1>11. Layout(C)'
  BY <1>7, <1>8, <1>9, <1>10 DEF Layout
<1> QED
  BY <1>1, <1>11 DEF LayoutInv

\* Nothing is laid out at first.
LEMMA LayoutInit ==
  ASSUME Init
  PROVE  LayoutInv
<1>1. /\ program \in Programs /\ i = 1 /\ param_count = 0 /\ stack_params = 0 /\ asm = <<>>
      /\ slots = <<>>
  BY DEF Init, ObjInit
<1>2. DOMAIN slots = {} /\ Len(asm) = 0
  BY <1>1
<1>3. TallyInv
  <2>1. Passed(code, 1, 0)
    <3>1. (1 - 0)..(1 - 1) = {} /\ 0 \in 0..(1 - 1) /\ ~(1 - 0 > 1)
      OBVIOUS
    <3> QED
      BY <3>1 DEF Passed
  <2> QED
    BY <1>1, <1>2, <2>1 DEF TallyInv, Extra
<1>4. PICK B : B = [k \in 1..1 |-> 1]
  OBVIOUS
<1>5. Begins(B)
  <2>1. \A k \in 1..1 : k = 1
    OBVIOUS
  <2> QED
    BY <1>1, <1>2, <1>4, <2>1 DEF Begins
<1>6. 1..(i - 1) = {} /\ 1..Len(asm) = {}
  BY <1>1, <1>2
<1> QED
  BY <1>3, <1>5, <1>6 DEF Layout, ArgumentsLaid, LayoutInv

\* What only depends on the program and on the variables of the generator stays.
LEMMA LayoutStays ==
  ASSUME UNCHANGED <<program, obj_vars>>
  PROVE  /\ LayoutInv => LayoutInv'
         /\ \A B : Layout(B) => Layout(B)'
<1>1. /\ program' = program /\ i' = i /\ var_map' = var_map /\ asm' = asm /\ slots' = slots
      /\ param_count' = param_count /\ stack_params' = stack_params
  BY DEF obj_vars
<1>2. code' = code /\ \A f : Params(f)' = Params(f)
  BY <1>1, Static
<1>3. TallyInv => TallyInv'
  BY <1>1, <1>2 DEF TallyInv
<1>4. \A e : SlotsOf(e)' = SlotsOf(e) /\ FrameOf(e)' = FrameOf(e)
  BY <1>1, <1>2 DEF SlotsOf, FrameOf
<1>5. ASSUME NEW B, Layout(B) PROVE Layout(B)'
  <2>1. Begins(B)'
    BY <1>1, <1>2, <1>5 DEF Layout, Begins
  <2>2. \A j : Originates(B, j) => Originates(B, j)'
    BY <1>1, <1>2 DEF Originates
  <2>3. \A e, k : In(e, k)' <=> In(e, k)
    BY <1>2 DEF In
  <2>4. ASSUME NEW e, NEW k, Laid(B, e, k) PROVE Laid(B, e, k)'
    <3>1. PICK f, m, z, s : /\ f = FirstCharacters(code[e].var1.id) /\ m = SlotsOf(e) /\ z = FrameOf(e)
                            /\ IsText(k, f, m, z, s) /\ IsSeq(s) /\ Lines(B[k], B[k + 1], s)
                            /\ Known(k, m) /\ code[k].op \in Ops
      BY <2>4 DEF Laid
    <3>2. IsText(k, f, m, z, s)' /\ Known(k, m)'
      BY <1>1, <3>1, TextStays
    <3>3. Lines(B[k], B[k + 1], s)'
      BY <1>1, <3>1 DEF Lines, IsAt
    <3>4. FirstCharacters(code[e].var1.id)' = f /\ SlotsOf(e)' = m /\ FrameOf(e)' = z
      BY <1>2, <1>4, <3>1
    <3>5. (code[k].op)' = code[k].op
      BY <1>2
    <3> QED
      BY <3>1, <3>2, <3>3, <3>4, <3>5 DEF Laid
  <2>5. \A e : ArgumentSlots(e) => ArgumentSlots(e)'
    BY <1>2, <1>4 DEF ArgumentSlots
  <2> QED
    BY <1>1, <1>2, <1>5, <2>1, <2>2, <2>3, <2>4, <2>5 DEF Layout, ArgumentsLaid
<1> QED
  BY <1>3, <1>5 DEF LayoutInv

\* The layout is inductive together with what is proved above.
LEMMA LayoutNext == GeneratedInv /\ LayoutInv /\ [Next]_vars => LayoutInv'
<1> SUFFICES ASSUME GeneratedInv, LayoutInv, [Next]_vars PROVE LayoutInv'
  OBVIOUS
<1>1. CASE Compile
  BY <1>1, LayoutCompile DEF Compile, ir_vars, GeneratedInv
<1>2. CASE Start
  BY <1>2, LayoutStays DEF Start
<1>3. CASE Run
  <2>1. program' = program
    BY <1>3 DEF Run, Execute, ir_vars
  <2> QED
    BY <1>3, <2>1, LayoutStays DEF Run
<1>4. CASE Halt
  BY <1>4, LayoutStays DEF Halt, ir_vars
<1>5. CASE Unresolved
  BY <1>5, LayoutStays DEF Unresolved, ir_vars
<1>6. CASE UNCHANGED vars
  BY <1>6, LayoutStays DEF vars, ir_vars
<1> QED
  BY <1>1, <1>2, <1>3, <1>4, <1>5, <1>6 DEF Next
=============================================================================
