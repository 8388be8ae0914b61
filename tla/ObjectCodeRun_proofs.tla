----------------------- MODULE ObjectCodeRun_proofs -----------------------
(***************************************************************************)
(* What the compiled program does to its stack, for every program in       *)
(* intermediate code with the shape generateMethod gives it, and however   *)
(* deep its calls nest.                                                    *)
(*                                                                         *)
(* ObjectCode_proofs says where in asm the code of each instruction is,    *)
(* and what its text is (Layout).  Here the processor executes that text,  *)
(* one line at a time.  The invariant is a list of activations (Standing): *)
(* the frames lie in a row below one another, each keeps the frame pointer *)
(* and the place to return to of the one that made it, and in the last one *)
(* stack pointer and frame pointer are where the line the processor is at  *)
(* needs them (StageAt).  A line that is no call and no return leaves the  *)
(* list as it is (StayStep), a call adds an activation (InvokeStep), a     *)
(* return removes one (ReturnStep).                                        *)
(***************************************************************************)
EXTENDS ObjectCode_proofs

-----------------------------------------------------------------------------
(* Finding one's way in the code.                                          *)

\* the code has been generated and linked, and B is its layout
Built(B) == GeneratedInv /\ TallyInv /\ Generated /\ Resolved /\ Layout(B)

\* s is the text of instruction k of the method entered at e
TextAt(B, e, k, s) ==
  /\ IsText(k, FirstCharacters(code[e].var1.id), SlotsOf(e), FrameOf(e), s)
  /\ IsSeq(s) /\ Len(s) \in Nat /\ B[k + 1] = B[k] + Len(s)
  /\ \A q \in 1..Len(s) : IsAt(B[k] + (q - 1), s[q])

\* Every instruction of a method has its text in the code.
LEMMA BuiltFacts ==
  ASSUME NEW B, Built(B), NEW e \in 1..Len(code), NEW k \in 1..Len(code), In(e, k)
  PROVE  /\ \E s : TextAt(B, e, k, s)
         /\ code[k].op \in Ops /\ FrameOf(e) \in Nat /\ FrameOf(e) % 2 = 0
         /\ Below(SlotsOf(e).map) /\ code[e].op = "ENTER" /\ Known(k, SlotsOf(e))
<1>1. /\ i = Len(code) + 1 /\ Len(code) \in Nat /\ program \in Programs
  BY CodeFacts DEF Built, Generated, GeneratedInv, PlaceInv
<1>2. Laid(B, e, k) /\ code[e].op = "ENTER"
  <2>1. e \in 1..(i - 1) /\ k \in 1..(i - 1)
    BY <1>1
  <2> QED
    BY <2>1 DEF Built, Layout, In
<1>3. \E s : TextAt(B, e, k, s)
  <2>1. PICK s : /\ IsText(k, FirstCharacters(code[e].var1.id), SlotsOf(e), FrameOf(e), s)
                 /\ IsSeq(s) /\ Lines(B[k], B[k + 1], s)
    BY <1>2 DEF Laid
  <2>2. Len(s) \in Nat
    BY <2>1, SeqFacts
  <2> QED
    BY <2>1, <2>2 DEF Lines, TextAt
<1>4. FrameOf(e) \in Nat /\ FrameOf(e) % 2 = 0 /\ Below(slots[code[e].var1.id].map)
  <2>1. code[e].var1.id \in DOMAIN slots
    <3>1. e \in 1..(i - 1)
      BY <1>1
    <3> QED
      BY <1>2, <3>1 DEF Built, GeneratedInv, SlotInv
  <2>2. IsSlotRecord(slots[code[e].var1.id])
    BY <2>1 DEF Built, GeneratedInv, SlotInv
  <2> QED
    BY <2>1, <2>2 DEF Built, TallyInv, FrameOf, IsSlotRecord
<1>5. Below(SlotsOf(e).map)
  <2>1. Below(var_map)
    BY DEF Built, GeneratedInv, SlotInv, MapOK, Here, Below
  <2> QED
    BY <1>4, <2>1 DEF SlotsOf
<1> QED
  BY <1>2, <1>3, <1>4, <1>5 DEF Laid

\* When all is generated no method is open: its slots are those it has at its end.
LEMMA SlotsAtEnd ==
  ASSUME NEW B, Built(B), NEW e \in 1..Len(code)
  PROVE  SlotsOf(e).map = slots[code[e].var1.id].map
<1>1. /\ i = Len(code) + 1 /\ Len(code) \in Nat /\ program \in Programs
  BY CodeFacts DEF Built, Generated, GeneratedInv, PlaceInv
<1>2. PICK n : n = Len(code) + 1 /\ n \in 1..(Len(code) + 1) /\ n \notin 1..Len(code) /\ e \in 1..(n - 1)
  BY <1>1
<1>3. ~Within(code, e, n)
  BY <1>1, <1>2, NotNested
<1> QED
  BY <1>1, <1>2, <1>3 DEF SlotsOf

\* The places of the code.
LEMMA Places ==
  ASSUME NEW B, Built(B)
  PROVE  /\ Len(asm) \in Nat /\ DOMAIN asm = 1..Len(asm)
         /\ Len(code) \in Nat /\ DOMAIN code = 1..Len(code)
         /\ \A k \in 1..(Len(code) + 1) : B[k] \in Nat \ {0} /\ B[k] <= Len(asm) + 1
         /\ \A k, l \in 1..(Len(code) + 1) : k <= l => B[k] <= B[l]
         /\ \A j \in 1..Len(asm) :
              LET k == asm[j].of IN
              /\ k \in 1..Len(code) /\ B[k] <= j /\ j < B[k + 1] /\ (asm[j].first <=> j = B[k])
              /\ asm[j].op \in Landmarks =>
                   j = B[k] /\ code[k].op = Origin(asm[j].op) /\ asm[j].a = Sym(code[k].var1.id)
<1>1. /\ i = Len(code) + 1 /\ Len(code) \in Nat /\ DOMAIN code = 1..Len(code)
  BY CodeFacts DEF Built, Generated, GeneratedInv, PlaceInv
<1>2. IsSeq(asm)
  BY DEF Built, GeneratedInv, PlaceInv
<1>3. Len(asm) \in Nat /\ DOMAIN asm = 1..Len(asm)
  BY <1>2, SeqFacts
<1>4. PICK n : n = Len(code) + 1 /\ n \in 1..n /\ n \in Nat /\ n = i /\ n - 1 = Len(code)
  BY <1>1
<1>5. /\ B \in [1..n -> Nat \ {0}] /\ B[n] = Len(asm) + 1
      /\ \A k, l \in 1..n : k <= l => B[k] <= B[l]
  BY <1>4 DEF Built, Layout, Begins
<1>6. \A k \in 1..n : B[k] \in Nat \ {0} /\ B[k] <= Len(asm) + 1
  BY <1>4, <1>5
<1>7. \A j \in 1..Len(asm) : Originates(B, j)
  BY DEF Built, Layout
<1>8. \A j \in 1..Len(asm) :
        LET k == asm[j].of IN
        /\ k \in 1..Len(code) /\ B[k] <= j /\ j < B[k + 1] /\ (asm[j].first <=> j = B[k])
        /\ asm[j].op \in Landmarks =>
             j = B[k] /\ code[k].op = Origin(asm[j].op) /\ asm[j].a = Sym(code[k].var1.id)
  BY <1>4, <1>7 DEF Originates
<1> QED
  BY <1>1, <1>3, <1>4, <1>5, <1>6, <1>8

\* The label of a return is resolved only if the name of its method is not cut.
LEMMA ResolvedNames ==
  ASSUME NEW B, Built(B), NEW e \in 1..Len(code), code[e].op = "ENTER",
         NEW j \in 1..Len(asm), asm[j].op = "jmp_leave",
         asm[j].a = Sym(FirstCharacters(code[e].var1.id))
  PROVE  FirstCharacters(code[e].var1.id) = code[e].var1.id
<1>1. /\ DOMAIN asm = 1..Len(asm) /\ DOMAIN code = 1..Len(code)
      /\ \A l \in 1..Len(asm) :
           LET k == asm[l].of IN
           /\ k \in 1..Len(code)
           /\ asm[l].op \in Landmarks =>
                code[k].op = Origin(asm[l].op) /\ asm[l].a = Sym(code[k].var1.id)
  BY Places
<1>2. program \in Programs
  BY DEF Built, GeneratedInv, PlaceInv
<1>3. PICK l \in 1..Len(asm) : asm[l].op = "leave" /\ asm[l].a = asm[j].a
  BY <1>1 DEF Built, Resolved
<1>4. "leave" \in Landmarks /\ Origin("leave") = "LEAVE"
  BY DEF Landmarks, Origin
<1>5. PICK k \in 1..Len(code) : code[k].op = "LEAVE" /\ asm[l].a = Sym(code[k].var1.id)
  BY <1>1, <1>3, <1>4
<1>6. code[k].var1.id = FirstCharacters(code[e].var1.id)
  BY <1>3, <1>5 DEF Sym, Place
<1> QED
  BY <1>1, <1>2, <1>5, <1>6, CutNamesAssumption DEF code, ShortName

\* A short list that is not empty.
LEMMA ShortLists ==
  ASSUME NEW s, NEW a, NEW b, NEW c, NEW d, NEW e, NEW g, NEW h,
         \/ s = <<a>> \/ s = <<a, b>> \/ s = <<a, b, c>> \/ s = <<a, b, c, d>>
         \/ s = <<a, b, c, d, e, g, h>>
  PROVE  Len(s) >= 1
<1>1. CASE s = <<a>>
  BY <1>1
<1>2. CASE s = <<a, b>>
  BY <1>2
<1>3. CASE s = <<a, b, c>>
  BY <1>3
<1>4. CASE s = <<a, b, c, d>>
  BY <1>4
<1>5. CASE s = <<a, b, c, d, e, g, h>>
  BY <1>5
<1> QED
  BY <1>1, <1>2, <1>3, <1>4, <1>5

\* All instructions but the silent ones have code.
LEMMA TextLength ==
  ASSUME program \in Programs, NEW k \in 1..Len(code), NEW f, NEW m, NEW size \in Nat, NEW s,
         IsText(k, f, m, size, s), code[k].op \in Ops \ Silent
  PROVE  Len(s) >= 1
<1>1. PICK x, y, z, p :
        /\ x = Str(m, code[k].var1) /\ y = Str(m, code[k].var2) /\ z = Str(m, code[k].reg)
        /\ p = Parameters(k)
  OBVIOUS
<1>2. /\ IsSum(code[k], x, y, z, s) /\ IsTurn(code[k], f, x, z, s)
      /\ IsPassing(code[k], p, size, x, z, s)
  BY <1>1 DEF IsText
<1>3. SUFFICES ASSUME code[k].op # "ENTER"
               PROVE  \E a, b, c, d, e, g, h :
                        \/ s = <<a>> \/ s = <<a, b>> \/ s = <<a, b, c>> \/ s = <<a, b, c, d>>
                        \/ s = <<a, b, c, d, e, g, h>>
  <2>1. CASE code[k].op = "ENTER"
    <3>1. PICK n \in Nat : n = p
      BY <1>1, <2>1, CodeFacts DEF Parameters
    <3>2. PICK l, h, r : l = code[k].var1.id /\ h = Prelude(size) /\ r = InRegs(n)
      OBVIOUS
    <3>3. s = Entry(l, size) \o ArgCopies(n)
      BY <1>2, <2>1, <3>1, <3>2 DEF IsPassing
    <3>4. IsEntry(s, l, size, n, h, r)
      BY <3>2, <3>3, EntryText
    <3>5. h \in Nat /\ h >= 3 /\ r \in Nat /\ n - r \in Nat
      BY <3>2 DEF Prelude, InRegs
    <3> QED
      BY <3>4, <3>5 DEF IsEntry
  <2>2. CASE code[k].op # "ENTER"
    <3>1. PICK a, b, c, d, e, g, h :
             \/ s = <<a>> \/ s = <<a, b>> \/ s = <<a, b, c>> \/ s = <<a, b, c, d>>
             \/ s = <<a, b, c, d, e, g, h>>
      BY <2>2
    <3> QED
      BY <3>1, ShortLists
  <2> QED
    BY <2>1, <2>2
<1>4. CASE code[k].op \in {"LOADVAL", "STORE", "SHIFT_RIGHT", "MIN", "NEG"}
                          \cup OneStep \cup Division \cup Compares
  BY <1>2, <1>4 DEF IsSum
<1>5. CASE code[k].op \in {"LEAVE", "RET", "LABEL", "JMP", "JMPF"}
  BY <1>2, <1>5 DEF IsTurn
<1>6. CASE code[k].op \in {"PARAM", "CALL"}
  BY <1>2, <1>6 DEF IsPassing
<1> QED
  BY <1>3, <1>4, <1>5, <1>6 DEF Ops

\* A method has an end.
LEMMA EndOf ==
  ASSUME program \in Programs, NEW e \in 1..Len(code), NEW k \in 1..Len(code), In(e, k)
  PROVE  \E l \in 1..Len(code) : Encloses(code, e, l) /\ k <= l /\ In(e, l)
<1>1. Len(code) \in Nat /\ DOMAIN code = 1..Len(code) /\ MethodShape(code)
  BY CodeFacts
<1>2. code[e].op = "ENTER"
  BY DEF In
<1>3. PICK l \in 1..Len(code) : Encloses(code, e, l)
  BY <1>1, <1>2 DEF MethodShape
<1>4. Within(code, e, l) /\ code[l].op = "LEAVE" /\ e < l
  BY <1>3 DEF Encloses, Within
<1>5. k <= l
  <2>1. CASE k = e
    BY <1>4, <2>1
  <2>2. CASE Within(code, e, k) /\ l < k
    <3>1. l \in (e + 1)..(k - 1)
      BY <1>1, <1>4, <2>2
    <3> QED
      BY <1>4, <2>2, <3>1 DEF Within
  <2> QED
    BY <1>1, <2>1, <2>2 DEF In
<1> QED
  BY <1>2, <1>3, <1>4, <1>5 DEF In

\* Between an instruction of a method and its end all belongs to it.
LEMMA InBetween ==
  ASSUME program \in Programs, NEW e \in 1..Len(code), NEW k \in 1..Len(code), In(e, k),
         NEW l \in 1..Len(code), Encloses(code, e, l), NEW j \in k..l
  PROVE  In(e, j)
<1>1. Len(code) \in Nat
  BY CodeFacts
<1>2. e <= k /\ code[e].op = "ENTER" /\ Within(code, e, l)
  BY <1>1 DEF In, Within, Encloses
<1>3. CASE j = e
  BY <1>2, <1>3 DEF In
<1>4. CASE j # e
  <2>1. e < j /\ \A h \in (e + 1)..(j - 1) : h \in (e + 1)..(l - 1)
    BY <1>1, <1>2, <1>4
  <2> QED
    BY <1>2, <2>1 DEF In, Within
<1> QED
  BY <1>3, <1>4

\* An instruction belongs to one method.
LEMMA OneMethod ==
  ASSUME program \in Programs, NEW d \in 1..Len(code), NEW e \in 1..Len(code),
         NEW k \in 1..Len(code), In(d, k), In(e, k)
  PROVE  d = e
<1>1. Len(code) \in Nat
  BY CodeFacts
<1>2. ASSUME NEW x \in 1..Len(code), code[k].op = "ENTER", In(x, k) PROVE x = k
  <2>1. x \in 1..(k - 1) => ~Within(code, x, k)
    BY <1>1, <1>2, NotNested
  <2> QED
    BY <1>1, <1>2, <2>1 DEF In, Within
<1>3. CASE code[k].op = "ENTER"
  BY <1>2, <1>3
<1>4. CASE code[k].op # "ENTER"
  <2>1. Within(code, d, k) /\ Within(code, e, k)
    BY <1>4 DEF In
  <2> QED
    BY <2>1, OneOpen
<1> QED
  BY <1>3, <1>4

\* instruction l follows k but for instructions without code
FollowsIn(e, k, l) ==
  /\ l \in 1..Len(code) /\ k < l /\ In(e, l)
  /\ \A j \in (k + 1)..(l - 1) : code[j].op = "LOAD"
  /\ code[l].op \notin Silent

\* After the code of an instruction comes the code of the next one.
LEMMA NextCode ==
  ASSUME NEW B, Built(B), NEW e \in 1..Len(code), NEW k \in 1..Len(code), In(e, k),
         code[k].op # "LEAVE"
  PROVE  LET j == B[k + 1]
         IN  j \in 1..Len(asm) /\ FollowsIn(e, k, asm[j].of) /\ B[asm[j].of] = j
<1> DEFINE j == B[k + 1]
           n == asm[j].of
<1>1. /\ Len(asm) \in Nat /\ DOMAIN asm = 1..Len(asm)
      /\ Len(code) \in Nat /\ DOMAIN code = 1..Len(code)
      /\ \A h \in 1..(Len(code) + 1) : B[h] \in Nat \ {0} /\ B[h] <= Len(asm) + 1
      /\ \A g, h \in 1..(Len(code) + 1) : g <= h => B[g] <= B[h]
      /\ \A h \in 1..Len(asm) : asm[h].of \in 1..Len(code) /\ B[asm[h].of] <= h /\ h < B[asm[h].of + 1]
      /\ program \in Programs
  BY Places DEF Built, GeneratedInv, PlaceInv
<1>2. ASSUME NEW h \in 1..Len(code), In(e, h), code[h].op \notin Silent
      PROVE  B[h] < B[h + 1]
  <2>1. PICK s, f, m, size : /\ f = FirstCharacters(code[e].var1.id) /\ m = SlotsOf(e) /\ size = FrameOf(e)
                             /\ TextAt(B, e, h, s)
    BY <1>2, BuiltFacts
  <2>2. code[h].op \in Ops \ Silent /\ size \in Nat
    BY <1>2, <2>1, BuiltFacts
  <2>3. IsText(h, f, m, size, s) /\ B[h + 1] = B[h] + Len(s) /\ Len(s) \in Nat
    BY <2>1 DEF TextAt
  <2>4. Len(s) >= 1
    BY <1>1, <2>2, <2>3, TextLength
  <2>5. B[h] \in Nat
    BY <1>1
  <2> QED
    BY <2>3, <2>4, <2>5
<1>3. PICK l \in 1..Len(code) : Encloses(code, e, l) /\ k <= l /\ In(e, l) /\ code[l].op = "LEAVE"
  BY <1>1, EndOf DEF Encloses
<1>4. k < l
  BY <1>1, <1>3
<1>5. B[l] < B[l + 1] /\ j <= B[l] /\ j \in Nat \ {0} /\ B[l + 1] <= Len(asm) + 1 /\ B[l] \in Nat
      /\ B[l + 1] \in Nat
  <2>1. /\ l \in 1..(Len(code) + 1) /\ l + 1 \in 1..(Len(code) + 1) /\ k + 1 \in 1..(Len(code) + 1)
        /\ k + 1 <= l
    BY <1>1, <1>4
  <2>2. B[l] < B[l + 1]
    BY <1>2, <1>3 DEF Silent
  <2> QED
    BY <1>1, <2>1, <2>2
<1>6. j \in 1..Len(asm)
  BY <1>1, <1>5, SMTT(30)
<1>7. n \in 1..Len(code) /\ B[n] <= j /\ j < B[n + 1]
  BY <1>1, <1>6
<1>8. k < n /\ n <= l
  <2>1. ASSUME n <= k PROVE FALSE
    <3>1. n + 1 \in 1..(Len(code) + 1) /\ k + 1 \in 1..(Len(code) + 1) /\ n + 1 <= k + 1
      BY <1>1, <1>7, <2>1, SMTT(30)
    <3>2. B[n + 1] <= j
      BY <1>1, <3>1
    <3>3. B[n + 1] \in Nat
      BY <1>1, <3>1
    <3> QED
      BY <1>5, <1>7, <3>2, <3>3
  <2>2. ASSUME l < n PROVE FALSE
    <3>1. l + 1 \in 1..(Len(code) + 1) /\ n \in 1..(Len(code) + 1) /\ l + 1 <= n
      BY <1>1, <1>7, <2>2
    <3>2. B[l + 1] <= B[n] /\ B[n] \in Nat
      BY <1>1, <3>1
    <3> QED
      BY <1>5, <1>7, <3>2, SMTT(30)
  <2> HIDE DEF n
  <2> QED
    BY <1>1, <1>7, <2>1, <2>2
<1>9. B[n] = j
  <2>1. n \in 1..(Len(code) + 1) /\ k + 1 \in 1..(Len(code) + 1) /\ k + 1 <= n
    BY <1>1, <1>7, <1>8
  <2>2. j <= B[n] /\ B[n] \in Nat
    BY <1>1, <2>1
  <2> QED
    BY <1>5, <1>7, <2>2
<1>10. ASSUME NEW h \in (k + 1)..l PROVE In(e, h) /\ h \in 1..Len(code)
  <2>1. h \in k..l /\ h \in 1..Len(code)
    BY <1>1, <1>10
  <2> QED
    BY <1>1, <1>3, <2>1, InBetween
<1>11. ASSUME NEW h \in (k + 1)..(n - 1) PROVE code[h].op = "LOAD"
  <2>1. h \in (k + 1)..l /\ h \in 1..Len(code) /\ h + 1 \in 1..(Len(code) + 1) /\ h \in 1..(Len(code) + 1)
        /\ n \in 1..(Len(code) + 1) /\ k + 1 \in 1..(Len(code) + 1) /\ k + 1 <= h /\ h + 1 <= n
    BY <1>1, <1>7, <1>8, <1>10, SMTT(30)
  <2>2. j <= B[h] /\ B[h + 1] <= B[n] /\ B[h] \in Nat /\ B[h + 1] \in Nat
    <3>1. j <= B[h]
      BY <1>1, <2>1
    <3>2. B[h + 1] <= B[n]
      BY <1>1, <2>1
    <3> QED
      BY <1>1, <2>1, <3>1, <3>2
  <2>3. code[h].op \in Silent
    <3>1. ~(B[h] < B[h + 1])
      <4> HIDE DEF n
      <4> QED
        BY <1>5, <1>9, <2>2
    <3> QED
      BY <1>2, <1>10, <2>1, <3>1
  <2>4. code[h].op # "EXTERN"
    <3>1. MethodShape(code)
      BY <1>1, CodeFacts
    <3>2. Within(code, e, h) /\ code[e].op = "ENTER"
      BY <1>10, <2>1, <2>3 DEF In, Silent
    <3> QED
      BY <1>1, <2>1, <3>1, <3>2 DEF MethodShape
  <2> QED
    BY <2>3, <2>4 DEF Silent
<1>12. In(e, n) /\ code[n].op \notin Silent
  <2>1. n \in (k + 1)..l
    BY <1>1, <1>7, <1>8
  <2>2. In(e, n)
    BY <1>10, <2>1
  <2>3. code[n].op \notin Silent
    <3>1. ASSUME code[n].op \in Silent PROVE FALSE
      <4>1. PICK s : TextAt(B, e, n, s)
        BY <1>7, <2>2, BuiltFacts
      <4>2. s = <<>>
        BY <3>1, <4>1 DEF TextAt, IsText, IsPassing
      <4>3. B[n + 1] = B[n]
        <5>1. Len(s) = 0
          BY <4>2
        <5>2. B[n] \in Nat
          BY <1>1, <1>7
        <5> QED
          BY <4>1, <5>1, <5>2 DEF TextAt
      <4> QED
        BY <1>5, <1>7, <1>9, <4>3
    <3> QED
      BY <3>1
  <2> QED
    BY <2>2, <2>3
<1> QED
  BY <1>6, <1>7, <1>8, <1>9, <1>11, <1>12 DEF FollowsIn

-----------------------------------------------------------------------------
(* The lines of an instruction's text.                                     *)

\* the registers that hold values
Working == Registers \ {"rsp", "rbp"}

\* a place that no activation but the current one uses
Harmless(a) ==
  \/ a.at = "reg" /\ a.n \in Working
  \/ a.at = "rbp" /\ a.n \in Int /\ a.n < 0

\* a line after which the processor goes on with the next line, and which leaves
\* the stack pointer and the frame pointer alone
Quiet(x) ==
  \/ x.op \in {"mov", "add", "sub", "imul", "sar", "and", "or"} /\ Harmless(x.b)
  \/ x.op \in OneOperand /\ Harmless(x.a)
  \/ x.op \in {"cmp", "cqo", "idiv"} \cup Landmarks
  \/ x.op = "call" /\ IsExtern(x.a.n)

\* The registers by name.
LEMMA RegisterFacts ==
  /\ {"rax", "rdx", "rcx"} \subseteq Working /\ "rsp" \in Registers /\ "rbp" \in Registers
  /\ \A j \in 1..6 : arg_regs[j] \in Working
<1>1. DOMAIN arg_regs = 1..6
  BY DEF arg_regs
<1>2. \A j \in 1..6 : j = 1 \/ j = 2 \/ j = 3 \/ j = 4 \/ j = 5 \/ j = 6
  OBVIOUS
<1>3. /\ arg_regs[1] = "rdi" /\ arg_regs[2] = "rsi" /\ arg_regs[3] = "rdx" /\ arg_regs[4] = "rcx"
      /\ arg_regs[5] = "r8" /\ arg_regs[6] = "r9"
  BY DEF arg_regs
<1>4. \A j \in 1..6 : arg_regs[j] \in Registers
  BY <1>1 DEF Registers
<1>5. "rdx" \in Registers /\ "rcx" \in Registers /\ {"rax", "rsp", "rbp"} \subseteq Registers
  <2>1. 3 \in 1..6 /\ 4 \in 1..6
    OBVIOUS
  <2> QED
    BY <1>3, <1>4, <2>1 DEF Registers
<1>6. \A j \in 1..6 : arg_regs[j] # "rsp" /\ arg_regs[j] # "rbp"
  BY <1>2, <1>3
<1> QED
  BY <1>4, <1>5, <1>6 DEF Working

\* What the result of an instruction is written to.
LEMMA ResultPlace ==
  ASSUME NEW B, Built(B), NEW e \in 1..Len(code), NEW k \in 1..Len(code), In(e, k),
         code[k].op \in {"LOADVAL", "STORE", "CALL"} \cup Binary \cup Unary
  PROVE  Harmless(Str(SlotsOf(e), code[k].reg))
<1>1. code[k].reg.kind \in {"name", "temp"}
  <2>1. OperandShape(code[k])
    BY ShapeFacts DEF Built, GeneratedInv, PlaceInv
  <2> QED
    BY <2>1 DEF OperandShape
<1>2. HasSlot(code[k].reg)
  BY <1>1 DEF HasSlot
<1>3. Known(k, SlotsOf(e)) /\ Below(SlotsOf(e).map)
  BY BuiltFacts
<1>4. 3 \in LookedUp(k)
  <2>1. code[k].op \notin {"ENTER", "LEAVE"} \cup Silent
    BY DEF Binary, Unary, BinaryOp, Arithmetic, Division, Relational, Logical, Silent
  <2> QED
    BY <2>1 DEF LookedUp
<1>5. Operands(k)[3] = code[k].reg
  BY DEF Operands
<1>6. PICK m, x : m = SlotsOf(e).map /\ x = Key(code[k].reg) /\ x \in DOMAIN m
  BY <1>2, <1>3, <1>4, <1>5 DEF Known
<1>7. m[x] \in Int /\ m[x] < 0
  BY <1>3, <1>6 DEF Below
<1>8. Str(SlotsOf(e), code[k].reg) = Slot(m[x])
  <2>1. PICK l, o : l = SlotsOf(e) /\ o = code[k].reg
    OBVIOUS
  <2>2. Str(l, o) = Slot(l.map[Key(o)])
    BY <1>1, <2>1 DEF Str, HasSlot
  <2> QED
    BY <1>6, <2>1, <2>2
<1> QED
  BY <1>7, <1>8 DEF Harmless, Slot, Place

\* The places %rax, %rcx and %rdx.
LEMMA WorkPlaces ==
  /\ Harmless(rax) /\ Harmless(Reg("rdx")) /\ Harmless(Reg("rcx"))
  /\ \A j \in 1..6 : Harmless(Reg(arg_regs[j]))
BY RegisterFacts DEF Harmless, rax, Reg, Place

\* Lines by their operation.
LEMMA QuietLines ==
  /\ \A a, b : Harmless(b) => Quiet(Mov(a, b))
  /\ \A op, a, b : op \in {"add", "sub", "imul", "sar", "and", "or"} /\ Harmless(b) => Quiet(Asm(op, a, b))
  /\ \A op, a, b : op \in OneOperand /\ Harmless(a) => Quiet(Asm(op, a, b))
  /\ \A op, a, b : op \in {"cmp", "cqo", "idiv"} \cup Landmarks => Quiet(Asm(op, a, b))
  /\ \A f, b : IsExtern(f) => Quiet(Asm("call", Sym(f), b))
BY DEF Quiet, Mov, Asm, Sym, Place

\* Computing is quiet.
LEMMA SumQuiet ==
  ASSUME NEW B, Built(B), NEW e \in 1..Len(code), NEW k \in 1..Len(code), In(e, k),
         NEW s, TextAt(B, e, k, s), NEW q \in 1..Len(s),
         code[k].op \in {"LOADVAL", "STORE"} \cup Binary \cup Unary
  PROVE  Quiet(s[q])
<1>1. PICK x, y, z : /\ x = Str(SlotsOf(e), code[k].var1) /\ y = Str(SlotsOf(e), code[k].var2)
                     /\ z = Str(SlotsOf(e), code[k].reg)
  OBVIOUS
<1>2. IsSum(code[k], x, y, z, s)
  BY <1>1 DEF TextAt, IsText
<1>3. Harmless(z)
  BY <1>1, ResultPlace
<1>4. \A a : /\ Quiet(Mov(a, z)) /\ Quiet(Mov(a, rax)) /\ Quiet(Mov(a, Reg("rcx")))
             /\ \A b : Quiet(Asm("cmp", a, b)) /\ Quiet(Asm("cqo", a, b)) /\ Quiet(Asm("idiv", a, b))
  BY <1>3, WorkPlaces, QuietLines
<1>5. CASE code[k].op \in {"LOADVAL", "STORE"}
  <2>1. \/ s = <<Mov(x, z)>>
        \/ s = <<Mov(x, rax), Mov(rax, z)>>
    BY <1>2, <1>5 DEF IsSum
  <2> QED
    BY <1>4, <2>1
<1>6. CASE code[k].op \in OneStep
  <2>1. s = <<Mov(x, rax), Asm(Mnemonic(code[k].op), y, rax), Mov(rax, z)>>
    BY <1>2, <1>6 DEF IsSum
  <2>2. Quiet(Asm(Mnemonic(code[k].op), y, rax))
    <3>1. Mnemonic(code[k].op) \in {"add", "sub", "imul", "sar", "and", "or"}
      BY <1>6 DEF Mnemonic, OneStep
    <3> QED
      BY <3>1, WorkPlaces, QuietLines
  <2> QED
    BY <1>4, <2>1, <2>2
<1>7. CASE code[k].op \in Division
  <2>1. PICK a : s = <<Mov(x, rax), Asm("cqo", Nil, Nil), Asm("idiv", y, Nil), Mov(a, z)>>
    BY <1>2, <1>7 DEF IsSum
  <2>2. /\ s[1] = Mov(x, rax) /\ s[2] = Asm("cqo", Nil, Nil) /\ s[3] = Asm("idiv", y, Nil)
        /\ s[4] = Mov(a, z) /\ (q = 1 \/ q = 2 \/ q = 3 \/ q = 4)
    BY <2>1
  <2> QED
    BY <1>4, <2>2
<1>8. CASE code[k].op = "SHIFT_RIGHT"
  <2>1. PICK a, c, d :
          /\ s = <<Mov(x, rax), Asm("cqo", Nil, Nil), Mov(a, Reg("rcx")), c, d,
                   Asm("sar", y, rax), Mov(rax, z)>>
          /\ c = Asm("and", Reg("rcx"), Reg("rdx")) /\ d = Asm("add", Reg("rdx"), rax)
    BY <1>2, <1>8 DEF IsSum
  <2>2. Quiet(Asm("sar", y, rax)) /\ Quiet(c) /\ Quiet(d)
    BY <2>1, WorkPlaces, QuietLines
  <2>3. Len(s) = 7
    BY <2>1
  <2>4. q = 1 \/ q = 2 \/ q = 3 \/ q = 4 \/ q = 5 \/ q = 6 \/ q = 7
    BY <2>3
  <2>5. /\ s[1] = Mov(x, rax) /\ s[2] = Asm("cqo", Nil, Nil) /\ s[3] = Mov(a, Reg("rcx")) /\ s[4] = c
        /\ s[5] = d /\ s[6] = Asm("sar", y, rax) /\ s[7] = Mov(rax, z)
    BY <2>1
  <2> QED
    BY <1>4, <2>2, <2>4, <2>5
<1>9. CASE code[k].op = "MIN"
  <2>1. s = <<Mov(x, rax), Asm("neg", rax, Nil), Mov(rax, z)>>
    BY <1>2, <1>9 DEF IsSum
  <2>2. Quiet(Asm("neg", rax, Nil))
    BY WorkPlaces, QuietLines DEF OneOperand
  <2> QED
    BY <1>4, <2>1, <2>2
<1>10. CASE code[k].op = "NEG"
  <2>1. s = <<Mov(x, rax), Asm("cmp", Imm(0), rax), Asm("sete", rax, Nil), Mov(rax, z)>>
    BY <1>2, <1>10 DEF IsSum
  <2>2. Quiet(Asm("sete", rax, Nil))
    BY WorkPlaces, QuietLines DEF OneOperand
  <2>3. /\ s[1] = Mov(x, rax) /\ s[2] = Asm("cmp", Imm(0), rax) /\ s[3] = Asm("sete", rax, Nil)
        /\ s[4] = Mov(rax, z) /\ (q = 1 \/ q = 2 \/ q = 3 \/ q = 4)
    BY <2>1
  <2> QED
    BY <1>4, <2>2, <2>3
<1>11. CASE code[k].op \in Compares
  <2>1. s = <<Mov(x, rax), Asm("cmp", y, rax), Asm(Setter(code[k].op), rax, Nil), Mov(rax, z)>>
    BY <1>2, <1>11 DEF IsSum
  <2>2. Quiet(Asm(Setter(code[k].op), rax, Nil))
    <3>1. Setter(code[k].op) \in OneOperand
      BY <1>11 DEF Setter, Compares, Relational, OneOperand
    <3> QED
      BY <3>1, WorkPlaces, QuietLines
  <2>3. /\ s[1] = Mov(x, rax) /\ s[2] = Asm("cmp", y, rax) /\ s[3] = Asm(Setter(code[k].op), rax, Nil)
        /\ s[4] = Mov(rax, z) /\ (q = 1 \/ q = 2 \/ q = 3 \/ q = 4)
    BY <2>1
  <2> QED
    BY <1>4, <2>2, <2>3
<1> QED
  BY <1>5, <1>6, <1>7, <1>8, <1>9, <1>10, <1>11
  DEF Binary, Unary, BinaryOp, Arithmetic, Logical, OneStep, Compares

\* Entering a method is quiet after the first lines.
LEMMA EntryQuiet ==
  ASSUME NEW s, NEW f, NEW size \in Nat, NEW n \in Nat,
         IsEntry(s, f, size, n, Prelude(size), InRegs(n)), NEW q \in 1..Len(s), q > Prelude(size) \/ q = 1
  PROVE  Quiet(s[q])
<1>1. PICK h, r : h = Prelude(size) /\ r = InRegs(n) /\ IsEntry(s, f, size, n, h, r) /\ r \in 0..6
                  /\ h \in Nat /\ h >= 3 /\ (size > 0 => h >= 4)
  <2>1. InRegs(n) \in 0..6 /\ Prelude(size) \in Nat /\ Prelude(size) >= 3 /\ (size > 0 => Prelude(size) >= 4)
    BY DEF InRegs, Prelude
  <2> QED
    BY <2>1
<1>2. CASE q = 1
  BY <1>1, <1>2, QuietLines DEF IsEntry, Landmarks
<1>3. CASE q > h
  <2>1. q \in 1..(Prelude(size) + (InRegs(n) + 2 * (n - InRegs(n))))
    BY DEF IsEntry
  <2>2. \/ q \in 1..3 \/ (q = 4 /\ size > 0)
        \/ \E j \in 1..r : q = h + j
        \/ \E t \in 1..(n - r) : q = h + (r + (2 * t - 1)) \/ q = h + (r + 2 * t)
    <3>1. \/ q \in 1..3 \/ (q = 4 /\ size > 0)
          \/ \E j \in 1..InRegs(n) : q = Prelude(size) + j
          \/ \E t \in 1..(n - InRegs(n)) :
               \/ q = Prelude(size) + (InRegs(n) + (2 * t - 1))
               \/ q = Prelude(size) + (InRegs(n) + 2 * t)
      BY <2>1, EntryLines
    <3> QED
      BY <1>1, <3>1
  <2>3. CASE \E j \in 1..r : q = h + j
    <3>1. PICK j \in 1..r : q = h + j
      BY <2>3
    <3>2. s[q] = Mov(Reg(arg_regs[j]), Slot(-j))
      BY <1>1, <3>1 DEF IsEntry
    <3>3. Harmless(Slot(-j))
      <4>1. -j \in Int /\ -j < 0
        BY <1>1
      <4> QED
        BY <4>1 DEF Harmless, Slot, Place
    <3> QED
      BY <3>2, <3>3, QuietLines
  <2>4. CASE \E t \in 1..(n - r) : q = h + (r + (2 * t - 1)) \/ q = h + (r + 2 * t)
    <3>1. PICK t \in 1..(n - r) : q = h + (r + (2 * t - 1)) \/ q = h + (r + 2 * t)
      BY <2>4
    <3>2. s[q] = Mov(Slot(1 + t), rax) \/ s[q] = Mov(rax, Slot(-(6 + t)))
      BY <1>1, <3>1 DEF IsEntry
    <3>3. Harmless(Slot(-(6 + t))) /\ Harmless(rax)
      <4>1. -(6 + t) \in Int /\ -(6 + t) < 0
        BY <1>1
      <4> QED
        BY <4>1, WorkPlaces DEF Harmless, Slot, Place
    <3> QED
      BY <3>2, <3>3, QuietLines
  <2>5. ~(q \in 1..3) /\ ~(q = 4 /\ size > 0)
    BY <1>1, <1>3
  <2> QED
    BY <2>2, <2>3, <2>4, <2>5
<1> QED
  BY <1>1, <1>2, <1>3

-----------------------------------------------------------------------------
(* The processor, line by line.                                            *)

\* registers and memory are where they should be
Equipped == DOMAIN regs = Registers /\ DOMAIN mem = Addresses

\* A quiet line leaves stack pointer, frame pointer and the memory above it alone.
LEMMA QuietStep ==
  ASSUME Processor, Quiet(ins), Equipped, regs["rbp"] \in Int
  PROVE  /\ pc' = pc + 1 /\ regs'["rsp"] = regs["rsp"] /\ regs'["rbp"] = regs["rbp"] /\ Equipped'
         /\ \A a \in Addresses : a >= regs["rbp"] => mem'[a] = mem[a]
<1>1. "rsp" \in Registers /\ "rbp" \in Registers /\ \A r \in Working : r # "rsp" /\ r # "rbp"
  BY RegisterFacts DEF Working
<1>2. CASE Data
  <2>1. PICK target, v : /\ target = (IF ins.op \in OneOperand THEN ins.a ELSE ins.b)
                         /\ Write(target, v) /\ Next1
    BY <1>2 DEF Data
  <2>2. Harmless(target)
    <3>1. CASE ins.op \in OneOperand
      BY <2>1, <3>1 DEF Quiet, OneOperand, Landmarks
    <3>2. CASE ins.op \notin OneOperand
      BY <1>2, <2>1, <3>2 DEF Quiet, Data, Landmarks
    <3> QED
      BY <3>1, <3>2
  <2>3. CASE target.at = "reg"
    <3>1. target.n \in Working /\ regs' = [regs EXCEPT ![target.n] = v] /\ mem' = mem
      BY <2>1, <2>2, <2>3 DEF Harmless, Write
    <3> QED
      BY <1>1, <2>1, <3>1 DEF Next1, Equipped
  <2>4. CASE target.at # "reg"
    <3>1. /\ target.n \in Int /\ target.n < 0 /\ regs' = regs
          /\ mem' = [mem EXCEPT ![regs["rbp"] + target.n] = v]
      BY <2>1, <2>2, <2>4 DEF Harmless, Write
    <3>2. regs["rbp"] + target.n < regs["rbp"] /\ regs["rbp"] + target.n \in Int
      BY <3>1
    <3>3. \A a \in Addresses : a \in Int
      BY MaxStackAssumption DEF Addresses
    <3>4. \A a \in Addresses : a >= regs["rbp"] => a # regs["rbp"] + target.n
      BY <3>2, <3>3
    <3> QED
      BY <2>1, <3>1, <3>4 DEF Next1, Equipped
  <2> QED
    BY <2>3, <2>4
<1>3. CASE Compare \/ Mark
  BY <1>3 DEF Compare, Mark, Next1, Equipped
<1>4. CASE SignExtend \/ Divide
  <2>1. PICK v, w : regs' = [regs EXCEPT !["rax"] = v, !["rdx"] = w]
                    \/ regs' = [regs EXCEPT !["rdx"] = w]
    BY <1>4 DEF SignExtend, Divide
  <2>2. pc' = pc + 1 /\ mem' = mem
    BY <1>4 DEF SignExtend, Divide, Next1
  <2> QED
    BY <1>1, <2>1, <2>2 DEF Equipped
<1>5. CASE CallExtern
  <2>1. PICK v : regs' = [r \in Registers |-> IF r \in {"rsp", "rbp"} THEN regs[r] ELSE IF r = "rax" THEN v ELSE Junk]
    BY <1>5 DEF CallExtern
  <2> QED
    BY <1>1, <1>5, <2>1 DEF CallExtern, Next1, Equipped
<1>6. CASE Push \/ Pop \/ Branch \/ Ret
  BY <1>6 DEF Push, Pop, Branch, Ret, Quiet, OneOperand, Landmarks
<1>7. CASE Call
  BY <1>7 DEF Call, Quiet, OneOperand, Landmarks
<1> QED
  BY <1>2, <1>3, <1>4, <1>5, <1>6, <1>7 DEF Processor

\* Pushing a word.
LEMMA PushStep ==
  ASSUME Processor, ins.op = "push", Equipped, regs["rsp"] \in Int
  PROVE  /\ pc' = pc + 1 /\ regs'["rsp"] = regs["rsp"] - 1 /\ regs'["rbp"] = regs["rbp"] /\ Equipped'
         /\ regs["rsp"] - 1 >= -MaxStack
         /\ mem' = [mem EXCEPT ![regs["rsp"] - 1] = Read(ins.a)]
<1>1. Push
  BY DEF Processor, Data, Compare, SignExtend, Divide, Pop, Branch, Mark, Call, CallExtern, Ret, OneOperand
<1>2. "rsp" \in Registers /\ "rbp" \in Registers
  BY RegisterFacts
<1> QED
  BY <1>1, <1>2 DEF Push, PushWord, Fits, Next1, Equipped

\* Moving the stack pointer, or the frame pointer to it.
LEMMA PointerStep ==
  ASSUME Processor, Equipped, ins.b = Reg("rsp") \/ ins.b = Reg("rbp"),
         ins.op \in {"mov", "add", "sub"}
  PROVE  LET v == Effect(Read(ins.a), regs[ins.b.n]) IN
         /\ pc' = pc + 1 /\ mem' = mem /\ Equipped' /\ regs'[ins.b.n] = v
         /\ \A r \in Registers : r # ins.b.n => regs'[r] = regs[r]
         /\ ins.b = Reg("rsp") => v >= -MaxStack
<1>1. Data
  BY DEF Processor, Push, Compare, SignExtend, Divide, Pop, Branch, Mark, Call, CallExtern, Ret
<1>2. PICK t : t = ins.b /\ t.at = "reg" /\ t.n \in {"rsp", "rbp"} /\ (ins.b = Reg("rsp") => t.n = "rsp")
  BY DEF Reg, Place
<1>3. Read(t) = regs[t.n]
  BY <1>2 DEF Read
<1>4. PICK v : v = Effect(Read(ins.a), regs[t.n])
  OBVIOUS
<1>5. Write(t, v) /\ Next1 /\ (t.at = "reg" /\ t.n = "rsp" => Fits(v))
  <2>1. ins.op \notin OneOperand
    BY DEF OneOperand
  <2> QED
    BY <1>1, <1>2, <1>3, <1>4, <2>1 DEF Data
<1>6. regs' = [regs EXCEPT ![t.n] = v] /\ mem' = mem
  BY <1>2, <1>5 DEF Write
<1>7. t.n \in Registers
  BY <1>2, RegisterFacts
<1> QED
  BY <1>2, <1>4, <1>5, <1>6, <1>7 DEF Next1, Equipped, Fits

\* Restoring the frame pointer.
LEMMA PopStep ==
  ASSUME Processor, Equipped, ins.op = "pop", ins.a = Reg("rbp")
  PROVE  /\ pc' = pc + 1 /\ mem' = mem /\ Equipped'
         /\ regs'["rsp"] = regs["rsp"] + 1 /\ regs'["rbp"] = mem[regs["rsp"]]
<1>1. Pop
  BY DEF Processor, Data, Push, Compare, SignExtend, Divide, Branch, Mark, Call, CallExtern, Ret, OneOperand
<1>2. "rsp" \in Registers /\ "rbp" \in Registers
  BY RegisterFacts
<1> QED
  BY <1>1, <1>2 DEF Pop, Next1, Equipped, Reg, Place

\* Jumping.
LEMMA BranchStep ==
  ASSUME Processor, ins.op \in {"jmp", "jz", "jmp_leave"}
  PROVE  /\ UNCHANGED <<regs, flags, mem>>
         /\ pc' = IF ins.op = "jz" /\ flags # 0 THEN pc + 1
                  ELSE AsmIndex(IF ins.op = "jmp_leave" THEN "leave" ELSE "label", ins.a.n)
<1>1. Branch
  BY DEF Processor, Data, Push, Compare, SignExtend, Divide, Pop, Mark, Call, CallExtern, Ret, OneOperand
<1> QED
  BY <1>1 DEF Branch

\* Calling a method of the program.
LEMMA CallStepRun ==
  ASSUME Processor, Equipped, regs["rsp"] \in Int, ins.op = "call", ~IsExtern(ins.a.n)
  PROVE  /\ pc' = AsmIndex("entry", ins.a.n) /\ Equipped'
         /\ regs["rsp"] - 1 >= -MaxStack /\ regs' = [regs EXCEPT !["rsp"] = @ - 1]
         /\ mem' = [mem EXCEPT ![regs["rsp"] - 1] = pc + 1]
<1>1. Call
  BY DEF Processor, Data, Push, Compare, SignExtend, Divide, Pop, Branch, Mark, CallExtern, Ret, OneOperand
<1> QED
  BY <1>1 DEF Call, PushWord, Fits, Equipped

\* Returning.
LEMMA RetStepRun ==
  ASSUME Processor, Equipped, ins.op = "ret"
  PROVE  /\ pc' = mem[regs["rsp"]] /\ mem' = mem /\ Equipped' /\ flags' = flags
         /\ regs' = [regs EXCEPT !["rsp"] = @ + 1]
<1>1. Ret
  BY DEF Processor, Data, Push, Compare, SignExtend, Divide, Pop, Branch, Mark, Call, CallExtern, OneOperand
<1> QED
  BY <1>1 DEF Ret, Equipped

-----------------------------------------------------------------------------
(* Where the processor goes.                                               *)

\* A place of the code belongs to the instruction whose code surrounds it.
LEMMA PlaceOf ==
  ASSUME NEW B, Built(B), NEW j \in 1..Len(asm), NEW k \in 1..Len(code), B[k] <= j, j < B[k + 1]
  PROVE  asm[j].of = k
<1>1. PICK n : n = asm[j].of
  OBVIOUS
<1>2. /\ Len(code) \in Nat /\ n \in 1..Len(code) /\ B[n] <= j /\ j < B[n + 1]
      /\ \A h \in 1..(Len(code) + 1) : B[h] \in Nat \ {0}
      /\ \A g, h \in 1..(Len(code) + 1) : g <= h => B[g] <= B[h]
  BY <1>1, Places
<1>3. /\ k \in 1..(Len(code) + 1) /\ k + 1 \in 1..(Len(code) + 1)
      /\ n \in 1..(Len(code) + 1) /\ n + 1 \in 1..(Len(code) + 1)
  BY <1>2
<1>4. B[k] \in Nat /\ B[n] \in Nat /\ B[k + 1] \in Nat /\ B[n + 1] \in Nat /\ j \in Nat
  BY <1>2, <1>3
<1>5. ~(n + 1 <= k)
  <2>1. n + 1 <= k => B[n + 1] <= B[k]
    BY <1>2, <1>3
  <2> QED
    BY <1>2, <1>4, <2>1
<1>6. ~(k + 1 <= n)
  <2>1. k + 1 <= n => B[k + 1] <= B[n]
    BY <1>2, <1>3
  <2> QED
    BY <1>2, <1>4, <2>1
<1> QED
  BY <1>1, <1>3, <1>5, <1>6

\* The lines of an instruction lie in a row.
LEMMA InRow ==
  ASSUME NEW B, Built(B), NEW e \in 1..Len(code), NEW k \in 1..Len(code), In(e, k),
         NEW s, TextAt(B, e, k, s), NEW q \in 0..(Len(s) - 1)
  PROVE  B[k] + q \in 1..Len(asm) /\ asm[B[k] + q].of = k /\ IsAt(B[k] + q, s[q + 1])
<1>1. /\ Len(code) \in Nat /\ Len(asm) \in Nat
      /\ \A h \in 1..(Len(code) + 1) : B[h] \in Nat \ {0} /\ B[h] <= Len(asm) + 1
  BY Places
<1>2. B[k] \in Nat \ {0} /\ B[k + 1] <= Len(asm) + 1 /\ Len(s) \in Nat /\ B[k + 1] = B[k] + Len(s)
  BY <1>1 DEF TextAt
<1>3. PICK b, n, a : b = B[k] /\ n = Len(s) /\ a = Len(asm) /\ b \in Nat \ {0} /\ n \in Nat /\ a \in Nat
                     /\ b + n <= a + 1
  BY <1>1, <1>2
<1>4. b + q \in 1..a /\ b <= b + q /\ b + q < b + n /\ q + 1 \in 1..n /\ b + ((q + 1) - 1) = b + q
  BY <1>3, SMTT(30)
<1>5. asm[B[k] + q].of = k
  BY <1>2, <1>3, <1>4, PlaceOf
<1>6. IsAt(B[k] + ((q + 1) - 1), s[q + 1])
  BY <1>3, <1>4 DEF TextAt
<1> QED
  BY <1>3, <1>4, <1>5, <1>6

\* An instruction that is no parameter and no call has no parameter before it.
LEMMA NonePassed ==
  ASSUME program \in Programs, NEW k \in 1..Len(code), code[k].op \notin {"PARAM", "CALL"}, NEW n
  PROVE  Passed(code, k, n) <=> n = 0
<1>1. Len(code) \in Nat /\ DOMAIN code = 1..Len(code) /\ CallShape(code, program.methods)
  BY CodeFacts, ShapeFacts
<1>2. ASSUME k > 1, code[k - 1].op = "PARAM" PROVE FALSE
  <2>1. k - 1 \in 1..Len(code) /\ (k - 1) + 1 = k
    BY <1>1, <1>2
  <2> QED
    BY <1>1, <1>2, <2>1 DEF CallShape
<1>3. ASSUME Passed(code, k, n), n # 0 PROVE FALSE
  <2>1. n \in Nat /\ n <= k - 1 /\ n > 0
    BY <1>1, <1>3 DEF Passed
  <2>2. k - 1 \in (k - n)..(k - 1) /\ k > 1
    BY <1>1, <2>1
  <2> QED
    BY <1>2, <1>3, <2>2 DEF Passed
<1>4. Passed(code, k, 0)
  <2>1. (k - 0)..(k - 1) = {} /\ 0 \in 0..(k - 1) /\ k - 0 - 1 = k - 1 /\ k - 0 = k
    BY <1>1
  <2> QED
    BY <1>1, <1>2, <2>1 DEF Passed
<1> QED
  BY <1>3, <1>4

\* What has been passed before the instruction that follows.
LEMMA NextPassed ==
  ASSUME program \in Programs, NEW e \in 1..Len(code), NEW k \in 1..Len(code), NEW l,
         FollowsIn(e, k, l)
  PROVE  /\ code[k].op = "PARAM" => l = k + 1 /\ \A n : Passed(code, k, n) => Passed(code, l, n + 1)
         /\ code[k].op # "PARAM" => Passed(code, l, 0)
<1>1. Len(code) \in Nat /\ DOMAIN code = 1..Len(code) /\ CallShape(code, program.methods)
  BY CodeFacts, ShapeFacts
<1>2. l \in 1..Len(code) /\ k < l /\ \A j \in (k + 1)..(l - 1) : code[j].op = "LOAD"
  BY DEF FollowsIn
<1>3. CASE code[k].op = "PARAM"
  <2>1. k + 1 \in 1..Len(code) /\ code[k + 1].op \in {"PARAM", "CALL"}
    BY <1>1, <1>3 DEF CallShape
  <2>2. l = k + 1
    <3>1. ASSUME k + 1 < l PROVE FALSE
      <4>1. k + 1 \in (k + 1)..(l - 1)
        BY <1>1, <1>2, <3>1
      <4> QED
        BY <1>2, <2>1, <4>1
    <3> QED
      BY <1>1, <1>2, <3>1
  <2>3. ASSUME NEW n, Passed(code, k, n) PROVE Passed(code, k + 1, n + 1)
    <3>1. n \in Nat /\ n <= k - 1
      BY <1>1, <2>3 DEF Passed
    <3>2. /\ n + 1 \in 0..((k + 1) - 1) /\ (k + 1) - (n + 1) = k - n
          /\ \A j \in (k - n)..((k + 1) - 1) : j = k \/ j \in (k - n)..(k - 1)
      BY <1>1, <3>1
    <3>3. PICK a : a = (k + 1) - (n + 1) /\ a = k - n
      BY <3>2
    <3>4. /\ \A j \in a..((k + 1) - 1) : code[j].op = "PARAM"
          /\ a > 1 => code[a - 1].op # "PARAM"
      BY <1>3, <2>3, <3>2, <3>3 DEF Passed
    <3> QED
      BY <3>2, <3>3, <3>4 DEF Passed
  <2> QED
    BY <1>3, <2>2, <2>3
<1>4. CASE code[k].op # "PARAM"
  <2>1. l > 1 /\ code[l - 1].op # "PARAM"
    <3>1. CASE l = k + 1
      BY <1>1, <1>4, <3>1
    <3>2. CASE l # k + 1
      <4>1. l - 1 \in (k + 1)..(l - 1)
        BY <1>1, <1>2, <3>2
      <4> QED
        BY <1>1, <1>2, <4>1
    <3> QED
      BY <3>1, <3>2
  <2>2. (l - 0)..(l - 1) = {} /\ 0 \in 0..(l - 1) /\ l - 0 = l
    BY <1>1, <1>2
  <2> QED
    BY <1>4, <2>1, <2>2 DEF Passed
<1> QED
  BY <1>3, <1>4

-----------------------------------------------------------------------------
(* Jumps, calls and returns.                                               *)

\* Instructions that mark a place differ in their names.
LEMMA MarksDiffer ==
  ASSUME program \in Programs, NEW k \in 1..Len(code), NEW l \in 1..Len(code),
         code[k].op \in {"ENTER", "LEAVE", "LABEL"}, code[l].op = code[k].op,
         code[l].var1.id = code[k].var1.id
  PROVE  k = l
<1>1. /\ Len(code) \in Nat /\ DOMAIN code = 1..Len(code) /\ MethodShape(code) /\ JumpShape(code)
  BY CodeFacts, ShapeFacts
<1>2. CASE code[k].op = "ENTER"
  BY <1>1, <1>2, SMTT(30) DEF MethodShape
<1>3. CASE code[k].op = "LABEL"
  BY <1>1, <1>3 DEF JumpShape
<1>4. CASE code[k].op = "LEAVE"
  <2>1. PICK d \in 1..Len(code), e \in 1..Len(code) :
           /\ Encloses(code, d, k) /\ Encloses(code, e, l) /\ code[d].op = "ENTER" /\ code[e].op = "ENTER"
    BY <1>1, <1>4 DEF MethodShape
  <2>2. d = e
    BY <1>1, <2>1, SMTT(30) DEF MethodShape, Encloses
  <2>3. ASSUME NEW x \in 1..Len(code), NEW y \in 1..Len(code), Encloses(code, d, x), Encloses(code, d, y),
               x < y
        PROVE  FALSE
    <3>1. x \in (d + 1)..(y - 1) /\ code[x].op = "LEAVE"
      BY <1>1, <2>3 DEF Encloses, Within
    <3> QED
      BY <2>3, <3>1 DEF Encloses, Within
  <2>4. ~(k < l) /\ ~(l < k)
    BY <2>1, <2>2, <2>3
  <2> QED
    BY <1>1, <2>4
<1> QED
  BY <1>2, <1>3, <1>4

\* A landmark is where the code of its instruction begins.
LEMMA LandmarkIndex ==
  ASSUME NEW B, Built(B), NEW e \in 1..Len(code), NEW k \in 1..Len(code), In(e, k),
         NEW op \in Landmarks, code[k].op = Origin(op)
  PROVE  /\ B[k] \in 1..Len(asm) /\ asm[B[k]].of = k /\ AsmIndex(op, code[k].var1.id) = B[k]
         /\ asm[B[k]].op = op
<1>1. program \in Programs
  BY DEF Built, GeneratedInv, PlaceInv
<1>2. PICK s, f, m, size : /\ f = FirstCharacters(code[e].var1.id) /\ m = SlotsOf(e) /\ size = FrameOf(e)
                           /\ TextAt(B, e, k, s)
  BY BuiltFacts
<1>3. size \in Nat /\ code[k].op \in Ops
  BY <1>2, BuiltFacts
<1>4. PICK x, y, z, p :
        /\ x = Str(m, code[k].var1) /\ y = Str(m, code[k].var2) /\ z = Str(m, code[k].reg)
        /\ p = Parameters(k)
  OBVIOUS
<1>5. IsTurn(code[k], f, x, z, s) /\ IsPassing(code[k], p, size, x, z, s)
  BY <1>2, <1>4 DEF TextAt, IsText
<1>6. code[k].op \in {"ENTER", "LEAVE", "LABEL"}
  BY DEF Landmarks, Origin
<1>7. Len(s) >= 1 /\ Len(s) \in Nat
  <2>1. code[k].op \in Ops \ Silent
    BY <1>3, <1>6 DEF Silent
  <2>2. IsText(k, f, m, size, s) /\ Len(s) \in Nat
    BY <1>2 DEF TextAt
  <2> QED
    BY <1>1, <1>3, <2>1, <2>2, TextLength
<1>8. s[1].op = op /\ s[1].a = Sym(code[k].var1.id)
  <2>1. CASE code[k].op = "ENTER"
    <3>1. PICK n \in Nat : n = p
      BY <1>1, <1>4, <2>1, CodeFacts DEF Parameters
    <3>2. s = Entry(code[k].var1.id, size) \o ArgCopies(n)
      BY <1>5, <2>1, <3>1 DEF IsPassing
    <3>3. IsEntry(s, code[k].var1.id, size, n, Prelude(size), InRegs(n))
      BY <1>3, <3>2, EntryText
    <3>4. s[1] = Asm("entry", Sym(code[k].var1.id), Nil)
      BY <3>3 DEF IsEntry
    <3>5. op = "entry"
      BY <2>1 DEF Landmarks, Origin
    <3> QED
      BY <3>4, <3>5 DEF Asm
  <2>2. CASE code[k].op = "LEAVE"
    <3>1. op = "leave"
      BY <2>2 DEF Landmarks, Origin
    <3> QED
      BY <1>5, <2>2, <3>1 DEF IsTurn, Asm
  <2>3. CASE code[k].op = "LABEL"
    <3>1. op = "label"
      BY <2>3 DEF Landmarks, Origin
    <3> QED
      BY <1>5, <2>3, <3>1 DEF IsTurn, Asm
  <2> QED
    BY <1>6, <2>1, <2>2, <2>3
<1>9. B[k] + 0 \in 1..Len(asm) /\ asm[B[k] + 0].of = k /\ IsAt(B[k] + 0, s[0 + 1])
  <2>1. 0 \in 0..(Len(s) - 1)
    BY <1>7
  <2> QED
    BY <1>2, <2>1, InRow
<1>10. B[k] + 0 = B[k]
  BY Places, SMTT(30)
<1>11. B[k] \in 1..Len(asm) /\ asm[B[k]].of = k /\ asm[B[k]].op = op /\ asm[B[k]].a.n = code[k].var1.id
  BY <1>8, <1>9, <1>10 DEF IsAt, Sym, Place
<1>12. ASSUME NEW j \in DOMAIN asm, asm[j].op = op, asm[j].a.n = code[k].var1.id PROVE j = B[k]
  <2>1. j \in 1..Len(asm)
    BY Places
  <2>2. PICK n : n = asm[j].of /\ n \in 1..Len(code) /\ j = B[n] /\ code[n].op = Origin(op)
                 /\ asm[j].a = Sym(code[n].var1.id)
    BY <1>12, <2>1, Places
  <2>3. code[n].var1.id = code[k].var1.id
    <3>1. \A w : Sym(w).n = w
      BY DEF Sym, Place
    <3> QED
      BY <1>12, <2>2, <3>1
  <2>4. n = k
    BY <1>1, <1>6, <2>2, <2>3, MarksDiffer
  <2> QED
    BY <2>2, <2>4
<1>13. B[k] \in DOMAIN asm
  BY <1>11, Places
<1>14. AsmIndex(op, code[k].var1.id) = B[k]
  BY <1>11, <1>12, <1>13 DEF AsmIndex
<1> QED
  BY <1>11, <1>14

\* where a jump in the method entered at e goes
Goal(e, k) ==
  CASE code[k].op = "RET" -> IndexOf("LEAVE", code[e].var1.id)
    [] code[k].op = "CALL" -> IndexOf("ENTER", code[k].var1.id)
    [] OTHER -> IndexOf("LABEL", Destination(code[k]))

\* It goes to an instruction of its method, a call to one that enters a method.
LEMMA Goals ==
  ASSUME program \in Programs, NEW e \in 1..Len(code), NEW k \in 1..Len(code), In(e, k)
  PROVE  LET l == Goal(e, k) IN
         /\ code[k].op = "RET" =>
              l \in 1..Len(code) /\ In(e, l) /\ code[l].op = "LEAVE" /\ code[l].var1.id = code[e].var1.id
         /\ code[k].op \in {"JMP", "JMPF"} =>
              /\ l \in 1..Len(code) /\ In(e, l) /\ code[l].op = "LABEL"
              /\ code[l].var1.id = Destination(code[k])
         /\ code[k].op = "CALL" /\ ~IsExtern(code[k].var1.id) =>
              l \in 1..Len(code) /\ In(l, l) /\ code[l].op = "ENTER" /\ code[l].var1.id = code[k].var1.id
<1>1. /\ Len(code) \in Nat /\ DOMAIN code = 1..Len(code) /\ MethodShape(code) /\ JumpShape(code)
      /\ CallShape(code, program.methods) /\ code[e].op = "ENTER"
  BY CodeFacts, ShapeFacts DEF In
<1>2. ASSUME NEW op \in {"ENTER", "LEAVE", "LABEL"}, NEW l \in 1..Len(code), code[l].op = op
      PROVE  IndexOf(op, code[l].var1.id) = l
  <2>1. \A j \in DOMAIN code : code[j].op = op /\ code[j].var1.id = code[l].var1.id => j = l
    BY <1>1, <1>2, MarksDiffer
  <2> QED
    BY <1>1, <1>2, <2>1 DEF IndexOf
<1>3. CASE code[k].op = "RET"
  <2>1. PICK l \in 1..Len(code) : Encloses(code, e, l) /\ In(e, l)
    BY EndOf
  <2>2. code[l].op = "LEAVE" /\ code[l].var1.id = code[e].var1.id
    BY <2>1 DEF Encloses
  <2>3. Goal(e, k) = l
    BY <1>2, <1>3, <2>2 DEF Goal
  <2> QED
    BY <1>3, <2>1, <2>2, <2>3
<1>4. CASE code[k].op \in {"JMP", "JMPF"}
  <2>1. Within(code, e, k)
    BY <1>1, <1>4 DEF In
  <2>2. PICK l \in DOMAIN code : /\ code[l].op = "LABEL" /\ code[l].var1.id = Destination(code[k])
                                 /\ Within(code, e, l)
    BY <1>1, <1>4, <2>1 DEF JumpShape
  <2>3. Goal(e, k) = l
    <3>1. IndexOf("LABEL", code[l].var1.id) = l
      BY <1>1, <1>2, <2>2
    <3> QED
      BY <1>4, <2>2, <3>1 DEF Goal
  <2> QED
    BY <1>1, <1>4, <2>2, <2>3 DEF In
<1>5. CASE code[k].op = "CALL" /\ ~IsExtern(code[k].var1.id)
  <2>1. PICK l \in 1..Len(code) : code[l].op = "ENTER" /\ code[l].var1.id = code[k].var1.id
    BY <1>1, <1>5 DEF CallShape, IsExtern
  <2>2. Goal(e, k) = l
    BY <1>2, <1>5, <2>1 DEF Goal
  <2> QED
    BY <1>5, <2>1, <2>2 DEF In
<1> QED
  BY <1>3, <1>4, <1>5

\* j is where the code of instruction l of the method entered at e begins, with n
\* arguments passed
Arrives(B, e, j, l, n) ==
  /\ j \in 1..Len(asm) /\ asm[j].of = l /\ l \in 1..Len(code) /\ In(e, l) /\ j = B[l]
  /\ code[l].op \notin {"ENTER"} \cup Silent /\ Passed(code, l, n)

\* After the last line of an instruction.
LEMMA ArrivesNext ==
  ASSUME NEW B, Built(B), NEW e \in 1..Len(code), NEW k \in 1..Len(code), In(e, k),
         code[k].op # "LEAVE", NEW n, Passed(code, k, n) \/ code[k].op # "PARAM"
  PROVE  \E l : /\ FollowsIn(e, k, l)
                /\ Arrives(B, e, B[k + 1], l, IF code[k].op = "PARAM" THEN n + 1 ELSE 0)
<1>1. program \in Programs
  BY DEF Built, GeneratedInv, PlaceInv
<1>2. PICK j : j = B[k + 1]
  OBVIOUS
<1>3. PICK l : l = asm[j].of
  OBVIOUS
<1>4. j \in 1..Len(asm) /\ FollowsIn(e, k, l) /\ B[l] = j
  BY <1>2, <1>3, NextCode
<1>5. Passed(code, l, IF code[k].op = "PARAM" THEN n + 1 ELSE 0)
  BY <1>1, <1>4, NextPassed
<1>6. l \in 1..Len(code) /\ k < l /\ In(e, l) /\ code[l].op \notin Silent
  BY <1>4 DEF FollowsIn
<1>7. code[l].op # "ENTER"
  <2>1. ASSUME code[l].op = "ENTER" PROVE FALSE
    <3>1. Len(code) \in Nat /\ e <= k
      BY <1>1, CodeFacts DEF In, Within
    <3>2. Within(code, e, l) /\ e \in 1..(l - 1) /\ l \in 1..(Len(code) + 1)
      BY <1>6, <3>1 DEF In
    <3> QED
      BY <1>1, <2>1, <3>2, NotNested
  <2> QED
    BY <2>1
<1>8. Arrives(B, e, j, l, IF code[k].op = "PARAM" THEN n + 1 ELSE 0)
  BY <1>3, <1>4, <1>5, <1>6, <1>7 DEF Arrives
<1> QED
  BY <1>2, <1>4, <1>8

\* After a jump.
LEMMA ArrivesGoal ==
  ASSUME NEW B, Built(B), NEW e \in 1..Len(code), NEW k \in 1..Len(code), In(e, k),
         code[k].op \in {"RET", "JMP", "JMPF"}
  PROVE  /\ code[k].op = "RET" =>
              Arrives(B, e, AsmIndex("leave", code[e].var1.id), Goal(e, k), 0)
         /\ code[k].op # "RET" =>
              Arrives(B, e, AsmIndex("label", Destination(code[k])), Goal(e, k), 0)
<1>1. program \in Programs
  BY DEF Built, GeneratedInv, PlaceInv
<1>2. PICK l : l = Goal(e, k)
  OBVIOUS
<1>3. ASSUME NEW op \in {"leave", "label"}, NEW id, l \in 1..Len(code), In(e, l), code[l].op = Origin(op),
             code[l].var1.id = id
      PROVE  Arrives(B, e, AsmIndex(op, id), l, 0)
  <2>1. op \in Landmarks
    BY <1>3 DEF Landmarks
  <2>2. B[l] \in 1..Len(asm) /\ asm[B[l]].of = l /\ AsmIndex(op, id) = B[l]
    BY <1>3, <2>1, LandmarkIndex
  <2>3. code[l].op \in {"LEAVE", "LABEL"}
    BY <1>3 DEF Origin
  <2>4. Passed(code, l, 0)
    BY <1>1, <1>3, <2>3, NonePassed
  <2> QED
    BY <1>3, <2>2, <2>3, <2>4 DEF Arrives, Silent
<1>4. Origin("leave") = "LEAVE" /\ Origin("label") = "LABEL"
  BY DEF Origin
<1> QED
  BY <1>1, <1>2, <1>3, <1>4, Goals

-----------------------------------------------------------------------------
(* One activation on the stack.                                            *)

\* Where stack pointer sp and frame pointer bp are at line q of instruction k, in
\* an activation of the method entered at e with frame pointer f, made by one with
\* frame pointer v
StageAt(e, f, v, k, q, sp, bp) ==
  LET op == code[k].op IN
  /\ op = "ENTER" =>
       /\ q <= 1 => sp = f + 1 /\ bp = v
       /\ q = 2 => sp = f /\ bp = v
       /\ q = 3 => sp = f /\ bp = f
       /\ q > 3 => sp = f - FrameOf(e) /\ bp = f
  /\ op = "LEAVE" =>
       /\ q <= 1 => sp = f - FrameOf(e) /\ bp = f
       /\ q = 2 => sp = f /\ bp = f
       /\ q > 2 => sp = f + 1 /\ bp = v
  /\ op \notin {"ENTER", "LEAVE"} =>
       bp = f /\ \E n \in Nat : Passed(code, k, n) /\ sp = f - FrameOf(e) - Extra(n)

\* an activation at place p, with registers r and memory m; its frame pointer is
\* saved once it has been pushed
StandsAt(B, e, f, v, p, r, m) ==
  LET k == asm[p].of
      q == p - B[k]
  IN  /\ p \in 1..Len(asm) /\ k \in 1..Len(code) /\ In(e, k)
      /\ StageAt(e, f, v, k, q, r["rsp"], r["rbp"]) /\ r["rsp"] >= -MaxStack
      /\ DOMAIN r = Registers /\ DOMAIN m = Addresses
      /\ ~(code[k].op = "ENTER" /\ q <= 1) => f \in Addresses /\ m[f] = v

\* from place p in the code of k to place j
Moves(B, e, k, p, j) ==
  \/ j = p + 1 /\ asm[j].of = k
  \/ \E l : /\ FollowsIn(e, k, l) \/ (code[k].op \in {"RET", "JMP", "JMPF"} /\ l = Goal(e, k))
            /\ code[k].op # "LEAVE"
            /\ IF code[k].op = "PARAM" THEN \E n \in Nat : Passed(code, k, n) /\ Arrives(B, e, j, l, n + 1)
               ELSE Arrives(B, e, j, l, 0)

\* The line at a place.
LEMMA AtLine ==
  ASSUME NEW B, Built(B), NEW e \in 1..Len(code), NEW p \in 1..Len(asm), In(e, asm[p].of)
  PROVE  \E k, q, s :
           /\ k \in 1..Len(code) /\ q \in Nat /\ k = asm[p].of /\ q = p - B[k] /\ p = B[k] + q /\ B[k] \in Nat /\ TextAt(B, e, k, s)
           /\ q < Len(s) /\ Len(s) \in Nat /\ IsAt(p, s[q + 1]) /\ code[k].op \in Ops \ Silent
<1>1. PICK k \in 1..Len(code) : k = asm[p].of /\ B[k] <= p /\ p < B[k + 1]
  BY Places
<1>2. PICK s : TextAt(B, e, k, s) /\ code[k].op \in Ops
  BY <1>1, BuiltFacts
<1>3. B[k] \in Nat /\ B[k + 1] = B[k] + Len(s) /\ Len(s) \in Nat /\ p \in Nat
  <2>1. k \in 1..(Len(code) + 1)
    BY Places
  <2> QED
    BY <1>2, <2>1, Places DEF TextAt
<1>4. PICK q \in Nat : q = p - B[k] /\ p = B[k] + q
  BY <1>1, <1>3
<1>5. q < Len(s) /\ q \in 0..(Len(s) - 1)
  <2>1. PICK b \in Nat, n \in Nat : b = B[k] /\ n = Len(s) /\ p = b + q /\ p < b + n
    BY <1>1, <1>3, <1>4
  <2>2. q < n /\ q \in 0..(n - 1)
    BY <2>1
  <2> QED
    BY <2>1, <2>2
<1>6. IsAt(p, s[q + 1])
  <2>1. In(e, k)
    BY <1>1
  <2>2. IsAt(B[k] + q, s[q + 1])
    BY <1>2, <1>5, <2>1, InRow
  <2> QED
    BY <1>4, <2>2
<1>7. code[k].op \notin Silent
  <2>1. ASSUME code[k].op \in Silent PROVE FALSE
    <3>1. s = <<>>
      BY <1>2, <2>1 DEF TextAt, IsText, IsPassing
    <3>2. Len(s) = 0
      BY <3>1
    <3> QED
      BY <1>5, <3>2
  <2> QED
    BY <2>1
<1>8. /\ k = asm[p].of /\ q = p - B[k] /\ p = B[k] + q /\ B[k] \in Nat /\ TextAt(B, e, k, s)
      /\ q < Len(s) /\ Len(s) \in Nat /\ IsAt(p, s[q + 1]) /\ code[k].op \in Ops \ Silent
  BY <1>1, <1>2, <1>3, <1>4, <1>5, <1>6, <1>7
<1> QED
  BY <1>8

\* An activation that arrives at an instruction stands there.
LEMMA ArrivesStands ==
  ASSUME NEW B, Built(B), NEW e \in 1..Len(code), NEW f \in Int, NEW v, NEW j, NEW l, NEW n \in Nat,
         Arrives(B, e, j, l, n), NEW r, NEW m, DOMAIN r = Registers, DOMAIN m = Addresses,
         r["rbp"] = f, r["rsp"] = f - FrameOf(e) - Extra(n), r["rsp"] >= -MaxStack,
         f \in Addresses, m[f] = v
  PROVE  StandsAt(B, e, f, v, j, r, m)
<1>1. program \in Programs /\ FrameOf(e) \in Nat
  <2>1. In(e, l) /\ l \in 1..Len(code)
    BY DEF Arrives
  <2> QED
    BY <2>1, BuiltFacts DEF Built, GeneratedInv, PlaceInv
<1>2. /\ j \in 1..Len(asm) /\ asm[j].of = l /\ l \in 1..Len(code) /\ In(e, l) /\ j = B[l]
      /\ code[l].op # "ENTER" /\ Passed(code, l, n)
  BY DEF Arrives
<1>3. j - B[l] = 0
  BY <1>2
<1>4. CASE code[l].op = "LEAVE"
  <2>1. n = 0
    BY <1>1, <1>2, <1>4, NonePassed
  <2>2. r["rsp"] = f - FrameOf(e)
    BY <1>1, <2>1 DEF Extra
  <2>3. StageAt(e, f, v, l, 0, r["rsp"], r["rbp"])
    BY <1>4, <2>2 DEF StageAt
  <2> QED
    BY <1>2, <1>3, <2>3 DEF StandsAt
<1>5. CASE code[l].op # "LEAVE"
  <2>1. StageAt(e, f, v, l, 0, r["rsp"], r["rbp"])
    BY <1>2, <1>5 DEF StageAt
  <2> QED
    BY <1>2, <1>3, <2>1 DEF StandsAt
<1> QED
  BY <1>4, <1>5

\* the processor is at line q + 1 of the text s of instruction k, in an activation
Going(B, e, f, v, k, q, s) ==
  /\ Built(B) /\ e \in 1..Len(code) /\ f \in Int /\ f <= -2 /\ v \in Int
  /\ StandsAt(B, e, f, v, pc, regs, mem)
  /\ k \in 1..Len(code) /\ q \in Nat /\ k = asm[pc].of /\ pc = B[k] + q /\ B[k] \in Nat
  /\ TextAt(B, e, k, s) /\ q < Len(s) /\ Len(s) \in Nat /\ IsAt(pc, s[q + 1])
  /\ code[k].op \in Ops \ Silent

\* the next step leaves the activation standing, and the memory above it alone
Reached(B, e, f, v, k) ==
  /\ StandsAt(B, e, f, v, pc', regs', mem') /\ Moves(B, e, k, pc, pc')
  /\ \A a \in Addresses : a > f => mem'[a] = mem[a]

\* What is known there.
LEMMA GoingFacts ==
  ASSUME NEW B, NEW e, NEW f, NEW v, NEW k, NEW q, NEW s, Going(B, e, f, v, k, q, s)
  PROVE  /\ program \in Programs /\ In(e, k) /\ FrameOf(e) \in Nat /\ Equipped /\ pc - B[k] = q
         /\ regs["rsp"] \in Int /\ regs["rbp"] \in Int /\ regs["rsp"] >= -MaxStack
         /\ StageAt(e, f, v, k, q, regs["rsp"], regs["rbp"])
         /\ ins.op = s[q + 1].op /\ ins.a = s[q + 1].a /\ ins.b = s[q + 1].b
         /\ ~(code[k].op = "ENTER" /\ q <= 1) => f \in Addresses /\ mem[f] = v
         /\ pc \in 1..Len(asm) /\ k \in Nat
<1>1. /\ Built(B) /\ StandsAt(B, e, f, v, pc, regs, mem) /\ k = asm[pc].of /\ pc - B[k] = q
      /\ e \in 1..Len(code) /\ k \in 1..Len(code) /\ q \in Nat /\ f \in Int /\ v \in Int
      /\ IsAt(pc, s[q + 1])
  <2>1. /\ Built(B) /\ StandsAt(B, e, f, v, pc, regs, mem) /\ k = asm[pc].of
        /\ e \in 1..Len(code) /\ k \in 1..Len(code) /\ f \in Int /\ v \in Int
        /\ IsAt(pc, s[q + 1])
    BY Zenon DEF Going
  <2>2. q \in Nat /\ pc = B[k] + q /\ B[k] \in Nat
    BY Zenon DEF Going
  <2>3. pc - B[k] = q
    BY <2>2, SMT
  <2> QED
    BY <2>1, <2>2, <2>3, Zenon
<1>2. /\ program \in Programs /\ In(e, k) /\ Equipped /\ pc \in 1..Len(asm)
      /\ StageAt(e, f, v, k, q, regs["rsp"], regs["rbp"]) /\ regs["rsp"] >= -MaxStack
      /\ ~(code[k].op = "ENTER" /\ q <= 1) => f \in Addresses /\ mem[f] = v
  BY <1>1 DEF StandsAt, Built, GeneratedInv, PlaceInv, Equipped
<1>3. FrameOf(e) \in Nat
  BY <1>1, <1>2, BuiltFacts
<1>4. regs["rsp"] \in Int /\ regs["rbp"] \in Int
  <2>1. \A n \in Nat : Extra(n) \in Int
    BY DEF Extra
  <2>2. CASE code[k].op = "ENTER"
    BY <1>1, <1>2, <1>3, <2>2, SMTT(30) DEF StageAt
  <2>3. CASE code[k].op = "LEAVE"
    BY <1>1, <1>2, <1>3, <2>3, SMTT(30) DEF StageAt
  <2>4. CASE code[k].op \notin {"ENTER", "LEAVE"}
    <3>1. PICK n \in Nat : regs["rbp"] = f /\ regs["rsp"] = f - FrameOf(e) - Extra(n)
      BY <1>2, <2>4 DEF StageAt
    <3> QED
      BY <1>1, <1>3, <2>1, <3>1
  <2> QED
    BY <2>2, <2>3, <2>4
<1>5. ins.op = s[q + 1].op /\ ins.a = s[q + 1].a /\ ins.b = s[q + 1].b
  BY <1>1 DEF IsAt, ins
<1>6. k \in Nat
  BY <1>1, <1>2, CodeFacts
<1> QED
  BY <1>1, <1>2, <1>3, <1>4, <1>5, <1>6

\* The next line of the same instruction.
LEMMA OnLine ==
  ASSUME NEW B, NEW e, NEW f, NEW v, NEW k, NEW q, NEW s, Going(B, e, f, v, k, q, s),
         q + 1 < Len(s), NEW j, j = pc + 1
  PROVE  j \in 1..Len(asm) /\ asm[j].of = k /\ j - B[k] = q + 1 /\ Moves(B, e, k, pc, j)
<1>1. /\ Built(B) /\ e \in 1..Len(code) /\ k \in 1..Len(code) /\ TextAt(B, e, k, s) /\ q \in Nat
      /\ pc = B[k] + q /\ B[k] \in Nat /\ Len(s) \in Nat /\ In(e, k)
  BY GoingFacts DEF Going
<1>2. q + 1 \in 0..(Len(s) - 1)
  BY <1>1
<1>3. B[k] + (q + 1) \in 1..Len(asm) /\ asm[B[k] + (q + 1)].of = k
  <2>1. PICK h : h = q + 1 /\ h \in 0..(Len(s) - 1)
    BY <1>2
  <2>2. B[k] + h \in 1..Len(asm) /\ asm[B[k] + h].of = k
    BY <1>1, <2>1, InRow, SMTT(30)
  <2> QED
    BY <2>1, <2>2
<1>4. j = B[k] + (q + 1) /\ j - B[k] = q + 1
  BY <1>1
<1> QED
  BY <1>3, <1>4 DEF Moves

\* The line after the last one of an instruction.
LEMMA OnNext ==
  ASSUME NEW B, NEW e, NEW f, NEW v, NEW k, NEW q, NEW s, Going(B, e, f, v, k, q, s),
         q + 1 = Len(s), code[k].op # "LEAVE", NEW j, j = pc + 1,
         NEW n \in Nat, Passed(code, k, n) \/ code[k].op # "PARAM"
  PROVE  \E l : /\ Arrives(B, e, j, l, IF code[k].op = "PARAM" THEN n + 1 ELSE 0)
                /\ Moves(B, e, k, pc, j)
<1>1. /\ Built(B) /\ e \in 1..Len(code) /\ k \in 1..Len(code) /\ TextAt(B, e, k, s) /\ q \in Nat
      /\ pc = B[k] + q /\ B[k] \in Nat /\ Len(s) \in Nat /\ In(e, k)
  BY GoingFacts DEF Going
<1>2. B[k + 1] = j
  <2>1. B[k + 1] = B[k] + Len(s)
    BY <1>1 DEF TextAt
  <2>2. Len(s) = q + 1
    OBVIOUS
  <2>3. B[k] + (q + 1) = B[k] + q + 1
    BY <1>1
  <2>4. B[k] + q + 1 = j
    BY <1>1
  <2> QED
    BY <2>1, <2>2, <2>3, <2>4, Zenon
<1>3. PICK l : /\ FollowsIn(e, k, l)
               /\ Arrives(B, e, j, l, IF code[k].op = "PARAM" THEN n + 1 ELSE 0)
  BY <1>1, <1>2, ArrivesNext
<1>4. Moves(B, e, k, pc, j)
  BY <1>3 DEF Moves
<1> QED
  BY <1>3, <1>4

\* A quiet line within a method.
LEMMA QuietGoes ==
  ASSUME NEW B, NEW e, NEW f, NEW v, NEW k, NEW q, NEW s, Going(B, e, f, v, k, q, s), Processor,
         Quiet(s[q + 1]), code[k].op \notin {"ENTER", "LEAVE"},
         NEW n \in Nat, Passed(code, k, n),
         code[k].op = "PARAM" => n < 6, code[k].op = "CALL" /\ q + 1 = Len(s) => n <= 6
  PROVE  Reached(B, e, f, v, k)
<1>1. /\ program \in Programs /\ In(e, k) /\ FrameOf(e) \in Nat /\ Equipped
      /\ regs["rsp"] \in Int /\ regs["rbp"] \in Int /\ regs["rsp"] >= -MaxStack
      /\ StageAt(e, f, v, k, q, regs["rsp"], regs["rbp"])
      /\ ins.op = s[q + 1].op /\ ins.a = s[q + 1].a /\ ins.b = s[q + 1].b
      /\ f \in Addresses /\ mem[f] = v /\ k \in Nat
      /\ e \in 1..Len(code) /\ k \in 1..Len(code) /\ Built(B) /\ f \in Int /\ Len(s) \in Nat /\ q \in Nat
      /\ q < Len(s)
  <2>1. /\ program \in Programs /\ In(e, k) /\ FrameOf(e) \in Nat /\ Equipped
        /\ regs["rsp"] \in Int /\ regs["rbp"] \in Int /\ regs["rsp"] >= -MaxStack
        /\ StageAt(e, f, v, k, q, regs["rsp"], regs["rbp"])
        /\ ins.op = s[q + 1].op /\ ins.a = s[q + 1].a /\ ins.b = s[q + 1].b
        /\ ~(code[k].op = "ENTER" /\ q <= 1) => f \in Addresses /\ mem[f] = v
        /\ k \in Nat
    BY GoingFacts
  <2>2. /\ e \in 1..Len(code) /\ k \in 1..Len(code) /\ Built(B) /\ f \in Int /\ Len(s) \in Nat
        /\ q \in Nat /\ q < Len(s)
    BY DEF Going
  <2> QED
    BY <2>1, <2>2
<1>2. Quiet(ins)
  BY <1>1 DEF Quiet
<1>3. /\ pc' = pc + 1 /\ regs'["rsp"] = regs["rsp"] /\ regs'["rbp"] = regs["rbp"] /\ Equipped'
      /\ \A a \in Addresses : a >= regs["rbp"] => mem'[a] = mem[a]
  BY <1>1, <1>2, QuietStep
<1>4. regs["rbp"] = f /\ regs["rsp"] = f - FrameOf(e) - Extra(n)
  <2>1. PICK j \in Nat : Passed(code, k, j) /\ regs["rbp"] = f /\ regs["rsp"] = f - FrameOf(e) - Extra(j)
    BY <1>1 DEF StageAt
  <2>2. j = n
    BY <1>1, <2>1, PassedOnce
  <2> QED
    BY <2>1, <2>2
<1>5. /\ \A a \in Addresses : a > f => mem'[a] = mem[a]
      /\ mem'[f] = v
  <2>1. \A a \in Addresses : a \in Int /\ (a > f => a >= regs["rbp"])
    BY <1>1, <1>4, MaxStackAssumption DEF Addresses
  <2>2. f >= regs["rbp"]
    BY <1>1, <1>4
  <2> QED
    BY <1>1, <1>3, <2>1, <2>2
<1>6. CASE q + 1 < Len(s)
  <2>1. pc' \in 1..Len(asm) /\ asm[pc'].of = k /\ pc' - B[k] = q + 1 /\ Moves(B, e, k, pc, pc')
    BY <1>3, <1>6, OnLine
  <2>2. StageAt(e, f, v, k, q + 1, regs'["rsp"], regs'["rbp"])
    BY <1>1, <1>3, <1>4 DEF StageAt
  <2>3. StandsAt(B, e, f, v, pc', regs', mem')
    BY <1>1, <1>3, <1>5, <2>1, <2>2 DEF StandsAt, Equipped
  <2> QED
    BY <1>5, <2>1, <2>3 DEF Reached
<1>7. CASE q + 1 = Len(s)
  <2>1. PICK l, n1 : /\ n1 = (IF code[k].op = "PARAM" THEN n + 1 ELSE 0)
                     /\ Arrives(B, e, pc', l, n1) /\ Moves(B, e, k, pc, pc')
    BY <1>3, <1>7, OnNext
  <2>2. n1 \in Nat /\ Extra(n1) = Extra(n)
    <3>1. CASE code[k].op \in {"PARAM", "CALL"}
      BY <1>7, <2>1, <3>1 DEF Extra
    <3>2. CASE code[k].op \notin {"PARAM", "CALL"}
      <4>1. n = 0
        BY <1>1, <3>2, NonePassed
      <4> QED
        BY <2>1, <3>2, <4>1
    <3> QED
      BY <3>1, <3>2
  <2>3. StandsAt(B, e, f, v, pc', regs', mem')
    <3>1. /\ DOMAIN regs' = Registers /\ DOMAIN mem' = Addresses
          /\ regs'["rbp"] = f /\ regs'["rsp"] = f - FrameOf(e) - Extra(n1) /\ regs'["rsp"] >= -MaxStack
      BY <1>1, <1>3, <1>4, <2>2 DEF Equipped
    <3> QED
      BY <1>1, <1>5, <2>1, <2>2, <3>1, ArrivesStands
  <2> QED
    BY <1>5, <2>1, <2>3 DEF Reached
<1> QED
  BY <1>1, <1>6, <1>7

\* What is passed before an instruction.
LEMMA PassedHere ==
  ASSUME NEW B, NEW e, NEW f, NEW v, NEW k, NEW q, NEW s, Going(B, e, f, v, k, q, s),
         code[k].op \notin {"ENTER", "LEAVE"}
  PROVE  \E n \in Nat : /\ Passed(code, k, n) /\ regs["rbp"] = f
                        /\ regs["rsp"] = f - FrameOf(e) - Extra(n)
                        /\ code[k].op \in {"PARAM", "CALL"} => Parameters(k) = n
                        /\ code[k].op \notin {"PARAM", "CALL"} => n = 0
<1>1. /\ program \in Programs /\ StageAt(e, f, v, k, q, regs["rsp"], regs["rbp"])
      /\ k \in 1..Len(code) /\ k \in Nat
  BY GoingFacts DEF Going
<1>2. PICK n \in Nat : /\ Passed(code, k, n) /\ regs["rbp"] = f
                       /\ regs["rsp"] = f - FrameOf(e) - Extra(n)
  BY <1>1 DEF StageAt
<1>3. code[k].op \notin {"PARAM", "CALL"} => n = 0
  BY <1>1, <1>2, NonePassed
<1>4. CASE code[k].op = "PARAM"
  <2>1. \A m : Passed(code, k, m) => m = n
    BY <1>1, <1>2, PassedOnce
  <2>2. (CHOOSE m \in Nat : Passed(code, k, m)) = n
    BY <1>2, <2>1
  <2> QED
    BY <1>2, <1>4, <2>2 DEF Parameters
<1>5. CASE code[k].op = "CALL"
  <2>1. DOMAIN code = 1..Len(code) /\ CallShape(code, program.methods)
    BY <1>1, CodeFacts, ShapeFacts
  <2>2. Passed(code, k, Len(Params(code[k].var1.id)))
    BY <1>1, <1>5, <2>1 DEF CallShape, Params
  <2>3. Len(Params(code[k].var1.id)) = n
    BY <1>1, <1>2, <2>2, PassedOnce
  <2> QED
    BY <1>2, <1>5, <2>3 DEF Parameters
<1> QED
  BY <1>2, <1>3, <1>4, <1>5

\* Computing, and labels.
LEMMA OrdinaryGoes ==
  ASSUME NEW B, NEW e, NEW f, NEW v, NEW k, NEW q, NEW s, Going(B, e, f, v, k, q, s), Processor,
         code[k].op \in {"LOADVAL", "STORE", "LABEL"} \cup Binary \cup Unary
  PROVE  Reached(B, e, f, v, k)
<1>1. /\ program \in Programs /\ In(e, k) /\ e \in 1..Len(code) /\ k \in 1..Len(code) /\ Built(B)
      /\ TextAt(B, e, k, s) /\ q \in Nat /\ q < Len(s) /\ Len(s) \in Nat
  BY GoingFacts DEF Going
<1>2. q + 1 \in 1..Len(s)
  BY <1>1
<1>3. Quiet(s[q + 1])
  <2>1. CASE code[k].op = "LABEL"
    <3>1. s = <<Asm("label", Sym(code[k].var1.id), Nil)>>
      BY <1>1, <2>1 DEF TextAt, IsText, IsTurn
    <3>2. q + 1 = 1
      BY <1>2, <3>1
    <3>3. s[1] = Asm("label", Sym(code[k].var1.id), Nil)
      BY <3>1
    <3> QED
      BY <3>2, <3>3, QuietLines DEF Landmarks
  <2>2. CASE code[k].op # "LABEL"
    <3>1. PICK h \in 1..Len(s) : h = q + 1
      BY <1>2
    <3>2. Quiet(s[h])
      BY <1>1, <2>2, SumQuiet
    <3> QED
      BY <3>1, <3>2
  <2> QED
    BY <2>1, <2>2
<1>4. code[k].op \notin {"ENTER", "LEAVE", "PARAM", "CALL"}
  BY DEF Binary, Unary, BinaryOp, Arithmetic, Division, Relational, Logical
<1>5. Passed(code, k, 0)
  BY <1>1, <1>4, NonePassed
<1> QED
  BY <1>3, <1>4, <1>5, QuietGoes

\* A jump that is taken.
LEMMA Lands ==
  ASSUME NEW B, NEW e, NEW f, NEW v, NEW k, NEW q, NEW s, Going(B, e, f, v, k, q, s),
         code[k].op \in {"RET", "JMP", "JMPF"}, regs' = regs, mem' = mem,
         pc' = IF code[k].op = "RET" THEN AsmIndex("leave", code[e].var1.id)
               ELSE AsmIndex("label", Destination(code[k]))
  PROVE  Reached(B, e, f, v, k)
<1>1. /\ program \in Programs /\ In(e, k) /\ e \in 1..Len(code) /\ k \in 1..Len(code) /\ Built(B)
      /\ f \in Int
  BY GoingFacts DEF Going
<1>2. Equipped /\ regs["rsp"] >= -MaxStack /\ f \in Addresses /\ mem[f] = v
  BY GoingFacts
<1>3. PICK l : l = Goal(e, k) /\ Arrives(B, e, pc', l, 0)
  BY <1>1, ArrivesGoal
<1>4. regs["rbp"] = f /\ regs["rsp"] = f - FrameOf(e) - Extra(0)
  BY PassedHere
<1>5. /\ DOMAIN regs' = Registers /\ DOMAIN mem' = Addresses
      /\ regs'["rbp"] = f /\ regs'["rsp"] = f - FrameOf(e) - Extra(0) /\ regs'["rsp"] >= -MaxStack
      /\ mem'[f] = v
  BY <1>2, <1>4 DEF Equipped
<1>6. StandsAt(B, e, f, v, pc', regs', mem')
  BY <1>1, <1>2, <1>3, <1>5, ArrivesStands
<1>7. Moves(B, e, k, pc, pc')
  BY <1>3 DEF Moves
<1> QED
  BY <1>6, <1>7 DEF Reached

\* Returns and jumps.
LEMMA JumpGoes ==
  ASSUME NEW B, NEW e, NEW f, NEW v, NEW k, NEW q, NEW s, Going(B, e, f, v, k, q, s), Processor,
         code[k].op \in {"RET", "JMP", "JMPF"}
  PROVE  Reached(B, e, f, v, k)
<1>1. /\ program \in Programs /\ In(e, k) /\ e \in 1..Len(code) /\ k \in 1..Len(code) /\ Built(B)
      /\ TextAt(B, e, k, s) /\ q \in Nat /\ q < Len(s) /\ Len(s) \in Nat
  BY GoingFacts DEF Going
<1>2. ins.op = s[q + 1].op /\ ins.a = s[q + 1].a /\ ins.b = s[q + 1].b
  BY GoingFacts
<1>3. PICK x : x = Str(SlotsOf(e), code[k].var1)
  OBVIOUS
<1>4. PICK z : z = Str(SlotsOf(e), code[k].reg)
  OBVIOUS
<1>5. IsTurn(code[k], FirstCharacters(code[e].var1.id), x, z, s)
  BY <1>1, <1>3, <1>4 DEF TextAt, IsText
<1>6. ASSUME Quiet(s[q + 1]) PROVE Reached(B, e, f, v, k)
  <2>1. Passed(code, k, 0)
    BY <1>1, NonePassed
  <2> QED
    BY <1>6, <2>1, QuietGoes
<1>7. \A l : Sym(l).n = l
  BY DEF Sym, Place
<1>8. CASE code[k].op = "RET"
  <2>1. PICK a, b : /\ a = Mov(x, rax)
                    /\ b = Asm("jmp_leave", Sym(FirstCharacters(code[e].var1.id)), Nil)
                    /\ (s = <<a, b>> \/ s = <<b>>)
    BY <1>5, <1>8 DEF IsTurn
  <2>2. s[q + 1] = a \/ s[q + 1] = b
    <3>1. CASE s = <<a, b>>
      <4>1. q + 1 = 1 \/ q + 1 = 2
        BY <1>1, <3>1
      <4> QED
        BY <3>1, <4>1
    <3>2. CASE s = <<b>>
      <4>1. q + 1 = 1
        BY <1>1, <3>2
      <4> QED
        BY <3>2, <4>1
    <3> QED
      BY <2>1, <3>1, <3>2
  <2>3. CASE s[q + 1] = a
    BY <1>6, <2>1, <2>3, WorkPlaces, QuietLines
  <2>4. CASE s[q + 1] = b
    <3>3. ins.op = "jmp_leave" /\ ins.a = Sym(FirstCharacters(code[e].var1.id))
      BY <1>2, <2>1, <2>4 DEF Asm
    <3>4. FirstCharacters(code[e].var1.id) = code[e].var1.id
      <4>1. pc \in 1..Len(asm) /\ code[e].op = "ENTER"
        BY <1>1, GoingFacts, BuiltFacts
      <4>2. asm[pc].op = "jmp_leave"
        BY <3>3 DEF ins
      <4>3. asm[pc].a = Sym(FirstCharacters(code[e].var1.id))
        BY <3>3 DEF ins
      <4> QED
        BY <1>1, <4>1, <4>2, <4>3, ResolvedNames
    <3>1. ins.op = "jmp_leave" /\ ins.a = Sym(code[e].var1.id)
      BY <3>3, <3>4
    <3>2. regs' = regs /\ mem' = mem /\ pc' = AsmIndex("leave", code[e].var1.id)
      BY <1>7, <3>1, BranchStep
    <3> QED
      BY <1>8, <3>2, Lands
  <2> QED
    BY <2>2, <2>3, <2>4
<1>9. CASE code[k].op = "JMP"
  <2>1. s = <<Asm("jmp", Sym(code[k].var1.id), Nil)>>
    BY <1>5, <1>9 DEF IsTurn
  <2>2. q + 1 = 1
    BY <1>1, <2>1
  <2>3. s[q + 1] = Asm("jmp", Sym(code[k].var1.id), Nil)
    BY <2>1, <2>2
  <2>4. ins.op = "jmp" /\ ins.a = Sym(code[k].var1.id)
    BY <1>2, <2>3 DEF Asm
  <2>5. regs' = regs /\ mem' = mem /\ pc' = AsmIndex("label", code[k].var1.id)
    BY <1>7, <2>4, BranchStep
  <2>6. Destination(code[k]) = code[k].var1.id
    BY <1>9 DEF Destination
  <2> QED
    BY <1>9, <2>5, <2>6, Lands
<1>10. CASE code[k].op = "JMPF"
  <2>1. PICK a, b, c : /\ a = Mov(x, rax) /\ b = Asm("cmp", Imm(0), rax)
                       /\ c = Asm("jz", Sym(code[k].reg.id), Nil) /\ s = <<a, b, c>>
    BY <1>5, <1>10 DEF IsTurn
  <2>2. q = 0 \/ q = 1 \/ q = 2
    BY <1>1, <2>1
  <2>3. CASE q < 2
    <3>1. s[q + 1] = a \/ s[q + 1] = b
      BY <2>1, <2>2, <2>3
    <3>2. Quiet(a) /\ Quiet(b)
      BY <2>1, WorkPlaces, QuietLines
    <3> QED
      BY <1>6, <3>1, <3>2
  <2>4. CASE q = 2
    <3>1. s[q + 1] = c
      BY <2>1, <2>4
    <3>2. ins.op = "jz" /\ ins.a = Sym(code[k].reg.id)
      BY <1>2, <2>1, <3>1 DEF Asm
    <3>3. /\ regs' = regs /\ mem' = mem
          /\ pc' = IF flags # 0 THEN pc + 1 ELSE AsmIndex("label", code[k].reg.id)
      BY <1>7, <3>2, BranchStep
    <3>4. Destination(code[k]) = code[k].reg.id
      BY <1>10 DEF Destination
    <3>5. CASE flags = 0
      BY <1>10, <3>3, <3>4, <3>5, Lands
    <3>6. CASE flags # 0
      <4>1. q + 1 = Len(s)
        BY <2>1, <2>4
      <4>2. PICK l : Arrives(B, e, pc', l, 0) /\ Moves(B, e, k, pc, pc')
        BY <1>10, <3>3, <3>6, <4>1, OnNext
      <4>3. /\ Equipped /\ regs["rsp"] >= -MaxStack /\ f \in Addresses /\ mem[f] = v
            /\ regs["rbp"] = f /\ regs["rsp"] = f - FrameOf(e) - Extra(0) /\ f \in Int
        <5>1. regs["rbp"] = f /\ regs["rsp"] = f - FrameOf(e) - Extra(0)
          BY <1>10, PassedHere
        <5>2. f \in Addresses /\ mem[f] = v /\ Equipped /\ regs["rsp"] >= -MaxStack
          BY <1>10, GoingFacts
        <5> QED
          BY <5>1, <5>2 DEF Going
      <4>4. /\ DOMAIN regs' = Registers /\ DOMAIN mem' = Addresses
            /\ regs'["rbp"] = f /\ regs'["rsp"] = f - FrameOf(e) - Extra(0)
            /\ regs'["rsp"] >= -MaxStack /\ mem'[f] = v
        BY <3>3, <4>3 DEF Equipped
      <4>5. StandsAt(B, e, f, v, pc', regs', mem')
        BY <1>1, <4>2, <4>3, <4>4, ArrivesStands
      <4> QED
        BY <3>3, <4>2, <4>5 DEF Reached
    <3> QED
      BY <3>5, <3>6
  <2> QED
    BY <2>2, <2>3, <2>4
<1> QED
  BY <1>8, <1>9, <1>10

\* Passing an argument.
LEMMA ParamGoes ==
  ASSUME NEW B, NEW e, NEW f, NEW v, NEW k, NEW q, NEW s, Going(B, e, f, v, k, q, s), Processor,
         code[k].op = "PARAM"
  PROVE  Reached(B, e, f, v, k)
<1>1. /\ program \in Programs /\ In(e, k) /\ e \in 1..Len(code) /\ k \in 1..Len(code) /\ Built(B)
      /\ TextAt(B, e, k, s) /\ q \in Nat /\ q < Len(s) /\ Len(s) \in Nat /\ f \in Int /\ f <= -2
  BY GoingFacts DEF Going
<1>2. /\ ins.op = s[q + 1].op /\ ins.a = s[q + 1].a /\ ins.b = s[q + 1].b
      /\ Equipped /\ regs["rsp"] \in Int /\ FrameOf(e) \in Nat
  BY GoingFacts
<1>3. f \in Addresses /\ mem[f] = v
  BY GoingFacts
<1>4. PICK n \in Nat : /\ Passed(code, k, n) /\ regs["rbp"] = f
                       /\ regs["rsp"] = f - FrameOf(e) - Extra(n) /\ Parameters(k) = n
  BY PassedHere
<1>5. PICK x : s = IF n < 6 THEN <<Mov(x, Reg(arg_regs[n + 1]))>> ELSE <<Asm("push", x, Nil)>>
  BY <1>1, <1>4 DEF TextAt, IsText, IsPassing
<1>6. CASE n < 6
  <2>1. PICK j \in 1..6 : j = n + 1
    BY <1>6
  <2>2. s = <<Mov(x, Reg(arg_regs[j]))>>
    BY <1>5, <1>6, <2>1
  <2>3. q + 1 = 1
    BY <1>1, <2>2
  <2>4. s[1] = Mov(x, Reg(arg_regs[j]))
    BY <2>2
  <2>5. Quiet(s[q + 1])
    BY <2>3, <2>4, WorkPlaces, QuietLines
  <2> QED
    BY <1>4, <1>6, <2>5, QuietGoes
<1>7. CASE ~(n < 6)
  <2>1. s = <<Asm("push", x, Nil)>>
    BY <1>5, <1>7
  <2>2. q + 1 = 1 /\ q + 1 = Len(s)
    BY <1>1, <2>1
  <2>3. ins.op = "push"
    BY <1>2, <2>1, <2>2 DEF Asm
  <2>4. /\ pc' = pc + 1 /\ regs'["rsp"] = regs["rsp"] - 1 /\ regs'["rbp"] = regs["rbp"] /\ Equipped'
        /\ regs["rsp"] - 1 >= -MaxStack
        /\ mem' = [mem EXCEPT ![regs["rsp"] - 1] = Read(ins.a)]
    BY <1>2, <2>3, PushStep
  <2>5. Extra(n + 1) = Extra(n) + 1 /\ Extra(n) \in Nat
    BY <1>7 DEF Extra
  <2>6. regs["rsp"] - 1 < f /\ regs["rsp"] - 1 \in Int
    BY <1>1, <1>2, <1>4, <2>5, SMTT(30)
  <2>7. \A a \in Addresses : a >= f => mem'[a] = mem[a]
    BY <1>1, <1>2, <2>4, <2>6, MaxStackAssumption DEF Addresses, Equipped
  <2>8. PICK l : Arrives(B, e, pc', l, n + 1) /\ Moves(B, e, k, pc, pc')
    BY <1>4, <2>2, <2>4, OnNext
  <2>9. /\ DOMAIN regs' = Registers /\ DOMAIN mem' = Addresses /\ regs'["rbp"] = f
        /\ regs'["rsp"] = f - FrameOf(e) - Extra(n + 1) /\ regs'["rsp"] >= -MaxStack
        /\ mem'[f] = v /\ n + 1 \in Nat
    <3>1. regs'["rsp"] = f - FrameOf(e) - Extra(n + 1)
      BY <1>1, <1>2, <1>4, <2>4, <2>5
    <3> QED
      BY <1>1, <1>2, <1>3, <1>4, <2>4, <2>7, <3>1 DEF Equipped
  <2>10. StandsAt(B, e, f, v, pc', regs', mem')
    BY <1>1, <1>3, <2>8, <2>9, ArrivesStands
  <2>11. \A a \in Addresses : a > f => mem'[a] = mem[a]
    BY <1>1, <2>7, MaxStackAssumption DEF Addresses
  <2> QED
    BY <2>8, <2>10, <2>11 DEF Reached
<1> QED
  BY <1>6, <1>7

\* Calling, but for the call itself.
LEMMA CallGoes ==
  ASSUME NEW B, NEW e, NEW f, NEW v, NEW k, NEW q, NEW s, Going(B, e, f, v, k, q, s), Processor,
         code[k].op = "CALL", q = 0 => IsExtern(code[k].var1.id)
  PROVE  Reached(B, e, f, v, k)
<1>1. /\ program \in Programs /\ In(e, k) /\ e \in 1..Len(code) /\ k \in 1..Len(code) /\ Built(B)
      /\ TextAt(B, e, k, s) /\ q \in Nat /\ q < Len(s) /\ Len(s) \in Nat /\ f \in Int
  BY GoingFacts DEF Going
<1>2. /\ ins.op = s[q + 1].op /\ ins.a = s[q + 1].a /\ ins.b = s[q + 1].b
      /\ Equipped /\ regs["rsp"] \in Int /\ FrameOf(e) \in Nat
  BY GoingFacts
<1>3. f \in Addresses /\ mem[f] = v
  BY GoingFacts
<1>4. PICK n \in Nat : /\ Passed(code, k, n) /\ regs["rbp"] = f
                       /\ regs["rsp"] = f - FrameOf(e) - Extra(n) /\ Parameters(k) = n
  BY PassedHere
<1>5. PICK z : z = Str(SlotsOf(e), code[k].reg)
  OBVIOUS
<1>6. PICK a, b, c : /\ a = Asm("call", Sym(code[k].var1.id), Nil) /\ b = Mov(rax, z)
                     /\ c = Asm("add", Imm(n - 6), Reg("rsp"))
                     /\ s = IF n > 6 THEN <<a, b, c>> ELSE <<a, b>>
  BY <1>1, <1>4, <1>5 DEF TextAt, IsText, IsPassing
<1>7. q = 0 \/ q = 1 \/ q = 2
  <2>1. CASE n > 6
    BY <1>1, <1>6, <2>1
  <2>2. CASE ~(n > 6)
    BY <1>1, <1>6, <2>2
  <2> QED
    BY <2>1, <2>2
<1>8. s[1] = a /\ s[2] = b /\ (n > 6 => s[3] = c /\ Len(s) = 3) /\ (n <= 6 => Len(s) = 2)
  <2>1. CASE n > 6
    BY <1>6, <2>1
  <2>2. CASE ~(n > 6)
    BY <1>6, <2>2
  <2> QED
    BY <2>1, <2>2
<1>9. ASSUME q < 2 PROVE Reached(B, e, f, v, k)
  <2>1. Quiet(s[q + 1])
    <3>1. CASE q = 0
      BY <1>6, <1>8, <3>1, QuietLines
    <3>2. CASE q = 1
      <4>1. Harmless(z)
        BY <1>1, <1>5, ResultPlace
      <4> QED
        BY <1>6, <1>8, <3>2, <4>1, QuietLines
    <3> QED
      BY <1>7, <1>9, <3>1, <3>2
  <2>2. q + 1 = Len(s) => n <= 6
    <3>1. PICK l \in Nat : l = Len(s) /\ (n > 6 => l = 3)
      BY <1>1, <1>8
    <3>2. ASSUME q + 1 = l, n > 6 PROVE FALSE
      <4>1. l = 3
        BY <3>1, <3>2
      <4>2. q = 0 \/ q = 1
        BY <1>7, <1>9
      <4> QED
        BY <3>2, <4>1, <4>2
    <3> QED
      BY <1>4, <3>1, <3>2
  <2> QED
    BY <1>4, <2>1, <2>2, QuietGoes
<1>10. CASE q = 2
  <2>1. n > 6 /\ q + 1 = Len(s) /\ s[q + 1] = c
    <3>1. PICK l \in Nat : l = Len(s) /\ (n <= 6 => l = 2) /\ 2 < l
      BY <1>1, <1>8, <1>10
    <3>2. ~(n <= 6)
      BY <1>4, <3>1, SMTT(30)
    <3>3. n > 6
      BY <1>4, <3>2
    <3> QED
      BY <1>8, <1>10, <3>3
  <2>2. ins.op = "add" /\ ins.a = Imm(n - 6) /\ ins.b = Reg("rsp")
    BY <1>2, <1>6, <2>1 DEF Asm
  <2>3. Read(ins.a) = n - 6 /\ ins.b.n = "rsp"
    BY <2>2 DEF Read, Imm, Reg, Place
  <2>4. Effect(Read(ins.a), regs[ins.b.n]) = regs["rsp"] + (n - 6)
    BY <2>2, <2>3 DEF Effect
  <2>5. /\ pc' = pc + 1 /\ mem' = mem /\ Equipped' /\ regs'["rsp"] = regs["rsp"] + (n - 6)
        /\ regs'["rbp"] = regs["rbp"] /\ regs["rsp"] + (n - 6) >= -MaxStack
    <3>1. "rbp" \in Registers
      BY RegisterFacts
    <3> QED
      BY <1>2, <2>2, <2>3, <2>4, <3>1, PointerStep
  <2>6. regs'["rsp"] = f - FrameOf(e) - Extra(0)
    BY <1>1, <1>2, <1>4, <2>1, <2>5 DEF Extra
  <2>7. PICK l : Arrives(B, e, pc', l, 0) /\ Moves(B, e, k, pc, pc')
    BY <2>1, <2>5, OnNext
  <2>8. /\ DOMAIN regs' = Registers /\ DOMAIN mem' = Addresses /\ regs'["rbp"] = f
        /\ regs'["rsp"] >= -MaxStack /\ mem'[f] = v
    BY <1>3, <1>4, <2>5 DEF Equipped
  <2>9. StandsAt(B, e, f, v, pc', regs', mem')
    BY <1>1, <1>3, <2>6, <2>7, <2>8, ArrivesStands
  <2> QED
    BY <2>5, <2>7, <2>9 DEF Reached
<1> QED
  BY <1>7, <1>9, <1>10

\* A method does not begin within another.
LEMMA EntryIsItself ==
  ASSUME program \in Programs, NEW e \in 1..Len(code), NEW k \in 1..Len(code), In(e, k),
         code[k].op = "ENTER"
  PROVE  k = e
<1>1. Len(code) \in Nat
  BY CodeFacts
<1>2. ASSUME k # e PROVE FALSE
  <2>1. Within(code, e, k) /\ e \in 1..(k - 1) /\ k \in 1..(Len(code) + 1)
    BY <1>1, <1>2 DEF In, Within
  <2> QED
    BY <2>1, NotNested
<1> QED
  BY <1>2

\* The text of an ENTER, line by line.
LEMMA EnterText ==
  ASSUME NEW B, NEW e, NEW f, NEW v, NEW k, NEW q, NEW s, Going(B, e, f, v, k, q, s),
         code[k].op = "ENTER"
  PROVE  \E n \in Nat : IsEntry(s, code[k].var1.id, FrameOf(e), n, Prelude(FrameOf(e)), InRegs(n))
<1>1. program \in Programs /\ FrameOf(e) \in Nat
  BY GoingFacts
<1>2. TextAt(B, e, k, s) /\ k \in 1..Len(code)
  BY DEF Going
<1>3. PICK n \in Nat : n = Parameters(k)
  BY <1>1, <1>2, CodeFacts DEF Parameters
<1>4. s = Entry(code[k].var1.id, FrameOf(e)) \o ArgCopies(n)
  BY <1>2, <1>3 DEF TextAt, IsText, IsPassing
<1>5. IsEntry(s, code[k].var1.id, FrameOf(e), n, Prelude(FrameOf(e)), InRegs(n))
  BY <1>1, <1>4, EntryText
<1> QED
  BY <1>5

\* Entering, once the frame pointer has been set.
LEMMA EnterEnds ==
  ASSUME NEW B, NEW e, NEW f, NEW v, NEW k, NEW q, NEW s, Going(B, e, f, v, k, q, s),
         code[k].op = "ENTER", q + 1 >= 3, pc' = pc + 1, Equipped', regs'["rbp"] = f,
         regs'["rsp"] = IF q + 1 = 3 THEN f ELSE f - FrameOf(e), regs'["rsp"] >= -MaxStack,
         f \in Addresses, \A a \in Addresses : a >= f => mem'[a] = mem[a], mem[f] = v
  PROVE  Reached(B, e, f, v, k)
<1>1. /\ program \in Programs /\ In(e, k) /\ e \in 1..Len(code) /\ k \in 1..Len(code) /\ Built(B)
      /\ q \in Nat /\ q < Len(s) /\ Len(s) \in Nat /\ f \in Int
  BY GoingFacts DEF Going
<1>2. FrameOf(e) \in Nat
  BY GoingFacts
<1>3. mem'[f] = v /\ \A a \in Addresses : a > f => mem'[a] = mem[a]
  <2>1. \A a \in Addresses : a \in Int /\ (a > f => a >= f)
    BY <1>1, MaxStackAssumption DEF Addresses
  <2> QED
    BY <1>1, <2>1
<1>4. CASE q + 1 < Len(s)
  <2>1. pc' \in 1..Len(asm) /\ asm[pc'].of = k /\ pc' - B[k] = q + 1 /\ Moves(B, e, k, pc, pc')
    BY <1>4, OnLine
  <2>2. StageAt(e, f, v, k, q + 1, regs'["rsp"], regs'["rbp"])
    BY <1>1 DEF StageAt
  <2>3. StandsAt(B, e, f, v, pc', regs', mem')
    BY <1>1, <1>3, <2>1, <2>2 DEF StandsAt, Equipped
  <2> QED
    BY <1>3, <2>1, <2>3 DEF Reached
<1>5. CASE q + 1 = Len(s)
  <2>1. PICK l : Arrives(B, e, pc', l, 0) /\ Moves(B, e, k, pc, pc')
    BY <1>5, OnNext
  <2>2. regs'["rsp"] = f - FrameOf(e) - Extra(0)
    <3>1. Extra(0) = 0
      BY DEF Extra
    <3>2. CASE q + 1 = 3
      <4>1. PICK n \in Nat : IsEntry(s, code[k].var1.id, FrameOf(e), n, Prelude(FrameOf(e)), InRegs(n))
        BY EnterText
      <4>2. PICK h, r, d : /\ h = Prelude(FrameOf(e)) /\ r = InRegs(n) /\ d = n - r /\ r \in Nat /\ d \in Nat
                           /\ h \in Nat
        BY <1>2 DEF InRegs, Prelude
      <4>3. Len(s) = h + (r + 2 * d)
        BY <4>1, <4>2 DEF IsEntry
      <4>4. h <= 3
        <5>1. h + (r + 2 * d) = 3 /\ h \in Nat /\ r \in Nat /\ d \in Nat
          BY <1>5, <3>2, <4>2, <4>3
        <5> QED
          BY <5>1
      <4>5. FrameOf(e) = 0
        BY <1>2, <4>2, <4>4 DEF Prelude
      <4> QED
        BY <1>1, <3>1, <3>2, <4>5
    <3>3. CASE q + 1 # 3
      BY <1>1, <1>2, <3>1, <3>3
    <3> QED
      BY <3>2, <3>3
  <2>3. StandsAt(B, e, f, v, pc', regs', mem')
    <3>1. DOMAIN regs' = Registers /\ DOMAIN mem' = Addresses
      BY DEF Equipped
    <3> QED
      BY <1>1, <1>3, <2>1, <2>2, <3>1, ArrivesStands
  <2> QED
    BY <1>3, <2>1, <2>3 DEF Reached
<1> QED
  BY <1>1, <1>4, <1>5

\* A landmark changes nothing.
LEMMA MarkStep ==
  ASSUME Processor, ins.op \in Landmarks
  PROVE  pc' = pc + 1 /\ regs' = regs /\ mem' = mem
<1>1. ins.op \in {"entry", "leave", "label"}
  BY DEF Landmarks
<1>2. Mark
  BY <1>1 DEF Processor, Data, OneOperand, Compare, SignExtend, Divide, Push, Pop, Branch, Call,
              CallExtern, Ret
<1> QED
  BY <1>2 DEF Mark, Next1

\* Entering a method.
LEMMA EnterGoes ==
  ASSUME NEW B, NEW e, NEW f, NEW v, NEW k, NEW q, NEW s, Going(B, e, f, v, k, q, s), Processor,
         code[k].op = "ENTER"
  PROVE  Reached(B, e, f, v, k)
<1>1. /\ program \in Programs /\ In(e, k) /\ FrameOf(e) \in Nat /\ Equipped
      /\ regs["rsp"] \in Int /\ regs["rbp"] \in Int /\ regs["rsp"] >= -MaxStack
      /\ StageAt(e, f, v, k, q, regs["rsp"], regs["rbp"])
      /\ ins.op = s[q + 1].op /\ ins.a = s[q + 1].a /\ ins.b = s[q + 1].b
      /\ ~(q <= 1) => f \in Addresses /\ mem[f] = v
  BY GoingFacts
<1>2. /\ e \in 1..Len(code) /\ k \in 1..Len(code) /\ Built(B) /\ f \in Int /\ Len(s) \in Nat
      /\ q \in Nat /\ q < Len(s) /\ f <= -2 /\ pc = B[k] + q /\ v \in Int
  BY DEF Going
<1>3. PICK n \in Nat : IsEntry(s, code[k].var1.id, FrameOf(e), n, Prelude(FrameOf(e)), InRegs(n))
  BY EnterText
<1>4. PICK h \in Nat : h = Prelude(FrameOf(e)) /\ h >= 3 /\ h = IF FrameOf(e) > 0 THEN 4 ELSE 3
  BY <1>1 DEF Prelude
<1>5. /\ s[1] = Asm("entry", Sym(code[k].var1.id), Nil) /\ s[2] = Asm("push", Reg("rbp"), Nil)
      /\ s[3] = Mov(Reg("rsp"), Reg("rbp"))
      /\ FrameOf(e) > 0 => s[4] = Asm("sub", Imm(FrameOf(e)), Reg("rsp"))
  BY <1>3 DEF IsEntry
<1>6. Len(s) >= 3
  <2>1. PICK r, d : r = InRegs(n) /\ d = n - r /\ r \in Nat /\ d \in Nat
    BY DEF InRegs
  <2>2. Len(s) = h + (r + 2 * d)
    BY <1>3, <1>4, <2>1 DEF IsEntry
  <2>3. h \in Nat /\ h >= 3
    BY <1>4
  <2> QED
    BY <2>1, <2>2, <2>3, SMTT(30)
<1>7. q = 0 \/ q = 1 \/ q = 2 \/ (q = 3 /\ FrameOf(e) > 0) \/ q >= h
  <2>1. q = 0 \/ q = 1 \/ q = 2 \/ q = 3 \/ q >= 4
    BY <1>2
  <2>2. h <= 4 /\ (~(FrameOf(e) > 0) => h = 3) /\ h \in Nat /\ q \in Nat
    BY <1>2, <1>4
  <2> QED
    BY <2>1, <2>2
<1>8. CASE q = 0
  <2>1. ins.op \in Landmarks
    BY <1>1, <1>5, <1>8 DEF Asm, Landmarks
  <2>2. pc' = pc + 1 /\ regs' = regs /\ mem' = mem
    BY <2>1, MarkStep
  <2>3. q + 1 < Len(s)
    BY <1>2, <1>6, <1>8
  <2>4. pc' \in 1..Len(asm) /\ asm[pc'].of = k /\ pc' - B[k] = q + 1 /\ Moves(B, e, k, pc, pc')
    BY <2>2, <2>3, OnLine
  <2>5. StageAt(e, f, v, k, q + 1, regs'["rsp"], regs'["rbp"])
    BY <1>1, <1>8, <2>2 DEF StageAt
  <2>6. StandsAt(B, e, f, v, pc', regs', mem')
    BY <1>1, <1>2, <1>8, <2>2, <2>4, <2>5, SMTT(30) DEF StandsAt, Equipped
  <2> QED
    BY <2>2, <2>4, <2>6 DEF Reached
<1>9. CASE q = 1
  <2>1. ins.op = "push" /\ ins.a = Reg("rbp")
    BY <1>1, <1>5, <1>9 DEF Asm
  <2>2. Read(ins.a) = regs["rbp"]
    BY <2>1 DEF Read, Reg, Place
  <2>3. regs["rsp"] = f + 1 /\ regs["rbp"] = v
    BY <1>1, <1>9 DEF StageAt
  <2>4. /\ pc' = pc + 1 /\ regs'["rsp"] = f /\ regs'["rbp"] = v /\ Equipped'
        /\ f >= -MaxStack /\ mem' = [mem EXCEPT ![f] = v]
    <3>1. /\ pc' = pc + 1 /\ regs'["rsp"] = regs["rsp"] - 1 /\ regs'["rbp"] = regs["rbp"] /\ Equipped'
          /\ regs["rsp"] - 1 >= -MaxStack
          /\ mem' = [mem EXCEPT ![regs["rsp"] - 1] = Read(ins.a)]
      BY <1>1, <2>1, PushStep
    <3>2. regs["rsp"] - 1 = f
      BY <1>2, <2>3
    <3> QED
      BY <2>2, <2>3, <3>1, <3>2
  <2>5. f \in Addresses
    BY <1>2, <2>4, MaxStackAssumption DEF Addresses
  <2>6. mem'[f] = v /\ \A a \in Addresses : a > f => mem'[a] = mem[a]
    <3>1. \A a \in Addresses : a > f => a # f
      BY <1>2, MaxStackAssumption DEF Addresses
    <3> QED
      BY <1>1, <2>4, <2>5, <3>1 DEF Equipped
  <2>7. q + 1 < Len(s)
    BY <1>2, <1>6, <1>9
  <2>8. pc' \in 1..Len(asm) /\ asm[pc'].of = k /\ pc' - B[k] = q + 1 /\ Moves(B, e, k, pc, pc')
    BY <2>4, <2>7, OnLine
  <2>9. StageAt(e, f, v, k, q + 1, regs'["rsp"], regs'["rbp"])
    BY <1>9, <2>4 DEF StageAt
  <2>10. StandsAt(B, e, f, v, pc', regs', mem')
    BY <1>1, <1>2, <2>4, <2>5, <2>6, <2>8, <2>9 DEF StandsAt, Equipped
  <2> QED
    BY <2>6, <2>8, <2>10 DEF Reached
<1>10. CASE q = 2
  <2>1. ins.op = "mov" /\ ins.a = Reg("rsp") /\ ins.b = Reg("rbp")
    BY <1>1, <1>5, <1>10 DEF Asm, Mov
  <2>2. Effect(Read(ins.a), regs[ins.b.n]) = regs["rsp"] /\ ins.b.n = "rbp"
    BY <2>1 DEF Effect, Read, Reg, Place
  <2>3. pc' = pc + 1 /\ mem' = mem /\ Equipped' /\ regs'["rbp"] = regs["rsp"] /\ regs'["rsp"] = regs["rsp"]
    BY <1>1, <2>1, <2>2, RegisterFacts, PointerStep
  <2>4. regs["rsp"] = f
    BY <1>1, <1>10 DEF StageAt
  <2> QED
    BY <1>1, <1>2, <1>10, <2>3, <2>4, EnterEnds
<1>11. CASE q = 3 /\ FrameOf(e) > 0
  <2>1. ins.op = "sub" /\ ins.a = Imm(FrameOf(e)) /\ ins.b = Reg("rsp")
    BY <1>1, <1>5, <1>11 DEF Asm
  <2>2. Effect(Read(ins.a), regs[ins.b.n]) = regs["rsp"] - FrameOf(e) /\ ins.b.n = "rsp"
    BY <2>1 DEF Effect, Read, Imm, Reg, Place
  <2>3. /\ pc' = pc + 1 /\ mem' = mem /\ Equipped' /\ regs'["rsp"] = regs["rsp"] - FrameOf(e)
        /\ regs'["rbp"] = regs["rbp"] /\ regs["rsp"] - FrameOf(e) >= -MaxStack
    BY <1>1, <2>1, <2>2, RegisterFacts, PointerStep
  <2>4. regs["rsp"] = f /\ regs["rbp"] = f
    BY <1>1, <1>11 DEF StageAt
  <2> QED
    BY <1>1, <1>2, <1>11, <2>3, <2>4, EnterEnds
<1>12. CASE q >= h
  <2>1. Quiet(s[q + 1])
    <3>1. PICK l : l = q + 1 /\ l \in 1..Len(s) /\ l > h
      BY <1>2, <1>4, <1>12
    <3>2. Quiet(s[l])
      BY <1>1, <1>3, <1>4, <3>1, EntryQuiet
    <3> QED
      BY <3>1, <3>2
  <2>2. Quiet(ins)
    BY <1>1, <2>1 DEF Quiet
  <2>3. /\ pc' = pc + 1 /\ regs'["rsp"] = regs["rsp"] /\ regs'["rbp"] = regs["rbp"] /\ Equipped'
        /\ \A a \in Addresses : a >= regs["rbp"] => mem'[a] = mem[a]
    BY <1>1, <2>2, QuietStep
  <2>4. q >= 3 /\ q > 1 /\ q + 1 >= 3 /\ q + 1 # 3
    BY <1>2, <1>4, <1>12
  <2>5. regs["rbp"] = f /\ regs["rsp"] = f - FrameOf(e)
    <3>1. CASE q = 3
      <4>1. FrameOf(e) = 0
        BY <1>1, <1>4, <1>12, <3>1
      <4>2. regs["rbp"] = f /\ regs["rsp"] = f
        BY <1>1, <3>1 DEF StageAt
      <4> QED
        BY <1>2, <4>1, <4>2
    <3>2. CASE q > 3
      BY <1>1, <3>2 DEF StageAt
    <3> QED
      BY <1>2, <2>4, <3>1, <3>2
  <2>6. f \in Addresses /\ mem[f] = v
    BY <1>1, <1>2, <2>4
  <2>7. /\ regs'["rbp"] = f /\ regs'["rsp"] >= -MaxStack
        /\ regs'["rsp"] = IF q + 1 = 3 THEN f ELSE f - FrameOf(e)
        /\ \A a \in Addresses : a >= f => mem'[a] = mem[a]
    BY <1>1, <2>3, <2>4, <2>5
  <2> QED
    BY <2>3, <2>4, <2>6, <2>7, EnterEnds
<1> QED
  BY <1>7, <1>8, <1>9, <1>10, <1>11, <1>12

\* Leaving a method, up to its ret.
LEMMA LeaveGoes ==
  ASSUME NEW B, NEW e, NEW f, NEW v, NEW k, NEW q, NEW s, Going(B, e, f, v, k, q, s), Processor,
         code[k].op = "LEAVE", ins.op # "ret"
  PROVE  Reached(B, e, f, v, k)
<1>1. /\ program \in Programs /\ In(e, k) /\ FrameOf(e) \in Nat /\ Equipped
      /\ regs["rsp"] \in Int /\ regs["rbp"] \in Int /\ regs["rsp"] >= -MaxStack
      /\ StageAt(e, f, v, k, q, regs["rsp"], regs["rbp"])
      /\ ins.op = s[q + 1].op /\ ins.a = s[q + 1].a /\ ins.b = s[q + 1].b
      /\ f \in Addresses /\ mem[f] = v
  BY GoingFacts
<1>2. /\ e \in 1..Len(code) /\ k \in 1..Len(code) /\ Built(B) /\ f \in Int /\ Len(s) \in Nat
      /\ q \in Nat /\ q < Len(s) /\ f <= -2 /\ pc = B[k] + q /\ v \in Int /\ TextAt(B, e, k, s)
  BY DEF Going
<1>3. s = <<Asm("leave", Sym(code[k].var1.id), Nil), Mov(Reg("rbp"), Reg("rsp")),
            Asm("pop", Reg("rbp"), Nil), Asm("ret", Nil, Nil)>>
  BY <1>2 DEF TextAt, IsText, IsPassing, IsTurn
<1>4. /\ Len(s) = 4 /\ s[1] = Asm("leave", Sym(code[k].var1.id), Nil)
      /\ s[2] = Mov(Reg("rbp"), Reg("rsp")) /\ s[3] = Asm("pop", Reg("rbp"), Nil)
      /\ s[4] = Asm("ret", Nil, Nil)
  BY <1>3
<1>5. q = 0 \/ q = 1 \/ q = 2
  <2>1. q = 0 \/ q = 1 \/ q = 2 \/ q = 3
    BY <1>2, <1>4
  <2>2. q = 3 => ins.op = "ret"
    BY <1>1, <1>4 DEF Asm
  <2> QED
    BY <2>1, <2>2
<1>6. q + 1 < Len(s)
  BY <1>4, <1>5
<1>7. pc' = pc + 1 =>
        pc' \in 1..Len(asm) /\ asm[pc'].of = k /\ pc' - B[k] = q + 1 /\ Moves(B, e, k, pc, pc')
  BY <1>6, OnLine
<1>8. CASE q = 0
  <2>1. ins.op \in Landmarks
    BY <1>1, <1>4, <1>8 DEF Asm, Landmarks
  <2>2. pc' = pc + 1 /\ regs' = regs /\ mem' = mem
    BY <2>1, MarkStep
  <2>3. StageAt(e, f, v, k, q + 1, regs'["rsp"], regs'["rbp"])
    BY <1>1, <1>8, <2>2 DEF StageAt
  <2>4. StandsAt(B, e, f, v, pc', regs', mem')
    BY <1>1, <1>2, <1>7, <2>2, <2>3 DEF StandsAt, Equipped
  <2> QED
    BY <1>7, <2>2, <2>4 DEF Reached
<1>9. CASE q = 1
  <2>1. ins.op = "mov" /\ ins.a = Reg("rbp") /\ ins.b = Reg("rsp")
    BY <1>1, <1>4, <1>9 DEF Asm, Mov
  <2>2. Effect(Read(ins.a), regs[ins.b.n]) = regs["rbp"] /\ ins.b.n = "rsp"
    BY <2>1 DEF Effect, Read, Reg, Place
  <2>3. /\ pc' = pc + 1 /\ mem' = mem /\ Equipped' /\ regs'["rsp"] = regs["rbp"]
        /\ regs'["rbp"] = regs["rbp"] /\ regs["rbp"] >= -MaxStack
    BY <1>1, <2>1, <2>2, RegisterFacts, PointerStep
  <2>4. regs["rbp"] = f
    BY <1>1, <1>9 DEF StageAt
  <2>5. StageAt(e, f, v, k, q + 1, regs'["rsp"], regs'["rbp"])
    BY <1>1, <1>9, <2>3, <2>4 DEF StageAt
  <2>6. StandsAt(B, e, f, v, pc', regs', mem')
    BY <1>1, <1>2, <1>7, <2>3, <2>4, <2>5 DEF StandsAt, Equipped
  <2> QED
    BY <1>7, <2>3, <2>6 DEF Reached
<1>10. CASE q = 2
  <2>1. ins.op = "pop" /\ ins.a = Reg("rbp")
    BY <1>1, <1>4, <1>10 DEF Asm
  <2>2. regs["rsp"] = f
    BY <1>1, <1>10 DEF StageAt
  <2>3. /\ pc' = pc + 1 /\ mem' = mem /\ Equipped' /\ regs'["rsp"] = f + 1 /\ regs'["rbp"] = v
    BY <1>1, <2>1, <2>2, PopStep
  <2>4. StageAt(e, f, v, k, q + 1, regs'["rsp"], regs'["rbp"])
    BY <1>1, <1>10, <2>3 DEF StageAt
  <2>5. f + 1 >= -MaxStack
    BY <1>1, <1>2, <2>2, MaxStackAssumption
  <2>6. StandsAt(B, e, f, v, pc', regs', mem')
    BY <1>1, <1>2, <1>7, <2>3, <2>4, <2>5 DEF StandsAt, Equipped
  <2> QED
    BY <1>7, <2>3, <2>6 DEF Reached
<1> QED
  BY <1>5, <1>8, <1>9, <1>10

\* Whatever an activation does but return and call a method of the program, it
\* stays on its path.
LEMMA StandsStep ==
  ASSUME NEW B, NEW e, NEW f, NEW v, NEW k, NEW q, NEW s, Going(B, e, f, v, k, q, s), Processor,
         code[k].op = "LEAVE" => ins.op # "ret",
         code[k].op = "CALL" /\ q = 0 => IsExtern(code[k].var1.id)
  PROVE  Reached(B, e, f, v, k)
<1>1. code[k].op \in Ops \ Silent
  BY DEF Going
<1>2. CASE code[k].op \in {"LOADVAL", "STORE", "LABEL"} \cup Binary \cup Unary
  BY <1>2, OrdinaryGoes
<1>3. CASE code[k].op \in {"RET", "JMP", "JMPF"}
  BY <1>3, JumpGoes
<1>4. CASE code[k].op = "PARAM"
  BY <1>4, ParamGoes
<1>5. CASE code[k].op = "CALL"
  <2>1. q = 0 => IsExtern(code[k].var1.id)
    BY <1>5
  <2> QED
    BY <1>5, <2>1, CallGoes
<1>6. CASE code[k].op = "ENTER"
  BY <1>6, EnterGoes
<1>7. CASE code[k].op = "LEAVE"
  BY <1>7, LeaveGoes
<1>8. \/ code[k].op \in {"LOADVAL", "STORE", "LABEL"} \cup Binary \cup Unary
      \/ code[k].op \in {"RET", "JMP", "JMPF"}
      \/ code[k].op = "PARAM" \/ code[k].op = "CALL" \/ code[k].op = "ENTER" \/ code[k].op = "LEAVE"
  BY <1>1 DEF Ops, Silent, OneStep, Compares, Binary, Unary, BinaryOp, Arithmetic, Logical
<1> QED
  BY <1>2, <1>3, <1>4, <1>5, <1>6, <1>7, <1>8

-----------------------------------------------------------------------------
(* The abstract machine.                                                   *)

\* s is a list of activations
Activations(s) ==
  /\ IsSeq(s)
  /\ \A d \in 1..Len(s) : s[d] = [method |-> s[d].method, env |-> s[d].env, call |-> s[d].call]

\* the first n activations of s and t are those of the same calls
Alike(s, t, n) == \A d \in 1..n : s[d].method = t[d].method /\ s[d].call = t[d].call

\* what a method adds to the activations
InternalCall(in_) == in_.op = "CALL" /\ ~IsExtern(in_.var1.id)

Replaced(s, n, x) == [s EXCEPT ![n] = x]

\* Lists with one more element, one less, or another one.
LEMMA ListSteps ==
  ASSUME NEW s, IsSeq(s)
  PROVE  /\ \A x : /\ IsSeq(Append(s, x)) /\ Len(Append(s, x)) = Len(s) + 1
                   /\ \A d \in 1..Len(s) : Append(s, x)[d] = s[d]
                   /\ Append(s, x)[Len(s) + 1] = x
         /\ \A x : \A n \in 1..Len(s) :
              LET t == Replaced(s, n, x) IN
              /\ IsSeq(t) /\ Len(t) = Len(s)
              /\ \A d \in 1..Len(s) : t[d] = IF d = n THEN x ELSE s[d]
         /\ Len(s) >= 1 =>
              LET t == SubSeq(s, 1, Len(s) - 1) IN
              IsSeq(t) /\ Len(t) = Len(s) - 1 /\ \A d \in 1..(Len(s) - 1) : t[d] = s[d]
<1>1. PICK S : s \in Seq(S)
  BY DEF IsSeq
<1>2. Len(s) \in Nat /\ DOMAIN s = 1..Len(s)
  BY SeqFacts
<1>3. \A x : s \in Seq(S \cup {x})
  BY <1>1, SeqMonotonic
<1>4. ASSUME NEW x
      PROVE  /\ IsSeq(Append(s, x)) /\ Len(Append(s, x)) = Len(s) + 1
             /\ \A d \in 1..Len(s) : Append(s, x)[d] = s[d]
             /\ Append(s, x)[Len(s) + 1] = x
  <2>1. s \in Seq(S \cup {x}) /\ x \in S \cup {x}
    BY <1>3
  <2>2. /\ Append(s, x) \in Seq(S \cup {x}) /\ Len(Append(s, x)) = Len(s) + 1
        /\ \A d \in 1..Len(s) : Append(s, x)[d] = s[d]
        /\ Append(s, x)[Len(s) + 1] = x
    BY <2>1, AppendProperties
  <2> QED
    BY <2>2 DEF IsSeq
<1>5. ASSUME NEW x, NEW n \in 1..Len(s)
      PROVE  /\ IsSeq([s EXCEPT ![n] = x]) /\ Len([s EXCEPT ![n] = x]) = Len(s)
             /\ \A d \in 1..Len(s) : [s EXCEPT ![n] = x][d] = IF d = n THEN x ELSE s[d]
  <2>1. s \in Seq(S \cup {x}) /\ x \in S \cup {x}
    BY <1>3
  <2>2. [s EXCEPT ![n] = x] \in Seq(S \cup {x}) /\ Len([s EXCEPT ![n] = x]) = Len(s)
    BY <2>1, ExceptSeq
  <2>3. \A d \in 1..Len(s) : [s EXCEPT ![n] = x][d] = IF d = n THEN x ELSE s[d]
    BY <1>2
  <2> QED
    BY <2>2, <2>3 DEF IsSeq
<1>5a. \A x : \A n \in 1..Len(s) :
        LET t == Replaced(s, n, x) IN
        /\ IsSeq(t) /\ Len(t) = Len(s)
        /\ \A d \in 1..Len(s) : t[d] = IF d = n THEN x ELSE s[d]
  BY <1>5 DEF Replaced
<1>6. ASSUME Len(s) >= 1
      PROVE  LET t == SubSeq(s, 1, Len(s) - 1) IN
             IsSeq(t) /\ Len(t) = Len(s) - 1 /\ \A d \in 1..(Len(s) - 1) : t[d] = s[d]
  <2>0. Len(s) - 1 \in Nat
    BY <1>2, <1>6
  <2>1. PICK n \in Nat : n = Len(s) - 1
    BY <2>0
  <2>2. \A d \in 1..n : s[d] \in S
    BY <1>1, <1>2, <2>1
  <2>3. SubSeq(s, 1, n) = [d \in 1..n |-> s[d]]
    BY <2>1
  <2>4. PICK t : t = SubSeq(s, 1, n) /\ t = [d \in 1..n |-> s[d]]
    BY <2>3
  <2>5. t = [d \in 1..n |-> t[d]]
    BY <2>4
  <2>6. IsSeq(t) /\ Len(t) = n
    BY <2>5, SeqByElements
  <2> QED
    BY <2>1, <2>4, <2>6
<1> QED
  BY <1>4, <1>6, <1>5a

\* What an instruction does to the activations and to the arguments.
LEMMA ExecuteSays ==
  ASSUME NEW in_, Execute(in_)
  PROVE  /\ ir_pc \in DOMAIN code /\ in_ = code[ir_pc] /\ program' = program
         /\ in_.op \in {"LOADVAL", "STORE"} \cup Binary \cup Unary =>
              (\E v : Assign(in_.reg, v)) /\ Goto(ir_pc + 1) /\ args' = args
         /\ in_.op = "LABEL" => Goto(ir_pc + 1) /\ frames' = frames /\ args' = args
         /\ in_.op = "JMP" => Goto(IndexOf("LABEL", in_.var1.id)) /\ frames' = frames /\ args' = args
         /\ in_.op = "JMPF" =>
              /\ Goto(IndexOf("LABEL", in_.reg.id)) \/ Goto(ir_pc + 1)
              /\ frames' = frames /\ args' = args
         /\ in_.op = "PARAM" => (\E v : args' = Append(args, v)) /\ Goto(ir_pc + 1) /\ frames' = frames
         /\ in_.op = "CALL" /\ IsExtern(in_.var1.id) =>
              (\E v : Assign(in_.reg, v)) /\ Goto(ir_pc + 1) /\ args' = <<>>
         /\ InternalCall(in_) =>
              /\ frames' = Append(frames, [method |-> in_.var1.id, env |-> <<>>, call |-> ir_pc])
              /\ Goto(IndexOf("ENTER", in_.var1.id)) /\ args' = args
         /\ in_.op = "ENTER" =>
              /\ \E v : frames' = [frames EXCEPT ![Len(frames)].env = v]
              /\ args' = <<>> /\ Goto(ir_pc + 1)
         /\ in_.op = "RET" =>
              /\ frames' = frames \/ \E v : frames' = [frames EXCEPT ![Len(frames)].env = v]
              /\ Goto(IndexOf("LEAVE", Current.method)) /\ args' = args
         /\ in_.op = "LEAVE" => Return /\ args' = args
<1>1. ir_pc \in DOMAIN code /\ in_ = code[ir_pc] /\ program' = program
  BY DEF Execute
<1>2. ASSUME in_.op \in {"LOADVAL", "STORE"} \cup Binary \cup Unary
      PROVE  (\E v : Assign(in_.reg, v)) /\ Goto(ir_pc + 1) /\ args' = args
  <2>1. CASE in_.op \in {"LOADVAL", "STORE"}
    BY <2>1 DEF Execute
  <2>2. CASE in_.op \in Binary
    <3>1. in_.op \notin {"LOADVAL", "STORE"}
      BY <2>2 DEF Binary, BinaryOp, Arithmetic, Division, Relational, Logical
    <3>2. /\ Assign(in_.reg, Apply(in_.op, Value(in_.var1), Value(in_.var2)))
          /\ Goto(ir_pc + 1) /\ UNCHANGED args
      BY <2>2, <3>1 DEF Execute, Binary, BinaryOp, Arithmetic, Division, Relational, Logical, Unary
    <3> QED
      BY <3>2
  <2>3. CASE in_.op \in Unary
    <3>1. in_.op \notin {"LOADVAL", "STORE"} /\ in_.op \notin Binary
      BY <2>3 DEF Binary, BinaryOp, Arithmetic, Division, Relational, Logical, Unary
    <3>2. /\ Assign(in_.reg, IF in_.op = "MIN" THEN -Value(in_.var1) ELSE Truth(Value(in_.var1) = 0))
          /\ Goto(ir_pc + 1) /\ UNCHANGED args
      BY <2>3, <3>1 DEF Execute, Binary, BinaryOp, Arithmetic, Division, Relational, Logical, Unary
    <3> QED
      BY <3>2
  <2> QED
    BY <1>2, <2>1, <2>2, <2>3
<1>3. ASSUME in_.op \in {"LABEL", "JMP", "JMPF", "PARAM", "CALL", "ENTER", "RET", "LEAVE"}
      PROVE  in_.op \notin {"LOADVAL", "STORE"} /\ in_.op \notin Binary /\ in_.op \notin Unary
  BY <1>3 DEF Binary, BinaryOp, Arithmetic, Division, Relational, Logical, Unary
<1>4. in_.op = "LABEL" => Goto(ir_pc + 1) /\ frames' = frames /\ args' = args
  BY <1>3 DEF Execute
<1>5. in_.op = "JMP" => Goto(IndexOf("LABEL", in_.var1.id)) /\ frames' = frames /\ args' = args
  BY <1>3 DEF Execute
<1>6. in_.op = "JMPF" =>
        /\ Goto(IndexOf("LABEL", in_.reg.id)) \/ Goto(ir_pc + 1)
        /\ frames' = frames /\ args' = args
  BY <1>3 DEF Execute
<1>7. in_.op = "PARAM" => (\E v : args' = Append(args, v)) /\ Goto(ir_pc + 1) /\ frames' = frames
  BY <1>3 DEF Execute
<1>8. in_.op = "CALL" /\ IsExtern(in_.var1.id) =>
        (\E v : Assign(in_.reg, v)) /\ Goto(ir_pc + 1) /\ args' = <<>>
  BY <1>3 DEF Execute
<1>9. InternalCall(in_) =>
        /\ frames' = Append(frames, [method |-> in_.var1.id, env |-> <<>>, call |-> ir_pc])
        /\ Goto(IndexOf("ENTER", in_.var1.id)) /\ args' = args
  BY <1>3 DEF Execute, InternalCall
<1>10. in_.op = "ENTER" =>
         /\ \E v : frames' = [frames EXCEPT ![Len(frames)].env = v]
         /\ args' = <<>> /\ Goto(ir_pc + 1)
  BY <1>3 DEF Execute
<1>11. in_.op = "RET" =>
         /\ frames' = frames \/ \E v : frames' = [frames EXCEPT ![Len(frames)].env = v]
         /\ Goto(IndexOf("LEAVE", Current.method)) /\ args' = args
  BY <1>3 DEF Execute
<1>12. in_.op = "LEAVE" => Return /\ args' = args
  BY <1>3 DEF Execute
<1> QED
  BY <1>1, <1>2, <1>4, <1>5, <1>6, <1>7, <1>8, <1>9, <1>10, <1>11, <1>12

\* Giving the current activation another environment.
LEMMA OtherEnv ==
  ASSUME Activations(frames), Len(frames) >= 1, NEW v, frames' = [frames EXCEPT ![Len(frames)].env = v]
  PROVE  Activations(frames') /\ Len(frames') = Len(frames) /\ Alike(frames', frames, Len(frames))
<1>1. IsSeq(frames) /\ Len(frames) \in Nat /\ DOMAIN frames = 1..Len(frames)
  BY SeqFacts DEF Activations
<1>2. PICK n \in 1..Len(frames) : n = Len(frames)
  BY <1>1
<1>3. PICK x : x = [frames[n] EXCEPT !.env = v]
  OBVIOUS
<1>4. frames' = Replaced(frames, n, x)
  BY <1>1, <1>2, <1>3 DEF Replaced
<1>5. frames[n] = [method |-> frames[n].method, env |-> frames[n].env, call |-> frames[n].call]
  BY DEF Activations
<1>6. x = [method |-> frames[n].method, env |-> v, call |-> frames[n].call]
  BY <1>3, <1>5
<1>7. /\ IsSeq(frames') /\ Len(frames') = Len(frames)
      /\ \A d \in 1..Len(frames) : frames'[d] = IF d = n THEN x ELSE frames[d]
  <2>1. PICK t : /\ t = Replaced(frames, n, x) /\ IsSeq(t) /\ Len(t) = Len(frames)
                 /\ \A d \in 1..Len(frames) : t[d] = IF d = n THEN x ELSE frames[d]
    BY <1>1, <1>2, ListSteps
  <2>2. frames' = t
    BY <1>4, <2>1
  <2> QED
    BY <2>1, <2>2
<1>8. \A d \in 1..Len(frames) :
        /\ frames'[d] = [method |-> frames'[d].method, env |-> frames'[d].env, call |-> frames'[d].call]
        /\ frames'[d].method = frames[d].method /\ frames'[d].call = frames[d].call
  <2>1. ASSUME NEW d \in 1..Len(frames)
        PROVE  /\ frames'[d] = [method |-> frames'[d].method, env |-> frames'[d].env,
                                call |-> frames'[d].call]
               /\ frames'[d].method = frames[d].method /\ frames'[d].call = frames[d].call
    <3>1. CASE d = n
      <4>1. frames'[d] = x
        BY <1>7, <2>1, <3>1
      <4> QED
        BY <1>6, <3>1, <4>1
    <3>2. CASE d # n
      <4>1. frames'[d] = frames[d]
        BY <1>7, <2>1, <3>2
      <4> QED
        BY <2>1, <4>1 DEF Activations
    <3> QED
      BY <3>1, <3>2
  <2> QED
    BY <2>1
<1> QED
  BY <1>7, <1>8 DEF Activations, Alike

\* Assigning does this as well.
LEMMA AssignKeeps ==
  ASSUME Activations(frames), Len(frames) >= 1, NEW o, NEW v, Assign(o, v)
  PROVE  Activations(frames') /\ Len(frames') = Len(frames) /\ Alike(frames', frames, Len(frames))
<1>1. CASE frames' = frames
  BY <1>1 DEF Activations, Alike
<1>2. CASE frames' # frames
  <2>1. frames' = [frames EXCEPT ![Len(frames)].env = (Symbol(o) :> v) @@ @]
    BY <1>2 DEF Assign
  <2>2. PICK w : frames' = [frames EXCEPT ![Len(frames)].env = w]
    BY <2>1
  <2> QED
    BY <2>2, OtherEnv
<1> QED
  BY <1>1, <1>2

\* Returning drops the current activation.
LEMMA ReturnDrops ==
  ASSUME Activations(frames), Len(frames) >= 1, Return
  PROVE  /\ Activations(frames') /\ Len(frames') = Len(frames) - 1
         /\ Alike(frames', frames, Len(frames) - 1)
         /\ Len(frames) = 1 => ir_pc' = 0
         /\ Len(frames) # 1 => Goto(frames[Len(frames)].call + 1)
<1>1. IsSeq(frames) /\ Len(frames) \in Nat
  BY SeqFacts DEF Activations
<1>2. PICK rest : rest = SubSeq(frames, 1, Len(frames) - 1)
  OBVIOUS
<1>3. PICK n \in Nat : n = Len(frames) - 1
  <2>1. Len(frames) - 1 \in Nat
    BY <1>1
  <2> QED
    BY <2>1
<1>4. IsSeq(rest) /\ Len(rest) = n /\ \A d \in 1..n : rest[d] = frames[d]
  BY <1>1, <1>2, <1>3, ListSteps
<1>5. \A d \in 1..n : d \in 1..Len(frames)
  BY <1>1, <1>3
<1>6. Activations(rest)
  BY <1>4, <1>5 DEF Activations
<1>7. rest = <<>> <=> n = 0
  <2>1. PICK S : rest \in Seq(S)
    BY <1>4 DEF IsSeq
  <2> QED
    BY <1>4, <2>1, EmptySeq
<1>8. CASE n = 0
  <2>1. frames' = <<>> /\ ir_pc' = 0 /\ frames' = rest
    BY <1>2, <1>7, <1>8 DEF Return
  <2> QED
    BY <1>1, <1>3, <1>4, <1>6, <1>8, <2>1 DEF Alike
<1>9. CASE n # 0
  <2>1. PICK v : frames' = [rest EXCEPT ![Len(rest)].env = v] /\ Goto(Current.call + 1)
    BY <1>2, <1>7, <1>9 DEF Return
  <2>2. Goto(frames[Len(frames)].call + 1)
    BY <2>1 DEF Current
  <2>3. PICK x : x = [rest[n] EXCEPT !.env = v]
    OBVIOUS
  <2>4. n \in 1..n /\ DOMAIN rest = 1..n
    BY <1>4, <1>9, SeqFacts
  <2>5. frames' = Replaced(rest, n, x)
    BY <1>4, <2>1, <2>3, <2>4 DEF Replaced
  <2>6. rest[n] = [method |-> rest[n].method, env |-> rest[n].env, call |-> rest[n].call]
    BY <1>4, <1>6, <2>4 DEF Activations
  <2>7. x = [method |-> rest[n].method, env |-> v, call |-> rest[n].call]
    BY <2>3, <2>6
  <2>8. /\ IsSeq(frames') /\ Len(frames') = n
        /\ \A d \in 1..n : frames'[d] = IF d = n THEN x ELSE rest[d]
    BY <1>4, <2>4, <2>5, ListSteps
  <2>9. \A d \in 1..n :
        /\ frames'[d] = [method |-> frames'[d].method, env |-> frames'[d].env, call |-> frames'[d].call]
        /\ frames'[d].method = frames[d].method /\ frames'[d].call = frames[d].call
    <3>1. ASSUME NEW d \in 1..n
          PROVE  /\ frames'[d] = [method |-> frames'[d].method, env |-> frames'[d].env,
                                  call |-> frames'[d].call]
                 /\ frames'[d].method = frames[d].method /\ frames'[d].call = frames[d].call
      <4>1. CASE d = n
        <5>1. frames'[d] = x /\ rest[n] = frames[d]
          BY <1>4, <2>8, <3>1, <4>1
        <5> QED
          BY <2>7, <5>1
      <4>2. CASE d # n
        <5>1. frames'[d] = frames[d]
          BY <1>4, <2>8, <3>1, <4>2
        <5> QED
          BY <1>5, <3>1, <5>1 DEF Activations
      <4> QED
        BY <4>1, <4>2
    <3> QED
      BY <3>1
  <2>10. Activations(frames') /\ Alike(frames', frames, n)
    BY <2>8, <2>9 DEF Activations, Alike
  <2>11. Len(frames) # 1
    BY <1>3, <1>9
  <2> QED
    BY <1>3, <2>2, <2>8, <2>10, <2>11
<1> QED
  BY <1>8, <1>9

\* What an instruction does to the lists of activations and arguments.
LEMMA ExecuteFrames ==
  ASSUME Activations(frames), Len(frames) >= 1, IsSeq(args), NEW in_, Execute(in_),
         in_.op \in Ops \ Silent
  PROVE  /\ Activations(frames') /\ IsSeq(args')
         /\ ~InternalCall(in_) /\ in_.op # "LEAVE" =>
              Len(frames') = Len(frames) /\ Alike(frames', frames, Len(frames))
         /\ InternalCall(in_) =>
              /\ Len(frames') = Len(frames) + 1 /\ Alike(frames', frames, Len(frames))
              /\ frames'[Len(frames) + 1].method = in_.var1.id
              /\ frames'[Len(frames) + 1].call = ir_pc
         /\ in_.op = "LEAVE" => Len(frames') = Len(frames) - 1 /\ Alike(frames', frames, Len(frames) - 1)
         /\ Len(args') = IF in_.op = "PARAM" THEN Len(args) + 1
                         ELSE IF in_.op \in {"ENTER", "CALL"} /\ ~InternalCall(in_) THEN 0
                         ELSE Len(args)
<1>1. IsSeq(frames) /\ Len(frames) \in Nat /\ IsSeq(<<>>) /\ Len(<<>>) = 0
  BY SeqFacts, EmptySeq DEF Activations, IsSeq
<1>2. frames' = frames => Activations(frames') /\ Alike(frames', frames, Len(frames))
  BY DEF Activations, Alike
<1>3. CASE in_.op \in {"LOADVAL", "STORE"} \cup Binary \cup Unary
  <2>1. in_.op \notin {"PARAM", "ENTER", "CALL", "LEAVE"} /\ ~InternalCall(in_)
    BY <1>3 DEF Binary, BinaryOp, Arithmetic, Division, Relational, Logical, Unary, InternalCall
  <2>2. (\E v : Assign(in_.reg, v)) /\ args' = args
    BY <1>3, ExecuteSays
  <2>3. Activations(frames') /\ Len(frames') = Len(frames) /\ Alike(frames', frames, Len(frames))
    BY <2>2, AssignKeeps
  <2> QED
    BY <2>1, <2>2, <2>3
<1>4. CASE in_.op \in {"LABEL", "JMP", "JMPF"}
  <2>1. frames' = frames /\ args' = args
    BY <1>4, ExecuteSays
  <2> QED
    BY <1>2, <1>4, <2>1 DEF InternalCall
<1>5. CASE in_.op = "PARAM"
  <2>1. frames' = frames /\ \E v : args' = Append(args, v)
    BY <1>5, ExecuteSays
  <2>2. IsSeq(args') /\ Len(args') = Len(args) + 1
    BY <2>1, ListSteps
  <2> QED
    BY <1>2, <1>5, <2>1, <2>2 DEF InternalCall
<1>6. CASE in_.op = "CALL" /\ IsExtern(in_.var1.id)
  <2>1. (\E v : Assign(in_.reg, v)) /\ args' = <<>>
    BY <1>6, ExecuteSays
  <2>2. Activations(frames') /\ Len(frames') = Len(frames) /\ Alike(frames', frames, Len(frames))
    BY <2>1, AssignKeeps
  <2> QED
    BY <1>1, <1>6, <2>1, <2>2 DEF InternalCall
<1>7. CASE InternalCall(in_)
  <2>1. PICK x : /\ x = [method |-> in_.var1.id, env |-> <<>>, call |-> ir_pc]
                 /\ frames' = Append(frames, x) /\ args' = args
    BY <1>7, ExecuteSays
  <2>2. /\ IsSeq(frames') /\ Len(frames') = Len(frames) + 1
        /\ \A d \in 1..Len(frames) : frames'[d] = frames[d]
        /\ frames'[Len(frames) + 1] = x
    BY <1>1, <2>1, ListSteps
  <2>3. \A d \in 1..Len(frames') : d \in 1..Len(frames) \/ d = Len(frames) + 1
    BY <1>1, <2>2
  <2>4. Activations(frames')
    <3>1. ASSUME NEW d \in 1..Len(frames')
          PROVE  frames'[d] = [method |-> frames'[d].method, env |-> frames'[d].env,
                               call |-> frames'[d].call]
      <4>1. CASE d \in 1..Len(frames)
        BY <2>2, <4>1 DEF Activations
      <4>2. CASE d = Len(frames) + 1
        BY <2>1, <2>2, <4>2
      <4> QED
        BY <2>3, <4>1, <4>2
    <3> QED
      BY <2>2, <3>1 DEF Activations
  <2>5. Alike(frames', frames, Len(frames))
    BY <2>2 DEF Alike
  <2>6. /\ frames'[Len(frames) + 1].method = in_.var1.id
        /\ frames'[Len(frames) + 1].call = ir_pc
    BY <2>1, <2>2
  <2> QED
    BY <1>7, <2>1, <2>2, <2>4, <2>5, <2>6 DEF InternalCall
<1>8. CASE in_.op = "ENTER"
  <2>1. args' = <<>> /\ \E v : frames' = [frames EXCEPT ![Len(frames)].env = v]
    BY <1>8, ExecuteSays
  <2>2. Activations(frames') /\ Len(frames') = Len(frames) /\ Alike(frames', frames, Len(frames))
    BY <2>1, OtherEnv
  <2> QED
    BY <1>1, <1>8, <2>1, <2>2 DEF InternalCall
<1>9. CASE in_.op = "RET"
  <2>1. args' = args /\ (frames' = frames \/ \E v : frames' = [frames EXCEPT ![Len(frames)].env = v])
    BY <1>9, ExecuteSays
  <2>2. Activations(frames') /\ Len(frames') = Len(frames) /\ Alike(frames', frames, Len(frames))
    BY <1>2, <2>1, OtherEnv
  <2> QED
    BY <1>9, <2>1, <2>2 DEF InternalCall
<1>10. CASE in_.op = "LEAVE"
  <2>1. Return /\ args' = args
    BY <1>10, ExecuteSays
  <2> QED
    BY <1>10, <2>1, ReturnDrops DEF InternalCall
<1>11. \/ in_.op \in {"LOADVAL", "STORE"} \cup Binary \cup Unary
       \/ in_.op \in {"LABEL", "JMP", "JMPF"}
       \/ in_.op = "PARAM" \/ in_.op = "CALL" \/ in_.op = "ENTER" \/ in_.op = "RET" \/ in_.op = "LEAVE"
  BY DEF Ops, Silent, OneStep, Compares, Binary, Unary, BinaryOp, Arithmetic, Logical
<1>12. in_.op = "CALL" => IsExtern(in_.var1.id) \/ InternalCall(in_)
  BY DEF InternalCall
<1> QED
  BY <1>3, <1>4, <1>5, <1>6, <1>7, <1>8, <1>9, <1>10, <1>11, <1>12

\* the abstract machine can be at instruction k with activations fr: it is in the
\* current one, and every other waits at a call of its method
Follows(k, fr) ==
  /\ Activations(fr)
  /\ k # 0 =>
       /\ Len(fr) >= 1 /\ k \in 1..Len(code)
       /\ \E e \in 1..Len(code) : In(e, k) /\ code[e].var1.id = fr[Len(fr)].method
  /\ \A d \in 2..Len(fr) :
       /\ fr[d].call \in 1..Len(code) /\ code[fr[d].call].op = "CALL"
       /\ \E e \in 1..Len(code) : In(e, fr[d].call) /\ code[e].var1.id = fr[d - 1].method

\* An instruction that is no LOAD is not skipped.
LEMMA SkipHere ==
  ASSUME program \in Programs, NEW k \in 1..Len(code), code[k].op # "LOAD"
  PROVE  SkipLoads(k) = k
<1>1. Len(code) \in Nat /\ DOMAIN code = 1..Len(code)
  BY CodeFacts
<1> DEFINE Ok(j) == /\ \A n \in k..(j - 1) : code[n].op = "LOAD"
                    /\ j \in DOMAIN code => code[j].op # "LOAD"
<1>2. k \in k..(Len(code) + 1) /\ Ok(k)
  BY <1>1
<1>3. ASSUME NEW j \in k..(Len(code) + 1), Ok(j) PROVE j = k
  <2>1. ~(k < j)
    <3>1. k < j => k \in k..(j - 1)
      BY <1>1, <1>3
    <3> QED
      BY <1>3, <3>1
  <2> QED
    BY <1>1, <2>1
<1>4. (CHOOSE j \in k..(Len(code) + 1) : Ok(j)) = k
  BY <1>2, <1>3
<1> QED
  BY <1>4 DEF SkipLoads

\* The instruction after one that does not end its method.
LEMMA SkipNext ==
  ASSUME NEW B, Built(B), NEW e \in 1..Len(code), NEW k \in 1..Len(code), In(e, k),
         code[k].op # "LEAVE"
  PROVE  FollowsIn(e, k, SkipLoads(k + 1))
<1>1. Len(code) \in Nat /\ DOMAIN code = 1..Len(code)
  BY CodeFacts DEF Built, GeneratedInv, PlaceInv
<1>2. PICK l : FollowsIn(e, k, l)
  BY NextCode
<1>3. l \in 1..Len(code) /\ k < l /\ code[l].op # "LOAD" /\ \A j \in (k + 1)..(l - 1) : code[j].op = "LOAD"
  BY <1>2 DEF FollowsIn, Silent
<1> DEFINE Ok(j) == /\ \A n \in (k + 1)..(j - 1) : code[n].op = "LOAD"
                    /\ j \in DOMAIN code => code[j].op # "LOAD"
<1>4. l \in (k + 1)..(Len(code) + 1) /\ Ok(l)
  BY <1>1, <1>3
<1>5. ASSUME NEW j \in (k + 1)..(Len(code) + 1), Ok(j) PROVE j = l
  <2>1. ~(l < j)
    <3>1. l < j => l \in (k + 1)..(j - 1)
      BY <1>1, <1>3, <1>5
    <3> QED
      BY <1>3, <1>5, <3>1
  <2>2. ~(j < l)
    <3>1. j < l => j \in (k + 1)..(l - 1) /\ j \in DOMAIN code
      BY <1>1, <1>3, <1>5
    <3> QED
      BY <1>3, <1>5, <3>1
  <2> QED
    BY <1>1, <1>3, <2>1, <2>2
<1>6. (CHOOSE j \in (k + 1)..(Len(code) + 1) : Ok(j)) = l
  BY <1>4, <1>5
<1>7. SkipLoads(k + 1) = l
  BY <1>6 DEF SkipLoads
<1> QED
  BY <1>2, <1>7

\* Executing an instruction, the abstract machine stays in a method of the program.
LEMMA FollowsStep ==
  ASSUME NEW B, Built(B), Follows(ir_pc, frames), IsSeq(args), NEW in_, Execute(in_),
         in_.op \in Ops \ Silent
  PROVE  Follows(ir_pc', frames')
<1>1. program \in Programs /\ Len(code) \in Nat /\ DOMAIN code = 1..Len(code)
  BY CodeFacts DEF Built, GeneratedInv, PlaceInv
<1>2. ir_pc \in 1..Len(code) /\ in_ = code[ir_pc]
  BY <1>1, ExecuteSays
<1>3. PICK n \in Nat : /\ n = Len(frames) /\ n >= 1 /\ Activations(frames)
  <2>1. Len(frames) >= 1 /\ Activations(frames)
    BY <1>1, <1>2 DEF Follows
  <2>2. Len(frames) \in Nat
    BY <2>1, SeqFacts DEF Activations
  <2> QED
    BY <2>1, <2>2
<1>4. PICK e \in 1..Len(code) : In(e, ir_pc) /\ code[e].var1.id = frames[n].method
  BY <1>1, <1>2, <1>3 DEF Follows
<1>5. \A d \in 2..n :
        /\ frames[d].call \in 1..Len(code) /\ code[frames[d].call].op = "CALL"
        /\ \E c \in 1..Len(code) : In(c, frames[d].call) /\ code[c].var1.id = frames[d - 1].method
  BY <1>3 DEF Follows
<1>6. /\ Activations(frames')
      /\ ~InternalCall(in_) /\ in_.op # "LEAVE" => Len(frames') = n /\ Alike(frames', frames, n)
      /\ InternalCall(in_) =>
           /\ Len(frames') = n + 1 /\ Alike(frames', frames, n)
           /\ frames'[n + 1].method = in_.var1.id /\ frames'[n + 1].call = ir_pc
      /\ in_.op = "LEAVE" => Len(frames') = n - 1 /\ Alike(frames', frames, n - 1)
  BY <1>3, ExecuteFrames
<1>7. ASSUME NEW t, NEW m \in 0..n, Alike(t, frames, m)
      PROVE  /\ \A d \in 2..m :
                  /\ t[d].call \in 1..Len(code) /\ code[t[d].call].op = "CALL"
                  /\ \E c \in 1..Len(code) : In(c, t[d].call) /\ code[c].var1.id = t[d - 1].method
             /\ m >= 1 => t[m].method = frames[m].method
  <2>1. \A d \in 2..m : d \in 2..n /\ d \in 1..m /\ d - 1 \in 1..m
    BY <1>3, <1>7
  <2>2. m >= 1 => m \in 1..m
    BY <1>7
  <2> QED
    BY <1>5, <1>7, <2>1, <2>2 DEF Alike
<1>8. \A l \in 1..Len(code) : code[l].op # "LOAD" => (Goto(l) => ir_pc' = l)
  BY <1>1, SkipHere DEF Goto
<1>9. ASSUME ~InternalCall(in_), in_.op # "LEAVE" PROVE Follows(ir_pc', frames')
  <2>1. /\ Len(frames') = n /\ n \in 0..n
        /\ \A d \in 2..n :
             /\ frames'[d].call \in 1..Len(code) /\ code[frames'[d].call].op = "CALL"
             /\ \E c \in 1..Len(code) : In(c, frames'[d].call) /\ code[c].var1.id = frames'[d - 1].method
        /\ frames'[n].method = frames[n].method
    BY <1>3, <1>6, <1>7, <1>9
  <2>2. ASSUME NEW l \in 1..Len(code), In(e, l), ir_pc' = l PROVE Follows(ir_pc', frames')
    BY <1>3, <1>4, <1>6, <2>1, <2>2 DEF Follows
  <2>3. ASSUME Goto(ir_pc + 1) PROVE Follows(ir_pc', frames')
    <3>1. FollowsIn(e, ir_pc, ir_pc')
      BY <1>2, <1>4, <1>9, <2>3, SkipNext DEF Goto
    <3> QED
      BY <2>2, <3>1 DEF FollowsIn
  <2>4. LET l == Goal(e, ir_pc) IN
        in_.op \in {"RET", "JMP", "JMPF"} =>
          l \in 1..Len(code) /\ In(e, l) /\ code[l].op # "LOAD"
    BY <1>1, <1>2, <1>4, Goals
  <2>5. CASE in_.op = "RET"
    <3>1. Goto(Goal(e, ir_pc))
      BY <1>2, <1>3, <1>4, <2>5, ExecuteSays DEF Goal, Current
    <3> QED
      BY <1>8, <2>2, <2>4, <2>5, <3>1
  <2>6. CASE in_.op \in {"JMP", "JMPF"}
    <3>1. Goto(Goal(e, ir_pc)) \/ Goto(ir_pc + 1)
      BY <1>2, <2>6, ExecuteSays DEF Goal, Destination
    <3> QED
      BY <1>8, <2>2, <2>3, <2>4, <2>6, <3>1
  <2>7. CASE in_.op \notin {"RET", "JMP", "JMPF"}
    <3>1. Goto(ir_pc + 1)
      <4>1. \/ in_.op \in {"LOADVAL", "STORE"} \cup Binary \cup Unary
            \/ in_.op \in {"LABEL", "PARAM", "CALL", "ENTER"}
        BY <1>9, <2>7 DEF Ops, Silent, OneStep, Compares, Binary, Unary, BinaryOp, Arithmetic, Logical
      <4>2. in_.op = "CALL" => IsExtern(in_.var1.id)
        BY <1>9 DEF InternalCall
      <4> QED
        BY <4>1, <4>2, ExecuteSays
    <3> QED
      BY <2>3, <3>1
  <2> QED
    BY <2>5, <2>6, <2>7
<1>10. ASSUME InternalCall(in_) PROVE Follows(ir_pc', frames')
  <2>1. PICK l \in 1..Len(code) : /\ l = Goal(e, ir_pc) /\ In(l, l) /\ code[l].op = "ENTER"
                                  /\ code[l].var1.id = in_.var1.id
    BY <1>1, <1>2, <1>4, <1>10, Goals DEF InternalCall
  <2>2. ir_pc' = l
    <3>1. Goto(l)
      BY <1>2, <1>10, <2>1, ExecuteSays DEF Goal, InternalCall
    <3> QED
      BY <1>8, <2>1, <3>1
  <2>3. /\ Len(frames') = n + 1 /\ n \in 0..n
        /\ \A d \in 2..n :
             /\ frames'[d].call \in 1..Len(code) /\ code[frames'[d].call].op = "CALL"
             /\ \E c \in 1..Len(code) : In(c, frames'[d].call) /\ code[c].var1.id = frames'[d - 1].method
        /\ frames'[n].method = frames[n].method
        /\ frames'[n + 1].method = in_.var1.id /\ frames'[n + 1].call = ir_pc
    <3>1. /\ Len(frames') = n + 1 /\ Alike(frames', frames, n) /\ n \in 0..n
          /\ frames'[n + 1].method = in_.var1.id /\ frames'[n + 1].call = ir_pc
      BY <1>3, <1>6, <1>10
    <3>2. /\ \A d \in 2..n :
               /\ frames'[d].call \in 1..Len(code) /\ code[frames'[d].call].op = "CALL"
               /\ \E c \in 1..Len(code) : In(c, frames'[d].call) /\ code[c].var1.id = frames'[d - 1].method
          /\ frames'[n].method = frames[n].method
      BY <1>3, <1>7, <3>1
    <3> QED
      BY <3>1, <3>2
  <2>4. /\ frames'[n + 1].call \in 1..Len(code) /\ code[frames'[n + 1].call].op = "CALL"
        /\ \E c \in 1..Len(code) : In(c, frames'[n + 1].call) /\ code[c].var1.id = frames'[(n + 1) - 1].method
    <3>1. (n + 1) - 1 = n
      BY <1>3
    <3> QED
      BY <1>2, <1>4, <1>10, <2>3, <3>1 DEF InternalCall
  <2>5. \A d \in 2..(n + 1) : d \in 2..n \/ d = n + 1
    BY <1>3
  <2>6. \A d \in 2..Len(frames') :
          /\ frames'[d].call \in 1..Len(code) /\ code[frames'[d].call].op = "CALL"
          /\ \E c \in 1..Len(code) : In(c, frames'[d].call) /\ code[c].var1.id = frames'[d - 1].method
    BY <2>3, <2>4, <2>5
  <2>7. Len(frames') >= 1 /\ code[l].var1.id = frames'[Len(frames')].method
    BY <1>3, <2>1, <2>3
  <2> QED
    BY <1>6, <2>1, <2>2, <2>6, <2>7 DEF Follows
<1>11. ASSUME in_.op = "LEAVE" PROVE Follows(ir_pc', frames')
  <2>1. PICK m \in 0..n : m = n - 1 /\ Len(frames') = m /\ Alike(frames', frames, m)
    <3>1. n - 1 \in 0..n
      BY <1>3
    <3> QED
      BY <1>6, <1>11, <3>1
  <2>2. /\ \A d \in 2..m :
             /\ frames'[d].call \in 1..Len(code) /\ code[frames'[d].call].op = "CALL"
             /\ \E c \in 1..Len(code) : In(c, frames'[d].call) /\ code[c].var1.id = frames'[d - 1].method
        /\ m >= 1 => frames'[m].method = frames[m].method
    BY <1>7, <2>1
  <2>3. (n = 1 => ir_pc' = 0) /\ (n # 1 => Goto(frames[n].call + 1))
    BY <1>3, <1>11, ExecuteSays, ReturnDrops
  <2>4. CASE n = 1
    BY <1>6, <2>1, <2>2, <2>3, <2>4 DEF Follows
  <2>5. CASE n # 1
    <3>1. n \in 2..n /\ m = n - 1 /\ m >= 1
      BY <1>3, <2>1, <2>5
    <3>2. PICK c \in 1..Len(code), k \in 1..Len(code) :
            k = frames[n].call /\ code[k].op = "CALL" /\ In(c, k) /\ code[c].var1.id = frames[n - 1].method
      BY <1>5, <3>1
    <3>3. FollowsIn(c, k, ir_pc')
      BY <2>3, <2>5, <3>2, SkipNext DEF Goto
    <3>4. ir_pc' \in 1..Len(code) /\ In(c, ir_pc') /\ code[c].var1.id = frames'[m].method
      BY <2>2, <3>1, <3>2, <3>3 DEF FollowsIn
    <3> QED
      BY <1>6, <2>1, <2>2, <3>1, <3>4 DEF Follows
  <2> QED
    BY <2>4, <2>5
<1> QED
  BY <1>9, <1>10, <1>11

-----------------------------------------------------------------------------
(* The stack of activations.  A[d] is activation d: the ENTER of its       *)
(* method, the CALL that made it and its frame pointer.                    *)

Activation(e, k, f) == [enter |-> e, call |-> k, base |-> f]

\* what the method entered at e is passed
Passes(e) == Len(Params(code[e].var1.id))

\* the frame pointer that activation d has saved, and the place it returns to
Saved(A, d) == IF d = 1 THEN 0 ELSE A[d - 1].base
ReturnTo(B, A, d) == IF d = 1 THEN 0 ELSE B[A[d].call] + 1

\* the activations are made one by the other, and their frames lie in a row
Chain(N, A) ==
  /\ N \in Nat \ {0} /\ A[1].base = -2
  /\ \A d \in 1..N : A[d].enter \in 1..Len(code) /\ code[A[d].enter].op = "ENTER" /\ A[d].base \in Int
  /\ \A d \in 2..N :
       LET k == A[d].call IN
       /\ k \in 1..Len(code) /\ In(A[d - 1].enter, k) /\ InternalCall(code[k])
       /\ code[k].var1.id = code[A[d].enter].var1.id
       /\ A[d].base = A[d - 1].base - FrameOf(A[d - 1].enter) - Extra(Passes(A[d].enter)) - 2
  /\ \A c, d \in 1..N : c < d => A[d].base + 2 <= A[c].base - FrameOf(A[c].enter)
  /\ \A d \in 1..N : (\A c \in 2..d : ~OddStackArguments(Passes(A[c].enter))) => A[d].base % 2 = 0

\* memory m holds what activations return to and, but for the last, the frame
\* pointers they have saved
Links(B, N, A, m) ==
  \A d \in 1..N :
    /\ A[d].base + 1 \in Addresses /\ m[A[d].base + 1] = ReturnTo(B, A, d)
    /\ d < N => A[d].base \in Addresses /\ m[A[d].base] = Saved(A, d)

\* activations fr and arguments a of the abstract machine are those of the stack,
\* the processor being at place p
Mirror(B, N, A, p, fr, a) ==
  LET k == asm[p].of
      q == p - B[k]
  IN  /\ Len(fr) = IF code[k].op = "LEAVE" /\ q > 0 THEN N - 1 ELSE N
      /\ \A d \in 1..Len(fr) : fr[d].method = code[A[d].enter].var1.id
      /\ q > 0 => Len(a) = 0
      /\ q = 0 /\ code[k].op # "ENTER" => Passed(code, k, Len(a))

Stacked(B, N, A, p, r, m, fr, a) ==
  /\ Chain(N, A) /\ Links(B, N, A, m)
  /\ StandsAt(B, A[N].enter, A[N].base, Saved(A, N), p, r, m)
  /\ Mirror(B, N, A, p, fr, a)

\* a step of the processor, and of the abstract machine with it
Stepping == Processor /\ IF ins.first THEN Execute(code[ins.of]) ELSE UNCHANGED ir_vars

\* the stack now
Standing(B, N, A) ==
  /\ Built(B) /\ Stacked(B, N, A, pc, regs, mem, frames, args)
  /\ Activations(frames) /\ IsSeq(args)

\* What is known of it.
LEMMA StandingFacts ==
  ASSUME NEW B, NEW N, NEW A, Standing(B, N, A)
  PROVE  /\ program \in Programs /\ N \in Nat \ {0} /\ N \in 1..N
         /\ A[N].enter \in 1..Len(code) /\ A[N].base \in Int /\ A[N].base <= -2
         /\ Saved(A, N) \in Int
         /\ \A d \in 1..N : FrameOf(A[d].enter) \in Nat /\ FrameOf(A[d].enter) % 2 = 0
         /\ \A d \in 1..N : A[d].base + 1 > A[N].base /\ (d < N => A[d].base > A[N].base)
         /\ \A d \in 1..N : A[d].base \in Int
<1>1. Built(B) /\ Chain(N, A)
  BY DEF Standing, Stacked
<1>2. N \in Nat \ {0} /\ program \in Programs /\ N \in 1..N
  BY <1>1 DEF Chain, Built, GeneratedInv, PlaceInv
<1>3. ASSUME NEW d \in 1..N PROVE FrameOf(A[d].enter) \in Nat /\ FrameOf(A[d].enter) % 2 = 0
  <2>1. A[d].enter \in 1..Len(code) /\ In(A[d].enter, A[d].enter)
    BY <1>1 DEF Chain, In
  <2> QED
    BY <1>1, <2>1, BuiltFacts
<1>4. /\ \A d \in 1..N : A[d].base \in Int
      /\ \A c \in 1..N : c < N => A[N].base + 2 <= A[c].base - FrameOf(A[c].enter)
      /\ A[N].enter \in 1..Len(code) /\ A[1].base = -2
  BY <1>1, <1>2 DEF Chain
<1>5. \A d \in 1..N : d < N => A[d].base > A[N].base
  <2>1. ASSUME NEW d \in 1..N, d < N PROVE A[d].base > A[N].base
    <3>1. PICK x \in Int, y \in Int, z \in Nat : x = A[d].base /\ y = A[N].base /\ z = FrameOf(A[d].enter)
      BY <1>2, <1>3, <1>4
    <3>2. y + 2 <= x - z
      BY <1>4, <2>1, <3>1
    <3> QED
      BY <3>1, <3>2
  <2> QED
    BY <2>1
<1>6. \A d \in 1..N : A[d].base + 1 > A[N].base
  <2>1. \A d \in 1..N : d < N \/ d = N
    BY <1>2
  <2> QED
    BY <1>2, <1>4, <1>5, <2>1
<1>7. A[N].base <= -2
  <2>1. 1 \in 1..N /\ (1 < N \/ 1 = N)
    BY <1>2
  <2> QED
    BY <1>2, <1>4, <1>5, <2>1
<1>8. Saved(A, N) \in Int
  <2>1. N # 1 => N - 1 \in 1..N
    BY <1>2
  <2> QED
    BY <1>4, <2>1 DEF Saved
<1> QED
  BY <1>2, <1>3, <1>4, <1>5, <1>6, <1>7, <1>8

\* The processor is at a line of the last activation.
LEMMA StandingGoes ==
  ASSUME NEW B, NEW N, NEW A, Standing(B, N, A)
  PROVE  \E q, s :
           /\ q \in Nat /\ Going(B, A[N].enter, A[N].base, Saved(A, N), asm[pc].of, q, s)
           /\ q = pc - B[asm[pc].of] /\ (ins.first <=> q = 0)
<1>1. /\ Built(B) /\ StandsAt(B, A[N].enter, A[N].base, Saved(A, N), pc, regs, mem)
  BY DEF Standing, Stacked
<1>2. /\ A[N].enter \in 1..Len(code) /\ A[N].base \in Int /\ A[N].base <= -2 /\ Saved(A, N) \in Int
  BY StandingFacts
<1>3. pc \in 1..Len(asm) /\ In(A[N].enter, asm[pc].of)
  BY <1>1 DEF StandsAt
<1>4. PICK k, q, s :
        /\ k \in 1..Len(code) /\ q \in Nat /\ k = asm[pc].of /\ q = pc - B[k] /\ pc = B[k] + q /\ B[k] \in Nat
        /\ TextAt(B, A[N].enter, k, s)
        /\ q < Len(s) /\ Len(s) \in Nat /\ IsAt(pc, s[q + 1]) /\ code[k].op \in Ops \ Silent
  BY <1>1, <1>2, <1>3, AtLine
<1>5. Going(B, A[N].enter, A[N].base, Saved(A, N), k, q, s)
  BY <1>1, <1>2, <1>4 DEF Going
<1>6. ins.first <=> q = 0
  <2>1. asm[pc].first <=> pc = B[k]
    BY <1>1, <1>3, <1>4, Places
  <2>2. pc = B[k] <=> q = 0
    <3>1. PICK b \in Nat : b = B[k] /\ pc = b + q
      BY <1>4
    <3>2. \A n \in Nat : b + n = b <=> n = 0
      BY <3>1
    <3> QED
      BY <1>4, <3>1, <3>2
  <2> QED
    BY <2>1, <2>2, Zenon DEF ins
<1> QED
  BY <1>4, <1>5, <1>6

\* PARAM has one line.
LEMMA ParamIsOne ==
  ASSUME NEW B, NEW e, NEW f, NEW v, NEW k, NEW q, NEW s, Going(B, e, f, v, k, q, s),
         code[k].op = "PARAM"
  PROVE  q = 0 /\ Len(s) = 1
<1>1. TextAt(B, e, k, s) /\ q \in Nat /\ q < Len(s)
  BY DEF Going
<1>2. PICK n : n = Parameters(k)
  OBVIOUS
<1>3. PICK x : s = IF n < 6 THEN <<Mov(x, Reg(arg_regs[n + 1]))>> ELSE <<Asm("push", x, Nil)>>
  BY <1>1, <1>2 DEF TextAt, IsText, IsPassing
<1>4. Len(s) = 1
  BY <1>3
<1> QED
  BY <1>1, <1>4

\* As long as no method is called or returns, the activations of the abstract
\* machine remain those of the stack.
LEMMA MirrorStays ==
  ASSUME NEW B, NEW N, NEW A, Standing(B, N, A), Stepping,
         NEW k, k = asm[pc].of, NEW j \in 1..Len(asm), j = pc',
         Moves(B, A[N].enter, k, pc, j), ~(InternalCall(code[k]) /\ ins.first)
  PROVE  Mirror(B, N, A, j, frames', args') /\ Activations(frames') /\ IsSeq(args')
<1>1. PICK e, f, v : e = A[N].enter /\ f = A[N].base /\ v = Saved(A, N)
  OBVIOUS
<1>2. PICK q, s : q \in Nat /\ Going(B, e, f, v, k, q, s) /\ q = pc - B[k] /\ (ins.first <=> q = 0)
  BY <1>1, StandingGoes
<1>3. /\ program \in Programs /\ N \in Nat \ {0} /\ Built(B) /\ e \in 1..Len(code)
      /\ k \in 1..Len(code) /\ k \in Nat /\ pc = B[k] + q /\ B[k] \in Nat /\ In(e, k)
      /\ code[k].op \in Ops \ Silent /\ TextAt(B, e, k, s) /\ q < Len(s) /\ Len(s) \in Nat
      /\ Activations(frames) /\ IsSeq(args)
  <2>1. N \in Nat \ {0} /\ Built(B) /\ Activations(frames) /\ IsSeq(args)
    BY StandingFacts DEF Standing
  <2>2. program \in Programs /\ In(e, k) /\ k \in Nat
    BY <1>2, GoingFacts
  <2> QED
    BY <1>2, <2>1, <2>2 DEF Going
<1>4. /\ Len(frames) = IF code[k].op = "LEAVE" /\ q > 0 THEN N - 1 ELSE N
      /\ \A d \in 1..Len(frames) : frames[d].method = code[A[d].enter].var1.id
      /\ q > 0 => Len(args) = 0
      /\ q = 0 /\ code[k].op # "ENTER" => Passed(code, k, Len(args))
  BY <1>2 DEF Standing, Stacked, Mirror
<1>5. code[k].op = "PARAM" => q = 0 /\ Len(s) = 1
  BY <1>2, ParamIsOne
<1>a. q \in Nat
  BY <1>2
<1>9. N \in Nat /\ N >= 1 /\ N \in 0..N /\ N - 1 \in 0..N
  <2>1. N \in Nat \ {0}
    BY StandingFacts
  <2> QED
    BY <2>1
<1>10. \E b \in Nat : b = B[k] /\ pc = b + q
  BY <1>3
\* the lists after the step
<1>6. /\ Activations(frames') /\ IsSeq(args')
      /\ Len(frames') = IF code[k].op = "LEAVE" THEN N - 1 ELSE N
      /\ \A d \in 1..Len(frames') : frames'[d].method = code[A[d].enter].var1.id
      /\ code[k].op # "PARAM" => Len(args') = 0
      /\ code[k].op = "PARAM" => Len(args') = Len(args) + 1
  <2>1. CASE q = 0
    <3>1. Execute(code[k]) /\ ~InternalCall(code[k])
      BY <1>2, <2>1 DEF Stepping, ins
    <3>2. Len(frames) = N /\ N >= 1
      <4>1. ~(q > 0)
        BY <2>1
      <4> QED
        BY <1>4, <1>9, <4>1
    <3>3. /\ Activations(frames') /\ IsSeq(args')
          /\ code[k].op # "LEAVE" => Len(frames') = N /\ Alike(frames', frames, N)
          /\ code[k].op = "LEAVE" => Len(frames') = N - 1 /\ Alike(frames', frames, N - 1)
          /\ Len(args') = IF code[k].op = "PARAM" THEN Len(args) + 1
                          ELSE IF code[k].op \in {"ENTER", "CALL"} THEN 0
                          ELSE Len(args)
      <4>1. PICK x : x = code[k]
        OBVIOUS
      <4>2. /\ Activations(frames') /\ IsSeq(args')
            /\ x.op # "LEAVE" => Len(frames') = N /\ Alike(frames', frames, N)
            /\ x.op = "LEAVE" => Len(frames') = N - 1 /\ Alike(frames', frames, N - 1)
            /\ Len(args') = IF x.op = "PARAM" THEN Len(args) + 1
                            ELSE IF x.op \in {"ENTER", "CALL"} THEN 0
                            ELSE Len(args)
        BY <1>3, <3>1, <3>2, <4>1, ExecuteFrames
      <4> QED
        BY <4>1, <4>2
    <3>4. code[k].op \notin {"PARAM", "CALL", "ENTER"} => Len(args) = 0
      <4>1. ASSUME code[k].op \notin {"PARAM", "CALL", "ENTER"} PROVE Len(args) = 0
        <5>1. Passed(code, k, Len(args))
          BY <1>4, <2>1, <4>1
        <5> QED
          BY <1>3, <4>1, <5>1, NonePassed
      <4> QED
        BY <4>1
    <3>5. code[k].op # "PARAM" => Len(args') = 0
      BY <3>3, <3>4
    <3>6. \A d \in 1..Len(frames') : frames'[d].method = code[A[d].enter].var1.id
      <4>1. PICK m \in 0..N : Len(frames') = m /\ Alike(frames', frames, m)
        BY <1>9, <3>3
      <4>2. \A d \in 1..m : d \in 1..N
        BY <1>9, <4>1
      <4>3. \A d \in 1..m : frames'[d].method = frames[d].method
        BY <4>1 DEF Alike
      <4> QED
        BY <1>4, <3>2, <4>1, <4>2, <4>3
    <3> QED
      BY <3>3, <3>5, <3>6
  <2>2. CASE q # 0
    <3>1. UNCHANGED ir_vars
      BY <1>2, <2>2 DEF Stepping
    <3>2. frames' = frames /\ args' = args
      BY <3>1 DEF ir_vars
    <3>3. q > 0 /\ code[k].op # "PARAM"
      BY <1>a, <1>5, <2>2
    <3>4. Len(frames) = (IF code[k].op = "LEAVE" THEN N - 1 ELSE N) /\ Len(args) = 0
      BY <1>4, <3>3
    <3> QED
      BY <1>3, <1>4, <3>2, <3>3, <3>4
  <2> QED
    BY <2>1, <2>2
\* where the processor is
<1>7. CASE j = pc + 1 /\ asm[j].of = k
  <2>1. j - B[k] = q + 1 /\ q + 1 > 0
    <3>1. PICK b \in Nat : b = B[k] /\ pc = b + q
      BY <1>10
    <3>2. j = (b + q) + 1
      BY <1>7, <3>1
    <3>3. \A c, n \in Nat : ((c + n) + 1) - c = n + 1 /\ n + 1 > 0
      OBVIOUS
    <3> QED
      BY <1>a, <3>1, <3>2, <3>3
  <2>2. code[k].op # "PARAM"
    <3>1. ASSUME code[k].op = "PARAM" PROVE FALSE
      <4>1. B[k + 1] = B[k] + 1 /\ q = 0
        BY <1>3, <1>5, <3>1 DEF TextAt
      <4>2. j < B[k + 1]
        BY <1>3, <1>7, Places
      <4>3. PICK b \in Nat : b = B[k] /\ pc = b + q
        BY <1>10
      <4>4. pc = b
        BY <4>1, <4>3, SMTT(30)
      <4>5. b + 1 < b + 1
        BY <1>7, <4>1, <4>2, <4>3, <4>4
      <4> QED
        BY <4>3, <4>5, SMTT(30)
    <3> QED
      BY <3>1
  <2> QED
    BY <1>6, <1>7, <2>1, <2>2 DEF Mirror
<1>8. CASE \E l : /\ code[k].op # "LEAVE"
                 /\ IF code[k].op = "PARAM" THEN \E n \in Nat : Passed(code, k, n) /\ Arrives(B, e, j, l, n + 1)
                    ELSE Arrives(B, e, j, l, 0)
  <2>0. PICK l : /\ code[k].op # "LEAVE"
                 /\ IF code[k].op = "PARAM" THEN \E n \in Nat : Passed(code, k, n) /\ Arrives(B, e, j, l, n + 1)
                    ELSE Arrives(B, e, j, l, 0)
    BY <1>8
  <2>1. PICK n : /\ code[k].op # "LEAVE" /\ Arrives(B, e, j, l, n)
                 /\ code[k].op # "PARAM" => n = 0
                 /\ code[k].op = "PARAM" => n - 1 \in Nat /\ n \in Nat /\ Passed(code, k, n - 1)
    <3>1. CASE code[k].op = "PARAM"
      <4>1. PICK m \in Nat : Passed(code, k, m) /\ Arrives(B, e, j, l, m + 1)
        BY <2>0, <3>1
      <4>2. (m + 1) - 1 = m /\ m + 1 \in Nat
        BY <4>1
      <4> QED
        BY <2>0, <3>1, <4>1, <4>2
    <3>2. CASE code[k].op # "PARAM"
      BY <2>0, <3>2
    <3> QED
      BY <3>1, <3>2
  <2>2. Len(args') = n
    <3>1. CASE code[k].op = "PARAM"
      <4>1. Passed(code, k, Len(args))
        BY <1>4, <1>5, <3>1
      <4>2. Len(args) = n - 1
        BY <1>3, <2>1, <3>1, <4>1, PassedOnce
      <4> QED
        BY <1>6, <2>1, <3>1, <4>2
    <3>2. CASE code[k].op # "PARAM"
      BY <1>6, <2>1, <3>2
    <3> QED
      BY <3>1, <3>2
  <2>3. asm[j].of = l /\ j = B[l] /\ Passed(code, l, n) /\ l \in 1..Len(code)
    BY <2>1 DEF Arrives
  <2>4. j - B[l] = 0
    <3>1. l \in 1..(Len(code) + 1)
      <4>1. Len(code) \in Nat
        BY <1>3, CodeFacts
      <4> QED
        BY <2>3, <4>1
    <3>2. B[l] \in Nat
      BY <1>3, <3>1, Places
    <3> QED
      BY <2>3, <3>2
  <2> QED
    BY <1>6, <2>1, <2>2, <2>3, <2>4 DEF Mirror
<1> QED
  BY <1>1, <1>7, <1>8 DEF Moves

\* the stack after a step
Stands(B, N, A) ==
  Stacked(B, N, A, pc', regs', mem', frames', args') /\ Activations(frames') /\ IsSeq(args')

\* Neither a call of a method of the program nor a return.
LEMMA StayStep ==
  ASSUME NEW B, NEW N, NEW A, Standing(B, N, A), Stepping, NEW k, k = asm[pc].of,
         code[k].op = "LEAVE" => ins.op # "ret", ~(InternalCall(code[k]) /\ ins.first)
  PROVE  Stands(B, N, A)
<1>1. PICK e, f, v : e = A[N].enter /\ f = A[N].base /\ v = Saved(A, N)
  OBVIOUS
<1>2. PICK q, s : q \in Nat /\ Going(B, e, f, v, k, q, s) /\ (ins.first <=> q = 0)
  BY <1>1, StandingGoes
<1>3. code[k].op = "CALL" /\ q = 0 => IsExtern(code[k].var1.id)
  BY <1>2 DEF InternalCall
<1>4. Reached(B, e, f, v, k)
  BY <1>2, <1>3, StandsStep DEF Stepping
<1>5. /\ StandsAt(B, e, f, v, pc', regs', mem') /\ Moves(B, e, k, pc, pc')
      /\ \A a \in Addresses : a > f => mem'[a] = mem[a]
  BY <1>4 DEF Reached
<1>6. Chain(N, A) /\ Links(B, N, A, mem)
  BY DEF Standing, Stacked
<1>7. Links(B, N, A, mem')
  <2>1. \A d \in 1..N : A[d].base + 1 > f /\ (d < N => A[d].base > f)
    BY <1>1, StandingFacts
  <2> QED
    BY <1>5, <1>6, <2>1 DEF Links
<1>8. PICK j \in 1..Len(asm) : j = pc'
  BY <1>5 DEF StandsAt
<1>9. Mirror(B, N, A, pc', frames', args') /\ Activations(frames') /\ IsSeq(args')
  BY <1>1, <1>5, <1>8, MirrorStays
<1> QED
  BY <1>1, <1>5, <1>6, <1>7, <1>9 DEF Stands, Stacked

\* The last line of a method.
LEMMA RetLine ==
  ASSUME NEW B, NEW e, NEW f, NEW v, NEW k, NEW q, NEW s, Going(B, e, f, v, k, q, s),
         code[k].op = "LEAVE", ins.op = "ret"
  PROVE  q = 3
<1>1. TextAt(B, e, k, s) /\ q \in Nat /\ q < Len(s)
  BY DEF Going
<1>2. s = <<Asm("leave", Sym(code[k].var1.id), Nil), Mov(Reg("rbp"), Reg("rsp")),
            Asm("pop", Reg("rbp"), Nil), Asm("ret", Nil, Nil)>>
  BY <1>1 DEF TextAt, IsText, IsPassing, IsTurn
<1>3. /\ Len(s) = 4 /\ s[1] = Asm("leave", Sym(code[k].var1.id), Nil)
      /\ s[2] = Mov(Reg("rbp"), Reg("rsp")) /\ s[3] = Asm("pop", Reg("rbp"), Nil)
  BY <1>2
<1>4. q = 0 \/ q = 1 \/ q = 2 \/ q = 3
  BY <1>1, <1>3
<1>5. ins.op = s[q + 1].op
  BY GoingFacts
<1>6. q # 0 /\ q # 1 /\ q # 2
  BY <1>3, <1>5 DEF Asm, Mov
<1> QED
  BY <1>4, <1>6

\* A return: the processor goes on after the call that made the activation.
LEMMA ReturnStep ==
  ASSUME NEW B, NEW N, NEW A, Standing(B, N, A), Stepping, NEW k, k = asm[pc].of,
         code[k].op = "LEAVE", ins.op = "ret"
  PROVE  /\ N = 1 => /\ pc' = 0 /\ regs'["rsp"] = 0 /\ regs'["rbp"] = 0 /\ Equipped'
                     /\ Activations(frames') /\ IsSeq(args')
         /\ N # 1 => \E n : Stands(B, n, A)
<1>1. PICK e, f, v : e = A[N].enter /\ f = A[N].base /\ v = Saved(A, N)
  OBVIOUS
<1>2. PICK q, s : /\ q \in Nat /\ Going(B, e, f, v, k, q, s) /\ (ins.first <=> q = 0)
                          /\ q = pc - B[k]
  BY <1>1, StandingGoes
<1>3. q = 3
  BY <1>2, RetLine
<1>4. /\ StageAt(e, f, v, k, q, regs["rsp"], regs["rbp"]) /\ Equipped /\ regs["rsp"] \in Int
      /\ f \in Addresses /\ f \in Int /\ regs["rsp"] >= -MaxStack
  <2>1. /\ StageAt(e, f, v, k, q, regs["rsp"], regs["rbp"]) /\ Equipped /\ regs["rsp"] \in Int
        /\ ~(code[k].op = "ENTER" /\ q <= 1) => f \in Addresses
        /\ regs["rsp"] >= -MaxStack
    BY <1>2, GoingFacts
  <2> QED
    BY <1>2, <2>1 DEF Going
<1>5. regs["rsp"] = f + 1 /\ regs["rbp"] = v
  BY <1>3, <1>4 DEF StageAt
<1>6. /\ pc' = mem[f + 1] /\ mem' = mem /\ Equipped' /\ regs' = [regs EXCEPT !["rsp"] = f + 2]
  <2>1. /\ pc' = mem[regs["rsp"]] /\ mem' = mem /\ Equipped'
        /\ regs' = [regs EXCEPT !["rsp"] = @ + 1]
    BY <1>4, RetStepRun DEF Stepping
  <2>2. (f + 1) + 1 = f + 2
    BY <1>4
  <2> QED
    BY <1>5, <2>1, <2>2
<1>7. regs'["rsp"] = f + 2 /\ regs'["rbp"] = v
  BY <1>4, <1>5, <1>6, RegisterFacts DEF Equipped
<1>8. Chain(N, A) /\ Links(B, N, A, mem) /\ Mirror(B, N, A, pc, frames, args) /\ Built(B)
      /\ Activations(frames) /\ IsSeq(args)
  BY DEF Standing, Stacked
<1>9. frames' = frames /\ args' = args
  BY <1>2, <1>3 DEF Stepping, ir_vars
<1>10. N \in Nat /\ N >= 1 /\ N \in 1..N
  BY StandingFacts
<1>11. pc' = ReturnTo(B, A, N)
  BY <1>1, <1>6, <1>8, <1>10 DEF Links
<1>12. CASE N = 1
  <2>1. f = -2 /\ v = 0 /\ pc' = 0
    BY <1>1, <1>8, <1>11, <1>12 DEF Chain, Saved, ReturnTo
  <2> QED
    BY <1>6, <1>7, <1>8, <1>9, <1>12, <2>1
<1>13. CASE N # 1
  <2>1. PICK M \in Nat : M = N - 1 /\ M >= 1 /\ N \in 2..N /\ M \in 1..N /\ M < N
    <3>1. N - 1 \in Nat /\ N - 1 >= 1 /\ N \in 2..N /\ N - 1 \in 1..N /\ N - 1 < N
      BY <1>10, <1>13
    <3> QED
      BY <3>1
  <2>2. PICK c, g, d : c = A[N].call /\ g = A[M].base /\ d = A[M].enter
    OBVIOUS
  <2>3. /\ c \in 1..Len(code) /\ In(d, c) /\ InternalCall(code[c])
        /\ code[c].var1.id = code[e].var1.id
        /\ f = g - FrameOf(d) - Extra(Passes(e)) - 2
        /\ d \in 1..Len(code) /\ g \in Int
    BY <1>1, <1>8, <2>1, <2>2 DEF Chain
  <2>4. PICK t : TextAt(B, d, c, t)
    BY <1>8, <2>3, BuiltFacts
  <2>5. code[c].op = "CALL" /\ program \in Programs
    BY <2>3, StandingFacts DEF InternalCall
  <2>6. Len(t) >= 2 /\ Len(t) \in Nat
    <3>1. PICK x, y, z : t = <<x, y, z>> \/ t = <<x, y>>
      <4>1. PICK n, z : n = Parameters(c) /\ z = Str(SlotsOf(d), code[c].reg)
        OBVIOUS
      <4>2. t = IF n > 6 THEN <<Asm("call", Sym(code[c].var1.id), Nil), Mov(rax, z), Asm("add", Imm(n - 6), Reg("rsp"))>>
                ELSE <<Asm("call", Sym(code[c].var1.id), Nil), Mov(rax, z)>>
        BY <2>4, <2>5, <4>1 DEF TextAt, IsText, IsPassing
      <4> QED
        BY <4>2
    <3>2. Len(t) = 3 \/ Len(t) = 2
      <4>1. CASE t = <<x, y, z>>
        BY <4>1
      <4>2. CASE t = <<x, y>>
        BY <4>2
      <4> QED
        BY <3>1, <4>1, <4>2
    <3>3. \A n : n = 3 \/ n = 2 => n >= 2 /\ n \in Nat
      OBVIOUS
    <3> QED
      BY <3>2, <3>3
  <2>7. /\ B[c] + 1 \in 1..Len(asm) /\ asm[B[c] + 1].of = c
    <3>1. 1 \in 0..(Len(t) - 1)
      BY <2>6
    <3> QED
      BY <1>8, <2>3, <2>4, <3>1, InRow
  <2>8. pc' = B[c] + 1
    BY <1>11, <1>13, <2>2 DEF ReturnTo
  <2>9. pc' - B[c] = 1
    <3>1. B[c] \in Nat
      <4>1. c \in 1..(Len(code) + 1)
        <5>1. Len(code) \in Nat
          BY <2>5, CodeFacts
        <5> QED
          BY <2>3, <5>1
      <4> QED
        BY <1>8, <4>1, Places
    <3> QED
      BY <2>8, <3>1
  <2>10. Passed(code, c, Passes(e)) /\ Passes(e) \in Nat
    <3>1. DOMAIN code = 1..Len(code) /\ CallShape(code, program.methods) /\ c \in Nat
      BY <2>3, <2>5, CodeFacts, ShapeFacts
    <3>2. Passed(code, c, Len(Params(code[c].var1.id)))
      BY <2>3, <2>5, <3>1 DEF CallShape, Params
    <3>3. Passed(code, c, Passes(e))
      BY <2>3, <3>2 DEF Passes
    <3> QED
      BY <3>1, <3>3 DEF Passed
  <2>11. regs'["rbp"] = g /\ regs'["rsp"] = g - FrameOf(d) - Extra(Passes(e))
    <3>1. v = g
      BY <1>1, <1>13, <2>1, <2>2 DEF Saved
    <3>2. FrameOf(d) \in Int /\ Extra(Passes(e)) \in Int
      <4>1. FrameOf(d) \in Nat
        BY <2>1, <2>2, StandingFacts
      <4> QED
        BY <2>10, <4>1 DEF Extra
    <3>3. f + 2 = g - FrameOf(d) - Extra(Passes(e))
      BY <2>3, <3>2
    <3> QED
      BY <1>7, <3>1, <3>3
  <2>12. StageAt(d, g, Saved(A, M), c, 1, regs'["rsp"], regs'["rbp"])
    BY <2>5, <2>10, <2>11 DEF StageAt
  <2>13. g \in Addresses /\ mem'[g] = Saved(A, M)
    BY <1>6, <1>8, <2>1, <2>2 DEF Links
  <2>14. regs'["rsp"] >= -MaxStack
    <3>1. f + 2 >= -MaxStack
      BY <1>4, <1>5, MaxStackAssumption
    <3> QED
      BY <1>7, <3>1
  <2>15. StandsAt(B, d, g, Saved(A, M), pc', regs', mem')
    BY <1>6, <2>3, <2>5, <2>7, <2>8, <2>9, <2>12, <2>13, <2>14 DEF StandsAt, Equipped
  <2>16. Chain(M, A)
    <3>1. M \in Nat \ {0} /\ (\A a \in 1..M : a \in 1..N) /\ \A a \in 2..M : a \in 2..N
      BY <1>10, <2>1
    <3> QED
      BY <1>8, <3>1 DEF Chain
  <2>17. Links(B, M, A, mem')
    <3>1. \A a \in 1..M : a \in 1..N /\ (a < M => a < N)
      BY <1>10, <2>1
    <3> QED
      BY <1>6, <1>8, <3>1 DEF Links
  <2>18. Mirror(B, M, A, pc', frames', args')
    <3>1. q > 0
      BY <1>3
    <3>2. /\ Len(frames) = M /\ Len(args) = 0
          /\ \A a \in 1..Len(frames) : frames[a].method = code[A[a].enter].var1.id
      BY <1>2, <1>8, <2>1, <3>1 DEF Mirror
    <3> QED
      BY <1>9, <2>5, <2>7, <2>8, <2>9, <3>2 DEF Mirror
  <2>19. Stands(B, M, A)
    BY <1>8, <1>9, <2>2, <2>15, <2>16, <2>17, <2>18 DEF Stands, Stacked
  <2> QED
    BY <1>13, <2>19
<1> QED
  BY <1>12, <1>13

\* A call of a method of the program puts an activation on the stack.
LEMMA InvokeStep ==
  ASSUME NEW B, NEW N, NEW A, Standing(B, N, A), Stepping, NEW k, k = asm[pc].of,
         InternalCall(code[k]), ins.first
  PROVE  \E X, Y : Stands(B, X, Y)
<1>1. PICK e, f, v : e = A[N].enter /\ f = A[N].base /\ v = Saved(A, N)
  OBVIOUS
<1>2. PICK q, s : /\ q \in Nat /\ Going(B, e, f, v, k, q, s) /\ (ins.first <=> q = 0)
                          /\ q = pc - B[k]
  BY <1>1, StandingGoes
<1>3. q = 0 /\ code[k].op = "CALL"
  BY <1>2 DEF InternalCall
<1>4. /\ Equipped /\ regs["rsp"] \in Int /\ program \in Programs /\ FrameOf(e) \in Nat
      /\ f \in Addresses /\ mem[f] = v /\ In(e, k)
      /\ ins.op = s[q + 1].op /\ ins.a = s[q + 1].a
  BY <1>2, <1>3, GoingFacts
<1>5. /\ f \in Int /\ f <= -2 /\ TextAt(B, e, k, s) /\ k \in 1..Len(code) /\ pc = B[k] + q /\ B[k] \in Nat
      /\ e \in 1..Len(code)
  BY <1>2 DEF Going
<1>a. f \in Int /\ f <= -2
  BY <1>5
<1>6. PICK n \in Nat : /\ Passed(code, k, n) /\ regs["rbp"] = f
                       /\ regs["rsp"] = f - FrameOf(e) - Extra(n) /\ Parameters(k) = n
  BY <1>2, <1>3, PassedHere
<1>7. ins.op = "call" /\ ins.a = Sym(code[k].var1.id) /\ ins.a.n = code[k].var1.id
  <2>1. PICK z : z = Str(SlotsOf(e), code[k].reg)
    OBVIOUS
  <2>2. s = IF n > 6 THEN <<Asm("call", Sym(code[k].var1.id), Nil), Mov(rax, z), Asm("add", Imm(n - 6), Reg("rsp"))>>
            ELSE <<Asm("call", Sym(code[k].var1.id), Nil), Mov(rax, z)>>
    BY <1>3, <1>5, <1>6, <2>1 DEF TextAt, IsText, IsPassing
  <2>3. s[1] = Asm("call", Sym(code[k].var1.id), Nil)
    BY <2>2
  <2>4. q + 1 = 1
    BY <1>3
  <2> QED
    BY <1>4, <2>3, <2>4 DEF Asm, Sym, Place
<1>8. PICK r \in Int, g \in Int : r = regs["rsp"] /\ g = r - 2
  <2>1. regs["rsp"] - 2 \in Int
    BY <1>4
  <2> QED
    BY <1>4, <2>1
<1>9. /\ pc' = AsmIndex("entry", code[k].var1.id) /\ Equipped' /\ g + 1 >= -MaxStack
      /\ regs' = [regs EXCEPT !["rsp"] = g + 1] /\ mem' = [mem EXCEPT ![g + 1] = pc + 1]
  <2>1. /\ pc' = AsmIndex("entry", ins.a.n) /\ Equipped' /\ r - 1 >= -MaxStack
        /\ regs' = [regs EXCEPT !["rsp"] = r - 1] /\ mem' = [mem EXCEPT ![r - 1] = pc + 1]
    <3>1. ~IsExtern(ins.a.n)
      BY <1>7 DEF InternalCall
    <3> QED
      BY <1>4, <1>7, <1>8, <3>1, CallStepRun DEF Stepping
  <2>2. r - 1 = g + 1
    BY <1>8
  <2> QED
    BY <1>7, <2>1, <2>2
<1>10. PICK l \in 1..Len(code) : /\ In(l, l) /\ code[l].op = "ENTER" /\ code[l].var1.id = code[k].var1.id
  <2>1. PICK l : l = Goal(e, k)
    OBVIOUS
  <2>2. ~IsExtern(code[k].var1.id)
    BY DEF InternalCall
  <2>3. l \in 1..Len(code) /\ In(l, l) /\ code[l].op = "ENTER" /\ code[l].var1.id = code[k].var1.id
    BY <1>3, <1>4, <1>5, <2>1, <2>2, Goals
  <2> QED
    BY <2>3
<1>11. Built(B) /\ Chain(N, A) /\ Links(B, N, A, mem) /\ Mirror(B, N, A, pc, frames, args)
       /\ Activations(frames) /\ IsSeq(args)
  BY DEF Standing, Stacked
<1>12. pc' = B[l] /\ pc' \in 1..Len(asm) /\ asm[pc'].of = l /\ pc' - B[l] = 0
  <2>1. /\ B[l] \in 1..Len(asm) /\ asm[B[l]].of = l /\ AsmIndex("entry", code[l].var1.id) = B[l]
    BY <1>10, <1>11, LandmarkIndex DEF Landmarks, Origin
  <2>2. B[l] - B[l] = 0
    BY <2>1
  <2> QED
    BY <1>9, <1>10, <2>1, <2>2
<1>13. Passes(l) = n
  BY <1>3, <1>6, <1>10 DEF Passes, Parameters
<1>14. PICK x \in Nat : x = Extra(n)
  BY <1>6 DEF Extra
<1>15. PICK y \in Nat : y = FrameOf(e)
  BY <1>4
<1>16. g = f - y - x - 2 /\ g + 2 <= f - y /\ g + 1 <= -2 /\ g < f /\ g + 1 < f
  <2>1. r = f - y - x
    BY <1>6, <1>8, <1>14, <1>15
  <2> QED
    <3>1. g = r - 2
      BY <1>8
    <3> QED
      BY <1>a, <2>1, <3>1
<1>17. g + 1 \in Addresses
  BY <1>9, <1>16, MaxStackAssumption DEF Addresses
<1>18. /\ N \in Nat \ {0} /\ N \in Nat /\ N \in 1..N /\ \A d \in 1..N : A[d].base + 1 > f /\ A[d].base \in Int
       /\ \A d \in 1..N : d < N => A[d].base > f
  BY <1>1, StandingFacts
<1>19. PICK M \in Nat : M = N + 1
  <2>1. N + 1 \in Nat
    BY <1>18
  <2> QED
    BY <2>1
<1>20. PICK C : C = [d \in 1..M |-> IF d <= N THEN A[d] ELSE Activation(l, k, g)]
  OBVIOUS
<1>21. /\ \A d \in 1..N : C[d] = A[d]
       /\ C[M].enter = l /\ C[M].call = k /\ C[M].base = g
       /\ \A d \in 1..M : d \in 1..N \/ d = M
       /\ \A d \in 1..N : d < M
       /\ M # 1 /\ M - 1 = N /\ M \in 1..M /\ M \in Nat \ {0} /\ ~(M < M)
  <2>1. /\ \A d \in 1..N : d \in 1..M /\ d <= N /\ d < M
        /\ M \in 1..M /\ ~(M <= N)
        /\ \A d \in 1..M : d \in 1..N \/ d = M
        /\ M # 1 /\ M - 1 = N /\ M \in Nat \ {0} /\ ~(M < M)
    BY <1>18, <1>19
  <2>2. C[M] = Activation(l, k, g)
    BY <1>20, <2>1
  <2> QED
    BY <1>20, <2>1, <2>2 DEF Activation
<1>22. /\ Saved(C, M) = f /\ ReturnTo(B, C, M) = B[k] + 1
       /\ \A d \in 1..N : Saved(C, d) = Saved(A, d) /\ ReturnTo(B, C, d) = ReturnTo(B, A, d)
  <2>1. C[N].base = f
    BY <1>1, <1>18, <1>21
  <2>2. \A d \in 1..N : d # 1 => d - 1 \in 1..N
    BY <1>18
  <2> QED
    BY <1>21, <2>1, <2>2 DEF Saved, ReturnTo
<1>23. Chain(M, C)
  <2>1. /\ A[1].base = -2
        /\ \A d \in 1..N : A[d].enter \in 1..Len(code) /\ code[A[d].enter].op = "ENTER" /\ A[d].base \in Int
        /\ \A c, d \in 1..N : c < d => A[d].base + 2 <= A[c].base - FrameOf(A[c].enter)
    BY <1>11 DEF Chain
  <2>2. M \in Nat \ {0} /\ C[1].base = -2
    <3>1. 1 \in 1..N
      BY <1>18
    <3> QED
      BY <1>21, <2>1, <3>1
  <2>3. \A d \in 1..M : C[d].enter \in 1..Len(code) /\ code[C[d].enter].op = "ENTER" /\ C[d].base \in Int
    BY <1>10, <1>21, <2>1
  <2>4. \A d \in 2..M :
          LET c == C[d].call IN
          /\ c \in 1..Len(code) /\ In(C[d - 1].enter, c) /\ InternalCall(code[c])
          /\ code[c].var1.id = code[C[d].enter].var1.id
          /\ C[d].base = C[d - 1].base - FrameOf(C[d - 1].enter) - Extra(Passes(C[d].enter)) - 2
    <3>1. ASSUME NEW d \in 2..M, d # M
          PROVE  LET c == C[d].call IN
                 /\ c \in 1..Len(code) /\ In(C[d - 1].enter, c) /\ InternalCall(code[c])
                 /\ code[c].var1.id = code[C[d].enter].var1.id
                 /\ C[d].base = C[d - 1].base - FrameOf(C[d - 1].enter) - Extra(Passes(C[d].enter)) - 2
      <4>1. d \in 2..N /\ d \in 1..N /\ d - 1 \in 1..N
        BY <1>18, <1>19, <3>1
      <4>2. C[d] = A[d] /\ C[d - 1] = A[d - 1]
        BY <1>21, <4>1
      <4> QED
        BY <1>11, <4>1, <4>2 DEF Chain
    <3>2. LET c == C[M].call IN
          /\ c \in 1..Len(code) /\ In(C[M - 1].enter, c) /\ InternalCall(code[c])
          /\ code[c].var1.id = code[C[M].enter].var1.id
          /\ C[M].base = C[M - 1].base - FrameOf(C[M - 1].enter) - Extra(Passes(C[M].enter)) - 2
      <4>1. C[M - 1] = A[N]
        BY <1>18, <1>21
      <4>2. g = f - FrameOf(e) - Extra(Passes(l)) - 2
        BY <1>13, <1>14, <1>15, <1>16
      <4> QED
        BY <1>1, <1>4, <1>5, <1>10, <1>21, <4>1, <4>2
    <3> QED
      BY <3>1, <3>2
  <2>5. \A c, d \in 1..M : c < d => C[d].base + 2 <= C[c].base - FrameOf(C[c].enter)
    <3>1. ASSUME NEW c \in 1..M, NEW d \in 1..M, c < d
          PROVE  C[d].base + 2 <= C[c].base - FrameOf(C[c].enter)
      <4>1. c \in 1..N
        BY <1>19, <1>21, <3>1
      <4>2. CASE d \in 1..N
        BY <1>21, <2>1, <3>1, <4>1, <4>2
      <4>3. CASE d = M /\ c = N
        <5>1. C[d].base = g /\ C[c].base = f /\ FrameOf(C[c].enter) = y
          BY <1>1, <1>15, <1>18, <1>21, <4>3
        <5> QED
          BY <1>16, <5>1
      <4>4. CASE d = M /\ c # N
        <5>1. c < N
          BY <1>18, <4>1, <4>4
        <5>2. f + 2 <= A[c].base - FrameOf(A[c].enter)
          BY <1>1, <1>18, <2>1, <4>1, <5>1
        <5>3. PICK a \in Int : a = A[c].base - FrameOf(A[c].enter)
          <6>1. FrameOf(A[c].enter) \in Nat /\ A[c].base \in Int
            BY <4>1, StandingFacts
          <6> QED
            BY <6>1
        <5>4. g + 2 <= a
          <6>1. f + 2 <= a /\ g < f /\ g \in Int /\ a \in Int
            BY <1>8, <1>16, <5>2, <5>3
          <6> QED
            BY <1>a, <6>1
        <5> QED
          BY <1>21, <4>1, <4>4, <5>3, <5>4
      <4> QED
        BY <1>21, <3>1, <4>2, <4>3, <4>4
    <3> QED
      BY <3>1
  <2>6. ASSUME NEW d \in 1..M, \A c \in 2..d : ~OddStackArguments(Passes(C[c].enter))
        PROVE  C[d].base % 2 = 0
    <3>1. CASE d # M
      <4>1. d \in 1..N
        BY <1>21, <3>1
      <4>2. \A c \in 2..d : c \in 1..N
        BY <1>18, <4>1
      <4>3. \A c \in 2..d : ~OddStackArguments(Passes(A[c].enter))
        BY <1>21, <2>6, <4>2
      <4>4. A[d].base % 2 = 0
        BY <1>11, <4>1, <4>3 DEF Chain
      <4> QED
        BY <1>21, <4>1, <4>4
    <3>2. CASE d = M
      <4>1. \A c \in 2..N : c \in 1..N /\ c \in 2..d
        BY <1>18, <1>19, <3>2
      <4>2. \A c \in 2..N : ~OddStackArguments(Passes(A[c].enter))
        BY <1>21, <2>6, <4>1
      <4>3. f % 2 = 0
        BY <1>1, <1>11, <1>18, <4>2 DEF Chain
      <4>4. ~OddStackArguments(n)
        <5>1. M \in 2..d
          BY <1>18, <1>19, <3>2
        <5> QED
          BY <1>13, <1>21, <2>6, <5>1
      <4>5. x % 2 = 0
        BY <1>14, <4>4 DEF Extra, OddStackArguments
      <4>6. y % 2 = 0
        BY <1>1, <1>15, <1>18, StandingFacts
      <4>7. g % 2 = 0
        <5>1. g = f - y - x - 2
          BY <1>16
        <5> QED
          <6>1. \A u \in Int, w \in Nat : u % 2 = 0 /\ w % 2 = 0 => (u - w) \in Int /\ (u - w) % 2 = 0
            OBVIOUS
          <6>2. f - y \in Int /\ (f - y) % 2 = 0
            BY <1>a, <1>15, <4>3, <4>6, <6>1
          <6>3. f - y - x \in Int /\ (f - y - x) % 2 = 0
            BY <1>14, <4>5, <6>1, <6>2
          <6>4. \A u \in Int : u % 2 = 0 => (u - 2) % 2 = 0
            OBVIOUS
          <6> QED
            BY <5>1, <6>3, <6>4
      <4> QED
        BY <1>21, <3>2, <4>7
    <3> QED
      BY <3>1, <3>2
  <2> QED
    BY <2>2, <2>3, <2>4, <2>5, <2>6 DEF Chain
<1>24. Links(B, M, C, mem')
  <2>1. mem'[g + 1] = pc + 1 /\ \A a \in Addresses : a # g + 1 => mem'[a] = mem[a]
    BY <1>4, <1>9, <1>17 DEF Equipped
  <2>2. pc + 1 = B[k] + 1
    <3>1. pc = B[k] + q /\ B[k] \in Nat /\ q = 0
      BY <1>3, <1>5
    <3> QED
      BY <3>1, SMTT(30)
  <2>3. ASSUME NEW d \in 1..M
        PROVE  /\ C[d].base + 1 \in Addresses /\ mem'[C[d].base + 1] = ReturnTo(B, C, d)
               /\ d < M => C[d].base \in Addresses /\ mem'[C[d].base] = Saved(C, d)
    <3>1. CASE d = M
      BY <1>17, <1>21, <1>22, <2>1, <2>2, <3>1
    <3>2. CASE d \in 1..N
      <4>1. /\ A[d].base + 1 \in Addresses /\ mem[A[d].base + 1] = ReturnTo(B, A, d)
            /\ d < N => A[d].base \in Addresses /\ mem[A[d].base] = Saved(A, d)
        BY <1>11, <3>2 DEF Links
      <4>2. d = N \/ d < N
        BY <1>18, <3>2
      <4>3. A[d].base \in Addresses /\ mem[A[d].base] = Saved(A, d) /\ A[d].base >= f
        <5>1. CASE d = N
          <6>1. A[d].base = f /\ Saved(A, d) = v /\ f >= f
            BY <1>a, <1>1, <5>1
          <6> QED
            BY <1>4, <6>1
        <5>2. CASE d < N
          <6>1. A[d].base \in Int /\ A[d].base > f
            BY <1>18, <3>2, <5>2
          <6> QED
            BY <1>a, <4>1, <5>2, <6>1
        <5> QED
          BY <4>2, <5>1, <5>2
      <4>4. A[d].base # g + 1 /\ A[d].base + 1 # g + 1
        <5>1. PICK a \in Int : a = A[d].base /\ a >= f
          BY <1>18, <3>2, <4>3
        <5> QED
          <6>1. g \in Int /\ g < f /\ g + 1 < f
            BY <1>8, <1>16
          <6> QED
            BY <1>a, <5>1, <6>1
      <4> QED
        BY <1>21, <1>22, <2>1, <3>2, <4>1, <4>3, <4>4
    <3> QED
      BY <1>21, <3>1, <3>2
  <2> QED
    BY <2>3 DEF Links
<1>25. StandsAt(B, l, g, f, pc', regs', mem')
  <2>1. regs'["rsp"] = g + 1 /\ regs'["rbp"] = f
    BY <1>4, <1>6, <1>9, RegisterFacts DEF Equipped
  <2>2. StageAt(l, g, f, l, 0, regs'["rsp"], regs'["rbp"])
    BY <1>10, <2>1 DEF StageAt
  <2>3. asm[pc'].of = l /\ code[l].op = "ENTER" /\ pc' - B[l] <= 1
    BY <1>10, <1>12
  <2>4. regs'["rsp"] >= -MaxStack
    BY <1>9, <2>1
  <2>5. In(l, l) /\ DOMAIN regs' = Registers /\ DOMAIN mem' = Addresses
    BY <1>9, <1>10 DEF Equipped
  <2> QED
    BY <1>10, <1>12, <2>2, <2>3, <2>4, <2>5 DEF StandsAt
<1>26. Mirror(B, M, C, pc', frames', args') /\ Activations(frames') /\ IsSeq(args')
  <2>1. /\ Len(frames) = N
        /\ \A d \in 1..Len(frames) : frames[d].method = code[A[d].enter].var1.id
    BY <1>2, <1>3, <1>11 DEF Mirror
  <2>2. PICK w : w = code[k] /\ Execute(w) /\ w.op \in Ops \ Silent /\ InternalCall(w)
    BY <1>2, <1>3 DEF Stepping, ins, Going
  <2>3. /\ Activations(frames') /\ IsSeq(args')
        /\ Len(frames') = N + 1 /\ Alike(frames', frames, N) /\ frames'[N + 1].method = w.var1.id
    BY <1>11, <1>18, <2>1, <2>2, ExecuteFrames
  <2>4. \A d \in 1..M : frames'[d].method = code[C[d].enter].var1.id
    BY <1>10, <1>19, <1>21, <2>1, <2>2, <2>3 DEF Alike
  <2> QED
    BY <1>10, <1>12, <1>19, <2>3, <2>4 DEF Mirror
<1>27. Stands(B, M, C)
  BY <1>21, <1>22, <1>23, <1>24, <1>25, <1>26 DEF Stands, Stacked
<1> QED
  BY <1>27

-----------------------------------------------------------------------------
(* The inductive invariant of the run.                                     *)

AtRest == regs["rsp"] = 0 /\ regs["rbp"] = 0

RunShape ==
  /\ Equipped /\ Follows(ir_pc, frames) /\ IsSeq(args)
  /\ phase \in {"compile", "unresolved", "run", "halted"}
  /\ phase = "compile" => pc = 0 /\ frames = <<>> /\ args = <<>>
  /\ phase # "compile" => Generated
  /\ phase \in {"unresolved", "halted"} => pc = 0
  /\ pc = 0 => AtRest

\* while the processor runs, the activations are on the stack
RunInv ==
  /\ GeneratedInv /\ LayoutInv /\ RunShape
  /\ pc # 0 => \E B, N, A : Standing(B, N, A)

\* What depends on the program only, and on what the generator has done.
LEMMA Standstill ==
  ASSUME UNCHANGED <<program, obj_vars>>
  PROVE  /\ code' = code /\ asm' = asm /\ i' = i /\ slots' = slots
         /\ \A e : FrameOf(e)' = FrameOf(e) /\ Passes(e)' = Passes(e)
         /\ \A e, k : In(e, k)' <=> In(e, k)
<1>1. program' = program /\ i' = i /\ asm' = asm /\ slots' = slots
  BY DEF obj_vars
<1>2. code' = code /\ \A f : Params(f)' = Params(f)
  BY <1>1, Static
<1>3. \A e, k : In(e, k)' <=> In(e, k)
  BY <1>2 DEF In
<1>4. \A e : FrameOf(e)' = FrameOf(e) /\ Passes(e)' = Passes(e)
  BY <1>1, <1>2 DEF FrameOf, Passes
<1> QED
  BY <1>1, <1>2, <1>3, <1>4

\* The stack after a step is the stack of the next state.
LEMMA StandsNext ==
  ASSUME NEW B, NEW N, NEW A, Built(B), Stands(B, N, A), UNCHANGED <<program, obj_vars>>
  PROVE  Standing(B, N, A)'
<1>1. /\ code' = code /\ asm' = asm /\ i' = i /\ program' = program
      /\ \A e : FrameOf(e)' = FrameOf(e) /\ Passes(e)' = Passes(e)
      /\ \A e, k : In(e, k)' <=> In(e, k)
  BY Standstill
<1>2. /\ Chain(N, A) /\ Links(B, N, A, mem')
      /\ StandsAt(B, A[N].enter, A[N].base, Saved(A, N), pc', regs', mem')
      /\ Mirror(B, N, A, pc', frames', args')
      /\ Activations(frames') /\ IsSeq(args')
  BY DEF Stands, Stacked
<1>3. Built(B)'
  <2>1. GeneratedInv' /\ LayoutInv' /\ Layout(B)'
    BY GeneratedStays, LayoutStays DEF Built, LayoutInv
  <2>2. Generated' /\ Resolved'
    BY <1>1 DEF Built, Generated, Resolved
  <2> QED
    BY <2>1, <2>2 DEF Built, LayoutInv
<1>4. Chain(N, A)'
  BY <1>1, <1>2 DEF Chain, InternalCall, IsExtern
<1>5. Links(B, N, A, mem)'
  BY <1>2 DEF Links, ReturnTo, Saved
<1>6. StandsAt(B, A[N].enter, A[N].base, Saved(A, N), pc, regs, mem)'
  <2>1. PICK e, f, v : e = A[N].enter /\ f = A[N].base /\ v = Saved(A, N)
    OBVIOUS
  <2>2. StandsAt(B, e, f, v, pc, regs, mem)'
    BY <1>1, <1>2, <2>1 DEF StandsAt, StageAt
  <2> QED
    BY <2>1, <2>2
<1>7. Mirror(B, N, A, pc, frames, args)'
  BY <1>1, <1>2 DEF Mirror
<1>8. Activations(frames)' /\ IsSeq(args)'
  BY <1>2 DEF Activations
<1> QED
  BY <1>3, <1>4, <1>5, <1>6, <1>7, <1>8 DEF Standing, Stacked

\* The stack when the processor starts.
LEMMA StartStands ==
  ASSUME GeneratedInv, LayoutInv, RunShape, Start
  PROVE  /\ \E B, N, A : Built(B) /\ Stands(B, N, A)
         /\ Equipped' /\ Follows(ir_pc', frames') /\ IsSeq(args')
<1>1. /\ Generated /\ Resolved /\ phase = "compile" /\ args = <<>> /\ AtRest /\ Equipped
  <2>1. Generated /\ Resolved /\ phase = "compile"
    BY DEF Start
  <2>2. args = <<>> /\ Equipped /\ pc = 0
    BY <2>1 DEF RunShape
  <2> QED
    BY <2>1, <2>2 DEF RunShape
<1>2. PICK B : Built(B)
  BY <1>1 DEF LayoutInv, Built
<1>3. /\ program \in Programs /\ Len(code) \in Nat /\ DOMAIN code = 1..Len(code)
      /\ MethodShape(code) /\ CallShape(code, program.methods)
  <2>1. program \in Programs
    BY DEF GeneratedInv, PlaceInv
  <2> QED
    BY <2>1, CodeFacts, ShapeFacts
<1>4. PICK l \in 1..Len(code) : code[l].op = "ENTER" /\ code[l].var1.id = "main"
  BY <1>3 DEF CallShape
<1>5. In(l, l)
  BY <1>4 DEF In
<1>6. IndexOf("ENTER", "main") = l
  <2>1. \A k \in DOMAIN code : code[k].op = "ENTER" /\ code[k].var1.id = "main" => k = l
    <3>1. ASSUME NEW k \in 1..Len(code), code[k].op = "ENTER", code[k].var1.id = "main" PROVE k = l
      BY <1>3, <1>4, <3>1, MarksDiffer
    <3> QED
      BY <1>3, <3>1
  <2> QED
    BY <1>3, <1>4, <2>1 DEF IndexOf
<1>7. /\ B[l] \in 1..Len(asm) /\ asm[B[l]].of = l /\ AsmIndex("entry", "main") = B[l]
  <2>1. AsmIndex("entry", code[l].var1.id) = B[l] /\ B[l] \in 1..Len(asm) /\ asm[B[l]].of = l
    BY <1>2, <1>4, <1>5, LandmarkIndex DEF Landmarks, Origin
  <2> QED
    BY <1>4, <2>1
<1>8. PICK w : w = [method |-> "main", env |-> <<>>, call |-> 0]
  OBVIOUS
<1>9. /\ ir_pc' = l /\ pc' = B[l] /\ frames' = <<w>> /\ args' = <<>>
      /\ regs' = [regs EXCEPT !["rsp"] = -1] /\ mem' = [mem EXCEPT ![-1] = 0]
  <2>1. SkipLoads(l) = l
    BY <1>3, <1>4, SkipHere
  <2> QED
    BY <1>1, <1>6, <1>7, <1>8, <2>1 DEF Start, Goto
<1>10. -1 \in Addresses
  BY MaxStackAssumption DEF Addresses
<1>11. Equipped' /\ regs'["rsp"] = -1 /\ regs'["rbp"] = 0 /\ mem'[-1] = 0
  BY <1>1, <1>9, <1>10, RegisterFacts DEF Equipped, AtRest
<1>12. /\ Len(frames') = 1 /\ IsSeq(frames') /\ frames'[1] = w /\ IsSeq(args') /\ Len(args') = 0
       /\ \A d \in 1..Len(frames') : d = 1
  <2>1. IsSeq(<<w>>) /\ IsSeq(<<>>)
    BY TuplesAreSeqs
  <2> QED
    BY <1>9, <2>1
<1>13. Activations(frames')
  BY <1>8, <1>12 DEF Activations
<1>14. Follows(ir_pc', frames')
  <2>1. \A d \in 2..Len(frames') : FALSE
    BY <1>12
  <2>2. frames'[Len(frames')].method = "main"
    BY <1>8, <1>12
  <2> QED
    BY <1>4, <1>5, <1>9, <1>12, <1>13, <2>1, <2>2 DEF Follows
<1>15. PICK A : A = [d \in 1..1 |-> Activation(l, 0, -2)]
  OBVIOUS
<1>16. /\ A[1].enter = l /\ A[1].base = -2 /\ Saved(A, 1) = 0 /\ ReturnTo(B, A, 1) = 0
       /\ \A d \in 1..1 : d = 1
  <2>1. 1 \in 1..1
    OBVIOUS
  <2> QED
    BY <1>15, <2>1 DEF Activation, Saved, ReturnTo
<1>17. Chain(1, A)
  <2>1. \A d \in 2..1 : FALSE
    OBVIOUS
  <2>2. \A c, d \in 1..1 : ~(c < d)
    OBVIOUS
  <2>3. (-2) % 2 = 0 /\ -2 \in Int
    OBVIOUS
  <2> QED
    BY <1>4, <1>16, <2>1, <2>2, <2>3 DEF Chain
<1>18. Links(B, 1, A, mem')
  <2>1. -2 + 1 = -1 /\ ~(1 < 1)
    OBVIOUS
  <2> QED
    BY <1>10, <1>11, <1>16, <2>1 DEF Links
<1>19. StandsAt(B, l, -2, 0, pc', regs', mem')
  <2>1. B[l] - B[l] = 0 /\ -1 = -2 + 1 /\ 0 <= 1 /\ -1 >= -MaxStack
    BY <1>7, MaxStackAssumption
  <2>2. StageAt(l, -2, 0, l, 0, -1, 0)
    BY <1>4, <2>1 DEF StageAt
  <2> QED
    BY <1>4, <1>5, <1>7, <1>9, <1>11, <2>1, <2>2 DEF StandsAt, Equipped
<1>20. Mirror(B, 1, A, pc', frames', args')
  <2>1. B[l] - B[l] = 0
    BY <1>7
  <2> QED
    BY <1>4, <1>7, <1>8, <1>9, <1>12, <1>16, <2>1 DEF Mirror
<1>21. Stands(B, 1, A)
  BY <1>12, <1>13, <1>16, <1>17, <1>18, <1>19, <1>20 DEF Stands, Stacked
<1> QED
  BY <1>2, <1>11, <1>12, <1>14, <1>21

\* The stack after a step of the processor.
LEMMA RunStands ==
  ASSUME RunInv, Run
  PROVE  /\ pc' # 0 => \E B, N, A : Built(B) /\ Stands(B, N, A)
         /\ pc' = 0 => regs'["rsp"] = 0 /\ regs'["rbp"] = 0
         /\ Equipped' /\ Follows(ir_pc', frames') /\ IsSeq(args')
<1>1. Stepping /\ UNCHANGED <<program, obj_vars>> /\ pc \in DOMAIN asm
  <2>1. Stepping /\ pc \in DOMAIN asm /\ UNCHANGED obj_vars
    BY DEF Run, Running, Stepping
  <2>2. program' = program
    BY DEF Run, Execute, ir_vars
  <2> QED
    BY <2>1, <2>2
<1>2. pc \in 1..Len(asm) /\ pc # 0
  <2>1. IsSeq(asm)
    BY DEF RunInv, GeneratedInv, PlaceInv
  <2>2. DOMAIN asm = 1..Len(asm) /\ Len(asm) \in Nat
    BY <2>1, SeqFacts
  <2> QED
    BY <1>1, <2>2
<1>3. PICK B, N, A : Standing(B, N, A)
  BY <1>2 DEF RunInv
<1>4. Built(B) /\ Follows(ir_pc, frames) /\ IsSeq(args)
  BY <1>3 DEF Standing, RunInv, RunShape
<1>5. PICK k : k = asm[pc].of
  OBVIOUS
<1>6. code[k].op \in Ops \ Silent
  BY <1>3, <1>5, StandingGoes DEF Going
<1>7. Follows(ir_pc', frames')
  <2>1. CASE ins.first
    <3>1. Execute(code[k])
      BY <1>1, <1>5, <2>1 DEF Stepping, ins
    <3> QED
      BY <1>4, <1>6, <3>1, FollowsStep
  <2>2. CASE ~ins.first
    <3>1. ir_pc' = ir_pc /\ frames' = frames
      BY <1>1, <2>2 DEF Stepping, ir_vars
    <3> QED
      BY <1>4, <3>1
  <2> QED
    BY <2>1, <2>2
<1>8. ASSUME NEW n, NEW a, Stands(B, n, a)
      PROVE  /\ pc' # 0 => \E C, m, b : Built(C) /\ Stands(C, m, b)
             /\ pc' = 0 => regs'["rsp"] = 0 /\ regs'["rbp"] = 0
             /\ Equipped' /\ IsSeq(args')
  <2>1. pc' \in 1..Len(asm) /\ Equipped' /\ IsSeq(args')
    BY <1>8 DEF Stands, Stacked, StandsAt, Equipped
  <2>2. pc' # 0
    BY <2>1
  <2> QED
    BY <1>4, <1>8, <2>1, <2>2
<1>9. CASE InternalCall(code[k]) /\ ins.first
  <2>1. PICK n, a : Stands(B, n, a)
    BY <1>1, <1>3, <1>5, <1>9, InvokeStep
  <2> QED
    BY <1>7, <1>8, <2>1
<1>10. CASE code[k].op = "LEAVE" /\ ins.op = "ret"
  <2>1. /\ N = 1 => /\ pc' = 0 /\ regs'["rsp"] = 0 /\ regs'["rbp"] = 0 /\ Equipped'
                    /\ Activations(frames') /\ IsSeq(args')
        /\ N # 1 => \E n : Stands(B, n, A)
    BY <1>1, <1>3, <1>5, <1>10, ReturnStep
  <2>2. CASE N = 1
    BY <1>7, <2>1, <2>2
  <2>3. CASE N # 1
    <3>1. PICK n : Stands(B, n, A)
      BY <2>1, <2>3
    <3> QED
      BY <1>7, <1>8, <3>1
  <2> QED
    BY <2>2, <2>3
<1>11. CASE ~(InternalCall(code[k]) /\ ins.first) /\ ~(code[k].op = "LEAVE" /\ ins.op = "ret")
  <2>1. Stands(B, N, A)
    BY <1>1, <1>3, <1>5, <1>11, StayStep
  <2> QED
    BY <1>7, <1>8, <2>1
<1> QED
  BY <1>9, <1>10, <1>11

\* Nothing runs at first.
LEMMA RunInit ==
  ASSUME Init
  PROVE  RunInv
<1>1. GeneratedInv /\ LayoutInv
  BY GeneratedInit, LayoutInit
<1>2. /\ ir_pc = 0 /\ frames = <<>> /\ args = <<>> /\ pc = 0 /\ phase = "compile"
      /\ regs = [r \in Registers |-> IF r \in {"rsp", "rbp"} THEN 0 ELSE Junk]
      /\ mem = [a \in Addresses |-> Junk]
  BY DEF Init
<1>3. Equipped /\ AtRest
  BY <1>2, RegisterFacts DEF Equipped, AtRest
<1>4. Follows(0, <<>>)
  <2>1. IsSeq(<<>>) /\ 1..Len(<<>>) = {} /\ 2..Len(<<>>) = {}
    <3>1. Len(<<>>) = 0 /\ 1..0 = {} /\ 2..0 = {}
      OBVIOUS
    <3> QED
      BY <3>1, TuplesAreSeqs
  <2> QED
    BY <2>1 DEF Follows, Activations
<1>5. IsSeq(args)
  BY <1>2, TuplesAreSeqs
<1>6. Follows(ir_pc, frames)
  BY <1>2, <1>4
<1> QED
  BY <1>1, <1>2, <1>3, <1>5, <1>6 DEF RunInv, RunShape

\* What does not touch processor and activations keeps the invariant.
LEMMA RunRests ==
  ASSUME RunInv, [Next]_vars, UNCHANGED <<program, obj_vars, ir_pc, frames, args, pc, regs, mem>>,
         \/ phase' = phase
         \/ phase = "run" /\ pc = 0 /\ phase' = "halted"
         \/ phase = "compile" /\ Generated /\ phase' = "unresolved"
  PROVE  RunInv'
<1>1. GeneratedInv' /\ LayoutInv'
  BY GeneratedNext, LayoutNext DEF RunInv
<1>2. /\ code' = code /\ i' = i /\ asm' = asm /\ slots' = slots
      /\ \A e, k : In(e, k)' <=> In(e, k)
  BY Standstill
<1>3. /\ Equipped /\ Follows(ir_pc, frames) /\ IsSeq(args)
      /\ phase = "compile" => pc = 0 /\ frames = <<>> /\ args = <<>>
      /\ phase # "compile" => Generated
      /\ phase \in {"unresolved", "halted"} => pc = 0
      /\ pc = 0 => AtRest
      /\ phase \in {"compile", "unresolved", "run", "halted"}
  BY DEF RunInv, RunShape
<1>4. Equipped' /\ (AtRest' <=> AtRest) /\ (Generated' <=> Generated)
  BY <1>2, <1>3 DEF Equipped, AtRest, Generated
<1>5. Follows(ir_pc, frames)'
  BY <1>2, <1>3 DEF Follows, Activations
<1>6. RunShape'
  BY <1>3, <1>4, <1>5 DEF RunShape
<1>7. pc' # 0 => (\E B, N, A : Standing(B, N, A))'
  <2>1. ASSUME pc # 0 PROVE (\E B, N, A : Standing(B, N, A))'
    <3>1. PICK B, N, A : Standing(B, N, A)
      BY <2>1 DEF RunInv
    <3>2. Built(B) /\ Stacked(B, N, A, pc, regs, mem, frames, args) /\ Activations(frames) /\ IsSeq(args)
      BY <3>1 DEF Standing
    <3>3. Stands(B, N, A)
      BY <3>2 DEF Stands
    <3>4. Standing(B, N, A)'
      BY <3>2, <3>3, StandsNext
    <3> QED
      BY <3>4
  <2> QED
    BY <2>1
<1> QED
  BY <1>1, <1>6, <1>7 DEF RunInv

\* The generator leaves processor and activations alone.
LEMMA RunCompile ==
  ASSUME RunInv, Compile
  PROVE  RunInv'
<1>1. /\ phase = "compile" /\ UNCHANGED <<ir_vars, run_vars>>
  BY DEF Compile
<1>2. GeneratedInv' /\ LayoutInv'
  BY GeneratedNext, LayoutNext DEF RunInv, Next
<1>3. /\ pc = 0 /\ frames = <<>> /\ args = <<>> /\ AtRest /\ Equipped /\ Follows(ir_pc, frames) /\ IsSeq(args)
  BY <1>1 DEF RunInv, RunShape
<1>4. /\ pc' = 0 /\ frames' = <<>> /\ args' = <<>> /\ phase' = "compile" /\ ir_pc' = ir_pc
      /\ program' = program /\ regs' = regs /\ mem' = mem
  BY <1>1, <1>3 DEF ir_vars, run_vars
<1>5. AtRest' /\ Equipped' /\ IsSeq(args')
  BY <1>3, <1>4 DEF AtRest, Equipped
<1>6. Follows(ir_pc, frames)'
  <2>1. code' = code
    BY <1>4, Static
  <2> QED
    BY <1>3, <1>4, <2>1 DEF Follows, Activations, In
<1>7. RunShape'
  BY <1>4, <1>5, <1>6 DEF RunShape
<1> QED
  BY <1>2, <1>4, <1>7 DEF RunInv

\* The invariant is inductive.
LEMMA RunNext == RunInv /\ [Next]_vars => RunInv'
<1> SUFFICES ASSUME RunInv, [Next]_vars PROVE RunInv'
  OBVIOUS
<1>1. GeneratedInv' /\ LayoutInv' /\ GeneratedInv /\ LayoutInv /\ RunShape
  BY GeneratedNext, LayoutNext DEF RunInv
<1>2. ASSUME UNCHANGED <<program, obj_vars>>, Generated, phase' = "run",
             pc' # 0 => \E B, N, A : Built(B) /\ Stands(B, N, A),
             pc' = 0 => regs'["rsp"] = 0 /\ regs'["rbp"] = 0,
             Equipped', Follows(ir_pc', frames'), IsSeq(args')
      PROVE  RunInv'
  <2>1. /\ code' = code /\ i' = i
        /\ \A e, k : In(e, k)' <=> In(e, k)
    BY <1>2, Standstill
  <2>2. Follows(ir_pc, frames)'
    BY <1>2, <2>1 DEF Follows, Activations
  <2>3. Generated' /\ (pc' = 0 => AtRest')
    BY <1>2, <2>1 DEF Generated, AtRest
  <2>4. RunShape'
    BY <1>2, <2>2, <2>3 DEF RunShape
  <2>5. pc' # 0 => (\E B, N, A : Standing(B, N, A))'
    <3>1. ASSUME pc' # 0 PROVE (\E B, N, A : Standing(B, N, A))'
      <4>1. PICK B, N, A : Built(B) /\ Stands(B, N, A)
        BY <1>2, <3>1
      <4>2. Standing(B, N, A)'
        BY <1>2, <4>1, StandsNext
      <4> QED
        BY <4>2
    <3> QED
      BY <3>1
  <2> QED
    BY <1>1, <2>4, <2>5 DEF RunInv
<1>3. CASE Compile
  BY <1>3, RunCompile
<1>4. CASE Start
  <2>1. UNCHANGED <<program, obj_vars>> /\ Generated /\ phase' = "run"
    BY <1>4 DEF Start
  <2>2. /\ \E B, N, A : Built(B) /\ Stands(B, N, A)
        /\ Equipped' /\ Follows(ir_pc', frames') /\ IsSeq(args')
    BY <1>1, <1>4, StartStands
  <2>3. pc' # 0
    <3>1. PICK B, N, A : Stands(B, N, A)
      BY <2>2
    <3>2. pc' \in 1..Len(asm)
      BY <3>1 DEF Stands, Stacked, StandsAt
    <3> QED
      BY <3>2
  <2> QED
    BY <1>2, <2>1, <2>2, <2>3
<1>5. CASE Run
  <2>1. UNCHANGED <<program, obj_vars>> /\ phase = "run" /\ phase' = "run"
    <3>1. UNCHANGED <<obj_vars, phase>> /\ phase = "run"
      BY <1>5 DEF Run, Running
    <3>2. program' = program
      BY <1>5 DEF Run, Execute, ir_vars
    <3> QED
      BY <3>1, <3>2
  <2>2. Generated
    BY <1>1, <2>1 DEF RunShape
  <2>3. /\ pc' # 0 => \E B, N, A : Built(B) /\ Stands(B, N, A)
        /\ pc' = 0 => regs'["rsp"] = 0 /\ regs'["rbp"] = 0
        /\ Equipped' /\ Follows(ir_pc', frames') /\ IsSeq(args')
    BY <1>5, RunStands
  <2> QED
    BY <1>2, <2>1, <2>2, <2>3
<1>6. CASE Halt
  <2>1. /\ UNCHANGED <<program, obj_vars, ir_pc, frames, args, pc, regs, mem>>
        /\ phase = "run" /\ pc = 0 /\ phase' = "halted"
    BY <1>6 DEF Halt, ir_vars
  <2> QED
    BY <1>6, <2>1, RunRests
<1>7. CASE Unresolved
  <2>1. /\ UNCHANGED <<program, obj_vars, ir_pc, frames, args, pc, regs, mem>>
        /\ phase = "compile" /\ Generated /\ phase' = "unresolved"
    BY <1>7 DEF Unresolved, ir_vars
  <2> QED
    BY <1>7, <2>1, RunRests
<1>8. CASE UNCHANGED vars
  <2>1. /\ UNCHANGED <<program, obj_vars, ir_pc, frames, args, pc, regs, mem>> /\ phase' = phase
    BY <1>8 DEF vars, ir_vars, run_vars
  <2> QED
    BY <2>1, RunRests
<1> QED
  BY <1>3, <1>4, <1>5, <1>6, <1>7, <1>8 DEF Next

LEMMA RunAlways == Spec => []RunInv
  BY RunInit, RunNext, PTL DEF Spec

-----------------------------------------------------------------------------
(* What it says.                                                           *)

\* Where the last activation keeps stack pointer and frame pointer.
LEMMA PointersInside ==
  ASSUME NEW B, NEW N, NEW A, Standing(B, N, A)
  PROVE  /\ pc \in 1..Len(asm)
         /\ regs["rsp"] \in (-MaxStack)..0 /\ regs["rbp"] \in (-MaxStack)..0
<1>1. PICK e, f, v, k : e = A[N].enter /\ f = A[N].base /\ v = Saved(A, N) /\ k = asm[pc].of
  OBVIOUS
<1>2. PICK q, s : q \in Nat /\ Going(B, e, f, v, k, q, s)
  BY <1>1, StandingGoes
<1>3. /\ StageAt(e, f, v, k, q, regs["rsp"], regs["rbp"]) /\ regs["rsp"] \in Int /\ regs["rsp"] >= -MaxStack
      /\ FrameOf(e) \in Nat /\ pc \in 1..Len(asm)
      /\ ~(code[k].op = "ENTER" /\ q <= 1) => f \in Addresses
  BY <1>2, GoingFacts
<1>4. f \in Int /\ f <= -2 /\ q \in Nat
  BY <1>2 DEF Going
<1>5. \A n \in Nat : Extra(n) \in Nat
  BY DEF Extra
<1>6. v \in (-MaxStack)..0
  <2>1. CASE N = 1
    <3>1. v = 0
      BY <1>1, <2>1 DEF Saved
    <3> QED
      BY <3>1, MaxStackAssumption
  <2>2. CASE N # 1
    <3>1. N - 1 \in 1..N /\ N - 1 < N
      BY <2>2, StandingFacts
    <3>2. v = A[N - 1].base
      BY <1>1, <2>2 DEF Saved
    <3>3. v \in Addresses
      BY <3>1, <3>2 DEF Standing, Stacked, Links
    <3> QED
      BY <3>3, MaxStackAssumption DEF Addresses
  <2> QED
    BY <2>1, <2>2
<1>7. PICK x \in Nat : x = FrameOf(e)
  BY <1>3
<1>8. regs["rsp"] <= 0 /\ (regs["rbp"] = v \/ (regs["rbp"] = f /\ f \in Addresses))
  <2>1. CASE code[k].op = "ENTER"
    <3>1. q <= 1 \/ q = 2 \/ q = 3 \/ q > 3
      BY <1>4
    <3> QED
      BY <1>3, <1>4, <1>7, <2>1, <3>1 DEF StageAt
  <2>2. CASE code[k].op = "LEAVE"
    <3>1. q <= 1 \/ q = 2 \/ q > 2
      BY <1>4
    <3> QED
      BY <1>3, <1>4, <1>7, <2>2, <3>1 DEF StageAt
  <2>3. CASE code[k].op \notin {"ENTER", "LEAVE"}
    <3>1. PICK n \in Nat : regs["rbp"] = f /\ regs["rsp"] = f - FrameOf(e) - Extra(n)
      BY <1>3, <2>3 DEF StageAt
    <3>2. PICK y \in Nat : y = Extra(n)
      BY <1>5
    <3>3. f - x - y <= 0
      BY <1>4
    <3> QED
      BY <1>3, <1>7, <2>3, <3>1, <3>2, <3>3
  <2> QED
    BY <2>1, <2>2, <2>3
<1>9. regs["rsp"] \in (-MaxStack)..0
  BY <1>3, <1>8, MaxStackAssumption
<1>10. regs["rbp"] \in (-MaxStack)..0
  BY <1>6, <1>8, MaxStackAssumption DEF Addresses
<1> QED
  BY <1>3, <1>9, <1>10

\* In the body of a method: where the pointers are when an instruction begins.
LEMMA InTheBody ==
  ASSUME NEW B, NEW N, NEW A, Standing(B, N, A), ins.first, code[ins.of].op # "ENTER"
  PROVE  /\ Len(frames) = N /\ Len(args) \in Nat
         /\ \A d \in 1..N : frames[d].method = code[A[d].enter].var1.id
         /\ regs["rbp"] = A[N].base
         /\ regs["rsp"] = A[N].base - FrameOf(A[N].enter) - Extra(Len(args))
<1>1. PICK e, f, v, k : e = A[N].enter /\ f = A[N].base /\ v = Saved(A, N) /\ k = asm[pc].of
  OBVIOUS
<1>2. PICK q, s : /\ q \in Nat /\ Going(B, e, f, v, k, q, s) /\ q = pc - B[k] /\ (ins.first <=> q = 0)
  BY <1>1, StandingGoes
<1>3. q = 0 /\ code[k].op # "ENTER"
  BY <1>1, <1>2 DEF ins
<1>4. /\ Len(frames) = N /\ (\A d \in 1..Len(frames) : frames[d].method = code[A[d].enter].var1.id)
      /\ Passed(code, k, Len(args))
  BY <1>1, <1>2, <1>3 DEF Standing, Stacked, Mirror
<1>5. k \in Nat /\ k \in 1..Len(code) /\ program \in Programs
  BY <1>2, GoingFacts DEF Going
<1>6. Len(args) \in Nat
  BY SeqFacts DEF Standing
<1>7. regs["rbp"] = f /\ regs["rsp"] = f - FrameOf(e) - Extra(Len(args))
  <2>1. CASE code[k].op = "LEAVE"
    <3>1. Len(args) = 0
      BY <1>4, <1>5, <2>1, NonePassed
    <3>2. Extra(Len(args)) = 0
      BY <3>1 DEF Extra
    <3>3. regs["rsp"] = f - FrameOf(e) /\ regs["rbp"] = f /\ f \in Int /\ FrameOf(e) \in Nat
      <4>1. StageAt(e, f, v, k, q, regs["rsp"], regs["rbp"]) /\ FrameOf(e) \in Nat /\ f \in Int
        BY <1>2, GoingFacts DEF Going
      <4>2. 0 <= 1
        OBVIOUS
      <4> QED
        BY <1>3, <2>1, <4>1, <4>2 DEF StageAt
    <3> QED
      BY <3>2, <3>3
  <2>2. CASE code[k].op # "LEAVE"
    <3>1. PICK n \in Nat : /\ Passed(code, k, n) /\ regs["rbp"] = f
                           /\ regs["rsp"] = f - FrameOf(e) - Extra(n)
      BY <1>2, <1>3, <2>2, PassedHere
    <3>2. n = Len(args)
      BY <1>4, <1>5, <3>1, PassedOnce
    <3> QED
      BY <3>1, <3>2
  <2> QED
    BY <2>1, <2>2
<1> QED
  BY <1>1, <1>4, <1>6, <1>7

\* Every variable of the run keeps its type: whatever the program, the processor
\* stays inside the code it was given, and stack pointer and frame pointer inside
\* the stack (object_code.c:150-163, 286-323).
THEOREM TypesOfTheRun == Spec => []TypeOK
<1>1. RunInv => TypeOK
  <2> SUFFICES ASSUME RunInv PROVE TypeOK
    OBVIOUS
  <2>1. program \in Programs /\ IsSeq(asm)
    BY DEF RunInv, GeneratedInv, PlaceInv
  <2>2. Len(code) \in Nat /\ Len(asm) \in Nat
    BY <2>1, CodeFacts, SeqFacts
  <2>3. ir_pc \in 0..Len(code)
    <3>1. ir_pc = 0 \/ ir_pc \in 1..Len(code)
      BY DEF RunInv, RunShape, Follows
    <3> QED
      BY <2>2, <3>1
  <2>4. phase \in {"compile", "unresolved", "run", "halted"}
    BY DEF RunInv, RunShape
  <2>5. CASE pc = 0
    <3>1. regs["rsp"] = 0 /\ regs["rbp"] = 0
      BY <2>5 DEF RunInv, RunShape, AtRest
    <3> QED
      BY <2>2, <2>3, <2>4, <2>5, <3>1, MaxStackAssumption DEF TypeOK
  <2>6. CASE pc # 0
    <3>1. PICK B, N, A : Standing(B, N, A)
      BY <2>6 DEF RunInv
    <3>2. /\ pc \in 1..Len(asm)
          /\ regs["rsp"] \in (-MaxStack)..0 /\ regs["rbp"] \in (-MaxStack)..0
      BY <3>1, PointersInside
    <3> QED
      BY <2>2, <2>3, <2>4, <3>2 DEF TypeOK
  <2> QED
    BY <2>5, <2>6
<1> QED
  BY <1>1, RunAlways, PTL

\* In the body of a method the processor stands on a stack of activations.
LEMMA BodyStands ==
  ASSUME RunInv, InBody
  PROVE  \E B, N, A : Standing(B, N, A) /\ ins.first /\ code[ins.of].op # "ENTER"
<1>1. pc \in DOMAIN asm /\ ins.first /\ code[ins.of].op # "ENTER"
  BY DEF InBody, AtBlock, Running
<1>2. pc # 0
  <2>1. IsSeq(asm)
    BY DEF RunInv, GeneratedInv, PlaceInv
  <2>2. DOMAIN asm = 1..Len(asm) /\ Len(asm) \in Nat
    BY <2>1, SeqFacts
  <2> QED
    BY <1>1, <2>2
<1> QED
  BY <1>1, <1>2 DEF RunInv

\* However calls nest and whatever paths the program takes, calls and returns leave
\* the stack pointer where the frame of the method ends: what ENTER reserves, the
\* arguments pushed and what is removed after the call, and the epilogue, balance
\* (object_code.c:123-163, 296-323).
THEOREM TheStackBalances == Spec => []StackBalanced
<1>1. RunInv => StackBalanced
  <2> SUFFICES ASSUME RunInv, InBody
               PROVE  regs["rsp"] = regs["rbp"] - slots[Current.method].frame
                                    - (IF Len(args) > 6 THEN Len(args) - 6 ELSE 0)
    BY DEF StackBalanced
  <2>1. PICK B, N, A : Standing(B, N, A) /\ ins.first /\ code[ins.of].op # "ENTER"
    BY BodyStands
  <2>2. /\ Len(frames) = N
        /\ \A d \in 1..N : frames[d].method = code[A[d].enter].var1.id
        /\ regs["rbp"] = A[N].base
        /\ regs["rsp"] = A[N].base - FrameOf(A[N].enter) - Extra(Len(args))
    BY <2>1, InTheBody
  <2>3. N \in 1..N
    BY <2>1, StandingFacts
  <2>4. Current.method = code[A[N].enter].var1.id
    BY <2>2, <2>3 DEF Current
  <2> QED
    BY <2>2, <2>4 DEF FrameOf, Extra
<1> QED
  BY <1>1, RunAlways, PTL

\* However deep calls nest, %rsp is aligned to 16 bytes at every call, external ones
\* included, as long as no call under way has an odd number of stack arguments
\* (object_code.c:106-121, 306-323).
THEOREM CallsStayAligned == Spec => []CallsAligned
<1>1. RunInv => CallsAligned
  <2> SUFFICES ASSUME RunInv, AtCall, ~OddStackArguments(Len(args)),
                      \A d \in DOMAIN frames : ~OddStackArguments(Len(Params(frames[d].method)))
               PROVE  regs["rsp"] % 2 = 0
    BY DEF CallsAligned
  <2>1. InBody
    BY DEF AtCall, InBody
  <2>2. PICK B, N, A : Standing(B, N, A) /\ ins.first /\ code[ins.of].op # "ENTER"
    BY <2>1, BodyStands
  <2>3. /\ Len(frames) = N /\ Len(args) \in Nat
        /\ \A d \in 1..N : frames[d].method = code[A[d].enter].var1.id
        /\ regs["rsp"] = A[N].base - FrameOf(A[N].enter) - Extra(Len(args))
    BY <2>2, InTheBody
  <2>4. /\ N \in Nat \ {0} /\ N \in 1..N /\ A[N].base \in Int
        /\ FrameOf(A[N].enter) \in Nat /\ FrameOf(A[N].enter) % 2 = 0
    BY <2>2, StandingFacts
  <2>5. DOMAIN frames = 1..N
    BY <2>2, <2>3, SeqFacts DEF Standing, Activations
  <2>6. A[N].base % 2 = 0
    <3>1. \A c \in 2..N : ~OddStackArguments(Passes(A[c].enter))
      <4>1. ASSUME NEW c \in 2..N PROVE ~OddStackArguments(Passes(A[c].enter))
        <5>1. c \in 1..N
          BY <2>4, <4>1
        <5>2. ~OddStackArguments(Len(Params(frames[c].method)))
          BY <2>5, <5>1
        <5>3. frames[c].method = code[A[c].enter].var1.id
          BY <2>3, <5>1
        <5> QED
          BY <5>2, <5>3 DEF Passes
      <4> QED
        BY <4>1
    <3> QED
      BY <2>2, <2>4, <3>1 DEF Standing, Stacked, Chain
  <2>7. PICK x \in Nat : x = Extra(Len(args)) /\ x % 2 = 0
    <3>1. PICK n \in Nat : n = Len(args) /\ ~(n > 6 /\ n % 2 = 1)
      BY <2>3 DEF OddStackArguments
    <3>2. CASE n > 6
      <4>1. n - 6 \in Nat /\ (n - 6) % 2 = 0
        BY <3>1, <3>2
      <4> QED
        BY <3>1, <3>2, <4>1 DEF Extra
    <3>3. CASE ~(n > 6)
      <4>1. 0 % 2 = 0
        OBVIOUS
      <4> QED
        BY <3>1, <3>3, <4>1 DEF Extra
    <3> QED
      BY <3>2, <3>3
  <2>8. PICK f \in Int, y \in Nat : f = A[N].base /\ y = FrameOf(A[N].enter) /\ f % 2 = 0 /\ y % 2 = 0
    BY <2>4, <2>6
  <2>9. \A u \in Int, w \in Nat : u % 2 = 0 /\ w % 2 = 0 => (u - w) \in Int /\ (u - w) % 2 = 0
    OBVIOUS
  <2>10. (f - y - x) % 2 = 0
    BY <2>7, <2>8, <2>9
  <2> QED
    BY <2>3, <2>7, <2>8, <2>10
<1> QED
  BY <1>1, RunAlways, PTL
=============================================================================
