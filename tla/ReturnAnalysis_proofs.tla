------------------------ MODULE ReturnAnalysis_proofs ------------------------
(***************************************************************************)
(* For blocks nested to any depth, with and without -opt: returned_global  *)
(* is never set without a return or a folded if, and a method that must    *)
(* return a value is accepted only if one of them lies outside every loop; *)
(* a method with a return among the statements of its body is accepted.    *)
(*                                                                         *)
(* The properties are not inductive: the flag is derived from the cells of *)
(* branches closed before, and what a cell holds may come from a loop that *)
(* is still open.  LoopInv says so for every pending block: what it has    *)
(* found lies outside all loops or in a loop around that block.            *)
(***************************************************************************)
EXTENDS ReturnAnalysis, SequenceTheorems, TLAPS

Outside(r) == r \cap {"body", "branch", "folded"} # {}

\* a loop is open at or around the i-th pending block
Looped(fr, i) == \E j \in 1 .. i : fr[j].father = "WHILE"

Met(fr, r, i) == r # {} /\ (Outside(r) \/ Looped(fr, i))

Found(f) == f.returned = TRUE \/ f.retThen # "NULL_TYPE"

\* only an if plans anything after a block
FrameOK(f) == f.after # "pop" => f.father = "IF"

\* the body of the method is the outermost pending block, and only it
FramesInv(fr, r) ==
  /\ fr \in Seq(Frame)
  /\ \A i \in 1 .. Len(fr) :
       /\ Found(fr[i]) => Met(fr, r, i)
       /\ fr[i].father = "METHOD_DECL" <=> i = 1
       /\ FrameOK(fr[i])

FlagInv == /\ returned_global \in BOOLEAN
           /\ returned_global = TRUE => Met(frames, returns, Len(frames))

PhaseInv == /\ phase = "body" => frames # <<>>
            /\ phase = "decls" => frames = <<>> /\ returned_global = FALSE

LoopInv == ret \in RetType /\ FramesInv(frames, returns) /\ FlagInv /\ PhaseInv

-----------------------------------------------------------------------------
(* Sequences of pending blocks.                                            *)

LEMMA PrefixOfSeq ==
  ASSUME NEW S, NEW s \in Seq(S), NEW n \in Nat, n < Len(s)
  PROVE  /\ SubSeq(s, 1, n) \in Seq(S)
         /\ Len(SubSeq(s, 1, n)) = n
         /\ \A i \in 1 .. n : SubSeq(s, 1, n)[i] = s[i]
OBVIOUS

LEMMA FrontAndLast ==
  ASSUME NEW S, NEW s \in Seq(S), s # <<>>
  PROVE  /\ Len(s) \in Nat \ {0}
         /\ DOMAIN s = 1 .. Len(s)
         /\ Last(s) = s[Len(s)]
         /\ Last(s) \in S
         /\ Front(s) \in Seq(S)
         /\ Len(Front(s)) = Len(s) - 1
         /\ \A i \in 1 .. Len(s) - 1 : Front(s)[i] = s[i]
         /\ Front(s) = <<>> <=> Len(s) = 1
<1>1. Len(s) \in Nat \ {0} /\ DOMAIN s = 1 .. Len(s) /\ s[Len(s)] \in S
  OBVIOUS
<1>2. Last(s) = s[Len(s)] /\ Front(s) = SubSeq(s, 1, Len(s) - 1)
  BY DEF Last, Front
<1>3. Len(s) - 1 \in Nat /\ Len(s) - 1 < Len(s)
  BY <1>1
<1>4. /\ Front(s) \in Seq(S)
      /\ Len(Front(s)) = Len(s) - 1
      /\ \A i \in 1 .. Len(s) - 1 : Front(s)[i] = s[i]
  BY <1>2, <1>3, PrefixOfSeq, Zenon
<1>5. Front(s) = <<>> <=> Len(Front(s)) = 0
  BY <1>4, EmptySeq
<1>6. QED
  BY <1>1, <1>2, <1>4, <1>5

\* what counts for a block counts for it in any stack with the same fathers
LEMMA MetTransfers ==
  ASSUME NEW fr, NEW gr, NEW r, NEW q, NEW n \in Nat, r \subseteq q,
         \A j \in 1 .. n : gr[j].father = fr[j].father
  PROVE  \A i \in 1 .. n : Met(fr, r, i) => Met(gr, q, i)
BY DEF Met, Outside, Looped

\* the block on top is replaced
LEMMA ReplaceTop ==
  ASSUME NEW fr, NEW r, NEW q, FramesInv(fr, r), fr # <<>>, r \subseteq q,
         NEW x \in Frame, x.father = Last(fr).father, FrameOK(x),
         Found(x) => Met(fr, q, Len(fr))
  PROVE  /\ FramesInv(Append(Front(fr), x), q)
         /\ Append(Front(fr), x) # <<>>
         /\ Met(fr, q, Len(fr)) =>
              Met(Append(Front(fr), x), q, Len(Append(Front(fr), x)))
<1> DEFINE gr == Append(Front(fr), x)
           n == Len(fr)
<1>1. /\ fr \in Seq(Frame) /\ n \in Nat \ {0} /\ Front(fr) \in Seq(Frame)
      /\ n - 1 \in Nat /\ Len(Front(fr)) = n - 1 /\ Last(fr) = fr[n]
      /\ \A i \in 1 .. n - 1 : Front(fr)[i] = fr[i]
  BY FrontAndLast DEF FramesInv
<1> HIDE DEF n
<1>2. /\ gr \in Seq(Frame) /\ gr # <<>> /\ Len(gr) = (n - 1) + 1
      /\ gr[(n - 1) + 1] = x /\ \A i \in 1 .. n - 1 : gr[i] = Front(fr)[i]
  <2> DEFINE f == Front(fr)
  <2>1. f \in Seq(Frame)
    BY <1>1
  <2>2. /\ Append(f, x) \in Seq(Frame) /\ Append(f, x) # <<>>
        /\ Len(Append(f, x)) = Len(f) + 1 /\ Append(f, x)[Len(f) + 1] = x
        /\ \A i \in 1 .. Len(f) : Append(f, x)[i] = f[i]
    BY <2>1, AppendProperties
  <2>3. Len(f) = n - 1
    BY <1>1
  <2>4. QED
    BY <2>2, <2>3, Zenon
<1> HIDE DEF gr
<1>3. Len(gr) = n /\ gr[n] = x /\ \A i \in 1 .. n - 1 : gr[i] = fr[i]
  BY <1>1, <1>2
<1>4. \A i \in 1 .. n : i = n \/ i \in 1 .. n - 1
  BY <1>1
<1>5. \A i \in 1 .. n : gr[i].father = fr[i].father
  BY <1>1, <1>3, <1>4
<1>6. n \in Nat /\ n \in 1 .. n
  BY <1>1
<1>7. /\ \A i \in 1 .. n : Met(fr, r, i) => Met(gr, q, i)
      /\ \A i \in 1 .. n : Met(fr, q, i) => Met(gr, q, i)
  <2>1. q \subseteq q
    OBVIOUS
  <2>2. QED
    BY <1>5, <1>6, <2>1, MetTransfers, Zenon
<1>8. ASSUME NEW i \in 1 .. n
      PROVE  /\ Found(gr[i]) => Met(gr, q, i)
             /\ gr[i].father = "METHOD_DECL" <=> i = 1
             /\ FrameOK(gr[i])
  <2>1. /\ Found(fr[i]) => Met(fr, r, i)
        /\ fr[i].father = "METHOD_DECL" <=> i = 1
        /\ FrameOK(fr[i])
    BY DEF FramesInv, n
  <2>2. CASE i = n
    BY <1>3, <1>5, <1>7, <2>1, <2>2 DEF n
  <2>3. CASE i \in 1 .. n - 1
    <3>1. gr[i] = fr[i]
      BY <1>3, <2>3
    <3>2. QED
      BY <1>7, <2>1, <3>1
  <2>4. QED
    BY <1>4, <2>2, <2>3
<1>9. FramesInv(gr, q)
  BY <1>2, <1>3, <1>8 DEF FramesInv
<1>10. Met(fr, q, n) => Met(gr, q, Len(gr))
  BY <1>3, <1>6, <1>7
<1>11. QED
  BY <1>2, <1>9, <1>10 DEF gr, n

\* a block is entered: nothing has been found in it yet
LEMMA PushTop ==
  ASSUME NEW fr, NEW r, FramesInv(fr, r), fr # <<>>,
         NEW x \in Frame, x.father # "METHOD_DECL", FrameOK(x), ~Found(x)
  PROVE  /\ FramesInv(Append(fr, x), r)
         /\ Append(fr, x) # <<>>
         /\ Met(fr, r, Len(fr)) => Met(Append(fr, x), r, Len(Append(fr, x)))
<1> DEFINE gr == Append(fr, x)
           n == Len(fr)
<1>1. fr \in Seq(Frame) /\ n \in Nat \ {0} /\ n \in Nat
  BY FrontAndLast DEF FramesInv
<1>2. /\ gr \in Seq(Frame) /\ gr # <<>> /\ Len(gr) = n + 1
      /\ gr[n + 1] = x /\ \A i \in 1 .. n : gr[i] = fr[i]
  BY <1>1, AppendProperties
<1> HIDE DEF gr, n
<1>3. /\ \A i \in 1 .. n + 1 : i = n + 1 \/ i \in 1 .. n
      /\ n + 1 # 1 /\ n \in 1 .. n
  BY <1>1
<1>4. \A i \in 1 .. n : Met(fr, r, i) => Met(gr, r, i)
  <2>1. \A j \in 1 .. n : gr[j].father = fr[j].father
    BY <1>2
  <2>2. r \subseteq r
    OBVIOUS
  <2>3. QED
    BY <1>1, <2>1, <2>2, MetTransfers, Zenon
<1>5. ASSUME NEW i \in 1 .. n + 1
      PROVE  /\ Found(gr[i]) => Met(gr, r, i)
             /\ gr[i].father = "METHOD_DECL" <=> i = 1
             /\ FrameOK(gr[i])
  <2>1. CASE i = n + 1
    BY <1>2, <1>3, <2>1
  <2>2. CASE i \in 1 .. n
    <3>1. gr[i] = fr[i]
      BY <1>2, <2>2
    <3>2. /\ Found(fr[i]) => Met(fr, r, i)
          /\ fr[i].father = "METHOD_DECL" <=> i = 1
          /\ FrameOK(fr[i])
      BY <2>2 DEF FramesInv, n
    <3>3. QED
      BY <1>4, <2>2, <3>1, <3>2
  <2>3. QED
    BY <1>3, <2>1, <2>2
<1>6. FramesInv(gr, r)
  BY <1>2, <1>5 DEF FramesInv
<1>7. Met(fr, r, n) => Met(gr, r, n + 1)
  <2>1. Met(fr, r, n) => Met(gr, r, n)
    BY <1>3, <1>4
  <2>2. Met(gr, r, n) => Met(gr, r, n + 1)
    BY <1>1 DEF Met, Looped
  <2>3. QED
    BY <2>1, <2>2
<1>8. QED
  BY <1>2, <1>6, <1>7 DEF gr, n

\* a block is left: unless it was a loop's, what counts in it counts around it
LEMMA PopTop ==
  ASSUME NEW fr, NEW r, FramesInv(fr, r), fr # <<>>,
         Last(fr).father # "METHOD_DECL"
  PROVE  /\ FramesInv(Front(fr), r)
         /\ Front(fr) # <<>>
         /\ Last(fr).father # "WHILE" /\ Met(fr, r, Len(fr)) =>
              Met(Front(fr), r, Len(Front(fr)))
<1> DEFINE gr == Front(fr)
           n == Len(fr)
<1>1. /\ fr \in Seq(Frame) /\ n \in Nat \ {0} /\ Last(fr) = fr[n]
      /\ gr \in Seq(Frame) /\ n - 1 \in Nat /\ Len(gr) = n - 1
      /\ \A i \in 1 .. n - 1 : gr[i] = fr[i]
      /\ gr = <<>> <=> n = 1
  BY FrontAndLast DEF FramesInv
<1> HIDE DEF gr
<1>2. n # 1 /\ gr # <<>>
  <2>1. n \in 1 .. n
    BY <1>1
  <2>2. fr[n].father = "METHOD_DECL" <=> n = 1
    BY <2>1 DEF FramesInv
  <2>3. QED
    BY <1>1, <2>2
<1> HIDE DEF n
<1>3. \A i \in 1 .. n - 1 : Met(fr, r, i) => Met(gr, r, i)
  <2>1. \A j \in 1 .. n - 1 : gr[j].father = fr[j].father
    BY <1>1
  <2>2. r \subseteq r
    OBVIOUS
  <2>3. QED
    BY <1>1, <2>1, <2>2, MetTransfers, Zenon
<1>4. ASSUME NEW i \in 1 .. n - 1
      PROVE  /\ Found(gr[i]) => Met(gr, r, i)
             /\ gr[i].father = "METHOD_DECL" <=> i = 1
             /\ FrameOK(gr[i])
  <2>1. i \in 1 .. n
    BY <1>1
  <2>2. /\ Found(fr[i]) => Met(fr, r, i)
        /\ fr[i].father = "METHOD_DECL" <=> i = 1
        /\ FrameOK(fr[i])
    BY <2>1 DEF FramesInv, n
  <2>3. QED
    BY <1>1, <1>3, <2>2
<1>5. FramesInv(gr, r)
  BY <1>1, <1>4 DEF FramesInv
<1>6. ASSUME fr[n].father # "WHILE", Met(fr, r, n)
      PROVE  Met(gr, r, n - 1)
  <2>1. Looped(fr, n) => Looped(fr, n - 1)
    BY <1>1, <1>6 DEF Looped
  <2>2. Met(fr, r, n - 1)
    BY <1>6, <2>1 DEF Met
  <2>3. n - 1 \in 1 .. n - 1
    BY <1>1, <1>2
  <2>4. QED
    BY <1>3, <2>2, <2>3
<1>7. QED
  BY <1>1, <1>2, <1>5, <1>6 DEF gr, n

-----------------------------------------------------------------------------
(* What the steps do to the pending blocks.                                *)

LEMMA FreshBlock ==
  ASSUME NEW father \in {"METHOD_DECL", "BLOCK", "WHILE", "IF"},
         NEW after \in {"pop", "else", "fold"}, NEW cell \in RetType,
         after # "pop" => father = "IF"
  PROVE  /\ Block(father, after, cell) \in Frame
         /\ FrameOK(Block(father, after, cell))
         /\ ~Found(Block(father, after, cell))
         /\ Block(father, after, cell).father = father
BY DEF Block, Frame, RetType, ReturnTypes, FrameOK, Found

\* what is known of the block on top
LEMMA CurrentFacts ==
  ASSUME LoopInv, phase = "body"
  PROVE  /\ frames # <<>> /\ Current \in Frame
         /\ Len(frames) \in Nat \ {0}
         /\ Current = frames[Len(frames)]
         /\ Found(Current) => Met(frames, returns, Len(frames))
         /\ Current.father = "METHOD_DECL" <=> Len(frames) = 1
         /\ FrameOK(Current)
<1>1. frames # <<>> /\ frames \in Seq(Frame)
  BY DEF LoopInv, PhaseInv, FramesInv
<1>2. /\ Len(frames) \in Nat \ {0} /\ Last(frames) = frames[Len(frames)]
      /\ Last(frames) \in Frame
  BY <1>1, FrontAndLast
<1>3. Len(frames) \in 1 .. Len(frames)
  BY <1>2
<1>4. /\ Found(frames[Len(frames)]) => Met(frames, returns, Len(frames))
      /\ frames[Len(frames)].father = "METHOD_DECL" <=> Len(frames) = 1
      /\ FrameOK(frames[Len(frames)])
  BY <1>3 DEF LoopInv, FramesInv
<1>5. QED
  BY <1>1, <1>2, <1>4 DEF Current

\* a block whose cell is not cleared has found a return that counts
LEMMA CellMeansMet ==
  ASSUME LoopInv, phase = "body", CellAfter(Current) # "NULL_TYPE"
  PROVE  Met(frames, returns, Len(frames))
BY CurrentFacts DEF CellAfter, Found, LoopInv, FlagInv

\* the statement list of the current block grows
LEMMA NotEmptyKeeps ==
  ASSUME LoopInv, phase = "body"
  PROVE  LET x == [Current EXCEPT !.empty = FALSE]
         IN  /\ x \in Frame /\ x.father = Current.father /\ FrameOK(x)
             /\ Found(x) <=> Found(Current)
BY CurrentFacts DEF Frame, FrameOK, Found

LEMMA AllKeeps ==
  ASSUME NEW f \in Frame, NEW b \in BOOLEAN, FrameOK(f)
  PROVE  /\ [f EXCEPT !.all = @ \/ b] \in Frame
         /\ [f EXCEPT !.all = @ \/ b].father = f.father
         /\ FrameOK([f EXCEPT !.all = @ \/ b])
         /\ Found([f EXCEPT !.all = @ \/ b]) <=> Found(f)
BY DEF Frame, FrameOK, Found

\* what has been met can only grow
LEMMA FramesGrow ==
  ASSUME NEW fr, NEW r, NEW q, FramesInv(fr, r), r \subseteq q
  PROVE  FramesInv(fr, q)
BY DEF FramesInv, Met, Outside

\* a return in the current block, or a folded if there, counts
LEMMA PlaceMeansMet ==
  ASSUME frames \in Seq(Frame), NEW q, NEW p \in q,
         IF Place = "loop" THEN p = "loop" ELSE p \in {"body", "branch", "folded"}
  PROVE  Met(frames, q, Len(frames))
<1>1. CASE Place = "loop"
  <2>1. \E i \in DOMAIN frames : frames[i].father = "WHILE"
    BY <1>1 DEF Place
  <2>2. DOMAIN frames = 1 .. Len(frames)
    OBVIOUS
  <2>3. QED
    BY <2>1, <2>2 DEF Met, Looped
<1>2. CASE Place # "loop"
  BY <1>2 DEF Met, Outside
<1>3. QED
  BY <1>1, <1>2

\* the current block, not the body of the method, is left
LEMMA LeaveKeeps ==
  ASSUME LoopInv, phase = "body", Current.father # "METHOD_DECL",
         NEW b \in BOOLEAN, NEW q, returns \subseteq q
  PROVE  /\ FramesInv(Leave(b), q)
         /\ Leave(b) # <<>>
         /\ Current.father # "WHILE" /\ Met(frames, q, Len(frames)) =>
              Met(Leave(b), q, Len(Leave(b)))
<1> DEFINE gr == Front(frames)
           x == [Last(gr) EXCEPT !.all = @ \/ b]
<1>1. FramesInv(frames, q) /\ frames # <<>> /\ Last(frames) = Current
  BY CurrentFacts, FramesGrow DEF LoopInv, Current
<1>2. /\ FramesInv(gr, q) /\ gr # <<>>
      /\ Current.father # "WHILE" /\ Met(frames, q, Len(frames)) =>
           Met(gr, q, Len(gr))
  BY <1>1, PopTop
<1> HIDE DEF gr
<1>3. gr \in Seq(Frame)
  BY <1>2 DEF FramesInv
<1>4. /\ Last(gr) \in Frame /\ Last(gr) = gr[Len(gr)] /\ Len(gr) \in 1 .. Len(gr)
  BY <1>2, <1>3, FrontAndLast
<1>5. FrameOK(Last(gr)) /\ (Found(Last(gr)) => Met(gr, q, Len(gr)))
  BY <1>2, <1>4 DEF FramesInv
<1>6. /\ x \in Frame /\ x.father = Last(gr).father /\ FrameOK(x)
      /\ Found(x) <=> Found(Last(gr))
  BY <1>4, <1>5, AllKeeps
<1> HIDE DEF x
<1>7. q \subseteq q
  OBVIOUS
<1>8. /\ FramesInv(Append(Front(gr), x), q)
      /\ Append(Front(gr), x) # <<>>
      /\ Met(gr, q, Len(gr)) =>
           Met(Append(Front(gr), x), q, Len(Append(Front(gr), x)))
  BY <1>2, <1>5, <1>6, <1>7, ReplaceTop
<1>9. Leave(b) = Append(Front(gr), x)
  BY DEF Leave, gr, x
<1>10. QED
  BY <1>2, <1>8, <1>9

-----------------------------------------------------------------------------
(* The invariant.                                                          *)

LEMMA LoopInvInit == Init => LoopInv
<1> SUFFICES ASSUME Init PROVE LoopInv
  OBVIOUS
<1>1. FlagInv
  BY DEF Init, FlagInv
<1>2. ret \in RetType /\ FramesInv(frames, returns) /\ PhaseInv
  BY DEF Init, FramesInv, PhaseInv
<1>3. QED
  BY <1>1, <1>2 DEF LoopInv

\* declarations between the methods, and everything that ends the compilation
LEMMA LoopInvDecls ==
  ASSUME LoopInv,
         \/ \E right \in RetType : DeclOfVariable(right)
         \/ \E type \in ReturnTypes, is_main \in BOOLEAN :
              ExternMethod(type, is_main) \/ MethodBody(type, is_main)
         \/ \E how \in {"accepted", "main_missing", "type_error",
                        "return_type_error", "null_node"} : Stop(how)
  PROVE  LoopInv'
<1>1. ASSUME NEW right \in RetType, DeclOfVariable(right) PROVE LoopInv'
  BY <1>1 DEF DeclOfVariable, LoopInv, FlagInv, PhaseInv
<1>2. ASSUME NEW type \in ReturnTypes, NEW is_main \in BOOLEAN,
             ExternMethod(type, is_main)
      PROVE  LoopInv'
  <2>1. frames = <<>> /\ frames' = <<>> /\ returned_global' = FALSE
        /\ phase' # "body"
    BY <1>2 DEF ExternMethod, LoopInv, PhaseInv
  <2>2. FramesInv(frames, returns)'
    BY <2>1 DEF FramesInv
  <2>3. QED
    BY <1>2, <2>1, <2>2 DEF ExternMethod, LoopInv, FlagInv, PhaseInv
<1>3. ASSUME NEW type \in ReturnTypes, NEW is_main \in BOOLEAN,
             MethodBody(type, is_main)
      PROVE  LoopInv'
  <2> DEFINE b == Block("METHOD_DECL", "pop", ret)
  <2>1. b \in Frame /\ FrameOK(b) /\ ~Found(b) /\ b.father = "METHOD_DECL"
    BY FreshBlock DEF LoopInv
  <2>2. frames' = <<b>> /\ returned_global' = FALSE /\ phase' = "body"
    BY <1>3 DEF MethodBody, LoopInv, PhaseInv
  <2> HIDE DEF b
  <2>3. FramesInv(frames, returns)'
    BY <2>1, <2>2 DEF FramesInv
  <2>4. QED
    BY <1>3, <2>2, <2>3 DEF MethodBody, LoopInv, FlagInv, PhaseInv
<1>4. ASSUME NEW how \in {"accepted", "main_missing", "type_error",
                          "return_type_error", "null_node"}, Stop(how)
      PROVE  LoopInv'
  BY <1>4 DEF Stop, LoopInv, FlagInv, PhaseInv
<1>5. QED
  BY <1>1, <1>2, <1>3, <1>4

\* the statements that stay in the current block or enter a new one
LEMMA LoopInvStatements ==
  ASSUME LoopInv,
         \/ SimpleStatement
         \/ \E t \in ReturnTypes : ReturnStatement(t)
         \/ NestedBlock \/ WhileBlock
         \/ \E after \in {"else", "pop", "fold"} : IfBlock(after)
  PROVE  LoopInv'
<1> DEFINE x == [Current EXCEPT !.empty = FALSE]
<1>1. phase = "body" /\ phase' = "body" /\ ret' = ret
  BY DEF SimpleStatement, ReturnStatement, NestedBlock, WhileBlock, IfBlock, OpenBlock
<1>2. FramesInv(frames, returns) /\ frames # <<>> /\ Last(frames) = Current
  BY <1>1, CurrentFacts DEF LoopInv, Current
<1>3. /\ x \in Frame /\ x.father = Last(frames).father /\ FrameOK(x)
      /\ Found(x) => Met(frames, returns, Len(frames))
  BY <1>1, <1>2, NotEmptyKeeps, CurrentFacts
<1>4. returns \subseteq returns
  OBVIOUS
<1> HIDE DEF x
<1>5. /\ FramesInv(Append(Front(frames), x), returns)
      /\ Append(Front(frames), x) # <<>>
      /\ Met(frames, returns, Len(frames)) =>
           Met(Append(Front(frames), x), returns, Len(Append(Front(frames), x)))
  BY <1>2, <1>3, <1>4, ReplaceTop
<1>6. CASE SimpleStatement
  BY <1>1, <1>5, <1>6 DEF SimpleStatement, x, LoopInv, FlagInv, PhaseInv
<1>7. ASSUME NEW t \in ReturnTypes, ReturnStatement(t)
      PROVE  LoopInv'
  <2> DEFINE y == [Current EXCEPT !.empty = FALSE, !.returned = TRUE,
                                  !.all = TRUE, !.ret = t]
  <2>1. y \in Frame /\ y.father = Last(frames).father /\ FrameOK(y)
    BY <1>1, <1>2, CurrentFacts DEF Frame, RetType, FrameOK
  <2>2. /\ frames' = Append(Front(frames), y)
        /\ returns' = returns \cup {Place} /\ returns \subseteq returns'
        /\ returned_global' = TRUE
    BY <1>7 DEF ReturnStatement
  <2>3. Met(frames, returns', Len(frames))
    <3>1. Place \in {"body", "branch", "loop"} /\ Place \in returns'
      BY <2>2 DEF Place
    <3>2. frames \in Seq(Frame)
      BY <1>2 DEF FramesInv
    <3>3. QED
      BY <3>1, <3>2, PlaceMeansMet
  <2> HIDE DEF y
  <2>4. FramesInv(frames', returns') /\ frames' # <<>>
        /\ Met(frames', returns', Len(frames'))
    BY <1>2, <2>1, <2>2, <2>3, ReplaceTop
  <2>5. FlagInv'
    BY <2>2, <2>4 DEF FlagInv
  <2>6. QED
    BY <1>1, <2>4, <2>5 DEF LoopInv, PhaseInv
<1>8. ASSUME NEW father \in {"BLOCK", "WHILE", "IF"}, NEW after \in {"pop", "else", "fold"},
             after # "pop" => father = "IF",
             OpenBlock(Block(father, after, FreshCell))
      PROVE  LoopInv'
  <2> DEFINE b == Block(father, after, FreshCell)
             gr == Append(Front(frames), x)
  <2>1. b \in Frame /\ FrameOK(b) /\ ~Found(b) /\ b.father # "METHOD_DECL"
    BY <1>8, FreshBlock DEF FreshCell, RetType
  <2>2. /\ frames' = Append(gr, b) /\ returns' = returns
        /\ returned_global' = returned_global
    BY <1>8 DEF OpenBlock, Enter, x
  <2> HIDE DEF b, gr
  <2>3. FramesInv(gr, returns) /\ gr # <<>>
        /\ (Met(frames, returns, Len(frames)) => Met(gr, returns, Len(gr)))
    BY <1>5 DEF gr
  <2>4. FramesInv(Append(gr, b), returns) /\ Append(gr, b) # <<>>
        /\ (Met(gr, returns, Len(gr)) =>
              Met(Append(gr, b), returns, Len(Append(gr, b))))
    BY <2>1, <2>3, PushTop
  <2>5. QED
    BY <1>1, <2>2, <2>3, <2>4 DEF LoopInv, FlagInv, PhaseInv
<1>9. QED
  <2>1. ASSUME NestedBlock PROVE LoopInv'
    BY <1>8, <2>1 DEF NestedBlock, FreshCell
  <2>2. ASSUME WhileBlock PROVE LoopInv'
    BY <1>8, <2>2 DEF WhileBlock, FreshCell
  <2>3. ASSUME NEW after \in {"else", "pop", "fold"}, IfBlock(after) PROVE LoopInv'
    BY <1>8, <2>3 DEF IfBlock
  <2>4. QED
    BY <1>6, <1>7, <2>1, <2>2, <2>3

LEMMA LoopInvCloses ==
  ASSUME LoopInv,
         \/ CloseBlock
         \/ \E has_else \in BOOLEAN : CloseThen(has_else)
         \/ CloseElse \/ CloseFolded \/ CloseBody
  PROVE  LoopInv'
<1>1. phase = "body"
  BY DEF CloseBlock, CloseThen, CloseElse, CloseFolded, CloseBody, EndOfBlock
<1>2. /\ frames # <<>> /\ Current \in Frame /\ FrameOK(Current)
      /\ Found(Current) => Met(frames, returns, Len(frames))
      /\ Current.all \in BOOLEAN /\ Current.allThen \in BOOLEAN
      /\ CellAfter(Current) \in RetType
  <2>1. /\ frames # <<>> /\ Current \in Frame /\ FrameOK(Current)
        /\ Found(Current) => Met(frames, returns, Len(frames))
    BY <1>1, CurrentFacts
  <2>2. Current.ret \in RetType /\ "NULL_TYPE" \in RetType
    BY <2>1 DEF Frame, RetType
  <2>3. QED
    BY <2>1, <2>2 DEF Frame, CellAfter
\* a block that is not a loop's is left: the flag is kept
<1>3. ASSUME NEW b \in BOOLEAN, Current.father \in {"BLOCK", "IF"},
             frames' = Leave(b), ret' = ret, returns \subseteq returns',
             phase' = phase, returned_global' \in BOOLEAN,
             returned_global' = TRUE => Met(frames, returns', Len(frames))
      PROVE  LoopInv'
  <2>1. /\ FramesInv(Leave(b), returns') /\ Leave(b) # <<>>
        /\ Met(frames, returns', Len(frames)) =>
             Met(Leave(b), returns', Len(Leave(b)))
    BY <1>1, <1>3, LeaveKeeps
  <2>2. QED
    BY <1>1, <1>3, <2>1 DEF LoopInv, FlagInv, PhaseInv
<1>4. CASE CloseBlock
  <2> DEFINE b == Current.father = "BLOCK" /\ Current.all
  <2>1. /\ b \in BOOLEAN /\ frames' = Leave(b) /\ ret' = ret /\ returns' = returns
        /\ phase' = phase /\ returned_global' = FlagAfter(Current)
    BY <1>2, <1>4 DEF CloseBlock
  <2> HIDE DEF b
  <2>2. CASE Current.father = "BLOCK"
    BY <1>3, <2>1, <2>2 DEF FlagAfter, LoopInv, FlagInv
  <2>3. CASE Current.father = "WHILE"
    <3>1. returned_global' = FALSE
      BY <2>1, <2>3 DEF FlagAfter
    <3>2. FramesInv(Leave(b), returns) /\ Leave(b) # <<>>
      BY <1>1, <2>1, <2>3, LeaveKeeps
    <3>3. QED
      BY <1>1, <2>1, <3>1, <3>2 DEF LoopInv, FlagInv, PhaseInv
  <2>4. QED
    BY <1>4, <2>2, <2>3 DEF CloseBlock
<1>5. ASSUME NEW has_else \in BOOLEAN, CloseThen(has_else)
      PROVE  LoopInv'
  <2>1. /\ Current.father = "IF" /\ ret' = ret /\ returns' = returns
        /\ phase' = phase /\ returned_global' = FlagAfter(Current)
    BY <1>5 DEF CloseThen
  <2>2. returned_global' = TRUE => Met(frames, returns, Len(frames))
    BY <2>1 DEF FlagAfter, LoopInv, FlagInv
  <2>6. returned_global' \in BOOLEAN
    BY <2>1 DEF FlagAfter
  <2>3. CASE has_else = FALSE
    <3>1. frames' = Leave(FALSE)
      BY <1>5, <2>3 DEF CloseThen
    <3>2. QED
      BY <1>3, <2>1, <2>2, <2>6, <3>1
  <2>4. CASE has_else = TRUE
    <3> DEFINE x == [Block("IF", "join", FreshCell) EXCEPT
                       !.retThen = CellAfter(Current), !.allThen = Current.all]
    <3>1. x \in Frame /\ x.father = "IF" /\ FrameOK(x)
          /\ (Found(x) => CellAfter(Current) # "NULL_TYPE")
      BY <1>2 DEF Block, FreshCell, Frame, RetType, ReturnTypes, FrameOK, Found
    <3>2. frames' = Append(Front(frames), x)
      BY <1>5, <2>4 DEF CloseThen
    <3> HIDE DEF x
    <3>3. Found(x) => Met(frames, returns, Len(frames))
      BY <1>1, <3>1, CellMeansMet
    <3>4. /\ FramesInv(frames, returns) /\ Last(frames) = Current
          /\ returns \subseteq returns
      BY DEF LoopInv, Current
    <3>5. FramesInv(frames', returns) /\ frames' # <<>>
          /\ (Met(frames, returns, Len(frames)) =>
                Met(frames', returns, Len(frames')))
      BY <1>2, <2>1, <3>1, <3>2, <3>3, <3>4, ReplaceTop
    <3>6. FlagInv'
      BY <2>1, <2>2, <2>6, <3>5 DEF FlagInv
    <3>7. QED
      BY <1>1, <2>1, <3>5, <3>6 DEF LoopInv, PhaseInv
  <2>5. QED
    BY <2>3, <2>4
<1>6. CASE CloseElse
  <2>1. Current.after = "join" /\ Current.father = "IF"
    BY <1>2, <1>6 DEF CloseElse, FrameOK
  <2>2. /\ frames' = Leave(Current.allThen /\ Current.all) /\ ret' = ret
        /\ returns' = returns /\ phase' = phase
        /\ returned_global' = (\/ FlagAfter(Current)
                               \/ BothReturn(Current.retThen, CellAfter(Current)))
    BY <1>6 DEF CloseElse
  <2>3. returned_global' = TRUE => Met(frames, returns, Len(frames))
    BY <1>2, <2>2 DEF FlagAfter, BothReturn, Found, LoopInv, FlagInv
  <2>4. (Current.allThen /\ Current.all) \in BOOLEAN
    BY <1>2
  <2>5. QED
    BY <1>3, <2>1, <2>2, <2>3, <2>4
\* a folded if counts as a return in its place
<1>7. CASE CloseFolded
  <2> DEFINE p == IF Place = "loop" THEN "loop" ELSE "folded"
  <2>1. Current.father = "IF"
    BY <1>2, <1>7 DEF CloseFolded, FrameOK
  <2>2. /\ frames' = Leave(Current.all) /\ ret' = ret /\ phase' = phase
        /\ returns' = returns \cup {p} /\ returned_global' = TRUE
    BY <1>7 DEF CloseFolded
  <2>3. p \in returns' /\ returns \subseteq returns'
    BY <2>2
  <2>4. IF Place = "loop" THEN p = "loop" ELSE p \in {"body", "branch", "folded"}
    OBVIOUS
  <2>5. frames \in Seq(Frame)
    BY DEF LoopInv, FramesInv
  <2> HIDE DEF p
  <2>6. Met(frames, returns', Len(frames))
    BY <2>3, <2>4, <2>5, PlaceMeansMet
  <2>7. QED
    BY <1>2, <1>3, <2>1, <2>2, <2>3, <2>6
<1>8. CASE CloseBody
  <2>1. /\ frames' = <<>> /\ returned_global' = FALSE /\ phase' # "body"
        /\ ret' = CellAfter(Current)
    BY <1>8 DEF CloseBody
  <2>2. FramesInv(frames', returns')
    BY <2>1 DEF FramesInv
  <2>3. QED
    BY <1>2, <2>1, <2>2 DEF LoopInv, FlagInv, PhaseInv
<1>9. QED
  BY <1>4, <1>5, <1>6, <1>7, <1>8

LEMMA LoopInvNext ==
  ASSUME LoopInv, [Next]_vars
  PROVE  LoopInv'
<1>1. CASE UNCHANGED vars
  BY <1>1 DEF vars, LoopInv, FlagInv, PhaseInv
<1>2. ASSUME \/ EndOfProgram \/ IllTyped \/ EmptyBlock
             \/ \E t \in ReturnTypes : ReturnOfOtherType(t)
      PROVE  LoopInv'
  <2>1. \E how \in {"accepted", "main_missing", "type_error",
                    "return_type_error", "null_node"} : Stop(how)
    BY <1>2 DEF EndOfProgram, IllTyped, EmptyBlock, ReturnOfOtherType
  <2>2. QED
    BY <2>1, LoopInvDecls
<1>3. QED
  BY <1>1, <1>2, LoopInvDecls, LoopInvStatements, LoopInvCloses DEF Next

\* The invariant, for programs of any nesting.
THEOREM LoopInvariant == Spec => []LoopInv
<1>1. Init => LoopInv
  BY LoopInvInit
<1>2. LoopInv /\ [Next]_vars => LoopInv'
  BY LoopInvNext
<1>3. QED
  BY <1>1, <1>2, PTL DEF Spec

\* returned_global is set only if the method has a return or a folded if.
THEOREM FlagIsHonest == Spec => []FlagMeansReturn
<1>1. LoopInv => FlagMeansReturn
  BY DEF LoopInv, FlagInv, Met, FlagMeansReturn
<1>2. QED
  BY <1>1, LoopInvariant, PTL

\* A method that must return a value and is accepted has a return, or a folded if,
\* that is in no loop, however its blocks, ifs and loops are nested.
THEOREM LoopsDoNotReturn == Spec => ReturnsOutsideLoops
<1>1. ASSUME LoopInv, Next, phase = "body", phase' = "decls",
             method_return_type # "VOID_TYPE"
      PROVE  returns \cap {"body", "branch", "folded"} # {}
  <2>1. CloseBody
    BY <1>1 DEF Next, DeclOfVariable, ExternMethod, MethodBody, EndOfProgram, Stop,
       SimpleStatement, IllTyped, ReturnStatement, ReturnOfOtherType, NestedBlock,
       WhileBlock, IfBlock, OpenBlock, CloseBlock, CloseThen, CloseElse,
       CloseFolded, EmptyBlock
  <2>2. /\ Current.father = "METHOD_DECL"
        /\ CellAfter(Current) # "NULL_TYPE"
    BY <1>1, <2>1 DEF CloseBody, MissingReturn
  <2>3. Met(frames, returns, Len(frames))
    BY <1>1, <2>2, CellMeansMet
  <2>4. Len(frames) = 1 /\ Current = frames[Len(frames)]
    BY <1>1, <2>2, CurrentFacts
  <2>5. ~Looped(frames, Len(frames))
    BY <2>2, <2>4 DEF Looped
  <2>6. QED
    BY <2>3, <2>5 DEF Met, Outside
<1>2. LoopInv /\ [Next]_vars =>
        [phase = "body" /\ phase' = "decls" /\ method_return_type # "VOID_TYPE"
           => returns \cap {"body", "branch", "folded"} # {}]_vars
  BY <1>1
<1>3. QED
  BY <1>2, LoopInvariant, PTL DEF Spec, ReturnsOutsideLoops

-----------------------------------------------------------------------------
(* A return that is a statement of the body itself.                        *)

\* the outermost pending block, the body, knows of the return and has its type
BodyInv ==
  /\ phase = "body" /\ "body" \in returns =>
       frames[1].returned = TRUE /\ frames[1].ret # "NULL_TYPE"
  /\ BodyReturnIsFound

SameCell(f, g) == f.returned = g.returned /\ f.ret = g.ret

\* The top of the stack is replaced by a block with the same cell.
LEMMA BottomKeptByReplace ==
  ASSUME NEW fr \in Seq(Frame), fr # <<>>, NEW x \in Frame
  PROVE  /\ Append(Front(fr), x) \in Seq(Frame)
         /\ Len(Append(Front(fr), x)) = Len(fr)
         /\ Len(fr) # 1 => Append(Front(fr), x)[1] = fr[1]
         /\ Len(fr) = 1 => Append(Front(fr), x)[1] = x
<1>1. PICK f \in Seq(Frame) : /\ f = Front(fr) /\ Len(f) = Len(fr) - 1
                              /\ \A i \in 1 .. Len(fr) - 1 : f[i] = fr[i]
  BY FrontAndLast
<1>2. /\ Append(f, x) \in Seq(Frame) /\ Len(Append(f, x)) = Len(f) + 1
      /\ \A i \in 1 .. Len(f) : Append(f, x)[i] = f[i]
      /\ Append(f, x)[Len(f) + 1] = x
  BY AppendProperties
<1>3. Len(fr) \in Nat \ {0}
  BY FrontAndLast
<1>4. Len(fr) # 1 => 1 \in 1 .. Len(fr) - 1
  <2>1. \A m \in Nat \ {0} : m # 1 => 1 \in 1 .. m - 1
    OBVIOUS
  <2> QED
    BY <1>3, <2>1, Zenon
<1> QED
  BY <1>1, <1>2, <1>3, <1>4

\* What the statements of a block write into its frame.
LEMMA NotEmptySameCell ==
  ASSUME NEW f \in Frame
  PROVE  [f EXCEPT !.empty = FALSE] \in Frame /\ SameCell([f EXCEPT !.empty = FALSE], f)
BY DEF Frame, SameCell

LEMMA AllSameCell ==
  ASSUME NEW f \in Frame, NEW b \in BOOLEAN
  PROVE  [f EXCEPT !.all = @ \/ b] \in Frame /\ SameCell([f EXCEPT !.all = @ \/ b], f)
BY DEF Frame, SameCell

LEMMA ReturnInCell ==
  ASSUME NEW f \in Frame, NEW t \in ReturnTypes
  PROVE  LET x == [f EXCEPT !.empty = FALSE, !.returned = TRUE, !.all = TRUE, !.ret = t]
         IN  x \in Frame /\ x.returned = TRUE /\ x.ret = t
BY DEF Frame, RetType, ReturnTypes

\* A statement of the current block does not touch the cell of the body.
LEMMA BottomKeptByStatement ==
  ASSUME LoopInv, phase = "body", NEW x \in Frame, SameCell(x, Current)
  PROVE  SameCell(Append(Front(frames), x)[1], frames[1])
<1>1. frames \in Seq(Frame) /\ frames # <<>> /\ Current = frames[Len(frames)]
  BY CurrentFacts DEF LoopInv, FramesInv
<1>2. PICK fr \in Seq(Frame) : fr = frames /\ fr # <<>>
  BY <1>1
<1>3. /\ Len(fr) # 1 => Append(Front(fr), x)[1] = fr[1]
      /\ Len(fr) = 1 => Append(Front(fr), x)[1] = x
  BY <1>2, BottomKeptByReplace
<1> QED
  BY <1>1, <1>2, <1>3 DEF SameCell

\* Neither does a block that is entered.
LEMMA BottomKeptByEnter ==
  ASSUME LoopInv, phase = "body", NEW f \in Frame
  PROVE  SameCell(Enter(f)[1], frames[1])
<1>1. frames \in Seq(Frame) /\ frames # <<>> /\ Current \in Frame
  BY CurrentFacts DEF LoopInv, FramesInv
<1>2. PICK x \in Frame : x = [Current EXCEPT !.empty = FALSE] /\ SameCell(x, Current)
  BY <1>1, NotEmptySameCell
<1>3. SameCell(Append(Front(frames), x)[1], frames[1])
  BY <1>2, BottomKeptByStatement
<1>4. PICK fr \in Seq(Frame) : fr = frames /\ fr # <<>>
  BY <1>1
<1>5. PICK g \in Seq(Frame) : g = Append(Front(fr), x) /\ Len(g) = Len(fr)
  BY <1>4, BottomKeptByReplace
<1>6. 1 \in 1 .. Len(g)
  BY <1>4, <1>5, FrontAndLast
<1>7. Append(g, f)[1] = g[1]
  BY <1>6, AppendProperties
<1> QED
  BY <1>2, <1>3, <1>4, <1>5, <1>7 DEF Enter

\* Nor a block inside the body that is left.
LEMMA BottomKeptByLeave ==
  ASSUME LoopInv, phase = "body", Current.father # "METHOD_DECL", NEW b \in BOOLEAN
  PROVE  SameCell(Leave(b)[1], frames[1])
<1>1. /\ frames \in Seq(Frame) /\ frames # <<>> /\ Len(frames) # 1
      /\ Len(frames) \in Nat \ {0}
  BY CurrentFacts DEF LoopInv, FramesInv
<1>2. PICK fr \in Seq(Frame) : fr = frames /\ fr # <<>> /\ Len(fr) # 1
  BY <1>1
<1>3. PICK outer \in Seq(Frame) : /\ outer = Front(fr) /\ Len(outer) = Len(fr) - 1
                                  /\ \A i \in 1 .. Len(fr) - 1 : outer[i] = fr[i]
                                  /\ outer # <<>>
  BY <1>2, FrontAndLast
<1>4. outer[1] = fr[1] /\ Last(outer) \in Frame /\ Last(outer) = outer[Len(outer)]
  <2>1. 1 \in 1 .. Len(fr) - 1
    <3>1. \A m \in Nat \ {0} : m # 1 => 1 \in 1 .. m - 1
      OBVIOUS
    <3> QED
      BY <1>1, <1>2, <3>1, Zenon
  <2> QED
    BY <1>3, <2>1, FrontAndLast
<1>5. PICK x \in Frame : x = [Last(outer) EXCEPT !.all = @ \/ b] /\ SameCell(x, Last(outer))
  BY <1>4, AllSameCell
<1>6. /\ Len(outer) # 1 => Append(Front(outer), x)[1] = outer[1]
      /\ Len(outer) = 1 => Append(Front(outer), x)[1] = x
  BY <1>3, BottomKeptByReplace
<1>7. SameCell(Append(Front(outer), x)[1], fr[1])
  BY <1>4, <1>5, <1>6 DEF SameCell
<1> QED
  BY <1>2, <1>3, <1>5, <1>7 DEF Leave

\* What leaves the cell of the body alone, and meets no return in the body.
LEMMA SameCellKeeps ==
  ASSUME BodyInv, phase = "body", phase' = "body",
         SameCell(frames'[1], frames[1]), "body" \in returns' => "body" \in returns
  PROVE  BodyInv'
BY DEF BodyInv, SameCell, BodyReturnIsFound

\* The statements of a block.
LEMMA BodyInvStatements ==
  ASSUME LoopInv, BodyInv,
         \/ SimpleStatement \/ NestedBlock \/ WhileBlock
         \/ \E after \in {"else", "pop", "fold"} : IfBlock(after)
         \/ \E t \in ReturnTypes : ReturnStatement(t)
  PROVE  BodyInv'
<1>1. phase = "body" /\ phase' = "body"
  BY DEF SimpleStatement, NestedBlock, WhileBlock, IfBlock, OpenBlock, ReturnStatement
<1>2. Current \in Frame
  BY <1>1, CurrentFacts
<1>3. CASE SimpleStatement
  <2>1. PICK x \in Frame : x = [Current EXCEPT !.empty = FALSE] /\ SameCell(x, Current)
    BY <1>2, NotEmptySameCell
  <2>2. frames' = Append(Front(frames), x) /\ returns' = returns
    BY <1>3, <2>1 DEF SimpleStatement
  <2>3. SameCell(frames'[1], frames[1])
    BY <1>1, <2>1, <2>2, BottomKeptByStatement
  <2> QED
    BY <1>1, <2>2, <2>3, SameCellKeeps
<1>4. CASE NestedBlock \/ WhileBlock \/ \E after \in {"else", "pop", "fold"} : IfBlock(after)
  <2>1. PICK f \in Frame : OpenBlock(f)
    BY <1>4, FreshBlock DEF NestedBlock, WhileBlock, IfBlock, FreshCell, RetType
  <2>2. frames' = Enter(f) /\ returns' = returns
    BY <2>1 DEF OpenBlock
  <2>3. SameCell(frames'[1], frames[1])
    BY <1>1, <2>2, BottomKeptByEnter
  <2> QED
    BY <1>1, <2>2, <2>3, SameCellKeeps
<1>5. CASE \E t \in ReturnTypes : ReturnStatement(t)
  <2>1. PICK t \in ReturnTypes : ReturnStatement(t)
    BY <1>5
  <2>2. PICK x \in Frame : /\ x = [Current EXCEPT !.empty = FALSE, !.returned = TRUE,
                                                  !.all = TRUE, !.ret = t]
                           /\ x.returned = TRUE /\ x.ret = t
    BY <1>2, <2>1, ReturnInCell
  <2>3. frames' = Append(Front(frames), x) /\ returns' = returns \cup {Place}
    BY <2>1, <2>2 DEF ReturnStatement
  <2>4. PICK fr \in Seq(Frame) : fr = frames /\ fr # <<>>
    BY <1>1, CurrentFacts DEF LoopInv, FramesInv
  <2>5. /\ Len(fr) # 1 => Append(Front(fr), x)[1] = fr[1]
        /\ Len(fr) = 1 => Append(Front(fr), x)[1] = x
    BY <2>4, BottomKeptByReplace
  <2>6. CASE Len(frames) = 1
    <3>1. frames'[1].returned = TRUE /\ frames'[1].ret # "NULL_TYPE"
      BY <2>2, <2>3, <2>4, <2>5, <2>6 DEF ReturnTypes
    <3> QED
      BY <1>1, <3>1 DEF BodyInv, BodyReturnIsFound
  <2>7. CASE Len(frames) # 1
    <3>1. Place # "body"
      BY <2>7 DEF Place
    <3>2. SameCell(frames'[1], frames[1])
      BY <2>3, <2>4, <2>5, <2>7 DEF SameCell
    <3> QED
      BY <1>1, <2>3, <3>1, <3>2, SameCellKeeps
  <2> QED
    BY <2>6, <2>7
<1> QED
  BY <1>3, <1>4, <1>5

\* The end of a block inside the body.
LEMMA BodyInvCloses ==
  ASSUME LoopInv, BodyInv,
         CloseBlock \/ (\E has_else \in BOOLEAN : CloseThen(has_else))
           \/ CloseElse \/ CloseFolded
  PROVE  BodyInv'
<1>1. /\ phase = "body" /\ phase' = "body"
      /\ "body" \in returns' => "body" \in returns
  BY DEF CloseBlock, CloseThen, CloseElse, CloseFolded, EndOfBlock
<1>2. Current \in Frame /\ FrameOK(Current)
  BY <1>1, CurrentFacts
<1>3. Current.father # "METHOD_DECL"
  BY <1>2 DEF CloseBlock, CloseThen, CloseElse, CloseFolded, FrameOK
<1>4. CASE \E b \in BOOLEAN : frames' = Leave(b)
  <2>1. SameCell(frames'[1], frames[1])
    BY <1>1, <1>3, <1>4, BottomKeptByLeave
  <2> QED
    BY <1>1, <2>1, SameCellKeeps
<1>5. CASE \E x \in Frame : frames' = Append(Front(frames), x)
  <2>1. PICK x \in Frame : frames' = Append(Front(frames), x)
    BY <1>5
  <2>2. PICK fr \in Seq(Frame) : fr = frames /\ fr # <<>> /\ Len(fr) # 1
    BY <1>1, <1>3, CurrentFacts DEF LoopInv, FramesInv
  <2>3. Append(Front(fr), x)[1] = fr[1]
    BY <2>2, BottomKeptByReplace
  <2>4. SameCell(frames'[1], frames[1])
    BY <2>1, <2>2, <2>3 DEF SameCell
  <2> QED
    BY <1>1, <2>4, SameCellKeeps
<1>6. (\E b \in BOOLEAN : frames' = Leave(b))
        \/ \E x \in Frame : frames' = Append(Front(frames), x)
  <2>1. Current.all \in BOOLEAN /\ Current.allThen \in BOOLEAN
    BY <1>2 DEF Frame
  <2>2. CASE CloseBlock
    <3>1. (Current.father = "BLOCK" /\ Current.all) \in BOOLEAN
      OBVIOUS
    <3> QED
      BY <2>2, <3>1 DEF CloseBlock
  <2>3. CASE CloseElse
    <3>1. (Current.allThen /\ Current.all) \in BOOLEAN
      OBVIOUS
    <3> QED
      BY <2>3, <3>1 DEF CloseElse
  <2>4. CASE CloseFolded
    BY <2>1, <2>4 DEF CloseFolded
  <2>5. CASE \E has_else \in BOOLEAN : CloseThen(has_else)
    <3> DEFINE x == [Block("IF", "join", FreshCell) EXCEPT
                       !.retThen = CellAfter(Current), !.allThen = Current.all]
    <3>1. x \in Frame
      BY <1>2 DEF Block, FreshCell, Frame, RetType, ReturnTypes, CellAfter
    <3>2. frames' = Append(Front(frames), x) \/ frames' = Leave(FALSE)
      BY <2>5 DEF CloseThen
    <3> HIDE DEF x
    <3> QED
      BY <3>1, <3>2
  <2> QED
    BY <2>2, <2>3, <2>4, <2>5
<1> QED
  BY <1>4, <1>5, <1>6

\* The end of the body: its own cell has the type of the return.
LEMMA BodyInvCloseBody ==
  ASSUME LoopInv, BodyInv, CloseBody
  PROVE  BodyInv'
<1>1. /\ phase = "body" /\ Current.father = "METHOD_DECL"
      /\ phase' = IF MissingReturn(CellAfter(Current), method_return_type)
                  THEN "missing_return" ELSE "decls"
      /\ returns' = returns \cup (IF Current.all THEN {"every path"} ELSE {})
  BY DEF CloseBody, EndOfBlock
<1>2. Current = frames[1]
  BY <1>1, CurrentFacts
<1>3. "body" \in returns' => "body" \in returns
  BY <1>1
<1>4. "body" \in returns => CellAfter(Current) # "NULL_TYPE"
  BY <1>1, <1>2 DEF BodyInv, CellAfter
<1>5. "body" \in returns => phase' = "decls"
  BY <1>1, <1>4 DEF MissingReturn
<1> QED
  BY <1>1, <1>3, <1>5 DEF BodyInv, BodyReturnIsFound

\* Everything else is not in a body, or ends the compilation for another reason.
LEMMA BodyInvOthers ==
  ASSUME BodyInv,
         \/ \E right \in RetType : DeclOfVariable(right)
         \/ \E type \in ReturnTypes, is_main \in BOOLEAN :
              ExternMethod(type, is_main) \/ MethodBody(type, is_main)
         \/ EndOfProgram \/ IllTyped \/ EmptyBlock
         \/ \E t \in ReturnTypes : ReturnOfOtherType(t)
         \/ UNCHANGED vars
  PROVE  BodyInv'
<1>1. CASE UNCHANGED vars
  BY <1>1 DEF vars, BodyInv, BodyReturnIsFound
<1>2. CASE \E type \in ReturnTypes, is_main \in BOOLEAN : MethodBody(type, is_main)
  BY <1>2 DEF MethodBody, BodyInv, BodyReturnIsFound
<1>3. CASE \/ \E right \in RetType : DeclOfVariable(right)
           \/ \E type \in ReturnTypes, is_main \in BOOLEAN : ExternMethod(type, is_main)
           \/ EndOfProgram \/ IllTyped \/ EmptyBlock
           \/ \E t \in ReturnTypes : ReturnOfOtherType(t)
  <2>1. phase' # "body" /\ phase' # "missing_return"
    BY <1>3 DEF DeclOfVariable, ExternMethod, EndOfProgram, IllTyped, EmptyBlock,
                ReturnOfOtherType, Stop
  <2> QED
    BY <2>1 DEF BodyInv, BodyReturnIsFound
<1> QED
  BY <1>1, <1>2, <1>3

\* A method with a return among the statements of its body is never rejected as missing
\* one, whatever blocks, loops and ifs around it set and reset the flag.
THEOREM BodyReturnsAreFound == Spec => []BodyReturnIsFound
<1>1. Init => BodyInv
  BY DEF Init, BodyInv, BodyReturnIsFound
<1>2. LoopInv /\ BodyInv /\ [Next]_vars => BodyInv'
  BY BodyInvStatements, BodyInvCloses, BodyInvCloseBody, BodyInvOthers DEF Next
<1>3. BodyInv => BodyReturnIsFound
  BY DEF BodyInv
<1> QED
  BY <1>1, <1>2, <1>3, LoopInvariant, PTL DEF Spec

\* The analysis keeps its variables in their types; what frames, ret and the flag may
\* be is part of the invariant above.
THEOREM ReturnTypesCorrect == Spec => []TypeOK
<1>1. Init => TypeOK
  <2>1. <<>> \in Seq(Frame)
    OBVIOUS
  <2> QED
    BY <2>1 DEF Init, TypeOK
<1>2. ASSUME LoopInv, LoopInv', TypeOK, [Next]_vars
      PROVE  TypeOK'
  <2>1. /\ ret' \in RetType /\ returned_global' \in BOOLEAN /\ frames' \in Seq(Frame)
    BY <1>2 DEF LoopInv, FlagInv, FramesInv
  <2>2. method_return_type' \in ReturnTypes /\ main_defined' \in BOOLEAN
    BY <1>2 DEF TypeOK, Next, vars, DeclOfVariable, ExternMethod, MethodBody, EndOfProgram,
       Stop, SimpleStatement, IllTyped, ReturnStatement, ReturnOfOtherType, NestedBlock,
       WhileBlock, IfBlock, OpenBlock, CloseBlock, CloseThen, CloseElse, CloseFolded,
       CloseBody, EmptyBlock
  <2>3. phase' \in {"decls", "body", "accepted", "missing_return",
                    "missing_return_extern", "main_missing", "type_error",
                    "return_type_error", "null_node"}
    BY <1>2 DEF TypeOK, Next, vars, DeclOfVariable, ExternMethod, MethodBody, EndOfProgram,
       Stop, SimpleStatement, IllTyped, ReturnStatement, ReturnOfOtherType, NestedBlock,
       WhileBlock, IfBlock, OpenBlock, CloseBlock, CloseThen, CloseElse, CloseFolded,
       CloseBody, EmptyBlock
  <2>4. returns' \subseteq {"body", "branch", "loop", "folded", "every path"}
    <3>1. Place \in {"body", "branch", "loop"}
      BY DEF Place
    <3> QED
      BY <1>2, <3>1 DEF TypeOK, Next, vars, DeclOfVariable, ExternMethod, MethodBody,
         EndOfProgram, Stop, SimpleStatement, IllTyped, ReturnStatement, ReturnOfOtherType,
         NestedBlock, WhileBlock, IfBlock, OpenBlock, CloseBlock, CloseThen, CloseElse,
         CloseFolded, CloseBody, EmptyBlock
  <2> QED
    BY <2>1, <2>2, <2>3, <2>4 DEF TypeOK
<1> QED
  BY <1>1, <1>2, LoopInvariant, PTL DEF Spec
=============================================================================
