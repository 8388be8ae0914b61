------------------------ MODULE ParserScopes_proofs ------------------------
(***************************************************************************)
(* Theorems about ParserScopes, for every set of identifiers and any       *)
(* number of scopes.                                                       *)
(*                                                                         *)
(* The types and the stack discipline depend on each other: a method       *)
(* records the top of the stack, which exists only because the discipline  *)
(* holds, and pushing keeps the chain only because the table is well       *)
(* formed.  So they are proved together, as the inductive invariant        *)
(* TypeOK /\ ScopeInv.                                                     *)
(*                                                                         *)
(* From it follow the rest: no name is declared twice in a scope, a scope  *)
(* that is left is never touched again, and the scopes of the parser       *)
(* implement the block structured visibility of LexicalScopes.             *)
(***************************************************************************)
EXTENDS ParserScopes, SequenceTheorems, WellFoundedInduction, TLAPS

-----------------------------------------------------------------------------
(* What the operations of the symbol table keep.                           *)

LEMMA ChainGrows ==
  ASSUME NEW st \in Seq(Nat \ {0}), NEW k \in Nat \ {0}, Chain(st, k)
  PROVE  Chain(Append(st, k + 1), k + 1)
BY DEF Chain, Global

LEMMA PrefixOfSeq ==
  ASSUME NEW S, NEW b \in Seq(S), NEW n \in Nat, n < Len(b)
  PROVE  /\ SubSeq(b, 1, n) \in Seq(S)
         /\ Len(SubSeq(b, 1, n)) = n
         /\ \A i \in 1 .. n : SubSeq(b, 1, n)[i] = b[i]
OBVIOUS

LEMMA FrontOfSeq ==
  ASSUME NEW S, NEW b \in Seq(S), b # <<>>
  PROVE  /\ SubSeq(b, 1, Len(b) - 1) \in Seq(S)
         /\ Len(SubSeq(b, 1, Len(b) - 1)) = Len(b) - 1
         /\ \A i \in 1 .. Len(b) - 1 : SubSeq(b, 1, Len(b) - 1)[i] = b[i]
         /\ SubSeq(b, 1, Len(b) - 1) = <<>> <=> Len(b) = 1
<1> DEFINE f == SubSeq(b, 1, Len(b) - 1)
<1>1. Len(b) \in Nat /\ Len(b) # 0
  OBVIOUS
<1>2. Len(b) - 1 \in Nat /\ Len(b) - 1 < Len(b)
  BY <1>1
<1>3. f \in Seq(S) /\ Len(f) = Len(b) - 1 /\ \A i \in 1 .. Len(b) - 1 : f[i] = b[i]
  BY <1>2, PrefixOfSeq, Zenon
<1> HIDE DEF f
<1>4. f = <<>> <=> Len(f) = 0
  BY <1>3, EmptySeq
<1>5. QED
  BY <1>1, <1>3, <1>4 DEF f

\* only a chain of one scope ends at the global scope
LEMMA OnlyGlobalAtTheBottom ==
  ASSUME NEW st \in Seq(Nat \ {0}), NEW k \in Nat, Chain(st, k), st # <<>>
  PROVE  st[Len(st)] = Global <=> Len(st) = 1
<1>1. Len(st) \in Nat /\ Len(st) # 0 /\ DOMAIN st = 1 .. Len(st)
  OBVIOUS
<1>2. st[1] = Global
  BY DEF Chain
<1>3. CASE Len(st) # 1
  <2>1. 1 \in DOMAIN st /\ Len(st) \in DOMAIN st /\ 1 < Len(st)
    BY <1>1, <1>3
  <2>2. st[1] < st[Len(st)]
    BY <2>1 DEF Chain
  <2>3. QED
    BY <1>2, <1>3, <2>2 DEF Global
<1>4. QED
  BY <1>2, <1>3

LEMMA ChainShrinks ==
  ASSUME NEW st \in Seq(Nat \ {0}), NEW k \in Nat, Chain(st, k), st # <<>>,
         Len(st) # 1
  PROVE  Chain(SubSeq(st, 1, Len(st) - 1), k)
<1> DEFINE s == SubSeq(st, 1, Len(st) - 1)
<1>1. /\ s \in Seq(Nat \ {0})
      /\ Len(s) = Len(st) - 1
      /\ \A i \in 1 .. Len(st) - 1 : s[i] = st[i]
      /\ s # <<>>
  BY FrontOfSeq, Zenon
<1>2. Len(st) \in Nat /\ Len(st) # 0
  OBVIOUS
<1> HIDE DEF s
<1>3. 1 \in 1 .. Len(st) - 1
  <2>1. \A d \in Nat : d # 0 /\ d # 1 => 1 \in 1 .. d - 1
    OBVIOUS
  <2>2. QED
    BY <1>2, <2>1, Zenon
<1>4. s[1] = st[1]
  BY <1>1, <1>3
<1>5. /\ DOMAIN s = 1 .. Len(st) - 1 /\ DOMAIN st = 1 .. Len(st)
      /\ \A i \in DOMAIN s : i \in DOMAIN st
  BY <1>1, <1>2
<1>6. Chain(s, k)
  BY <1>1, <1>4, <1>5 DEF Chain
<1>7. QED
  BY <1>6 DEF s

LEMMA StartedKeeps ==
  ASSUME NEW t \in Table, UpChain(t)
  PROVE  /\ Started(t) \in Table
         /\ UpChain(Started(t))
         /\ Started(t).stack # <<>>
         /\ Len(Started(t).scopes) \in Nat \ {0}
         /\ t.stack # <<>> => Started(t) = t
         /\ t.stack = <<>> => Len(Started(t).stack) = 1
BY DEF Started, st_init, Table, UpChain, Chain, Global

LEMMA PushKeeps ==
  ASSUME NEW t \in Table, UpChain(t)
  PROVE  /\ push_scope(t) \in Table
         /\ UpChain(push_scope(t))
         /\ Len(push_scope(t).stack) = Len(Started(t).stack) + 1
<1> DEFINE st == Started(t).stack
           sc == Started(t).scopes
<1>1. st \in Seq(Nat \ {0}) /\ sc \in Seq(Seq(Name))
  BY StartedKeeps DEF Table
<1>2. Chain(st, Len(sc)) /\ Len(sc) \in Nat \ {0}
  BY StartedKeeps DEF UpChain
<1>3. push_scope(t) = [stack |-> Append(st, Len(sc) + 1), scopes |-> Append(sc, <<>>)]
  BY DEF push_scope, Push
<1> HIDE DEF st, sc
<1>4. Chain(Append(st, Len(sc) + 1), Len(sc) + 1)
  BY <1>1, <1>2, ChainGrows
<1>5. /\ Append(sc, <<>>) \in Seq(Seq(Name))
      /\ Len(Append(sc, <<>>)) = Len(sc) + 1
      /\ Append(st, Len(sc) + 1) \in Seq(Nat \ {0})
      /\ Len(Append(st, Len(sc) + 1)) = Len(st) + 1
  BY <1>1
<1>6. Len(push_scope(t).stack) = Len(st) + 1
  BY <1>3, <1>5
<1>7. QED
  BY <1>3, <1>4, <1>5, <1>6 DEF Table, UpChain, st

LEMMA PopKeeps ==
  ASSUME NEW t \in Table, UpChain(t), t.stack # <<>>
  PROVE  /\ pop_scope(t) \in Table
         /\ UpChain(pop_scope(t))
         /\ pop_scope(t).stack # <<>>
         /\ pop_scope(t).scopes = t.scopes
         /\ Len(t.stack) = 1 => pop_scope(t) = t
         /\ Len(t.stack) # 1 => pop_scope(t).stack = SubSeq(t.stack, 1, Len(t.stack) - 1)
<1> DEFINE st == t.stack
           s  == SubSeq(st, 1, Len(st) - 1)
<1>1. /\ st \in Seq(Nat \ {0})
      /\ Chain(st, Len(t.scopes))
      /\ Len(t.scopes) \in Nat
      /\ t = [stack |-> st, scopes |-> t.scopes]
  BY DEF Table, UpChain
<1>2. Top(t) = Global <=> Len(st) = 1
  BY <1>1, OnlyGlobalAtTheBottom DEF Top
<1>3. CASE Len(st) = 1
  BY <1>2, <1>3 DEF pop_scope
<1>4. CASE Len(st) # 1
  <2>1. pop_scope(t) = [stack |-> s, scopes |-> t.scopes]
    BY <1>1, <1>2, <1>4 DEF pop_scope
  <2>2. s \in Seq(Nat \ {0}) /\ s # <<>>
    BY <1>1, <1>4, FrontOfSeq
  <2>3. Chain(s, Len(t.scopes))
    BY <1>1, <1>4, ChainShrinks
  <2> HIDE DEF s
  <2>4. QED
    BY <1>4, <2>1, <2>2, <2>3 DEF Table, UpChain, s
<1>5. QED
  BY <1>3, <1>4

\* one scope less, unless only the global one is left
LEMMA PopDepth ==
  ASSUME NEW t \in Table, UpChain(t), t.stack # <<>>
  PROVE  Len(pop_scope(t).stack) = IF Len(t.stack) = 1 THEN 1 ELSE Len(t.stack) - 1
<1>1. t.stack \in Seq(Nat \ {0})
  BY DEF Table
<1>2. QED
  BY <1>1, PopKeeps, FrontOfSeq

LEMMA LinkKeeps ==
  ASSUME NEW t \in Table, UpChain(t), NEW s \in DOMAIN t.scopes, NEW n \in Name
  PROVE  /\ Link(t, s, n) \in Table
         /\ UpChain(Link(t, s, n))
         /\ Link(t, s, n).stack = t.stack
<1> DEFINE sc == [t.scopes EXCEPT ![s] = Append(@, n)]
<1>1. Link(t, s, n) = [stack |-> t.stack, scopes |-> sc]
  BY DEF Link
<1>2. t.scopes \in Seq(Seq(Name)) /\ t.stack \in Seq(Nat \ {0})
  BY DEF Table
<1>3. sc \in Seq(Seq(Name)) /\ Len(sc) = Len(t.scopes)
  BY <1>2
<1> HIDE DEF sc
<1>4. QED
  BY <1>1, <1>2, <1>3 DEF Table, UpChain

\* where the next symbol goes: the innermost scope, or the global one
LEMMA TopIsAllocated ==
  ASSUME NEW t \in Table, UpChain(t), t.stack # <<>>
  PROVE  /\ Top(t) \in DOMAIN t.scopes
         /\ Top(t) \in Nat \ {0}
         /\ Global \in DOMAIN t.scopes
<1>1. t.stack \in Seq(Nat \ {0}) /\ t.scopes \in Seq(Seq(Name))
  BY DEF Table
<1>2. Len(t.stack) \in DOMAIN t.stack /\ 1 \in DOMAIN t.stack
  BY <1>1
<1>3. QED
  BY <1>1, <1>2 DEF Top, UpChain, Chain

LEMMA AddIdKeeps ==
  ASSUME NEW t \in Table, UpChain(t), NEW n \in Name
  PROVE  /\ add_id(t, n) \in Table
         /\ UpChain(add_id(t, n))
         /\ add_id(t, n).stack = Started(t).stack
<1> DEFINE u == Started(t)
<1>1. u \in Table /\ UpChain(u) /\ u.stack # <<>>
  BY StartedKeeps
<1>2. add_id(t, n) = Link(u, Top(u), n)
  BY DEF add_id
<1> HIDE DEF u
<1>3. Top(u) \in DOMAIN u.scopes
  BY <1>1, TopIsAllocated
<1>4. QED
  BY <1>1, <1>2, <1>3, LinkKeeps DEF u

LEMMA AddMethodKeeps ==
  ASSUME NEW t \in Table, UpChain(t), NEW n \in Name
  PROVE  /\ add_method(t, n) \in Table
         /\ UpChain(add_method(t, n))
         /\ add_method(t, n).stack = Started(t).stack
<1> DEFINE u == Started(t)
<1>1. u \in Table /\ UpChain(u) /\ u.stack # <<>>
  BY StartedKeeps
<1>2. add_method(t, n) = Link(u, Global, n)
  BY DEF add_method
<1> HIDE DEF u
<1>3. Global \in DOMAIN u.scopes
  BY <1>1, TopIsAllocated
<1>4. QED
  BY <1>1, <1>2, <1>3, LinkKeeps DEF u

-----------------------------------------------------------------------------
(* The inductive invariant.                                                *)

IInv == TypeOK /\ ScopeInv

LEMMA InitEstablishes == Init => IInv
<1> SUFFICES ASSUME Init PROVE IInv
  OBVIOUS
<1>1. symtab \in Table /\ UpChain(symtab) /\ Len(symtab.stack) = 0
  BY DEF Init, empty_table, Table, UpChain, Chain
<1>2. TypeOK
  <2>1. /\ <<>> \in Seq(Name) /\ <<>> \in Seq(BOOLEAN) /\ <<>> \in Seq(Method)
        /\ <<>> \in Seq(Seq(Name))
    OBVIOUS
  <2>2. QED
    BY <1>1, <2>1 DEF Init, TypeOK, Phases
<1>3. ScopeInv
  BY <1>1 DEF Init, ScopeInv, ScopePerBlock, BlocksInBody, FlagsMatchBlocks
<1>4. QED
  BY <1>2, <1>3 DEF IInv

\* the depths that the invariant speaks of are numbers
LEMMA DepthIsNat ==
  ASSUME TypeOK
  PROVE  /\ Len(symtab.stack) \in Nat
         /\ symtab.stack = <<>> <=> Len(symtab.stack) = 0
         /\ Len(blocks) \in Nat
         /\ blocks = <<>> <=> Len(blocks) = 0
<1>1. symtab.stack \in Seq(Nat \ {0})
  BY DEF TypeOK, Table
<1>2. QED
  BY <1>1 DEF TypeOK

LEMMA VarDeclKeeps ==
  ASSUME IInv, NEW n \in Name, var_decl(n)
  PROVE  IInv'
<1>1. TypeOK /\ symtab \in Table /\ UpChain(symtab)
  BY DEF IInv, TypeOK, ScopeInv
<1>2. symtab' \in Table /\ UpChain(symtab') /\ symtab'.stack = Started(symtab).stack
  BY <1>1, AddIdKeeps DEF var_decl
<1>3. TypeOK'
  BY <1>1, <1>2 DEF TypeOK, var_decl
<1>4. Len(symtab'.stack) = IF symtab.stack = <<>> THEN 1 ELSE Len(symtab.stack)
  BY <1>1, <1>2, StartedKeeps
<1>5. ScopePerBlock'
  BY <1>1, <1>4, DepthIsNat
     DEF IInv, ScopeInv, ScopePerBlock, BlocksInBody, var_decl, VarDeclAllowed
<1>6. BlocksInBody' /\ FlagsMatchBlocks'
  BY DEF IInv, ScopeInv, BlocksInBody, FlagsMatchBlocks, var_decl
<1>7. QED
  BY <1>2, <1>3, <1>5, <1>6 DEF IInv, ScopeInv

LEMMA MethodArgsKeeps ==
  ASSUME IInv, NEW n \in Name, method_args(n)
  PROVE  IInv'
<1>1. TypeOK /\ symtab \in Table /\ UpChain(symtab)
  BY DEF IInv, TypeOK, ScopeInv
<1>2. symtab' \in Table /\ UpChain(symtab')
      /\ Len(symtab'.stack) = Len(Started(symtab).stack) + 1
  BY <1>1, PushKeeps DEF method_args
<1>3. TypeOK'
  <2>1. headers' \in Seq(Seq(Name))
    <3>1. <<>> \in Seq(Name) /\ headers \in Seq(Seq(Name))
      BY <1>1 DEF TypeOK
    <3> QED
      BY <3>1 DEF method_args
  <2>2. QED
    BY <1>1, <1>2, <2>1 DEF TypeOK, method_args, Phases
<1>4. Len(symtab'.stack) = 2
  <2>1. Len(symtab.stack) \in 0 .. 1
    BY Zenon DEF IInv, ScopeInv, ScopePerBlock, method_args
  <2>2. Len(Started(symtab).stack) = 1
    BY <1>1, <2>1, StartedKeeps, DepthIsNat
  <2>3. QED
    BY <1>2, <2>2
<1>5. ScopePerBlock' /\ BlocksInBody' /\ FlagsMatchBlocks'
  BY <1>4 DEF IInv, ScopeInv, ScopePerBlock, BlocksInBody, FlagsMatchBlocks, method_args
<1>6. QED
  BY <1>2, <1>3, <1>5 DEF IInv, ScopeInv

LEMMA ArgListKeeps ==
  ASSUME IInv, NEW n \in Name, arg_list(n)
  PROVE  IInv'
<1>1. TypeOK /\ symtab \in Table /\ UpChain(symtab) /\ phase = "args"
  BY DEF IInv, TypeOK, ScopeInv, arg_list
<1>2. Len(symtab.stack) = 2
  BY <1>1 DEF IInv, ScopeInv, ScopePerBlock
<1>3. symtab' \in Table /\ UpChain(symtab') /\ symtab'.stack = symtab.stack
  BY <1>1, <1>2, AddIdKeeps, StartedKeeps, DepthIsNat DEF arg_list
<1>4. TypeOK'
  <2>1. current_args_list' \in Seq(Name)
    BY <1>1 DEF TypeOK, arg_list
  <2>2. headers' \in Seq(Seq(Name))
    <3>1. headers \in Seq(Seq(Name))
      BY <1>1 DEF TypeOK
    <3>h. PICK h \in Seq(Seq(Name)) : h = headers
      BY <3>1
    <3>a. PICK a : a = Append(headers[Len(headers)], n)
      OBVIOUS
    <3>2. h = headers /\ a = Append(headers[Len(headers)], n)
      BY <3>h, <3>a
    <3>3. Len(h) \in DOMAIN h => a \in Seq(Name)
      BY <3>2
    <3>4. headers' = [h EXCEPT ![Len(h)] = a]
      BY <3>2 DEF arg_list
    <3>5. /\ Len(h) \in Nat /\ DOMAIN h = 1 .. Len(h)
          /\ \A k \in 1 .. Len(h) : h[k] \in Seq(Name)
      OBVIOUS
    <3>6. PICK g : g = [h EXCEPT ![Len(h)] = a]
      OBVIOUS
    <3>7. CASE Len(h) \in 1 .. Len(h)
      BY <3>3, <3>4, <3>5, <3>7, ExceptSeq
    <3>8. CASE Len(h) \notin 1 .. Len(h)
      <4>1. g = h
        BY <3>5, <3>6, <3>8
      <4> QED
        BY <3>4, <3>6, <4>1
    <3>9. QED
      BY <3>7, <3>8
  <2>3. QED
    BY <1>1, <1>3, <2>1, <2>2 DEF TypeOK, arg_list
<1>5. ScopePerBlock' /\ BlocksInBody' /\ FlagsMatchBlocks'
  BY <1>3 DEF IInv, ScopeInv, ScopePerBlock, BlocksInBody, FlagsMatchBlocks, arg_list
<1>6. QED
  BY <1>3, <1>4, <1>5 DEF IInv, ScopeInv

\* opening a block: every open one is marked, and a new one follows
LEMMA MarkAndAppend ==
  ASSUME NEW S, NEW mark \in S, NEW new \in S, NEW b \in Seq(S)
  PROVE  /\ Append([k \in DOMAIN b |-> mark], new) \in Seq(S)
         /\ Len(Append([k \in DOMAIN b |-> mark], new)) = Len(b) + 1
         /\ Append([k \in DOMAIN b |-> mark], new) # <<>>
<1> DEFINE before == [k \in DOMAIN b |-> mark]
<1>1. before \in Seq(S) /\ Len(before) = Len(b)
  OBVIOUS
<1> HIDE DEF before
<1>2. QED
  BY <1>1 DEF before

LEMMA BlockOpenKeeps ==
  ASSUME IInv, block_open
  PROVE  IInv'
<1>1. TypeOK /\ symtab \in Table /\ UpChain(symtab) /\ phase \in {"args", "body"}
  BY DEF IInv, TypeOK, ScopeInv, block_open
<1>3. /\ blocks' \in Seq(BOOLEAN)
      /\ Len(blocks') = Len(blocks) + 1
      /\ blocks' # <<>>
  <2>1. blocks \in Seq(BOOLEAN) /\ TRUE \in BOOLEAN /\ FALSE \in BOOLEAN
    BY <1>1 DEF TypeOK
  <2> DEFINE opened == Append([k \in DOMAIN blocks |-> TRUE], FALSE)
  <2>2. /\ opened \in Seq(BOOLEAN)
        /\ Len(opened) = Len(blocks) + 1
        /\ opened # <<>>
    BY <2>1, MarkAndAppend, Zenon
  <2>3. blocks' = opened
    BY DEF block_open
  <2>4. QED
    BY <2>2, <2>3, Zenon
<1>4. CASE phase = "args"
  <2>1. /\ suppress_next_block_push = TRUE
        /\ Len(symtab.stack) = 2
        /\ blocks = <<>>
    BY <1>4 DEF IInv, ScopeInv, ScopePerBlock, BlocksInBody, FlagsMatchBlocks
  <2>2. /\ symtab' = symtab
        /\ suppress_next_block_push' = FALSE
        /\ last_block_pushed' = FALSE
        /\ phase' = "body"
    BY <2>1 DEF block_open
  <2>3. TypeOK'
    BY <1>1, <1>3, <2>2 DEF TypeOK, Phases, block_open
  <2>4. Len(blocks') = 1
    BY <1>3, <2>1
  <2>5. ScopePerBlock' /\ BlocksInBody' /\ FlagsMatchBlocks'
    BY <1>3, <2>1, <2>2, <2>4 DEF ScopePerBlock, BlocksInBody, FlagsMatchBlocks
  <2>6. QED
    BY <1>1, <2>2, <2>3, <2>5 DEF IInv, ScopeInv
<1>5. CASE phase = "body"
  <2>1. /\ suppress_next_block_push = FALSE
        /\ Len(symtab.stack) = 1 + Len(blocks)
        /\ blocks # <<>>
    BY <1>5 DEF IInv, ScopeInv, ScopePerBlock, BlocksInBody, FlagsMatchBlocks
  <2>2. /\ symtab' = push_scope(symtab)
        /\ suppress_next_block_push' = FALSE
        /\ last_block_pushed' = TRUE
        /\ phase' = "body"
    BY <2>1 DEF block_open
  <2>3. Len(symtab.stack) \in Nat /\ Len(blocks) \in Nat /\ symtab.stack # <<>>
    BY <1>1, <2>1, DepthIsNat
  <2>4. /\ symtab' \in Table
        /\ UpChain(symtab')
        /\ Len(symtab'.stack) = Len(symtab.stack) + 1
    BY <1>1, <2>2, <2>3, PushKeeps, StartedKeeps
  <2>5. TypeOK'
    BY <1>1, <1>3, <2>2, <2>4 DEF TypeOK, Phases, block_open
  <2>6. Len(symtab'.stack) = 1 + Len(blocks')
    BY <1>3, <2>1, <2>3, <2>4
  <2>7. ScopePerBlock' /\ BlocksInBody' /\ FlagsMatchBlocks'
    BY <1>3, <2>2, <2>6 DEF ScopePerBlock, BlocksInBody, FlagsMatchBlocks
  <2>8. QED
    BY <2>4, <2>5, <2>7 DEF IInv, ScopeInv
<1>6. QED
  BY <1>1, <1>4, <1>5

LEMMA BlockCloseKeeps ==
  ASSUME IInv, block_close
  PROVE  IInv'
<1>1. TypeOK /\ symtab \in Table /\ UpChain(symtab) /\ phase = "body"
  BY DEF IInv, TypeOK, ScopeInv, block_close
<1>2. /\ suppress_next_block_push = FALSE
      /\ Len(symtab.stack) = 1 + Len(blocks)
      /\ blocks # <<>>
      /\ Len(blocks) > 1 => last_block_pushed = TRUE
  BY <1>1 DEF IInv, ScopeInv, ScopePerBlock, BlocksInBody, FlagsMatchBlocks
<1>3. /\ blocks' \in Seq(BOOLEAN)
      /\ Len(blocks') = Len(blocks) - 1
      /\ blocks' = <<>> <=> Len(blocks) = 1
  <2>1. blocks \in Seq(BOOLEAN)
    BY <1>1 DEF TypeOK
  <2>2. blocks' = SubSeq(blocks, 1, Len(blocks) - 1)
    BY DEF block_close
  <2>3. QED
    BY <1>2, <2>1, <2>2, FrontOfSeq, Zenon
<1>4. Len(blocks) \in Nat /\ Len(blocks) # 0
  BY <1>1, <1>2, DepthIsNat
<1>5. symtab.stack # <<>>
  BY <1>1, <1>2, <1>4, DepthIsNat
<1>6. symtab' \in Table /\ UpChain(symtab') /\ symtab' \in {symtab, pop_scope(symtab)}
  BY <1>1, <1>5, PopKeeps DEF block_close
<1>7. TypeOK'
  <2>1. phase' \in Phases
    BY DEF block_close, Phases
  <2>2. QED
    BY <1>1, <1>3, <1>6, <2>1 DEF TypeOK, block_close
<1>8. Len(pop_scope(symtab).stack) = Len(blocks)
  <2>1. Len(pop_scope(symtab).stack)
          = IF Len(symtab.stack) = 1 THEN 1 ELSE Len(symtab.stack) - 1
    BY <1>1, <1>5, PopDepth
  <2>2. Len(symtab.stack) = 1 + Len(blocks)
    BY <1>2
  <2>3. QED
    BY <1>4, <2>1, <2>2
<1>9. CASE Len(blocks) = 1
  <2>1. phase' = "closed" /\ blocks' = <<>>
    BY <1>3, <1>9 DEF block_close
  <2>2. Len(symtab'.stack) \in 1 .. 2
    BY <1>2, <1>6, <1>8, <1>9
  <2>3. ScopePerBlock' /\ BlocksInBody' /\ FlagsMatchBlocks'
    BY <2>1, <2>2 DEF ScopePerBlock, BlocksInBody, FlagsMatchBlocks
  <2>4. QED
    BY <1>6, <1>7, <2>3 DEF IInv, ScopeInv
<1>10. CASE Len(blocks) # 1
  <2>1. last_block_pushed = TRUE /\ phase' = "body" /\ blocks' # <<>>
    BY <1>2, <1>3, <1>4, <1>10 DEF block_close
  <2>2. /\ symtab' = pop_scope(symtab)
        /\ suppress_next_block_push' = FALSE
        /\ last_block_pushed' = TRUE
    BY <1>2, <2>1 DEF block_close
  <2>3. Len(symtab'.stack) = 1 + Len(blocks')
    BY <1>3, <1>4, <1>8, <2>2
  <2>4. ScopePerBlock' /\ BlocksInBody' /\ FlagsMatchBlocks'
    BY <2>1, <2>2, <2>3 DEF ScopePerBlock, BlocksInBody, FlagsMatchBlocks
  <2>5. QED
    BY <1>6, <1>7, <2>4 DEF IInv, ScopeInv
<1>11. QED
  BY <1>9, <1>10

\* a method recorded with a scope, its list attached wherever it is found
LEMMA MethodListTyped ==
  ASSUME NEW ms \in Seq(Method), NEW m \in Method, NEW n \in Name,
         NEW list \in Seq(Name)
  PROVE  add_current_list(Append(ms, m), n, list) \in Seq(Method)
<1> DEFINE all == Append(ms, m)
<1>1. all \in Seq(Method)
  OBVIOUS
<1> HIDE DEF all
<1>2. \A x \in Method : [x EXCEPT !.args = list] \in Method
  BY DEF Method
<1>3. QED
  BY <1>1, <1>2 DEF add_current_list, all

LEMMA MethodDeclKeeps ==
  ASSUME IInv, NEW is_extern \in BOOLEAN, method_decl(is_extern)
  PROVE  IInv'
<1>1. TypeOK /\ symtab \in Table /\ UpChain(symtab) /\ phase \in {"args", "closed"}
  BY DEF IInv, TypeOK, ScopeInv, method_decl
<1>2. Len(symtab.stack) \in 1 .. 2 /\ blocks = <<>>
  BY <1>1 DEF IInv, ScopeInv, ScopePerBlock, BlocksInBody
<1>3. symtab.stack # <<>>
  <2>1. symtab.stack = <<>> <=> Len(symtab.stack) = 0
    BY <1>1, DepthIsNat
  <2>2. QED
    BY <1>2, <2>1
<1> DEFINE declared == add_method(symtab, method_name)
<1>4. declared \in Table /\ UpChain(declared) /\ declared.stack = symtab.stack
  <2>1. method_name \in Name
    BY <1>1 DEF TypeOK
  <2>2. QED
    BY <1>1, <1>3, <2>1, AddMethodKeeps, StartedKeeps
<1> HIDE DEF declared
<1>5. symtab' = pop_scope(declared)
  BY DEF method_decl, declared
<1>6. /\ symtab' \in Table
      /\ UpChain(symtab')
      /\ Len(symtab'.stack) \in 0 .. 1
  <2>1. Len(symtab'.stack) = IF Len(symtab.stack) = 1 THEN 1 ELSE Len(symtab.stack) - 1
    BY <1>3, <1>4, <1>5, PopDepth
  <2>2. QED
    BY <1>2, <1>3, <1>4, <1>5, <2>1, PopKeeps
<1>7. methods' \in Seq(Method)
  <2>1. Top(symtab) \in Nat \ {0}
    BY <1>1, <1>3, TopIsAllocated
  <2> DEFINE new == [name |-> method_name, scope |-> get_this_scope(symtab),
                     args |-> <<>>, is_extern |-> is_extern]
  <2>2. new \in Method
    <3>1. <<>> \in Seq(Name)
      OBVIOUS
    <3>2. QED
      BY <1>1, <2>1, <3>1 DEF TypeOK, Method, get_this_scope
  <2>3. methods' = add_current_list(Append(methods, new), method_name, current_args_list)
    BY DEF method_decl
  <2> HIDE DEF new
  <2>4. QED
    BY <1>1, <2>2, <2>3, MethodListTyped DEF TypeOK
<1>8. TypeOK'
  <2>1. current_args_list' \in Seq(Name) /\ phase' \in Phases
    BY DEF method_decl, Phases
  <2>2. QED
    BY <1>1, <1>6, <1>7, <2>1 DEF TypeOK, method_decl
<1>9. ScopePerBlock' /\ BlocksInBody' /\ FlagsMatchBlocks'
  BY <1>2, <1>6 DEF method_decl, ScopePerBlock, BlocksInBody, FlagsMatchBlocks
<1>10. QED
  BY <1>6, <1>8, <1>9 DEF IInv, ScopeInv

\* find's search ends at a scope: a set of positions has a topmost one
LEMMA TopmostExists ==
  ASSUME NEW m \in Nat, NEW S \in SUBSET (1 .. m), S # {}
  PROVE  \E k \in S : \A j \in S : j <= k
<1> DEFINE Below == {m - k : k \in S}
           Less  == OpToRel(<, Nat)
<1>1. Below \subseteq Nat /\ Below # {}
  <2>1. \A k \in S : m - k \in Nat
    OBVIOUS
  <2>2. QED
    BY <2>1
<1>2. IsWellFoundedOn(Less, Nat)
  BY NatLessThanWellFounded
<1>3. PICK x \in Below : \A y \in Below : <<y, x>> \notin Less
  <2> HIDE DEF Below, Less
  <2>1. QED
    BY <1>1, <1>2, WFMin, Zenon
<1>4. \A y \in Below : ~(y < x)
  BY <1>1, <1>3 DEF OpToRel
<1>5. PICK k \in S : x = m - k
  OBVIOUS
<1>6. ASSUME NEW j \in S PROVE j <= k
  <2>1. ~(m - j < m - k)
    BY <1>4, <1>5
  <2>2. QED
    BY <2>1
<1>7. QED
  BY <1>6

LEMMA FindIsALevel ==
  ASSUME NEW t \in Table, NEW n \in Name
  PROVE  /\ find(t, n) \in Nat
         /\ find(t, n) = 0 <=> Levels(t, n) = {}
         /\ find(t, n) # 0 => /\ find(t, n) \in Levels(t, n)
                              /\ \A j \in Levels(t, n) : j <= find(t, n)
<1>1. Len(t.stack) \in Nat /\ Levels(t, n) \in SUBSET (1 .. Len(t.stack))
  <2>1. t.stack \in Seq(Nat \ {0})
    BY DEF Table
  <2>2. QED
    BY <2>1 DEF Levels
<1> DEFINE S == Levels(t, n)
           k == CHOOSE i \in S : \A j \in S : j <= i
<1>2. find(t, n) = IF S = {} THEN 0 ELSE k
  BY DEF find
<1>3. CASE S = {}
  BY <1>2, <1>3
<1>4. CASE S # {}
  <2>1. \E i \in S : \A j \in S : j <= i
    BY <1>1, <1>4, TopmostExists
  <2>2. k \in S /\ \A j \in S : j <= k
    BY <2>1, Zenon
  <2> HIDE DEF k
  <2>3. k \in Nat /\ k # 0
    BY <1>1, <2>2
  <2>4. QED
    BY <1>2, <1>4, <2>2, <2>3
<1>5. QED
  BY <1>3, <1>4

\* a use of an identifier reads the table and remembers what find returned
LEMMA UseIdKeeps ==
  ASSUME IInv, NEW n \in Name, UseId(n)
  PROVE  IInv'
<1>1. find(symtab, n) \in Nat
  BY FindIsALevel DEF IInv, TypeOK
<1>2. QED
  BY <1>1 DEF IInv, TypeOK, ScopeInv, UpChain, ScopePerBlock, BlocksInBody,
              FlagsMatchBlocks, UseId

\* neither a rejection nor the end of the program touches the table or a flag
LEMMA EndKeeps ==
  ASSUME IInv, Exit \/ program
  PROVE  IInv'
<1>1. phase' \in {"error", "done"}
  BY DEF Exit, program
<1>2. QED
  BY <1>1 DEF IInv, TypeOK, Phases, ScopeInv, UpChain, ScopePerBlock, BlocksInBody,
              FlagsMatchBlocks, Exit, program

LEMMA StepKeeps == IInv /\ [Next]_vars => IInv'
<1> SUFFICES ASSUME IInv, [Next]_vars PROVE IInv'
  OBVIOUS
<1>1. CASE \E n \in Name : var_decl(n)
  BY <1>1, VarDeclKeeps
<1>2. CASE \E n \in Name : UseId(n)
  BY <1>2, UseIdKeeps
<1>3. CASE \E n \in Name : method_args(n)
  BY <1>3, MethodArgsKeeps
<1>4. CASE \E n \in Name : arg_list(n)
  BY <1>4, ArgListKeeps
<1>5. CASE block_open
  BY <1>5, BlockOpenKeeps
<1>6. CASE block_close
  BY <1>6, BlockCloseKeeps
<1>7. CASE \E is_extern \in BOOLEAN : method_decl(is_extern)
  BY <1>7, MethodDeclKeeps
<1>8. CASE Exit \/ program
  BY <1>8, EndKeeps
<1>9. CASE UNCHANGED vars
  BY <1>9 DEF vars, IInv, TypeOK, ScopeInv, UpChain, ScopePerBlock, BlocksInBody,
              FlagsMatchBlocks
<1>10. QED
  BY <1>1, <1>2, <1>3, <1>4, <1>5, <1>6, <1>7, <1>8, <1>9
     DEF Next, VarRedeclared, UseUndeclared, ArgRedeclared, MethodRedeclared

\* The inductive invariant holds in every reachable state.
THEOREM Inductive == Spec => []IInv
BY InitEstablishes, StepKeeps, PTL DEF Spec

\* The parser's variables keep their types: in particular every method is
\* recorded with a scope that is not NULL, whatever the stack looked like when
\* its body ended (method_decl in parser.y, get_this_scope).
THEOREM TypeCorrect == Spec => []TypeOK
<1>1. IInv => TypeOK
  BY DEF IInv
<1>2. QED
  BY <1>1, Inductive, PTL

\* For every program: pushes and pops are matched to the blocks, although the
\* two flags that decide them are single globals, and the chain of enclosing
\* scopes is never broken (parser.y block and method_decl; push_scope, pop_scope).
THEOREM ScopeDiscipline == Spec => []ScopeInv
<1>1. IInv => ScopeInv
  BY DEF IInv
<1>2. QED
  BY <1>1, Inductive, PTL

-----------------------------------------------------------------------------
(* What the operations of the symbol table leave, scope by scope.          *)

\* The parts of a table.
LEMMA TableParts ==
  ASSUME NEW t \in Table
  PROVE  /\ t.stack \in Seq(Nat \ {0}) /\ t.scopes \in Seq(Seq(Name))
         /\ Len(t.stack) \in Nat /\ DOMAIN t.stack = 1 .. Len(t.stack)
         /\ Len(t.scopes) \in Nat /\ DOMAIN t.scopes = 1 .. Len(t.scopes)
         /\ t.stack = <<>> <=> Len(t.stack) = 0
         /\ \A s \in DOMAIN t.scopes : t.scopes[s] \in Seq(Name)
<1>1. t.stack \in Seq(Nat \ {0}) /\ t.scopes \in Seq(Seq(Name))
  BY DEF Table
<1> QED
  BY <1>1

\* The chain of a table names allocated scopes, and each of them once.
LEMMA ChainParts ==
  ASSUME NEW t \in Table, UpChain(t)
  PROVE  /\ \A k \in DOMAIN t.stack : t.stack[k] \in DOMAIN t.scopes
         /\ \A i, j \in DOMAIN t.stack : i # j => t.stack[i] # t.stack[j]
         /\ t.stack # <<>> => 1 \in DOMAIN t.stack /\ t.stack[1] = Global
         /\ t.stack # <<>> => Len(t.stack) \in DOMAIN t.stack
         /\ t.stack = <<>> => t.scopes = <<>>
<1>1. Chain(t.stack, Len(t.scopes))
  BY DEF UpChain
<1>2. ASSUME NEW i \in DOMAIN t.stack, NEW j \in DOMAIN t.stack, i # j
      PROVE  t.stack[i] # t.stack[j]
  <2>1. i \in Nat /\ j \in Nat /\ t.stack[i] \in Nat /\ t.stack[j] \in Nat
    BY TableParts
  <2>2. i < j \/ j < i
    BY <1>2, <2>1
  <2>3. t.stack[i] < t.stack[j] \/ t.stack[j] < t.stack[i]
    BY <1>1, <2>2 DEF Chain
  <2> QED
    BY <2>1, <2>3
<1> QED
  BY <1>1, <1>2, TableParts DEF Chain

\* A new symbol goes to the end of one scope.
LEMMA LinkScopes ==
  ASSUME NEW t \in Table, NEW s \in DOMAIN t.scopes, NEW n \in Name
  PROVE  /\ Link(t, s, n).stack = t.stack
         /\ DOMAIN Link(t, s, n).scopes = DOMAIN t.scopes
         /\ Link(t, s, n).scopes[s] = Append(t.scopes[s], n)
         /\ \A r \in DOMAIN t.scopes : r # s => Link(t, s, n).scopes[r] = t.scopes[r]
BY DEF Link

\* The table before its first use has no scope to keep.
LEMMA StartedScopes ==
  ASSUME NEW t \in Table, UpChain(t)
  PROVE  t.stack = <<>> => Started(t) = [stack |-> <<1>>, scopes |-> << <<>> >>]
BY DEF Started, st_init, Global

\* A push allocates a scope without names, and puts it on top.
LEMMA PushScopes ==
  ASSUME NEW t \in Table, UpChain(t), NEW u \in Table, u = Started(t)
  PROVE  /\ Len(push_scope(t).stack) = Len(u.stack) + 1
         /\ \A k \in 1 .. Len(u.stack) : push_scope(t).stack[k] = u.stack[k]
         /\ push_scope(t).stack[Len(u.stack) + 1] = Len(u.scopes) + 1
         /\ Len(push_scope(t).scopes) = Len(u.scopes) + 1
         /\ \A s \in 1 .. Len(u.scopes) : push_scope(t).scopes[s] = u.scopes[s]
         /\ push_scope(t).scopes[Len(u.scopes) + 1] = <<>>
<1>1. push_scope(t) = [stack |-> Append(u.stack, Len(u.scopes) + 1),
                       scopes |-> Append(u.scopes, <<>>)]
  BY DEF push_scope, Push
<1>2. u.stack \in Seq(Nat \ {0}) /\ u.scopes \in Seq(Seq(Name)) /\ Len(u.scopes) \in Nat
  BY TableParts
<1>3. Len(u.scopes) + 1 \in Nat \ {0} /\ <<>> \in Seq(Name)
  BY <1>2
<1>4. PICK st \in Seq(Nat \ {0}), sc \in Seq(Seq(Name)), k \in Nat \ {0}, e \in Seq(Name) :
        st = u.stack /\ sc = u.scopes /\ k = Len(u.scopes) + 1 /\ e = <<>>
  BY <1>2, <1>3
<1>5. /\ Len(Append(st, k)) = Len(st) + 1
      /\ \A i \in 1 .. Len(st) : Append(st, k)[i] = st[i]
      /\ Append(st, k)[Len(st) + 1] = k
  BY AppendProperties
<1>6. /\ Len(Append(sc, e)) = Len(sc) + 1
      /\ \A i \in 1 .. Len(sc) : Append(sc, e)[i] = sc[i]
      /\ Append(sc, e)[Len(sc) + 1] = e
  BY AppendProperties
<1>7. push_scope(t).stack = Append(st, k) /\ push_scope(t).scopes = Append(sc, e)
  BY <1>1, <1>4
<1> QED
  BY <1>4, <1>5, <1>6, <1>7

\* A pop takes the top off the chain and leaves the scopes alone.
LEMMA PopScopes ==
  ASSUME NEW t \in Table, UpChain(t), t.stack # <<>>, Len(t.stack) # 1
  PROVE  /\ pop_scope(t).scopes = t.scopes
         /\ Len(pop_scope(t).stack) = Len(t.stack) - 1
         /\ \A k \in 1 .. Len(t.stack) - 1 : pop_scope(t).stack[k] = t.stack[k]
<1>1. /\ pop_scope(t).scopes = t.scopes
      /\ pop_scope(t).stack = SubSeq(t.stack, 1, Len(t.stack) - 1)
  BY PopKeeps
<1>2. PICK st \in Seq(Nat \ {0}) : st = t.stack /\ st # <<>>
  BY TableParts
<1>3. /\ Len(SubSeq(st, 1, Len(st) - 1)) = Len(st) - 1
      /\ \A k \in 1 .. Len(st) - 1 : SubSeq(st, 1, Len(st) - 1)[k] = st[k]
  BY <1>2, FrontOfSeq, Zenon
<1> QED
  BY <1>1, <1>2, <1>3, Zenon

-----------------------------------------------------------------------------
(* No name twice in a scope.                                               *)

Distinct(t) == \A s \in DOMAIN t.scopes : IsInjective(t.scopes[s])

\* A list stays free of repetitions when a name it does not have is added.
LEMMA AppendInjects ==
  ASSUME NEW list \in Seq(Name), NEW n \in Name, IsInjective(list),
         \A i \in DOMAIN list : list[i] # n
  PROVE  IsInjective(Append(list, n))
<1>1. /\ DOMAIN Append(list, n) = 1 .. Len(list) + 1 /\ DOMAIN list = 1 .. Len(list)
      /\ Len(list) \in Nat
  OBVIOUS
<1>2. /\ \A i \in 1 .. Len(list) : Append(list, n)[i] = list[i]
      /\ Append(list, n)[Len(list) + 1] = n
  BY AppendProperties
<1> SUFFICES ASSUME NEW a \in 1 .. Len(list) + 1, NEW b \in 1 .. Len(list) + 1,
                    Append(list, n)[a] = Append(list, n)[b]
             PROVE  a = b
  BY <1>1 DEF IsInjective
<1>3. CASE a \in 1 .. Len(list) /\ b \in 1 .. Len(list)
  BY <1>1, <1>2, <1>3 DEF IsInjective
<1>4. CASE a = Len(list) + 1 \/ b = Len(list) + 1
  <2>1. ~(a = Len(list) + 1 /\ b \in 1 .. Len(list))
    BY <1>1, <1>2
  <2>2. ~(b = Len(list) + 1 /\ a \in 1 .. Len(list))
    BY <1>1, <1>2
  <2> QED
    BY <1>1, <1>4, <2>1, <2>2
<1> QED
  BY <1>1, <1>3, <1>4

\* A symbol whose name its scope does not have repeats no name.
LEMMA LinkIsDistinct ==
  ASSUME NEW t \in Table, NEW s \in DOMAIN t.scopes, NEW n \in Name,
         Distinct(t), n \notin NamesIn(t, s)
  PROVE  Distinct(Link(t, s, n))
<1>1. t.scopes[s] \in Seq(Name) /\ IsInjective(t.scopes[s])
  BY TableParts DEF Distinct
<1>2. \A i \in DOMAIN t.scopes[s] : t.scopes[s][i] # n
  BY DEF NamesIn
<1>3. PICK list \in Seq(Name) : list = t.scopes[s]
  BY <1>1
<1>4. IsInjective(Append(list, n))
  BY <1>1, <1>2, <1>3, AppendInjects
<1> SUFFICES ASSUME NEW r \in DOMAIN t.scopes
             PROVE  IsInjective(Link(t, s, n).scopes[r])
  BY LinkScopes DEF Distinct
<1>5. CASE r = s
  <2>1. Link(t, s, n).scopes[r] = Append(list, n)
    BY <1>3, <1>5, LinkScopes
  <2> QED
    BY <1>4, <2>1
<1>6. CASE r # s
  <2>1. Link(t, s, n).scopes[r] = t.scopes[r]
    BY <1>6, LinkScopes
  <2> QED
    BY <2>1 DEF Distinct
<1> QED
  BY <1>5, <1>6

\* Neither does the table that is started, nor a scope that is pushed.
LEMMA StartIsDistinct ==
  ASSUME NEW t \in Table, UpChain(t), Distinct(t)
  PROVE  Distinct(Started(t))
<1>1. CASE t.stack = <<>>
  <2>1. Started(t).scopes = << <<>> >>
    BY <1>1, StartedScopes
  <2>2. \A s \in DOMAIN << <<>> >> : << <<>> >>[s] = <<>>
    OBVIOUS
  <2>3. IsInjective(<<>>)
    BY DEF IsInjective
  <2> QED
    BY <2>1, <2>2, <2>3 DEF Distinct
<1>2. CASE t.stack # <<>>
  BY <1>2, StartedKeeps
<1> QED
  BY <1>1, <1>2

\* An empty scope has no repetition either.
LEMMA PushIsDistinct ==
  ASSUME NEW t \in Table, UpChain(t), Distinct(t)
  PROVE  Distinct(push_scope(t))
<1>1. PICK u \in Table : u = Started(t) /\ Distinct(u)
  BY StartedKeeps, StartIsDistinct
<1>2. IsInjective(<<>>)
  BY DEF IsInjective
<1>3. push_scope(t) \in Table
  BY PushKeeps
<1>4. /\ DOMAIN push_scope(t).scopes = 1 .. Len(u.scopes) + 1
      /\ DOMAIN u.scopes = 1 .. Len(u.scopes) /\ Len(u.scopes) \in Nat
  BY <1>1, <1>3, PushScopes, TableParts
<1> SUFFICES ASSUME NEW s \in 1 .. Len(u.scopes) + 1
             PROVE  IsInjective(push_scope(t).scopes[s])
  BY <1>4 DEF Distinct
<1>5. CASE s \in 1 .. Len(u.scopes)
  <2>1. push_scope(t).scopes[s] = u.scopes[s]
    BY <1>1, <1>5, PushScopes
  <2> QED
    BY <1>1, <1>4, <1>5, <2>1 DEF Distinct
<1>6. CASE s = Len(u.scopes) + 1
  <2>1. push_scope(t).scopes[s] = <<>>
    BY <1>1, <1>6, PushScopes
  <2> QED
    BY <1>2, <2>1
<1> QED
  BY <1>4, <1>5, <1>6

\* add_id repeats no name: it asks the innermost scope first.
LEMMA AddIdIsDistinct ==
  ASSUME NEW t \in Table, UpChain(t), NEW n \in Name, Distinct(t),
         ~find_in_current_scope(t, n)
  PROVE  Distinct(add_id(t, n))
<1>1. PICK u \in Table : u = Started(t) /\ UpChain(u) /\ u.stack # <<>> /\ Distinct(u)
  BY StartedKeeps, StartIsDistinct
<1>2. Top(u) \in DOMAIN u.scopes
  BY <1>1, TopIsAllocated
<1>3. n \notin NamesIn(u, Top(u))
  <2>1. CASE t.stack = <<>>
    BY <1>1, <2>1, StartedScopes DEF NamesIn, Top
  <2>2. CASE t.stack # <<>>
    BY <1>1, <2>2, StartedKeeps DEF find_in_current_scope
  <2> QED
    BY <2>1, <2>2
<1>4. add_id(t, n) = Link(u, Top(u), n)
  BY <1>1 DEF add_id
<1> QED
  BY <1>1, <1>2, <1>3, <1>4, LinkIsDistinct

\* add_method links into the global scope: it asks the whole chain, of which the
\* global scope is one.
LEMMA AddMethodIsDistinct ==
  ASSUME NEW t \in Table, UpChain(t), t.stack # <<>>, NEW n \in Name, Distinct(t),
         find(t, n) = 0
  PROVE  Distinct(add_method(t, n))
<1>1. Global \in DOMAIN t.scopes
  BY TopIsAllocated
<1>2. Levels(t, n) = {}
  BY FindIsALevel
<1>3. n \notin NamesIn(t, Global)
  BY <1>2, ChainParts DEF Levels
<1>4. add_method(t, n) = Link(t, Global, n)
  BY StartedKeeps DEF add_method
<1> QED
  BY <1>1, <1>3, <1>4, LinkIsDistinct

\* A step repeats no name in any scope.
LEMMA StepIsDistinct == IInv /\ DistinctNames /\ [Next]_vars => DistinctNames'
<1> SUFFICES ASSUME IInv, DistinctNames, [Next]_vars PROVE DistinctNames'
  OBVIOUS
<1>1. symtab \in Table /\ UpChain(symtab) /\ Distinct(symtab) /\ method_name \in Name
  BY DEF IInv, TypeOK, ScopeInv, DistinctNames, Distinct
<1>2. Distinct(symtab') => DistinctNames'
  BY DEF Distinct, DistinctNames
<1>3. CASE \E n \in Name : var_decl(n) \/ arg_list(n)
  <2>1. PICK n \in Name : var_decl(n) \/ arg_list(n)
    BY <1>3
  <2>2. ~find_in_current_scope(symtab, n) /\ symtab' = add_id(symtab, n)
    BY <2>1 DEF var_decl, arg_list
  <2> QED
    BY <1>1, <1>2, <2>2, AddIdIsDistinct
<1>4. CASE (\E n \in Name : method_args(n)) \/ block_open
  <2>1. symtab' = push_scope(symtab) \/ symtab' = symtab
    BY <1>4 DEF method_args, block_open
  <2> QED
    BY <1>1, <1>2, <2>1, PushIsDistinct
<1>5. CASE block_close
  <2>1. symtab'.scopes = symtab.scopes
    <3>1. symtab.stack # <<>>
      <4>1. /\ Len(symtab.stack) = 1 + Len(blocks)
            /\ Len(blocks) \in Nat /\ symtab.stack = <<>> <=> Len(symtab.stack) = 0
        BY <1>5, DepthIsNat DEF IInv, ScopeInv, ScopePerBlock, block_close
      <4> QED
        BY <4>1
    <3> QED
      BY <1>1, <1>5, <3>1, PopKeeps DEF block_close
  <2> QED
    BY <1>1, <1>2, <2>1 DEF Distinct
<1>6. CASE \E is_extern \in BOOLEAN : method_decl(is_extern)
  <2>1. PICK is_extern \in BOOLEAN : method_decl(is_extern)
    BY <1>6
  <2>2. /\ find(symtab, method_name) = 0
        /\ symtab' = pop_scope(add_method(symtab, method_name))
    BY <2>1 DEF method_decl, MethodNameTaken
  <2>3. symtab.stack # <<>>
    <3>1. /\ Len(symtab.stack) \in 1 .. 2
          /\ symtab.stack = <<>> <=> Len(symtab.stack) = 0
      BY <2>1, DepthIsNat DEF IInv, ScopeInv, ScopePerBlock, method_decl
    <3> QED
      BY <3>1
  <2>4. PICK d \in Table : /\ d = add_method(symtab, method_name)
                           /\ UpChain(d) /\ d.stack = symtab.stack
    BY <1>1, <2>3, AddMethodKeeps, StartedKeeps
  <2>5. Distinct(d)
    BY <1>1, <2>2, <2>3, <2>4, AddMethodIsDistinct
  <2>6. symtab'.scopes = d.scopes
    BY <2>2, <2>3, <2>4, PopKeeps
  <2> QED
    BY <1>2, <2>5, <2>6 DEF Distinct
<1>7. CASE Exit \/ program \/ (\E n \in Name : UseId(n)) \/ UNCHANGED vars
  BY <1>1, <1>2, <1>7 DEF Exit, program, UseId, vars
<1> QED
  BY <1>3, <1>4, <1>5, <1>6, <1>7
     DEF Next, VarRedeclared, UseUndeclared, ArgRedeclared, MethodRedeclared

\* No scope ever holds two symbols of one name, although add_method checks one set of
\* scopes and writes to another (symbol_table.c add_id, add_method).
THEOREM NamesAreDistinct == Spec => []DistinctNames
<1>1. Init => DistinctNames
  BY DEF Init, empty_table, DistinctNames
<1> QED
  BY <1>1, StepIsDistinct, Inductive, PTL DEF Spec

-----------------------------------------------------------------------------
(* A scope that is left stays closed.                                      *)

\* u has every closed scope of t as it was, and still closed
StaysClosed(t, u) ==
  \A s \in DOMAIN t.scopes :
    s \notin ToSet(t.stack) => s \notin ToSet(u.stack) /\ u.scopes[s] = t.scopes[s]

\* A symbol added to an open scope.
LEMMA LinkLeavesClosed ==
  ASSUME NEW t \in Table, NEW s \in DOMAIN t.scopes, NEW n \in Name,
         s \in ToSet(t.stack)
  PROVE  StaysClosed(t, Link(t, s, n))
BY LinkScopes DEF StaysClosed

\* The scope on top and the global scope are open.
LEMMA EndsAreOpen ==
  ASSUME NEW t \in Table, UpChain(t), t.stack # <<>>
  PROVE  Top(t) \in ToSet(t.stack) /\ Global \in ToSet(t.stack)
BY ChainParts DEF Top, ToSet

\* A table without a chain has no scopes at all.
LEMMA NothingIsClosed ==
  ASSUME NEW t \in Table, UpChain(t), t.stack = <<>>, NEW u
  PROVE  StaysClosed(t, u)
<1>1. DOMAIN t.scopes = {}
  BY ChainParts, TableParts
<1> QED
  BY <1>1 DEF StaysClosed

\* A scope that is pushed is a new one.
LEMMA PushLeavesClosed ==
  ASSUME NEW t \in Table, UpChain(t)
  PROVE  StaysClosed(t, push_scope(t))
<1>1. CASE t.stack = <<>>
  BY <1>1, NothingIsClosed
<1>2. CASE t.stack # <<>>
  <2>1. Started(t) = t /\ push_scope(t) \in Table
    BY <1>2, StartedKeeps, PushKeeps
  <2> SUFFICES ASSUME NEW s \in DOMAIN t.scopes, s \notin ToSet(t.stack)
               PROVE  s \notin ToSet(push_scope(t).stack) /\ push_scope(t).scopes[s] = t.scopes[s]
    BY DEF StaysClosed
  <2>2. s \in 1 .. Len(t.scopes) /\ Len(t.scopes) \in Nat
    BY TableParts
  <2>3. push_scope(t).scopes[s] = t.scopes[s]
    BY <2>1, <2>2, PushScopes
  <2>4. ASSUME NEW k \in DOMAIN push_scope(t).stack
        PROVE  push_scope(t).stack[k] # s
    <3>1. k \in 1 .. Len(t.stack) + 1 /\ DOMAIN t.stack = 1 .. Len(t.stack)
          /\ Len(t.stack) \in Nat
      BY <2>1, <2>4, PushScopes, TableParts
    <3>2. CASE k \in 1 .. Len(t.stack)
      <4>1. push_scope(t).stack[k] = t.stack[k]
        BY <2>1, <3>2, PushScopes
      <4> QED
        BY <3>1, <3>2, <4>1 DEF ToSet
    <3>3. CASE k = Len(t.stack) + 1
      <4>1. push_scope(t).stack[k] = Len(t.scopes) + 1
        BY <2>1, <3>3, PushScopes
      <4> QED
        BY <2>2, <4>1
    <3> QED
      BY <3>1, <3>2, <3>3
  <2> QED
    BY <2>3, <2>4 DEF ToSet
<1> QED
  BY <1>1, <1>2

\* A pop opens nothing.
LEMMA PopLeavesClosed ==
  ASSUME NEW t \in Table, UpChain(t), t.stack # <<>>
  PROVE  StaysClosed(t, pop_scope(t))
<1>1. CASE Len(t.stack) = 1
  BY <1>1, PopKeeps DEF StaysClosed
<1>2. CASE Len(t.stack) # 1
  <2>1. /\ DOMAIN pop_scope(t).stack = 1 .. Len(t.stack) - 1
        /\ DOMAIN t.stack = 1 .. Len(t.stack) /\ Len(t.stack) \in Nat
    BY <1>2, PopKeeps, PopScopes, TableParts
  <2>2. ASSUME NEW k \in DOMAIN pop_scope(t).stack
        PROVE  k \in DOMAIN t.stack /\ pop_scope(t).stack[k] = t.stack[k]
    <3>1. k \in 1 .. Len(t.stack) - 1
      BY <2>1, <2>2
    <3>2. pop_scope(t).stack[k] = t.stack[k]
      BY <1>2, <3>1, PopScopes
    <3> QED
      BY <2>1, <3>1, <3>2
  <2>3. pop_scope(t).scopes = t.scopes
    BY PopKeeps
  <2> QED
    BY <2>2, <2>3 DEF StaysClosed, ToSet
<1> QED
  BY <1>1, <1>2

\* add_id and add_method write to an open scope.
LEMMA AddLeavesClosed ==
  ASSUME NEW t \in Table, UpChain(t), NEW n \in Name
  PROVE  StaysClosed(t, add_id(t, n)) /\ StaysClosed(t, add_method(t, n))
<1>1. CASE t.stack = <<>>
  BY <1>1, NothingIsClosed
<1>2. CASE t.stack # <<>>
  <2>1. /\ add_id(t, n) = Link(t, Top(t), n)
        /\ add_method(t, n) = Link(t, Global, n)
    BY <1>2, StartedKeeps DEF add_id, add_method
  <2>2. Top(t) \in DOMAIN t.scopes /\ Global \in DOMAIN t.scopes
    BY <1>2, TopIsAllocated
  <2>3. Top(t) \in ToSet(t.stack) /\ Global \in ToSet(t.stack)
    BY <1>2, EndsAreOpen
  <2> QED
    BY <2>1, <2>2, <2>3, LinkLeavesClosed
<1> QED
  BY <1>1, <1>2

\* In a body, and when a method ends, there is a chain.
LEMMA ChainIsThere ==
  ASSUME IInv, phase \in {"args", "body", "closed"}
  PROVE  symtab.stack # <<>>
<1>1. /\ Len(symtab.stack) \in Nat /\ Len(blocks) \in Nat
      /\ symtab.stack = <<>> <=> Len(symtab.stack) = 0
  BY DepthIsNat DEF IInv
<1>2. Len(symtab.stack) # 0
  BY <1>1 DEF IInv, ScopeInv, ScopePerBlock
<1> QED
  BY <1>1, <1>2

\* A step of the parser leaves every closed scope alone.
LEMMA StepLeavesClosed == IInv /\ [Next]_vars => StaysClosed(symtab, symtab')
<1> SUFFICES ASSUME IInv, [Next]_vars PROVE StaysClosed(symtab, symtab')
  OBVIOUS
<1>1. symtab \in Table /\ UpChain(symtab) /\ method_name \in Name
  BY DEF IInv, TypeOK, ScopeInv
<1>2. CASE \E n \in Name : var_decl(n) \/ arg_list(n)
  <2>1. PICK n \in Name : symtab' = add_id(symtab, n)
    BY <1>2 DEF var_decl, arg_list
  <2> QED
    BY <1>1, <2>1, AddLeavesClosed
<1>3. CASE (\E n \in Name : method_args(n)) \/ block_open
  <2>1. symtab' = push_scope(symtab) \/ symtab' = symtab
    BY <1>3 DEF method_args, block_open
  <2> QED
    BY <1>1, <2>1, PushLeavesClosed DEF StaysClosed
<1>4. CASE block_close
  <2>1. symtab.stack # <<>>
    BY <1>4, ChainIsThere DEF block_close
  <2>2. symtab' = pop_scope(symtab) \/ symtab' = symtab
    BY <1>4 DEF block_close
  <2> QED
    BY <1>1, <2>1, <2>2, PopLeavesClosed DEF StaysClosed
<1>5. CASE \E is_extern \in BOOLEAN : method_decl(is_extern)
  <2>1. /\ phase \in {"args", "closed"}
        /\ symtab' = pop_scope(add_method(symtab, method_name))
    BY <1>5 DEF method_decl
  <2>2. symtab.stack # <<>>
    BY <2>1, ChainIsThere
  <2>3. PICK d \in Table : /\ d = add_method(symtab, method_name)
                           /\ UpChain(d) /\ d.stack = symtab.stack
                           /\ DOMAIN d.scopes = DOMAIN symtab.scopes
    <3>1. Global \in DOMAIN symtab.scopes
      BY <1>1, <2>2, TopIsAllocated
    <3>2. add_method(symtab, method_name) = Link(symtab, Global, method_name)
      BY <1>1, <2>2, StartedKeeps DEF add_method
    <3> QED
      BY <1>1, <2>2, <3>1, <3>2, LinkKeeps, LinkScopes
  <2>4. StaysClosed(symtab, d)
    BY <1>1, <2>3, AddLeavesClosed
  <2>5. StaysClosed(d, symtab')
    BY <2>1, <2>2, <2>3, PopLeavesClosed
  <2> QED
    BY <2>3, <2>4, <2>5 DEF StaysClosed
<1>6. CASE Exit \/ program \/ (\E n \in Name : UseId(n)) \/ UNCHANGED vars
  BY <1>6 DEF Exit, program, UseId, vars, StaysClosed
<1> QED
  BY <1>2, <1>3, <1>4, <1>5, <1>6
     DEF Next, VarRedeclared, UseUndeclared, ArgRedeclared, MethodRedeclared

\* The symbols that AST leaves and methods keep pointers to never change once their
\* scope is popped, and it is never pushed again (push_scope, pop_scope).
THEOREM ClosedStaysClosed == Spec => ClosedScopesStayClosed
<1>1. IInv /\ [Next]_vars =>
        [\A s \in DOMAIN symtab.scopes :
           s \notin ToSet(symtab.stack) =>
             s \notin ToSet(symtab'.stack) /\ symtab'.scopes[s] = symtab.scopes[s]]_vars
  BY StepLeavesClosed DEF StaysClosed
<1> QED
  BY <1>1, Inductive, PTL DEF Spec, ClosedScopesStayClosed

-----------------------------------------------------------------------------
(* The frames a table stands for, and what its operations make of them.    *)

\* A table with a chain stands for the scopes of the chain.
LEMMA FramesOfChain ==
  ASSUME NEW t \in Table, UpChain(t), t.stack # <<>>
  PROVE  /\ FramesOf(t) \in Seq(Seq(Name))
         /\ Len(FramesOf(t)) = Len(t.stack) /\ Len(t.stack) \in Nat \ {0}
         /\ \A k \in 1 .. Len(t.stack) : FramesOf(t)[k] = t.scopes[t.stack[k]]
<1>1. /\ Len(t.stack) \in Nat \ {0} /\ DOMAIN t.stack = 1 .. Len(t.stack)
      /\ \A k \in 1 .. Len(t.stack) : t.scopes[t.stack[k]] \in Seq(Name)
  BY TableParts, ChainParts
<1>2. FramesOf(t) = [k \in 1 .. Len(t.stack) |-> t.scopes[t.stack[k]]]
  BY <1>1 DEF FramesOf
<1> QED
  BY <1>1, <1>2

\* The first operation on the empty table makes the global frame, which was there.
LEMMA FramesStarted ==
  ASSUME NEW t \in Table, UpChain(t)
  PROVE  FramesOf(Started(t)) = FramesOf(t)
<1>1. CASE t.stack = <<>>
  <2>1. Started(t) = [stack |-> <<1>>, scopes |-> << <<>> >>]
    BY <1>1, StartedScopes
  <2>2. FramesOf(Started(t)) = [k \in {1} |-> <<>>]
    BY <2>1 DEF FramesOf
  <2>3. << <<>> >> = [k \in {1} |-> <<>>]
    OBVIOUS
  <2> QED
    BY <1>1, <2>2, <2>3 DEF FramesOf
<1>2. CASE t.stack # <<>>
  BY <1>2, StartedKeeps
<1> QED
  BY <1>1, <1>2

\* There is always a frame.
LEMMA FramesOfTable ==
  ASSUME NEW t \in Table, UpChain(t)
  PROVE  /\ FramesOf(t) \in Seq(Seq(Name))
         /\ Len(FramesOf(t)) \in Nat \ {0}
         /\ Len(FramesOf(t)) = Len(Started(t).stack)
BY StartedKeeps, FramesStarted, FramesOfChain

\* A push opens an empty frame.
LEMMA FramesPush ==
  ASSUME NEW t \in Table, UpChain(t)
  PROVE  FramesOf(push_scope(t)) = Append(FramesOf(t), <<>>)
<1>1. PICK u \in Table : u = Started(t) /\ UpChain(u) /\ u.stack # <<>>
  BY StartedKeeps
<1>2. PICK p \in Table : p = push_scope(t) /\ UpChain(p) /\ Len(p.stack) = Len(u.stack) + 1
  BY <1>1, PushKeeps
<1>3. PICK f \in Seq(Seq(Name)), e \in Seq(Name) : f = FramesOf(u) /\ e = <<>>
  <2>1. <<>> \in Seq(Name)
    OBVIOUS
  <2> QED
    BY <1>1, <2>1, FramesOfChain
<1>4. /\ Len(f) = Len(u.stack) /\ Len(u.stack) \in Nat \ {0}
      /\ \A k \in 1 .. Len(u.stack) : f[k] = u.scopes[u.stack[k]]
  BY <1>1, <1>3, FramesOfChain
<1>5. /\ FramesOf(p) \in Seq(Seq(Name)) /\ Len(FramesOf(p)) = Len(u.stack) + 1
      /\ \A k \in 1 .. Len(u.stack) + 1 : FramesOf(p)[k] = p.scopes[p.stack[k]]
  <2>1. p.stack # <<>>
    BY <1>2, <1>4, TableParts
  <2> QED
    BY <1>2, <2>1, FramesOfChain
<1>6. /\ Append(f, e) \in Seq(Seq(Name)) /\ Len(Append(f, e)) = Len(u.stack) + 1
      /\ \A k \in 1 .. Len(u.stack) : Append(f, e)[k] = f[k]
      /\ Append(f, e)[Len(u.stack) + 1] = e
  BY <1>4, AppendProperties
<1>7. ASSUME NEW k \in 1 .. Len(u.stack) + 1
      PROVE  FramesOf(p)[k] = Append(f, e)[k]
  <2>1. FramesOf(p)[k] = p.scopes[p.stack[k]]
    BY <1>5
  <2>2. CASE k \in 1 .. Len(u.stack)
    <3>1. p.stack[k] = u.stack[k] /\ u.stack[k] \in 1 .. Len(u.scopes)
      <4>1. k \in DOMAIN u.stack /\ DOMAIN u.scopes = 1 .. Len(u.scopes)
        BY <2>2, TableParts
      <4>2. u.stack[k] \in DOMAIN u.scopes
        BY <1>1, <4>1, ChainParts
      <4>3. p.stack[k] = u.stack[k]
        BY <1>1, <1>2, <2>2, PushScopes
      <4> QED
        BY <4>1, <4>2, <4>3
    <3>2. p.scopes[u.stack[k]] = u.scopes[u.stack[k]]
      BY <1>1, <1>2, <3>1, PushScopes
    <3> QED
      BY <1>4, <1>6, <2>1, <2>2, <3>1, <3>2
  <2>3. CASE k = Len(u.stack) + 1
    <3>1. p.stack[k] = Len(u.scopes) + 1 /\ p.scopes[Len(u.scopes) + 1] = <<>>
      BY <1>1, <1>2, <2>3, PushScopes
    <3> QED
      BY <1>3, <1>6, <2>1, <2>3, <3>1
  <2> QED
    BY <1>4, <2>2, <2>3
<1>8. FramesOf(p) = Append(f, e)
  BY <1>5, <1>6, <1>7, SeqEqual
<1> QED
  BY <1>1, <1>2, <1>3, <1>8, FramesStarted

\* The frames below the last.
LEMMA FrontOfFrames ==
  ASSUME NEW f \in Seq(Seq(Name)), f # <<>>
  PROVE  /\ Front(f) \in Seq(Seq(Name)) /\ Len(Front(f)) = Len(f) - 1
         /\ \A k \in 1 .. Len(f) - 1 : Front(f)[k] = f[k]
BY FrontOfSeq, Zenon DEF Front

\* A pop closes the innermost frame.
LEMMA FramesPop ==
  ASSUME NEW t \in Table, UpChain(t), t.stack # <<>>, Len(t.stack) # 1
  PROVE  FramesOf(pop_scope(t)) = Front(FramesOf(t))
<1>1. PICK p \in Table : p = pop_scope(t) /\ UpChain(p) /\ p.stack # <<>>
  BY PopKeeps
<1>2. PICK f \in Seq(Seq(Name)) : f = FramesOf(t) /\ f # <<>>
  BY FramesOfChain
<1>3. /\ Len(f) = Len(t.stack) /\ Len(t.stack) \in Nat \ {0}
      /\ \A k \in 1 .. Len(t.stack) : f[k] = t.scopes[t.stack[k]]
  BY <1>2, FramesOfChain
<1>4. /\ p.scopes = t.scopes /\ Len(p.stack) = Len(t.stack) - 1
      /\ \A k \in 1 .. Len(t.stack) - 1 : p.stack[k] = t.stack[k]
  BY <1>1, PopScopes
<1>5. /\ FramesOf(p) \in Seq(Seq(Name)) /\ Len(FramesOf(p)) = Len(t.stack) - 1
      /\ \A k \in 1 .. Len(t.stack) - 1 : FramesOf(p)[k] = p.scopes[p.stack[k]]
  BY <1>1, <1>4, FramesOfChain
<1>6. PICK h \in Seq(Seq(Name)) : /\ h = Front(f) /\ Len(h) = Len(f) - 1
                                  /\ \A k \in 1 .. Len(f) - 1 : h[k] = f[k]
  BY <1>2, FrontOfFrames
<1>7. PICK q \in Seq(Seq(Name)) : q = FramesOf(p)
  BY <1>5
<1>8. ASSUME NEW k \in 1 .. Len(t.stack) - 1
      PROVE  q[k] = h[k]
  <2>1. k \in 1 .. Len(t.stack)
    BY <1>3
  <2>2. q[k] = p.scopes[p.stack[k]] /\ p.stack[k] = t.stack[k]
    BY <1>4, <1>5, <1>7
  <2>3. f[k] = t.scopes[t.stack[k]] /\ h[k] = f[k]
    BY <1>3, <1>6, <2>1
  <2> QED
    BY <1>4, <2>2, <2>3
<1>9. Len(q) = Len(h) /\ \A k \in 1 .. Len(q) : q[k] = h[k]
  BY <1>3, <1>5, <1>6, <1>7, <1>8
<1>10. q = h
  BY <1>9, SeqEqual
<1> QED
  BY <1>1, <1>2, <1>6, <1>7, <1>10

\* A new symbol of a scope in the chain is a new name of its frame, and of no other.
LEMMA FramesLink ==
  ASSUME NEW t \in Table, UpChain(t), t.stack # <<>>, NEW n \in Name,
         NEW k \in DOMAIN t.stack
  PROVE  FramesOf(Link(t, t.stack[k], n))
           = [FramesOf(t) EXCEPT ![k] = Append(FramesOf(t)[k], n)]
<1>1. t.stack[k] \in DOMAIN t.scopes /\ k \in 1 .. Len(t.stack)
  BY ChainParts, TableParts
<1>2. PICK v \in Table : /\ v = Link(t, t.stack[k], n) /\ UpChain(v)
                         /\ v.stack = t.stack
  BY <1>1, LinkKeeps
<1>3. PICK f \in Seq(Seq(Name)) : f = FramesOf(t)
  BY FramesOfChain
<1>4. /\ Len(f) = Len(t.stack)
      /\ \A i \in 1 .. Len(t.stack) : f[i] = t.scopes[t.stack[i]]
  BY <1>3, FramesOfChain
<1>5. /\ FramesOf(v) \in Seq(Seq(Name)) /\ Len(FramesOf(v)) = Len(t.stack)
      /\ \A i \in 1 .. Len(t.stack) : FramesOf(v)[i] = v.scopes[t.stack[i]]
  BY <1>2, FramesOfChain
<1>6. PICK e \in Seq(Name) : e = Append(f[k], n)
  <2>1. PICK list \in Seq(Name) : list = f[k]
    BY <1>1, <1>4
  <2>2. Append(list, n) \in Seq(Name)
    OBVIOUS
  <2> QED
    BY <2>1, <2>2
<1> DEFINE g == [f EXCEPT ![k] = e]
<1>7. /\ g \in Seq(Seq(Name)) /\ Len(g) = Len(t.stack)
      /\ \A i \in 1 .. Len(t.stack) : g[i] = IF i = k THEN e ELSE f[i]
  BY <1>1, <1>4, ExceptSeq
<1>8. ASSUME NEW i \in 1 .. Len(t.stack)
      PROVE  FramesOf(v)[i] = g[i]
  <2> HIDE DEF g
  <2>1. i \in DOMAIN t.stack /\ t.stack[i] \in DOMAIN t.scopes
    BY ChainParts, TableParts
  <2>2. CASE i = k
    <3>1. v.scopes[t.stack[i]] = Append(t.scopes[t.stack[i]], n)
      BY <1>1, <1>2, <2>2, LinkScopes
    <3> QED
      BY <1>4, <1>5, <1>6, <1>7, <2>2, <3>1
  <2>3. CASE i # k
    <3>1. t.stack[i] # t.stack[k]
      BY <2>1, <2>3, ChainParts
    <3>2. v.scopes[t.stack[i]] = t.scopes[t.stack[i]]
      BY <1>1, <1>2, <2>1, <3>1, LinkScopes
    <3> QED
      BY <1>4, <1>5, <1>7, <2>3, <3>2
  <2> QED
    BY <2>2, <2>3
<1> HIDE DEF g
<1>9. FramesOf(v) = g
  BY <1>5, <1>7, <1>8, SeqEqual
<1> QED
  BY <1>2, <1>3, <1>6, <1>9 DEF g

\* To replace the last frame is to put another one behind those before it.
LEMMA LastReplaced ==
  ASSUME NEW f \in Seq(Seq(Name)), f # <<>>, NEW e \in Seq(Name)
  PROVE  [f EXCEPT ![Len(f)] = e] = Append(Front(f), e)
<1>1. Len(f) \in Nat \ {0}
  OBVIOUS
<1>2. /\ [f EXCEPT ![Len(f)] = e] \in Seq(Seq(Name))
      /\ Len([f EXCEPT ![Len(f)] = e]) = Len(f)
      /\ \A j \in 1 .. Len(f) : [f EXCEPT ![Len(f)] = e][j] = IF j = Len(f) THEN e ELSE f[j]
  BY <1>1, ExceptSeq
<1>3. PICK h \in Seq(Seq(Name)) : h = Front(f) /\ Len(h) = Len(f) - 1
                                  /\ \A j \in 1 .. Len(f) - 1 : h[j] = f[j]
  BY FrontOfFrames
<1>4. /\ Append(h, e) \in Seq(Seq(Name)) /\ Len(Append(h, e)) = Len(f)
      /\ \A j \in 1 .. Len(f) - 1 : Append(h, e)[j] = h[j]
      /\ Append(h, e)[Len(f)] = e
  <2>1. /\ Append(h, e) \in Seq(Seq(Name)) /\ Len(Append(h, e)) = Len(h) + 1
        /\ \A j \in 1 .. Len(h) : Append(h, e)[j] = h[j]
        /\ Append(h, e)[Len(h) + 1] = e
    BY AppendProperties
  <2>2. Len(h) + 1 = Len(f)
    BY <1>1, <1>3
  <2> QED
    BY <1>3, <2>1, <2>2
<1>5. ASSUME NEW j \in 1 .. Len(f)
      PROVE  [f EXCEPT ![Len(f)] = e][j] = Append(h, e)[j]
  <2>1. CASE j = Len(f)
    BY <1>2, <1>4, <2>1
  <2>2. CASE j # Len(f)
    <3>1. j \in 1 .. Len(f) - 1
      BY <1>1, <2>2
    <3> QED
      BY <1>2, <1>3, <1>4, <2>2, <3>1
  <2> QED
    BY <2>1, <2>2
<1>6. [f EXCEPT ![Len(f)] = e] = Append(h, e)
  BY <1>2, <1>4, <1>5, SeqEqual
<1> QED
  BY <1>3, <1>6

\* add_id adds a name to the innermost frame.
LEMMA FramesAddId ==
  ASSUME NEW t \in Table, UpChain(t), NEW n \in Name
  PROVE  FramesOf(add_id(t, n))
           = Append(Front(FramesOf(t)), Append(Last(FramesOf(t)), n))
<1>1. PICK u \in Table : u = Started(t) /\ UpChain(u) /\ u.stack # <<>>
  BY StartedKeeps
<1>2. PICK f \in Seq(Seq(Name)) : f = FramesOf(u) /\ f # <<>> /\ Len(f) = Len(u.stack)
  BY <1>1, FramesOfChain
<1>3. Len(u.stack) \in DOMAIN u.stack /\ f[Len(f)] \in Seq(Name)
  BY <1>1, <1>2, ChainParts
<1>4. PICK e \in Seq(Name) : e = Append(f[Len(f)], n)
  BY <1>3, AppendProperties
<1>5. add_id(t, n) = Link(u, u.stack[Len(u.stack)], n)
  BY <1>1 DEF add_id, Top
<1>6. FramesOf(add_id(t, n)) = [f EXCEPT ![Len(f)] = e]
  <2>1. FramesOf(Link(u, u.stack[Len(u.stack)], n))
          = [FramesOf(u) EXCEPT ![Len(u.stack)] = Append(FramesOf(u)[Len(u.stack)], n)]
    BY <1>1, <1>3, FramesLink, Zenon
  <2> QED
    BY <1>2, <1>4, <1>5, <2>1, Zenon
<1>7. FramesOf(add_id(t, n)) = Append(Front(f), e)
  BY <1>2, <1>6, LastReplaced
<1> QED
  BY <1>1, <1>2, <1>4, <1>7, FramesStarted DEF Last

\* The global frame alone.
LEMMA OneFrame ==
  ASSUME NEW f \in Seq(Seq(Name)), Len(f) = 1
  PROVE  f = << f[1] >>
OBVIOUS

\* The method is declared in the global frame, and its own frame is left, if it had
\* not been left with the body.
LEMMA FramesDeclareMethod ==
  ASSUME NEW t \in Table, UpChain(t), NEW n \in Name, Len(t.stack) \in 1 .. 2
  PROVE  FramesOf(pop_scope(add_method(t, n))) = << Append(FramesOf(t)[1], n) >>
<1>1. t.stack # <<>> /\ 1 \in DOMAIN t.stack /\ t.stack[1] = Global
  <2>1. Len(t.stack) # 0
    OBVIOUS
  <2>2. t.stack # <<>>
    BY <2>1, TableParts
  <2> QED
    BY <2>2, ChainParts
<1>2. PICK d \in Table : /\ d = add_method(t, n) /\ UpChain(d) /\ d.stack = t.stack
                         /\ d = Link(t, t.stack[1], n)
  BY <1>1, AddMethodKeeps, StartedKeeps DEF add_method
<1>3. PICK f \in Seq(Seq(Name)) : f = FramesOf(t) /\ Len(f) = Len(t.stack)
  BY <1>1, FramesOfChain
<1>4. PICK e \in Seq(Name) : e = Append(f[1], n)
  <2>1. PICK list \in Seq(Name) : list = f[1]
    BY <1>3
  <2>2. Append(list, n) \in Seq(Name)
    OBVIOUS
  <2> QED
    BY <2>1, <2>2
<1>5. PICK g \in Seq(Seq(Name)) : g = FramesOf(d) /\ Len(g) = Len(t.stack) /\ g # <<>>
  BY <1>1, <1>2, FramesOfChain
<1>6. g[1] = e
  <2>1. FramesOf(Link(t, t.stack[1], n))
          = [FramesOf(t) EXCEPT ![1] = Append(FramesOf(t)[1], n)]
    BY <1>1, FramesLink, Zenon
  <2>2. g = [f EXCEPT ![1] = e]
    BY <1>2, <1>3, <1>4, <1>5, <2>1, Zenon
  <2> QED
    BY <1>3, <2>2
<1>7. CASE Len(t.stack) = 1
  <2>1. pop_scope(d) = d
    BY <1>1, <1>2, <1>7, PopKeeps
  <2> QED
    BY <1>2, <1>3, <1>4, <1>5, <1>6, <1>7, <2>1, OneFrame
<1>8. CASE Len(t.stack) = 2
  <2>1. FramesOf(pop_scope(d)) = Front(g)
    <3>1. d.stack # <<>> /\ Len(d.stack) # 1
      BY <1>1, <1>2, <1>8
    <3> QED
      BY <1>2, <1>5, <3>1, FramesPop
  <2>2. PICK h \in Seq(Seq(Name)) : h = Front(g) /\ Len(h) = 1 /\ h[1] = g[1]
    <3>1. PICK h \in Seq(Seq(Name)) : /\ h = Front(g) /\ Len(h) = Len(g) - 1
                                      /\ \A k \in 1 .. Len(g) - 1 : h[k] = g[k]
      BY <1>5, FrontOfFrames
    <3> QED
      BY <1>5, <1>8, <3>1
  <2>3. h = << h[1] >>
    BY <2>2, OneFrame
  <2> QED
    BY <1>2, <1>3, <1>4, <1>6, <2>1, <2>2, <2>3
<1> QED
  BY <1>7, <1>8

\* The names of a scope in the chain are those of its frame.
LEMMA NamesOfFrame ==
  ASSUME NEW t \in Table, UpChain(t), t.stack # <<>>, NEW k \in DOMAIN t.stack, NEW n
  PROVE  n \in NamesIn(t, t.stack[k]) <=> Contains(FramesOf(t)[k], n)
<1>1. k \in 1 .. Len(t.stack) /\ t.scopes[t.stack[k]] \in Seq(Name)
  BY ChainParts, TableParts
<1>2. FramesOf(t)[k] = t.scopes[t.stack[k]]
  BY <1>1, FramesOfChain
<1>3. DOMAIN t.scopes[t.stack[k]] = 1 .. Len(t.scopes[t.stack[k]])
  BY <1>1
<1> QED
  BY <1>2, <1>3 DEF NamesIn, Contains

\* The innermost scope is the last frame.
LEMMA CurrentIsLast ==
  ASSUME NEW t \in Table, UpChain(t), NEW n
  PROVE  find_in_current_scope(t, n) <=> Contains(Last(FramesOf(t)), n)
<1>1. CASE t.stack = <<>>
  <2>1. FramesOf(t) = << <<>> >>
    BY <1>1 DEF FramesOf
  <2>2. Last(FramesOf(t)) = <<>>
    BY <2>1 DEF Last
  <2>3. ~Contains(<<>>, n)
    BY DEF Contains
  <2> QED
    BY <1>1, <2>2, <2>3 DEF find_in_current_scope
<1>2. CASE t.stack # <<>>
  <2>1. Len(t.stack) \in DOMAIN t.stack /\ Len(FramesOf(t)) = Len(t.stack)
    BY <1>2, ChainParts, FramesOfChain
  <2> QED
    BY <1>2, <2>1, NamesOfFrame DEF find_in_current_scope, Last, Top
<1> QED
  BY <1>1, <1>2

\* find returns the innermost frame that has the name, and fails when none has.
LEMMA FindIsInnermost ==
  ASSUME NEW t \in Table, UpChain(t), NEW n \in Name
  PROVE  /\ find(t, n) = 0 => \A k \in DOMAIN FramesOf(t) : ~Contains(FramesOf(t)[k], n)
         /\ find(t, n) # 0 =>
              /\ find(t, n) \in DOMAIN FramesOf(t)
              /\ Contains(FramesOf(t)[find(t, n)], n)
              /\ \A j \in find(t, n) + 1 .. Len(FramesOf(t)) : ~Contains(FramesOf(t)[j], n)
<1>1. CASE t.stack = <<>>
  <2>1. FramesOf(t) = << <<>> >> /\ DOMAIN << <<>> >> = {1} /\ << <<>> >>[1] = <<>>
    BY <1>1 DEF FramesOf
  <2>2. ~Contains(<<>>, n)
    BY DEF Contains
  <2>3. Levels(t, n) = {}
    BY <1>1 DEF Levels
  <2>4. find(t, n) = 0
    BY <2>3, FindIsALevel
  <2> QED
    BY <2>1, <2>2, <2>4
<1>2. CASE t.stack # <<>>
  <2>1. /\ DOMAIN FramesOf(t) = 1 .. Len(t.stack) /\ Len(FramesOf(t)) = Len(t.stack)
        /\ DOMAIN t.stack = 1 .. Len(t.stack) /\ Len(t.stack) \in Nat
    BY <1>2, FramesOfChain, TableParts
  <2>2. \A k \in 1 .. Len(t.stack) : k \in Levels(t, n) <=> Contains(FramesOf(t)[k], n)
    BY <1>2, <2>1, NamesOfFrame DEF Levels
  <2>3. CASE find(t, n) = 0
    <3>1. Levels(t, n) = {}
      BY <2>3, FindIsALevel
    <3> QED
      BY <2>1, <2>2, <2>3, <3>1
  <2>4. CASE find(t, n) # 0
    <3>1. PICK k \in Levels(t, n) : k = find(t, n) /\ \A j \in Levels(t, n) : j <= k
      BY <2>4, FindIsALevel
    <3>2. k \in 1 .. Len(t.stack)
      BY <2>1, <3>1 DEF Levels
    <3>3. ASSUME NEW j \in k + 1 .. Len(t.stack)
          PROVE  ~Contains(FramesOf(t)[j], n)
      <4>1. j \in 1 .. Len(t.stack) /\ ~(j <= k)
        BY <2>1, <3>2
      <4> QED
        BY <2>2, <3>1, <4>1
    <3> QED
      BY <2>1, <2>2, <2>4, <3>1, <3>2, <3>3
  <2> QED
    BY <2>3, <2>4
<1> QED
  BY <1>1, <1>2

-----------------------------------------------------------------------------
(* Every step of the parser is a step of the abstract scopes.              *)

\* What the invariant says of the table, for use with the lemmas above.
LEMMA TableOfParser ==
  ASSUME IInv
  PROVE  /\ symtab \in Table /\ UpChain(symtab)
         /\ method_name \in Name /\ blocks \in Seq(BOOLEAN)
         /\ FramesOf(symtab) \in Seq(Seq(Name)) /\ Len(FramesOf(symtab)) \in Nat \ {0}
BY FramesOfTable DEF IInv, TypeOK, ScopeInv

\* LexicalScopes has its own copies of the operators on sequences.
LEMMA SameOperators ==
  ASSUME NEW list, NEW e
  PROVE  /\ Lexical!Contains(list, e) <=> Contains(list, e)
         /\ Lexical!Last(list) = Last(list)
         /\ Lexical!Front(list) = Front(list)
BY DEF Lexical!Contains, Contains, Lexical!Last, Last, Lexical!Front, Front

\* Initially there is the global frame.
LEMMA InitMaps == Init => Lexical!Init
BY DEF Init, Lexical!Init, FramesOf, empty_table

\* A declaration that the innermost scope does not refuse is one of its frame.
LEMMA DeclarationMaps ==
  ASSUME IInv, NEW n \in Name, var_decl(n) \/ arg_list(n)
  PROVE  Lexical!Declare(n)
<1>1. /\ ~find_in_current_scope(symtab, n) /\ symtab' = add_id(symtab, n)
      /\ phase \in {"decls", "args", "body"}
      /\ phase = "body" => ~blocks[Len(blocks)]
      /\ UNCHANGED <<blocks, phase, id_leaf>>
  BY DEF var_decl, arg_list, VarDeclAllowed
<1>2. ~Contains(Last(FramesOf(symtab)), n)
  BY <1>1, TableOfParser, CurrentIsLast
<1>3. FramesOf(add_id(symtab, n))
        = Append(Front(FramesOf(symtab)), Append(Last(FramesOf(symtab)), n))
  BY TableOfParser, FramesAddId
<1>4. FramesOf(symtab)' = Append(Front(FramesOf(symtab)), Append(Last(FramesOf(symtab)), n))
  BY <1>1, <1>3
<1> QED
  BY <1>1, <1>2, <1>4, SameOperators DEF Lexical!Declare, Last

\* A use finds the innermost declaration.
LEMMA UseMaps ==
  ASSUME IInv, NEW n \in Name, UseId(n)
  PROVE  Lexical!Resolve(n)
<1>1. /\ phase \in {"decls", "body"} /\ find(symtab, n) # 0
      /\ id_leaf' = find(symtab, n)
      /\ symtab' = symtab /\ UNCHANGED <<blocks, phase>>
  BY DEF UseId
<1>2. PICK k \in DOMAIN FramesOf(symtab) :
        /\ k = find(symtab, n)
        /\ Contains(FramesOf(symtab)[k], n)
        /\ \A j \in k + 1 .. Len(FramesOf(symtab)) : ~Contains(FramesOf(symtab)[j], n)
  BY <1>1, TableOfParser, FindIsInnermost
<1>3. FramesOf(symtab)' = FramesOf(symtab)
  BY <1>1
<1> QED
  BY <1>1, <1>2, <1>3, SameOperators DEF Lexical!Resolve

\* A rejected declaration or use is one that the frames justify.
LEMMA RejectionMaps ==
  ASSUME IInv, NEW n \in Name, VarRedeclared(n) \/ ArgRedeclared(n) \/ UseUndeclared(n)
  PROVE  Lexical!Reject(n)
<1>1. /\ phase' = "error" /\ symtab' = symtab /\ UNCHANGED <<blocks, id_leaf>>
      /\ \/ phase \in {"decls", "args", "body"} /\ find_in_current_scope(symtab, n)
         \/ phase \in {"decls", "body"} /\ find(symtab, n) = 0
  BY DEF VarRedeclared, ArgRedeclared, UseUndeclared, VarDeclAllowed, Exit
<1>2. find_in_current_scope(symtab, n) => Contains(Last(FramesOf(symtab)), n)
  BY TableOfParser, CurrentIsLast
<1>3. find(symtab, n) = 0 => ~Lexical!Visible(n)
  BY TableOfParser, FindIsInnermost, SameOperators DEF Lexical!Visible
<1>4. FramesOf(symtab)' = FramesOf(symtab)
  BY <1>1
<1> QED
  BY <1>1, <1>2, <1>3, <1>4, SameOperators DEF Lexical!Reject

\* A method's parameters and body get a frame.
LEMMA MethodArgsMaps ==
  ASSUME IInv, NEW n \in Name, method_args(n)
  PROVE  Lexical!EnterMethod
<1>1. /\ phase = "decls" /\ phase' = "args" /\ symtab' = push_scope(symtab)
      /\ UNCHANGED <<blocks, id_leaf>>
  BY DEF method_args
<1>2. FramesOf(push_scope(symtab)) = Append(FramesOf(symtab), <<>>)
  BY TableOfParser, FramesPush
<1>3. FramesOf(symtab)' = Append(FramesOf(symtab), <<>>)
  BY <1>1, <1>2
<1> QED
  BY <1>1, <1>3 DEF Lexical!EnterMethod

\* The body shares the frame of the parameters; a block nested in it gets its own.
LEMMA BlockOpenMaps ==
  ASSUME IInv, block_open
  PROVE  Lexical!EnterBody \/ Lexical!EnterBlock
<1>1. /\ phase \in {"args", "body"} /\ phase' = "body" /\ UNCHANGED id_leaf
      /\ blocks' = Append([k \in DOMAIN blocks |-> TRUE], FALSE)
  BY DEF block_open
<1>2. CASE phase = "args"
  <2>1. suppress_next_block_push = TRUE /\ blocks = <<>>
    BY <1>2 DEF IInv, ScopeInv, FlagsMatchBlocks, BlocksInBody
  <2>2. symtab' = symtab
    BY <2>1 DEF block_open
  <2>3. blocks' = <<FALSE>>
    <3>1. [k \in DOMAIN blocks |-> TRUE] = <<>>
      BY <2>1
    <3>2. Append(<<>>, FALSE) = <<FALSE>>
      OBVIOUS
    <3> QED
      BY <1>1, <3>1, <3>2, Zenon
  <2>4. FramesOf(symtab)' = FramesOf(symtab)
    BY <2>2
  <2> QED
    BY <1>1, <1>2, <2>3, <2>4 DEF Lexical!EnterBody
<1>3. CASE phase = "body"
  <2>1. suppress_next_block_push = FALSE
    BY <1>3 DEF IInv, ScopeInv, FlagsMatchBlocks
  <2>2. symtab' = push_scope(symtab)
    BY <2>1 DEF block_open
  <2>3. FramesOf(push_scope(symtab)) = Append(FramesOf(symtab), <<>>)
    BY TableOfParser, FramesPush
  <2>4. FramesOf(symtab)' = Append(FramesOf(symtab), <<>>)
    BY <2>2, <2>3
  <2> QED
    BY <1>1, <1>3, <2>4, Zenon DEF Lexical!EnterBlock
<1> QED
  BY <1>1, <1>2, <1>3

\* The '}' of a nested block leaves its frame; that of a body may leave the method's.
LEMMA BlockCloseMaps ==
  ASSUME IInv, block_close
  PROVE  Lexical!LeaveBlock \/ Lexical!LeaveBody
<1>1. /\ phase = "body" /\ UNCHANGED id_leaf
      /\ symtab' = IF last_block_pushed THEN pop_scope(symtab) ELSE symtab
      /\ blocks' = SubSeq(blocks, 1, Len(blocks) - 1)
      /\ phase' = IF Len(blocks) = 1 THEN "closed" ELSE "body"
  BY DEF block_close
<1>2. /\ Len(symtab.stack) = 1 + Len(blocks) /\ Len(blocks) \in Nat /\ Len(blocks) # 0
      /\ Len(blocks) > 1 => last_block_pushed = TRUE
      /\ symtab.stack # <<>>
  BY <1>1, DepthIsNat, ChainIsThere DEF IInv, ScopeInv, ScopePerBlock, BlocksInBody, FlagsMatchBlocks
<1>3. FramesOf(pop_scope(symtab)) = Front(FramesOf(symtab))
  <2>1. Len(symtab.stack) # 1
    BY <1>2
  <2> QED
    BY <1>2, <2>1, TableOfParser, FramesPop
<1>4. CASE Len(blocks) > 1
  <2>1. symtab' = pop_scope(symtab) /\ phase' = "body"
    <3>1. \A m \in Nat : m > 1 => m # 1
      OBVIOUS
    <3>2. last_block_pushed = TRUE /\ Len(blocks) # 1
      BY <1>2, <1>4, <3>1, Zenon
    <3> QED
      BY <1>1, <3>2, Zenon
  <2>2. FramesOf(symtab)' = Front(FramesOf(symtab))
    BY <1>3, <2>1
  <2>3. blocks' = Front(blocks)
    BY <1>1 DEF Front
  <2> QED
    BY <1>1, <1>4, <2>1, <2>2, <2>3, SameOperators DEF Lexical!LeaveBlock
<1>5. CASE Len(blocks) = 1
  <2>1. phase' = "closed" /\ blocks' = <<>>
    BY <1>1, <1>5, SubSeqEmpty
  <2>2. PICK f \in Seq(Seq(Name)) : f = FramesOf(symtab) /\ Len(f) = 2 /\ f # <<>>
    BY <1>2, <1>5, TableOfParser, FramesOfChain
  <2>3. Front(f) = << f[1] >>
    <3>1. PICK h \in Seq(Seq(Name)) : /\ h = Front(f) /\ Len(h) = Len(f) - 1
                                      /\ \A k \in 1 .. Len(f) - 1 : h[k] = f[k]
      BY <2>2, FrontOfFrames
    <3>2. Len(h) = 1 /\ h[1] = f[1]
      BY <2>2, <3>1
    <3> QED
      BY <3>1, <3>2, OneFrame
  <2>4. symtab' = symtab \/ symtab' = pop_scope(symtab)
    BY <1>1
  <2>5. FramesOf(symtab)' \in {FramesOf(symtab), << FramesOf(symtab)[1] >>}
    BY <1>3, <2>2, <2>3, <2>4
  <2> QED
    BY <1>1, <1>5, <2>1, <2>5 DEF Lexical!LeaveBody
<1>6. Len(blocks) > 1 \/ Len(blocks) = 1
  <2>1. \A m \in Nat : m # 0 => m > 1 \/ m = 1
    OBVIOUS
  <2> QED
    BY <1>2, <2>1, Zenon
<1> QED
  BY <1>4, <1>5, <1>6

\* A method's symbol goes to the global frame.
LEMMA MethodDeclMaps ==
  ASSUME IInv, NEW is_extern \in BOOLEAN, method_decl(is_extern)
  PROVE  Lexical!DeclareMethod(method_name)
<1>1. /\ phase \in {"args", "closed"} /\ phase' = "decls"
      /\ UNCHANGED <<blocks, id_leaf>>
      /\ find(symtab, method_name) = 0
      /\ symtab' = pop_scope(add_method(symtab, method_name))
  BY DEF method_decl, MethodNameTaken
<1>2. Len(symtab.stack) \in 1 .. 2
  BY <1>1 DEF IInv, ScopeInv, ScopePerBlock
<1>3. FramesOf(pop_scope(add_method(symtab, method_name)))
        = << Append(FramesOf(symtab)[1], method_name) >>
  BY <1>2, TableOfParser, FramesDeclareMethod
<1>4. FramesOf(symtab)' = << Append(FramesOf(symtab)[1], method_name) >>
  BY <1>1, <1>3
<1>5. ~Contains(FramesOf(symtab)[1], method_name)
  <2>1. 1 \in DOMAIN FramesOf(symtab)
    BY TableOfParser
  <2> QED
    BY <1>1, <2>1, TableOfParser, FindIsInnermost
<1> QED
  BY <1>1, <1>4, <1>5, SameOperators DEF Lexical!DeclareMethod

\* A method whose name is visible may be rejected.
LEMMA MethodRedeclaredMaps ==
  ASSUME IInv, NEW is_extern \in BOOLEAN, MethodRedeclared(is_extern)
  PROVE  Lexical!Reject(method_name)
<1>1. /\ phase \in {"args", "closed"} /\ phase' = "error"
      /\ symtab' = symtab /\ UNCHANGED <<blocks, id_leaf>>
      /\ find(symtab, method_name) # 0
  BY DEF MethodRedeclared, MethodNameTaken, Exit
<1>2. Lexical!Visible(method_name)
  BY <1>1, TableOfParser, FindIsInnermost, SameOperators DEF Lexical!Visible
<1>3. FramesOf(symtab)' = FramesOf(symtab)
  BY <1>1
<1> QED
  BY <1>1, <1>2, <1>3 DEF Lexical!Reject

\* Every step maps to a step or to a stutter.
LEMMA StepMaps == IInv /\ [Next]_vars => [Lexical!Next]_(Lexical!vars)
<1> SUFFICES ASSUME IInv, [Next]_vars PROVE [Lexical!Next]_(Lexical!vars)
  OBVIOUS
<1>1. CASE \E n \in Name : var_decl(n) \/ arg_list(n)
  BY <1>1, DeclarationMaps DEF Lexical!Next
<1>2. CASE \E n \in Name : UseId(n)
  BY <1>2, UseMaps DEF Lexical!Next
<1>3. CASE \E n \in Name : VarRedeclared(n) \/ ArgRedeclared(n) \/ UseUndeclared(n)
  BY <1>3, RejectionMaps DEF Lexical!Next
<1>4. CASE \E n \in Name : method_args(n)
  BY <1>4, MethodArgsMaps DEF Lexical!Next
<1>5. CASE block_open
  BY <1>5, BlockOpenMaps DEF Lexical!Next
<1>6. CASE block_close
  BY <1>6, BlockCloseMaps DEF Lexical!Next
<1>7. CASE \E is_extern \in BOOLEAN : method_decl(is_extern)
  BY <1>7, MethodDeclMaps, TableOfParser DEF Lexical!Next
<1>8. CASE \E is_extern \in BOOLEAN : MethodRedeclared(is_extern)
  BY <1>8, MethodRedeclaredMaps, TableOfParser DEF Lexical!Next
<1>9. CASE program
  <2>1. /\ phase = "decls" /\ phase' = "done" /\ symtab' = symtab
        /\ UNCHANGED <<blocks, id_leaf>>
    BY <1>9 DEF program
  <2>2. FramesOf(symtab)' = FramesOf(symtab)
    BY <2>1
  <2> QED
    BY <2>1, <2>2 DEF Lexical!Finish, Lexical!Next
<1>10. CASE UNCHANGED vars
  <2>1. symtab' = symtab /\ UNCHANGED <<blocks, phase, id_leaf>>
    BY <1>10 DEF vars
  <2>2. FramesOf(symtab)' = FramesOf(symtab)
    BY <2>1
  <2> QED
    BY <2>1, <2>2 DEF Lexical!vars
<1> QED
  BY <1>1, <1>2, <1>3, <1>4, <1>5, <1>6, <1>7, <1>8, <1>9, <1>10 DEF Next

\* The parser, its two flags and the chain of scopes give every program exactly the
\* visibility of nested blocks (parser.y block; push_scope, pop_scope, find).
THEOREM VisibilityIsLexical == Spec => LexicalVisibility
BY InitMaps, StepMaps, Inductive, PTL DEF Spec, LexicalVisibility, Lexical!Spec

-----------------------------------------------------------------------------
(* Every method has the arguments of its own header: for every set of      *)
(* identifiers, any number of methods and any number of scopes.            *)
(*                                                                         *)
(* add_current_list finds its method by name, so the invariant has to say  *)
(* that no two methods have one name: each left its name in the global     *)
(* scope, which add_method asks.                                           *)

\* a method's name is in the global scope
MethodsAreGlobal ==
  \A i \in DOMAIN methods : /\ methods[i].name \in NamesIn(symtab, Global)
                            /\ Global \in DOMAIN symtab.scopes

ArgsInv == ArgsOfTheirMethod /\ MethodsAreGlobal

-----------------------------------------------------------------------------
(* The scopes only ever grow.                                              *)

\* Every scope of t is in u with at most one more name, at its end.
Grows(t, u) ==
  \A s \in DOMAIN t.scopes :
    /\ s \in DOMAIN u.scopes
    /\ \/ u.scopes[s] = t.scopes[s]
       \/ \E n \in Name : u.scopes[s] = Append(t.scopes[s], n)

\* What was in a scope that grows is still there.
LEMMA GrowingKeeps ==
  ASSUME NEW t \in Table, NEW u, Grows(t, u), NEW s \in DOMAIN t.scopes, NEW n \in Name
  PROVE  /\ s \in DOMAIN u.scopes
         /\ n \in NamesIn(t, s) => n \in NamesIn(u, s)
<1>1. PICK b \in Seq(Name) : b = t.scopes[s]
  BY TableParts
<1>2. CASE u.scopes[s] = b
  BY <1>1, <1>2 DEF Grows, NamesIn
<1>3. CASE \E m \in Name : u.scopes[s] = Append(b, m)
  <2>1. PICK m \in Name : u.scopes[s] = Append(b, m)
    BY <1>3
  <2>2. /\ DOMAIN b \subseteq DOMAIN Append(b, m)
        /\ \A i \in DOMAIN b : Append(b, m)[i] = b[i]
    OBVIOUS
  <2>3. n \in NamesIn(t, s) => n \in NamesIn(u, s)
    BY <1>1, <2>1, <2>2 DEF NamesIn
  <2> QED
    BY <2>3 DEF Grows
<1> QED
  BY <1>1, <1>2, <1>3 DEF Grows

\* An addition lets a scope grow.
LEMMA AddGrows ==
  ASSUME NEW t \in Table, UpChain(t), NEW n \in Name
  PROVE  Grows(t, add_id(t, n)) /\ Grows(t, add_method(t, n))
<1>1. CASE t.stack = <<>>
  <2>1. DOMAIN t.scopes = {}
    BY <1>1, ChainParts, TableParts
  <2> QED
    BY <2>1 DEF Grows
<1>2. CASE t.stack # <<>>
  <2>1. /\ add_id(t, n) = Link(t, Top(t), n)
        /\ add_method(t, n) = Link(t, Global, n)
    BY <1>2, StartedKeeps DEF add_id, add_method
  <2>2. Top(t) \in DOMAIN t.scopes /\ Global \in DOMAIN t.scopes
    BY <1>2, TopIsAllocated
  <2>3. ASSUME NEW r \in DOMAIN t.scopes PROVE Grows(t, Link(t, r, n))
    <3> SUFFICES ASSUME NEW s \in DOMAIN t.scopes
                 PROVE  /\ s \in DOMAIN Link(t, r, n).scopes
                        /\ \/ Link(t, r, n).scopes[s] = t.scopes[s]
                           \/ Link(t, r, n).scopes[s] = Append(t.scopes[s], n)
      BY DEF Grows
    <3> QED
      BY LinkScopes
  <2> QED
    BY <2>1, <2>2, <2>3
<1> QED
  BY <1>1, <1>2

\* A push adds a scope and leaves the others.
LEMMA PushGrows ==
  ASSUME NEW t \in Table, UpChain(t)
  PROVE  Grows(t, push_scope(t))
<1>1. CASE t.stack = <<>>
  <2>1. DOMAIN t.scopes = {}
    BY <1>1, ChainParts, TableParts
  <2> QED
    BY <2>1 DEF Grows
<1>2. CASE t.stack # <<>>
  <2>1. Started(t) = t /\ push_scope(t) \in Table
    BY <1>2, StartedKeeps, PushKeeps
  <2>2. /\ DOMAIN t.scopes = 1 .. Len(t.scopes) /\ Len(t.scopes) \in Nat
        /\ DOMAIN push_scope(t).scopes = 1 .. Len(t.scopes) + 1
    BY <2>1, PushScopes, TableParts
  <2>3. \A s \in 1 .. Len(t.scopes) : push_scope(t).scopes[s] = t.scopes[s]
    BY <2>1, PushScopes
  <2> QED
    BY <2>2, <2>3 DEF Grows
<1> QED
  BY <1>1, <1>2

\* The scopes only ever grow.
LEMMA StepGrows == IInv /\ [Next]_vars => Grows(symtab, symtab')
<1> SUFFICES ASSUME IInv, [Next]_vars PROVE Grows(symtab, symtab')
  OBVIOUS
<1>1. symtab \in Table /\ UpChain(symtab) /\ method_name \in Name
  BY TableOfParser
<1>2. CASE \E n \in Name : var_decl(n) \/ arg_list(n)
  <2>1. PICK n \in Name : symtab' = add_id(symtab, n)
    BY <1>2 DEF var_decl, arg_list
  <2> QED
    BY <1>1, <2>1, AddGrows
<1>3. CASE (\E n \in Name : method_args(n)) \/ block_open
  <2>1. symtab' = push_scope(symtab) \/ symtab' = symtab
    BY <1>3 DEF method_args, block_open
  <2> QED
    BY <1>1, <2>1, PushGrows DEF Grows
<1>4. CASE block_close
  <2>1. symtab.stack # <<>>
    BY <1>4, ChainIsThere DEF block_close
  <2>2. symtab'.scopes = symtab.scopes
    BY <1>1, <1>4, <2>1, PopKeeps DEF block_close
  <2> QED
    BY <2>2 DEF Grows
<1>5. CASE \E is_extern \in BOOLEAN : method_decl(is_extern)
  <2>1. /\ phase \in {"args", "closed"}
        /\ symtab' = pop_scope(add_method(symtab, method_name))
    BY <1>5 DEF method_decl
  <2>2. symtab.stack # <<>>
    BY <2>1, ChainIsThere
  <2>3. PICK d \in Table : d = add_method(symtab, method_name) /\ UpChain(d)
                           /\ d.stack # <<>>
    BY <1>1, AddMethodKeeps, StartedKeeps
  <2>4. symtab'.scopes = d.scopes
    BY <2>1, <2>3, PopKeeps
  <2>5. Grows(symtab, d)
    BY <1>1, <2>3, AddGrows
  <2> QED
    BY <2>4, <2>5 DEF Grows
<1>6. CASE Exit \/ program \/ (\E n \in Name : UseId(n)) \/ UNCHANGED vars
  BY <1>6 DEF Exit, program, UseId, vars, Grows
<1> QED
  BY <1>2, <1>3, <1>4, <1>5, <1>6
     DEF Next, VarRedeclared, UseUndeclared, ArgRedeclared, MethodRedeclared

-----------------------------------------------------------------------------
(* The invariant.                                                          *)

\* Methods keep their name in the global scope.
LEMMA OldMethodsKeep ==
  ASSUME IInv, ArgsInv, [Next]_vars
  PROVE  \A i \in DOMAIN methods : /\ methods[i].name \in NamesIn(symtab', Global)
                                   /\ Global \in DOMAIN symtab'.scopes
<1> SUFFICES ASSUME NEW i \in DOMAIN methods
             PROVE  /\ methods[i].name \in NamesIn(symtab', Global)
                    /\ Global \in DOMAIN symtab'.scopes
  OBVIOUS
<1>1. methods[i] \in Method
  BY DEF IInv, TypeOK
<1>2. PICK n \in Name : n = methods[i].name
  BY <1>1 DEF Method
<1>3. symtab \in Table /\ Grows(symtab, symtab')
  BY TableOfParser, StepGrows
<1>4. n \in NamesIn(symtab, Global) /\ Global \in DOMAIN symtab.scopes
  BY <1>2 DEF ArgsInv, MethodsAreGlobal
<1>5. PICK u : u = symtab'
  OBVIOUS
<1>6. Global \in DOMAIN u.scopes /\ n \in NamesIn(u, Global)
  BY <1>3, <1>4, <1>5, GrowingKeeps
<1> QED
  BY <1>2, <1>5, <1>6

\* Whatever does not touch the methods keeps what is said of their names.
LEMMA MethodsKeep ==
  ASSUME IInv, ArgsInv, [Next]_vars, methods' = methods
  PROVE  MethodsAreGlobal'
BY OldMethodsKeep DEF MethodsAreGlobal

\* The headers are a sequence, and so are the methods.
LEMMA HeadersTyped ==
  ASSUME IInv
  PROVE  /\ headers \in Seq(Seq(Name)) /\ DOMAIN headers = 1 .. Len(headers)
         /\ Len(headers) \in Nat
         /\ methods \in Seq(Method) /\ DOMAIN methods = 1 .. Len(methods)
         /\ Len(methods) \in Nat
BY DEF IInv, TypeOK

\* The parser starts without methods and headers.
LEMMA ArgsInit == Init => ArgsInv
BY DEF Init, ArgsInv, ArgsOfTheirMethod, MethodsAreGlobal

\* What touches neither the lists nor the methods, and opens no header.
LEMMA OtherStepsArgs ==
  ASSUME IInv, ArgsInv, [Next]_vars,
         UNCHANGED <<methods, current_args_list, headers>>,
         \/ phase' = phase /\ (phase = "args" => symtab' = symtab)
         \/ phase \in {"args", "body", "closed"} /\ phase' \in {"body", "closed"}
         \/ phase' \in {"error", "done"}
  PROVE  ArgsInv'
BY MethodsKeep DEF ArgsInv, ArgsOfTheirMethod

\* A header starts with no argument: its scope is empty, and so is the list.
LEMMA MethodArgsArgs ==
  ASSUME IInv, ArgsInv, NEW n \in Name, method_args(n)
  PROVE  ArgsInv'
<1>1. /\ symtab' = push_scope(symtab) /\ phase = "decls" /\ phase' = "args"
      /\ headers' = Append(headers, <<>>)
      /\ UNCHANGED <<current_args_list, methods>>
  BY DEF method_args
<1>2. [Next]_vars
  BY DEF Next
<1>3. current_args_list = <<>> /\ Len(headers) = Len(methods)
  BY <1>1 DEF ArgsInv, ArgsOfTheirMethod
<1>4. symtab'.scopes[Top(symtab')] = <<>>
  <2>1. PICK u \in Table : u = Started(symtab)
    BY TableOfParser, StartedKeeps
  <2>2. /\ Len(push_scope(symtab).stack) = Len(u.stack) + 1
        /\ push_scope(symtab).stack[Len(u.stack) + 1] = Len(u.scopes) + 1
        /\ push_scope(symtab).scopes[Len(u.scopes) + 1] = <<>>
    BY <2>1, TableOfParser, PushScopes
  <2> QED
    BY <1>1, <2>2 DEF Top
<1>5. /\ Len(headers') = Len(headers) + 1
      /\ \A i \in 1 .. Len(headers) : headers'[i] = headers[i]
      /\ headers'[Len(headers) + 1] = <<>>
  BY <1>1, HeadersTyped
<1>6. \A i \in DOMAIN methods' : methods'[i].args = headers'[i]
  BY <1>1, <1>3, <1>5, HeadersTyped DEF ArgsInv, ArgsOfTheirMethod
<1>7. Len(headers') = Len(methods') + 1 /\ current_args_list' = Last(headers')
  BY <1>1, <1>3, <1>5 DEF Last
<1> QED
  BY <1>1, <1>2, <1>3, <1>4, <1>6, <1>7, MethodsKeep DEF ArgsInv, ArgsOfTheirMethod

\* A parameter goes to the end of the header, of the scope and of the list.
LEMMA ArgListArgs ==
  ASSUME IInv, ArgsInv, NEW n \in Name, arg_list(n)
  PROVE  ArgsInv'
<1>1. /\ symtab' = add_id(symtab, n) /\ phase = "args"
      /\ current_args_list' = Append(current_args_list, n)
      /\ headers' = [headers EXCEPT ![Len(headers)] = Append(headers[Len(headers)], n)]
      /\ UNCHANGED <<methods, phase>>
  BY DEF arg_list
<1>2. [Next]_vars
  BY DEF Next
<1>3. symtab.stack # <<>>
  BY <1>1, ChainIsThere
<1>4. symtab' = Link(symtab, Top(symtab), n)
  BY <1>1, <1>3, TableOfParser, StartedKeeps DEF add_id
<1>5. Top(symtab) \in DOMAIN symtab.scopes
  BY <1>3, TableOfParser, TopIsAllocated
<1>6. /\ Top(symtab') = Top(symtab)
      /\ symtab'.scopes[Top(symtab)] = Append(symtab.scopes[Top(symtab)], n)
  BY <1>4, <1>5, TableOfParser, LinkScopes DEF Top
<1>7. current_args_list' = symtab'.scopes[Top(symtab')]
  BY <1>1, <1>6 DEF ArgsInv, ArgsOfTheirMethod
<1>8. Len(headers) = Len(methods) + 1 /\ current_args_list = headers[Len(headers)]
  BY <1>1 DEF ArgsInv, ArgsOfTheirMethod, Last
<1>9. /\ Len(headers') = Len(headers)
      /\ headers'[Len(headers)] = Append(headers[Len(headers)], n)
      /\ \A i \in 1 .. Len(methods) : headers'[i] = headers[i]
  BY <1>1, <1>8, HeadersTyped
<1>10. \A i \in DOMAIN methods' : methods'[i].args = headers'[i]
  BY <1>1, <1>9, HeadersTyped DEF ArgsInv, ArgsOfTheirMethod
<1>11. Len(headers') = Len(methods') + 1 /\ current_args_list' = Last(headers')
  BY <1>1, <1>8, <1>9 DEF Last
<1> QED
  BY <1>1, <1>2, <1>7, <1>10, <1>11, MethodsKeep DEF ArgsInv, ArgsOfTheirMethod

\* The list goes to the only method of the name, which is the last.
LEMMA ListGoesToLast ==
  ASSUME NEW ms \in Seq(Method), NEW m \in Method, NEW list \in Seq(Name),
         \A i \in DOMAIN ms : ms[i].name # m.name
  PROVE  /\ DOMAIN add_current_list(Append(ms, m), m.name, list) = 1 .. Len(ms) + 1
         /\ \A i \in 1 .. Len(ms) : add_current_list(Append(ms, m), m.name, list)[i] = ms[i]
         /\ add_current_list(Append(ms, m), m.name, list)[Len(ms) + 1]
              = [m EXCEPT !.args = list]
<1>1. PICK all \in Seq(Method) : /\ all = Append(ms, m)
                                 /\ Len(all) = Len(ms) + 1
                                 /\ \A i \in 1 .. Len(ms) : all[i] = ms[i]
                                 /\ all[Len(ms) + 1] = m
  <2>1. /\ Append(ms, m) \in Seq(Method) /\ Len(Append(ms, m)) = Len(ms) + 1
        /\ \A i \in 1 .. Len(ms) : Append(ms, m)[i] = ms[i]
        /\ Append(ms, m)[Len(ms) + 1] = m
    BY AppendProperties
  <2> QED
    BY <2>1, Zenon
<1>2. DOMAIN all = 1 .. Len(ms) + 1 /\ DOMAIN ms = 1 .. Len(ms) /\ Len(ms) \in Nat
  BY <1>1
<1>3. add_current_list(all, m.name, list)
        = [i \in 1 .. Len(ms) + 1 |->
             IF all[i].name = m.name /\ \A j \in 1 .. i - 1 : all[j].name # m.name
             THEN [all[i] EXCEPT !.args = list]
             ELSE all[i]]
  BY <1>2 DEF add_current_list
<1>4. ASSUME NEW i \in 1 .. Len(ms)
      PROVE  add_current_list(all, m.name, list)[i] = ms[i]
  <2>1. all[i] = ms[i] /\ all[i].name # m.name /\ i \in 1 .. Len(ms) + 1
    BY <1>1, <1>2
  <2> QED
    BY <1>3, <2>1
<1>5. add_current_list(all, m.name, list)[Len(ms) + 1] = [m EXCEPT !.args = list]
  <2>1. \A j \in 1 .. Len(ms) + 1 - 1 : all[j].name # m.name
    <3>1. \A j \in 1 .. Len(ms) + 1 - 1 : j \in 1 .. Len(ms)
      BY <1>2
    <3> QED
      BY <1>1, <1>2, <3>1
  <2>2. Len(ms) + 1 \in 1 .. Len(ms) + 1
    BY <1>2
  <2> QED
    BY <1>1, <1>3, <2>1, <2>2
<1> QED
  BY <1>1, <1>3, <1>4, <1>5

\* The method takes the list of its header, and the global scope its name.
LEMMA MethodDeclArgs ==
  ASSUME IInv, ArgsInv, NEW is_extern \in BOOLEAN, method_decl(is_extern)
  PROVE  ArgsInv'
<1> DEFINE new == [name |-> method_name, scope |-> get_this_scope(symtab),
                   args |-> <<>>, is_extern |-> is_extern]
<1>1. /\ phase \in {"args", "closed"} /\ phase' = "decls"
      /\ find(symtab, method_name) = 0
      /\ methods' = add_current_list(Append(methods, new), method_name, current_args_list)
      /\ symtab' = pop_scope(add_method(symtab, method_name))
      /\ current_args_list' = <<>> /\ headers' = headers
  BY DEF method_decl, MethodNameTaken
<1>2. [Next]_vars
  BY DEF Next
<1>3. symtab.stack # <<>>
  BY <1>1, ChainIsThere
<1>4. /\ symtab \in Table /\ UpChain(symtab) /\ method_name \in Name
      /\ methods \in Seq(Method) /\ current_args_list \in Seq(Name)
  BY TableOfParser DEF IInv, TypeOK
<1>5. /\ Top(symtab) \in DOMAIN symtab.scopes /\ Top(symtab) \in Nat \ {0}
      /\ Global \in DOMAIN symtab.scopes
  BY <1>3, <1>4, TopIsAllocated
<1>6. new \in Method
  <2>1. <<>> \in Seq(Name)
    OBVIOUS
  <2> QED
    BY <1>4, <1>5, <2>1 DEF Method, get_this_scope
<1>7. new.name = method_name /\ new.scope = Top(symtab)
  BY DEF get_this_scope
<1> HIDE DEF new
<1>8. \A i \in DOMAIN methods : methods[i].name # method_name
  <2>1. Levels(symtab, method_name) = {}
    BY <1>1, <1>4, FindIsALevel
  <2>2. method_name \notin NamesIn(symtab, Global)
    BY <1>3, <1>4, <2>1, ChainParts DEF Levels
  <2> QED
    BY <2>2 DEF ArgsInv, MethodsAreGlobal
<1>9. /\ DOMAIN methods' = 1 .. Len(methods) + 1
      /\ \A i \in 1 .. Len(methods) : methods'[i] = methods[i]
      /\ methods'[Len(methods) + 1] = [new EXCEPT !.args = current_args_list]
  BY <1>1, <1>4, <1>6, <1>7, <1>8, ListGoesToLast
<1>10. PICK d \in Table : /\ d = Link(symtab, Global, method_name)
                          /\ UpChain(d) /\ d.stack # <<>>
                          /\ symtab'.scopes = d.scopes
  <2>1. add_method(symtab, method_name) = Link(symtab, Global, method_name)
    BY <1>3, <1>4, StartedKeeps DEF add_method
  <2>2. /\ Link(symtab, Global, method_name) \in Table
        /\ UpChain(Link(symtab, Global, method_name))
        /\ Link(symtab, Global, method_name).stack = symtab.stack
    BY <1>4, <1>5, LinkKeeps
  <2>3. pop_scope(Link(symtab, Global, method_name)).scopes
          = Link(symtab, Global, method_name).scopes
    BY <1>3, <2>2, PopKeeps
  <2> QED
    BY <1>1, <1>3, <2>1, <2>2, <2>3
<1>11. method_name \in NamesIn(symtab', Global) /\ Global \in DOMAIN symtab'.scopes
  <2>1. /\ d.scopes[Global] = Append(symtab.scopes[Global], method_name)
        /\ DOMAIN d.scopes = DOMAIN symtab.scopes
    BY <1>4, <1>5, <1>10, LinkScopes
  <2>2. symtab.scopes[Global] \in Seq(Name)
    BY <1>4, <1>5, TableParts
  <2>3. \E i \in DOMAIN Append(symtab.scopes[Global], method_name) :
          Append(symtab.scopes[Global], method_name)[i] = method_name
    <3>1. PICK list \in Seq(Name), n \in Name :
            list = symtab.scopes[Global] /\ n = method_name
      BY <1>4, <2>2
    <3>2. /\ Len(list) + 1 \in DOMAIN Append(list, n)
          /\ Append(list, n)[Len(list) + 1] = n
      OBVIOUS
    <3> QED
      BY <3>1, <3>2
  <2>4. method_name \in NamesIn(d, Global)
    BY <2>1, <2>3 DEF NamesIn
  <2> QED
    BY <1>5, <1>10, <2>1, <2>4 DEF NamesIn
<1>12. /\ Len(headers) = Len(methods) + 1
       /\ current_args_list = headers[Len(methods) + 1]
  BY <1>1 DEF ArgsInv, ArgsOfTheirMethod, Last
<1>13. ASSUME NEW i \in DOMAIN methods'
       PROVE  /\ methods'[i].name \in NamesIn(symtab', Global)
              /\ Global \in DOMAIN symtab'.scopes
              /\ methods'[i].args = headers[i]
  <2>1. CASE i \in 1 .. Len(methods)
    <3>1. methods'[i] = methods[i] /\ i \in DOMAIN methods
      BY <1>4, <1>9, <2>1
    <3> QED
      BY <1>2, <3>1, OldMethodsKeep DEF ArgsInv, ArgsOfTheirMethod
  <2>2. CASE i = Len(methods) + 1
    <3>1. methods'[i].name = method_name /\ methods'[i].args = current_args_list
      BY <1>6, <1>7, <1>9, <2>2 DEF Method
    <3> QED
      BY <1>11, <1>12, <2>2, <3>1
  <2> QED
    BY <1>4, <1>9, <2>1, <2>2
<1>14. Len(headers') = Len(methods')
  <2>1. methods' \in Seq(Method)
    BY MethodDeclKeeps DEF IInv, TypeOK
  <2>2. DOMAIN methods' = 1 .. Len(methods') /\ Len(methods') \in Nat
    BY <2>1
  <2>3. \A p, q \in Nat : 1 .. p = 1 .. q + 1 => p = q + 1
    <3> SUFFICES ASSUME NEW p \in Nat, NEW q \in Nat, 1 .. p = 1 .. q + 1
                 PROVE  p = q + 1
      OBVIOUS
    <3>1. q + 1 \in 1 .. p
      OBVIOUS
    <3>2. p \in 1 .. q + 1
      BY <3>1
    <3> QED
      BY <3>1, <3>2
  <2>4. Len(methods) \in Nat
    BY <1>4
  <2> QED
    BY <1>1, <1>9, <1>12, <2>2, <2>3, <2>4
<1> QED
  BY <1>1, <1>13, <1>14 DEF ArgsInv, ArgsOfTheirMethod, MethodsAreGlobal

\* Every step keeps every method's arguments.
LEMMA StepKeepsArgs == IInv /\ ArgsInv /\ [Next]_vars => ArgsInv'
<1> SUFFICES ASSUME IInv, ArgsInv, [Next]_vars PROVE ArgsInv'
  OBVIOUS
<1>1. CASE \E n \in Name : var_decl(n) \/ UseId(n)
  <2>1. /\ UNCHANGED <<methods, current_args_list, headers, phase>>
        /\ phase # "args"
    BY <1>1 DEF var_decl, UseId, VarDeclAllowed
  <2> QED
    BY <2>1, OtherStepsArgs
<1>2. CASE \E n \in Name : method_args(n) \/ arg_list(n)
  BY <1>2, MethodArgsArgs, ArgListArgs
<1>3. CASE block_open \/ block_close
  <2>1. /\ UNCHANGED <<methods, current_args_list, headers>>
        /\ phase \in {"args", "body", "closed"} /\ phase' \in {"body", "closed"}
    BY <1>3 DEF block_open, block_close
  <2> QED
    BY <2>1, OtherStepsArgs
<1>4. CASE \E is_extern \in BOOLEAN : method_decl(is_extern)
  BY <1>4, MethodDeclArgs
<1>5. CASE Exit \/ program
  <2>1. /\ UNCHANGED <<methods, current_args_list, headers>>
        /\ phase' \in {"error", "done"}
    BY <1>5 DEF Exit, program
  <2> QED
    BY <2>1, OtherStepsArgs
<1>6. CASE UNCHANGED vars
  <2>1. UNCHANGED <<methods, current_args_list, headers, phase, symtab>>
    BY <1>6 DEF vars
  <2> QED
    BY <2>1, OtherStepsArgs
<1> QED
  BY <1>1, <1>2, <1>3, <1>4, <1>5, <1>6
     DEF Next, VarRedeclared, UseUndeclared, ArgRedeclared, MethodRedeclared

\* Each declared method has exactly the arguments that its own header names, in
\* their order, although the list is collected in one global variable and attached
\* only after the body, by name (parser.y method_args, arg_list and method_decl;
\* symbol_table.c add_current_list).
THEOREM ArgumentsAreOfTheirMethod == Spec => []ArgsOfTheirMethod
<1>1. ArgsInv => ArgsOfTheirMethod
  BY DEF ArgsInv
<1> QED
  BY <1>1, ArgsInit, StepKeepsArgs, Inductive, PTL DEF Spec
=============================================================================
