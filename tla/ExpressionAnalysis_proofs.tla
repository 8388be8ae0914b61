---------------------- MODULE ExpressionAnalysis_proofs ----------------------
(***************************************************************************)
(* For ints and words of every width, and expressions of every size: nodes *)
(* are well typed, folded conditions decide what they should, and the      *)
(* compiled program computes what ExpressionMeaning says.  The arithmetic   *)
(* of MachineArithmetic comes first: what its operators return.            *)
(***************************************************************************)
EXTENDS ExpressionAnalysis, SequenceTheorems, TLAPS

-----------------------------------------------------------------------------
(* Machine arithmetic.                                                     *)

\* Euclidean division.
LEMMA DivMod ==
  ASSUME NEW x \in Int, NEW d \in Nat \ {0}
  PROVE  /\ x \div d \in Int /\ x % d \in Int
         /\ x = d * (x \div d) + (x % d)
         /\ 0 <= x % d /\ x % d < d
  OBVIOUS

\* The quotient of a division is the only one with a remainder below the divisor.
LEMMA DivUnique ==
  ASSUME NEW d \in Nat \ {0}, NEW k \in Int, NEW r \in Int, 0 <= r, r < d
  PROVE  /\ (d * k + r) \div d = k
         /\ (d * k + r) % d = r
  OBVIOUS

\* A natural number does not grow when it is divided.
LEMMA DivBound ==
  ASSUME NEW n \in Nat, NEW d \in Nat \ {0}
  PROVE  n \div d \in 0 .. n
  OBVIOUS

\* Two's complement wraps every integer into its width, and leaves alone what is in it.
LEMMA WrapInRange ==
  ASSUME NEW h \in Nat \ {0}, NEW x \in Int
  PROVE  Wrap(x, h) \in Signed(h)
<1>1. 2 * h \in Nat \ {0} /\ x + h \in Int
  OBVIOUS
<1>2. (x + h) % (2 * h) \in Int /\ 0 <= (x + h) % (2 * h) /\ (x + h) % (2 * h) < 2 * h
  BY <1>1, DivMod
<1> QED
  BY <1>2 DEF Wrap, Signed

\* What is in the width already is not changed by wrapping.
LEMMA WrapIdentity ==
  ASSUME NEW h \in Nat \ {0}, NEW x \in Signed(h)
  PROVE  Wrap(x, h) = x
<1>1. /\ 2 * h \in Nat \ {0} /\ x + h \in Int
      /\ 0 <= x + h /\ x + h < 2 * h /\ x \in Int
  BY DEF Signed
<1>2. (2 * h * 0 + (x + h)) % (2 * h) = x + h
  BY <1>1, DivUnique, 0 \in Int
<1>3. (x + h) % (2 * h) = x + h
  BY <1>1, <1>2
<1> QED
  BY <1>1, <1>3 DEF Wrap

\* The truncated quotient is an integer no larger, in magnitude, than the dividend.
LEMMA QuotientInt ==
  ASSUME NEW a \in Int, NEW b \in Int, b # 0
  PROVE  /\ Quotient(a, b) \in Int
         /\ a >= 0 => -a <= Quotient(a, b) /\ Quotient(a, b) <= a
         /\ a < 0 => a <= Quotient(a, b) /\ Quotient(a, b) <= -a
<1> DEFINE A == IF a < 0 THEN -a ELSE a
           B == IF b < 0 THEN -b ELSE b
           q == A \div B
<1>1. A \in Nat /\ B \in Nat \ {0} /\ (a >= 0 => A = a) /\ (a < 0 => A = -a)
  OBVIOUS
<1>2. Quotient(a, b) = IF (a < 0) = (b < 0) THEN q ELSE -q
  BY DEF Quotient
<1> HIDE DEF A, B
<1>3. q \in 0 .. A
  BY <1>1, DivBound
<1> HIDE DEF q
<1>4. Quotient(a, b) = q \/ Quotient(a, b) = -q
  BY <1>2
<1> QED
  BY <1>1, <1>3, <1>4

\* The shift of generate_object_code, biased for negative dividends, is the truncated
\* quotient by every positive divisor.
LEMMA BiasedQuotient ==
  ASSUME NEW a \in Int, NEW d \in Nat \ {0}
  PROVE  (IF a < 0 THEN a + (d - 1) ELSE a) \div d = Quotient(a, d)
<1>1. CASE a >= 0
  BY <1>1 DEF Quotient
<1>2. CASE a < 0
  <2> DEFINE q == (-a) \div d
             r == (-a) % d
  <2>1. -a \in Int
    OBVIOUS
  <2>2. q \in Int /\ r \in Int /\ -a = d * q + r /\ 0 <= r /\ r < d
    BY <2>1, DivMod
  <2> HIDE DEF q, r
  <2>3. a + (d - 1) = d * (-q) + ((d - 1) - r)
    BY <2>2
  <2>4. (d * (-q) + ((d - 1) - r)) \div d = -q
    BY <2>2, DivUnique, -q \in Int, (d - 1) - r \in Int, 0 <= (d - 1) - r, (d - 1) - r < d
  <2>5. Quotient(a, d) = -q
    BY <1>2 DEF Quotient, q
  <2> QED
    BY <1>2, <2>3, <2>4, <2>5
<1> QED
  BY <1>1, <1>2

\* A division by a positive number never leaves the width of its dividend.
LEMMA PositiveDivisor ==
  ASSUME NEW h \in Nat \ {0}, NEW a \in Signed(h), NEW d \in Nat \ {0}
  PROVE  Quotient(a, d) \in Signed(h)
<1>1. a \in Int /\ -h <= a /\ a < h
  BY DEF Signed
<1>2. CASE a >= 0
  <2>1. a \div d \in 0 .. a
    BY <1>1, <1>2, DivBound
  <2> QED
    BY <1>1, <1>2, <2>1 DEF Quotient, Signed
<1>3. CASE a < 0
  <2>1. -a \in Nat
    BY <1>1, <1>3
  <2>2. (-a) \div d \in 0 .. (-a)
    BY <2>1, DivBound
  <2> QED
    BY <1>1, <1>3, <2>2 DEF Quotient, Signed
<1> QED
  BY <1>1, <1>2, <1>3

\* Every operation yields an integer, and a comparison or a connective a boolean.
LEMMA ComputeInt ==
  ASSUME NEW op \in BinaryOp, NEW a \in Int, NEW b \in Int,
         ~(op \in Division /\ b = 0)
  PROVE  /\ Compute(op, a, b) \in Int
         /\ op \notin Arithmetic => Compute(op, a, b) \in {0, 1}
<1>1. CASE op \in Division
  <2>1. Quotient(a, b) \in Int
    BY <1>1, QuotientInt
  <2> HIDE DEF Quotient
  <2>2. b * Quotient(a, b) \in Int
    BY <2>1
  <2> QED
    BY <1>1, <2>1, <2>2 DEF Compute, Division, Arithmetic
<1>2. CASE op \in {"ADD", "SUB", "MUL"}
  BY <1>2 DEF Compute, Arithmetic
<1>3. CASE op \notin Arithmetic
  <2>1. \A p : Truth(p) \in {0, 1}
    BY DEF Truth
  <2>2. op \in {"LES", "GRT", "LEQ", "GEQ", "EQ", "NEQ", "AND", "OR"}
    BY <1>3 DEF BinaryOp, Relational, Logical
  <2>3. Compute(op, a, b) \in {0, 1}
    BY <2>1, <2>2 DEF Compute
  <2> QED
    BY <1>3, <2>3
<1> QED
  BY <1>1, <1>2, <1>3 DEF BinaryOp, Arithmetic

\* The result is in the width it is computed in.
LEMMA ComputedInRange ==
  ASSUME NEW h \in Nat \ {0, 1}, NEW op \in BinaryOp, NEW a \in Int, NEW b \in Int,
         ~DivisionFails(op, a, b, h)
  PROVE  /\ Computed(op, a, b, h) \in Signed(h)
         /\ op \notin Arithmetic => Computed(op, a, b, h) \in {0, 1}
<1>1. ~(op \in Division /\ b = 0)
  BY DEF DivisionFails
<1>2. /\ Compute(op, a, b) \in Int
      /\ op \notin Arithmetic => Compute(op, a, b) \in {0, 1}
  BY <1>1, ComputeInt
<1>3. CASE op \in Arithmetic
  BY <1>2, <1>3, WrapInRange DEF Computed
<1>4. CASE op \notin Arithmetic
  BY <1>2, <1>4 DEF Computed, Signed
<1> QED
  BY <1>3, <1>4

\* What is computed in the smaller width without leaving it is what the larger one
\* computes.
LEMMA SameInBothWidths ==
  ASSUME NEW h \in Nat \ {0, 1}, NEW w \in Nat, h <= w,
         NEW op \in BinaryOp, NEW a \in Int, NEW b \in Int,
         ~DivisionFails(op, a, b, h),
         op \in Arithmetic => Compute(op, a, b) \in Signed(h)
  PROVE  /\ ~DivisionFails(op, a, b, w)
         /\ Computed(op, a, b, h) = Computed(op, a, b, w)
<1>1. w \in Nat \ {0} /\ h \in Nat \ {0}
  OBVIOUS
<1>2. \A x \in Signed(h) : x \in Signed(w)
  BY <1>1 DEF Signed
<1>3. ~DivisionFails(op, a, b, w)
  BY <1>2 DEF DivisionFails
<1>4. CASE op \in Arithmetic
  <2>1. Wrap(Compute(op, a, b), h) = Compute(op, a, b)
    BY <1>1, <1>4, WrapIdentity
  <2>2. Wrap(Compute(op, a, b), w) = Compute(op, a, b)
    BY <1>1, <1>2, <1>4, WrapIdentity
  <2> QED
    BY <1>3, <1>4, <2>1, <2>2 DEF Computed
<1>5. CASE op \notin Arithmetic
  BY <1>3, <1>5 DEF Computed
<1> QED
  BY <1>4, <1>5

-----------------------------------------------------------------------------
(* Results.                                                                *)

USE DEF Types

\* the stack of ExpressionMeaning that stands for some results
Item(node) ==
  [type |-> node.type, value |-> node.value, constant |-> node.leaf = "literal",
   misread |-> Misread(node)]

Stack(rs) == [i \in DOMAIN rs |-> Item(rs[i])]

\* the nodes that may come next
Trees == [kind : Kinds, type : Types \cup {"none"}, params : Params]

\* Parameters are a short sequence of types.
LEMMA ParamsAreSeqs ==
  ASSUME NEW params \in Params
  PROVE  params \in Seq(VarTypes) /\ Len(params) \in 0 .. MaxArgs
<1>1. PICK n \in 0 .. MaxArgs : params \in [1 .. n -> VarTypes]
  BY DEF Params, BoundedSeq, SeqOf
<1>2. n \in Nat
  BY <1>1, ExpressionAnalysisAssumption
<1>3. params \in Seq(VarTypes) /\ Len(params) = n
  BY <1>1, <1>2
<1> QED
  BY <1>1, <1>3

\* No parameters are parameters too.
LEMMA NoParams ==
  <<>> \in Params
<1>1. <<>> \in [1 .. 0 -> VarTypes]
  OBVIOUS
<1>2. 0 \in 0 .. MaxArgs
  BY ExpressionAnalysisAssumption
<1> QED
  BY <1>1, <1>2 DEF Params, BoundedSeq, SeqOf

\* The node that is visited is the one that comes next.
LEMMA Visited ==
  ASSUME NEW kind \in Kinds, NEW type \in Types \cup {"none"}, NEW params \in Params,
         Visit(kind, type, params)
  PROVE  /\ tree' \in Trees
         /\ tree'.kind = kind /\ tree'.type = type /\ tree'.params = params
  BY DEF Visit, Tree, Trees

-----------------------------------------------------------------------------
(* Nodes and their values.                                                 *)
\* The analysis and its specification compute with the same arithmetic.
LEMMA SameArithmetic ==
  /\ \A h : Meaning!Signed(h) = Signed(h)
  /\ \A x, h : Meaning!Wrap(x, h) = Wrap(x, h)
  /\ \A a, b : Meaning!Quotient(a, b) = Quotient(a, b)
  /\ Meaning!BinaryOp = BinaryOp /\ Meaning!Arithmetic = Arithmetic
  /\ Meaning!Relational = Relational /\ Meaning!Logical = Logical
  /\ Meaning!Division = Division
<1>1. \A h : Meaning!Signed(h) = Signed(h)
  BY DEF Meaning!Signed, Signed
<1>2. \A x, h : Meaning!Wrap(x, h) = Wrap(x, h)
  BY DEF Meaning!Wrap, Wrap
<1>3. \A a, b : Meaning!Quotient(a, b) = Quotient(a, b)
  BY DEF Meaning!Quotient, Quotient
<1>4. /\ Meaning!BinaryOp = BinaryOp /\ Meaning!Arithmetic = Arithmetic
      /\ Meaning!Relational = Relational /\ Meaning!Logical = Logical
      /\ Meaning!Division = Division
  BY DEF Meaning!BinaryOp, BinaryOp, Meaning!Arithmetic, Arithmetic, Meaning!Relational,
         Relational, Meaning!Logical, Logical, Meaning!Division, Division
<1> QED
  BY <1>1, <1>2, <1>3, <1>4

\* Both compute the same exact results.
LEMMA SameCompute ==
  \A op, a, b : Meaning!Compute(op, a, b) = Compute(op, a, b)
  BY SameArithmetic DEF Meaning!Compute, Compute, Meaning!Truth, Truth

\* Both fail on the same divisions, and wrap to the same results.
LEMMA SameComputed ==
  /\ \A op, a, b, h : Meaning!DivisionFails(op, a, b, h) = DivisionFails(op, a, b, h)
  /\ \A op, a, b, h : Meaning!Computed(op, a, b, h) = Computed(op, a, b, h)
  BY SameArithmetic, SameCompute
     DEF Meaning!DivisionFails, DivisionFails, Meaning!Computed, Computed

\* An int is a word, both widths hold zero and one, and what is no number is none.
LEMMA Widths ==
  /\ HalfInt \in Nat \ {0, 1} /\ HalfInt \in Nat \ {0}
  /\ HalfWord \in Nat \ {0, 1} /\ HalfWord \in Nat \ {0}
  /\ HalfInt <= HalfWord
  /\ Signed(HalfInt) \subseteq Signed(HalfWord) /\ Signed(HalfWord) \subseteq Int
  /\ {0, 1} \subseteq Signed(HalfInt)
  /\ Trap \notin Int /\ Unknown \notin Int /\ Trap # Unknown
  /\ Addresses \subseteq Int
  BY ExpressionAnalysisAssumption DEF Signed

\* The values of each type.
LEMMA Values ==
  /\ Meaning!ValuesOf("INT_TYPE") = Signed(HalfWord) \cup {Unknown}
  /\ Meaning!ValuesOf("BOOL_TYPE") = {0, 1, Unknown}
  /\ Meaning!ValuesOf("VOID_TYPE") = {Unknown}
  BY SameArithmetic DEF Meaning!ValuesOf

\* A node is good if its parts are.
LEMMA NodeIsGood ==
  ASSUME NEW type \in Types, NEW leaf \in {"literal", "id", "none"}, NEW union \in Int,
         NEW value \in Meaning!ValuesOf(type) \cup {Trap},
         leaf = "literal" => union = value /\ union \in Signed(HalfInt),
         leaf = "id" => union \in Addresses /\ value # Trap,
         leaf # "none" => type # "VOID_TYPE"
  PROVE  Node(type, leaf, union, value) \in Nodes
<1>1. value \in Int \cup {Trap, Unknown}
  BY Widths, Values
<1> QED
  BY <1>1 DEF Node, Nodes

\* What is known of a good node.
LEMMA GoodNode ==
  ASSUME NEW node \in Nodes
  PROVE  /\ node.type \in Types /\ node.leaf \in {"literal", "id", "none"}
         /\ node.union \in Int /\ node.value \in Int \cup {Trap, Unknown}
         /\ node.type = "INT_TYPE" => node.value \in Signed(HalfWord) \cup {Trap, Unknown}
         /\ node.type = "BOOL_TYPE" => node.value \in {0, 1, Trap, Unknown}
         /\ node.type = "VOID_TYPE" => node.value \in {Unknown, Trap}
         /\ node.leaf = "literal" =>
              node.union = node.value /\ node.union \in Signed(HalfInt)
         /\ node.leaf = "id" => node.union \in Addresses /\ node.value # Trap
         /\ node.leaf # "none" => node.type # "VOID_TYPE"
<1>1. /\ node.type \in Types /\ node.leaf \in {"literal", "id", "none"}
      /\ node.union \in Int /\ node.value \in Int \cup {Trap, Unknown}
      /\ node.value \in Meaning!ValuesOf(node.type) \cup {Trap}
      /\ node.leaf = "literal" =>
           node.union = node.value /\ node.union \in Signed(HalfInt)
      /\ node.leaf = "id" => node.union \in Addresses /\ node.value # Trap
      /\ node.leaf # "none" => node.type # "VOID_TYPE"
  BY DEF Nodes
<1> QED
  BY <1>1, Values

\* The results of the walk are good nodes, and stand for the items of the stack.
LEMMA ResultIsGood ==
  ASSUME TypeOK, NEW j \in 1 .. Len(results)
  PROVE  results[j] \in Nodes /\ Stack(results)[j] = Item(results[j])
<1>1. results \in Seq(Nodes) /\ DOMAIN results = 1 .. Len(results)
  BY DEF TypeOK
<1> QED
  BY <1>1 DEF Stack

\* The same, counted from the last one.
LEMMA NthIsGood ==
  ASSUME TypeOK, NEW i \in Nat, i < Len(results)
  PROVE  /\ Nth(i) \in Nodes
         /\ Meaning!Nth(i) = Item(Nth(i))
<1>1. results \in Seq(Nodes) /\ Len(results) \in Nat
  BY DEF TypeOK
<1>2. Len(results) - i \in 1 .. Len(results) /\ DOMAIN results = 1 .. Len(results)
  BY <1>1
<1>3. Nth(i) \in Nodes
  BY <1>1, <1>2 DEF Nth
<1> DEFINE abs == [j \in DOMAIN results |->
                     [type     |-> results[j].type,
                      value    |-> results[j].value,
                      constant |-> results[j].leaf = "literal",
                      misread  |-> Misread(results[j])]]
<1>4. Len(abs) = Len(results)
  BY <1>1, <1>2
<1>5. abs[Len(abs) - i] = Item(results[Len(results) - i])
  BY <1>2, <1>4 DEF Item
<1> QED
  BY <1>3, <1>5 DEF Meaning!Nth, Nth

\* What a sequence is without its last elements, with one more.
LEMMA Shortened ==
  ASSUME NEW S, NEW s \in Seq(S), NEW n \in 0 .. Len(s), NEW e \in S
  PROVE  LET t == Append(SubSeq(s, 1, n), e) IN
         /\ t \in Seq(S) /\ Len(t) = n + 1
         /\ \A i \in 1 .. n : t[i] = s[i]
         /\ t[n + 1] = e
<1> DEFINE short == SubSeq(s, 1, n)
<1>1. Len(s) \in Nat /\ n \in Int
  OBVIOUS
<1>2. \A i \in 1 .. n : s[i] \in S
  BY <1>1, ElementOfSeq
<1>3. /\ short \in Seq(S)
      /\ Len(short) = IF 1 <= n THEN n - 1 + 1 ELSE 0
      /\ \A i \in 1 .. n - 1 + 1 : short[i] = s[1 + i - 1]
  BY <1>1, <1>2, SubSeqProperties, 1 \in Int
<1>4. Len(short) = n /\ \A i \in 1 .. n : short[i] = s[i]
  BY <1>1, <1>3
<1> HIDE DEF short
<1>5. /\ Append(short, e) \in Seq(S) /\ Len(Append(short, e)) = n + 1
      /\ \A i \in 1 .. n : Append(short, e)[i] = short[i]
      /\ Append(short, e)[n + 1] = e
  BY <1>1, <1>3, <1>4, AppendProperties
<1> QED
  BY <1>4, <1>5 DEF short

-----------------------------------------------------------------------------
(* Type correctness.                                                       *)

\* A step that evaluates a node keeps the types if the node is good.
LEMMA EvaluatedKeeps ==
  ASSUME TypeOK, tree' \in Trees,
         NEW k \in Nat, k <= Len(results), NEW node \in Nodes, Evaluated(k, node)
  PROVE  TypeOK'
<1>1. results \in Seq(Nodes) /\ Len(results) \in Nat
  BY DEF TypeOK
<1>2. Len(results) - k \in 0 .. Len(results)
  BY <1>1
<1>3. results' \in Seq(Nodes) /\ Len(results') = Len(results) - k + 1
  BY <1>1, <1>2, Shortened DEF Evaluated
<1>4. Len(results') <= MaxPending
  BY <1>1, <1>3, ExpressionAnalysisAssumption DEF Evaluated
<1> QED
  BY <1>3, <1>4 DEF TypeOK, Trees, Evaluated, block_vars

\* A step that ends the walk keeps the types if it names a verdict there is.
LEMMA EndKeeps ==
  ASSUME TypeOK, tree' \in Trees,
         NEW how \in {"crashed", "id_error", "operand_error", "call_error",
                      "mismatch_error", "return_type_error", "conditional_error",
                      "assigned", "declared", "returned"},
         End(how)
  PROVE  TypeOK' /\ verdict' # "tested"
  BY DEF TypeOK, Trees, End, block_vars

-----------------------------------------------------------------------------
(* Steps of the analysis as steps of ExpressionMeaning.                    *)

Items == {Item(n) : n \in Nodes}

\* The stack of the meaning is a sequence as long as the results.
LEMMA StackIsSeq ==
  ASSUME NEW rs \in Seq(Nodes)
  PROVE  /\ Stack(rs) \in Seq(Items) /\ Len(Stack(rs)) = Len(rs)
         /\ \A i \in 1 .. Len(rs) : Stack(rs)[i] = Item(rs[i])
<1>1. Len(rs) \in Nat /\ DOMAIN rs = 1 .. Len(rs)
  OBVIOUS
<1>2. \A i \in 1 .. Len(rs) : Item(rs[i]) \in Items
  BY DEF Items
<1> QED
  BY <1>1, <1>2 DEF Stack

\* The stack of the results is replaced as the results are.
LEMMA StackOfReplaced ==
  ASSUME NEW rs \in Seq(Nodes), NEW k \in Nat, k <= Len(rs), NEW node \in Nodes
  PROVE  Stack(Append(SubSeq(rs, 1, Len(rs) - k), node))
           = Append(SubSeq(Stack(rs), 1, Len(Stack(rs)) - k), Item(node))
<1> DEFINE n == Len(rs) - k
           new == Append(SubSeq(rs, 1, n), node)
           image == Append(SubSeq(Stack(rs), 1, n), Item(node))
<1>1. n \in 0 .. Len(rs) /\ Len(rs) \in Nat
  OBVIOUS
<1>2. /\ Stack(rs) \in Seq(Items) /\ Len(Stack(rs)) = Len(rs)
      /\ \A i \in 1 .. Len(rs) : Stack(rs)[i] = Item(rs[i])
  BY StackIsSeq
<1>3. Item(node) \in Items
  BY DEF Items
<1> HIDE DEF n
<1>4. /\ new \in Seq(Nodes) /\ Len(new) = n + 1
      /\ \A i \in 1 .. n : new[i] = rs[i]
      /\ new[n + 1] = node
  BY <1>1, Shortened
<1>5. /\ image \in Seq(Items) /\ Len(image) = n + 1
      /\ \A i \in 1 .. n : image[i] = Stack(rs)[i]
      /\ image[n + 1] = Item(node)
  BY <1>1, <1>2, <1>3, Shortened
<1> HIDE DEF new, image
<1>6. /\ Stack(new) \in Seq(Items) /\ Len(Stack(new)) = n + 1
      /\ \A i \in 1 .. (n + 1) : Stack(new)[i] = Item(new[i])
  BY <1>4, StackIsSeq
<1>7. ASSUME NEW i \in 1 .. Len(Stack(new))
      PROVE  Stack(new)[i] = image[i]
  <2>1. i \in 1 .. (n + 1) /\ n \in Nat
    BY <1>1, <1>6
  <2>2. CASE i = n + 1
    BY <2>1, <2>2, <1>4, <1>5, <1>6
  <2>3. CASE i \in 1 .. n
    <3>1. Stack(rs)[i] = Item(rs[i])
      BY <2>3, <1>1, <1>2
    <3> QED
      BY <2>1, <2>3, <3>1, <1>4, <1>5, <1>6
  <2> QED
    BY <2>1, <2>2, <2>3
<1>8. Stack(new) = image
  BY <1>5, <1>6, <1>7, SeqEqual
<1> QED
  BY <1>2, <1>8 DEF n, new, image

\* A node that is evaluated replaces its operands in both.
LEMMA EvaluatedMaps ==
  ASSUME TypeOK, NEW k \in Nat, k <= Len(results), NEW node \in Nodes, Evaluated(k, node)
  PROVE  Meaning!Replace(k, Item(node))
<1>1. results \in Seq(Nodes)
  BY DEF TypeOK
<1>2. Stack(results') = Append(SubSeq(Stack(results), 1, Len(Stack(results)) - k), Item(node))
  BY <1>1, StackOfReplaced DEF Evaluated
<1>3. k <= Len(Stack(results))
  BY <1>1, StackIsSeq
<1>4. verdict = "evaluating" /\ verdict' = verdict
  BY DEF Evaluated
<1>5. Stack(results)' = Stack(results')
  BY DEF Stack
<1> QED
  BY <1>2, <1>3, <1>4, <1>5 DEF Meaning!Replace, Stack, Item

\* The end of the walk ends the meaning too.
LEMMA EndMaps ==
  ASSUME NEW how, End(how)
  PROVE  Meaning!Ends(how)
  BY DEF End, Meaning!Ends

-----------------------------------------------------------------------------
(* One lemma per action: it keeps the types and is a step of the meaning.  *)

StepOK == TypeOK' /\ Meaning!Next /\ verdict' # "tested"

\* Only identifiers are misread.
LEMMA OnlyIdentifiersMisread ==
  ASSUME NEW type, NEW leaf, NEW union, NEW value
  PROVE  /\ Misread(Node(type, leaf, union, value)) \in BOOLEAN
         /\ leaf # "id" => Misread(Node(type, leaf, union, value)) = FALSE
  BY ExpressionAnalysisAssumption DEF Misread, Node

\* An evaluated node is a good step if the meaning can replace the same operands.
LEMMA NodeStep ==
  ASSUME TypeOK, tree' \in Trees, NEW k \in Nat, k <= Len(results),
         NEW type, NEW leaf, NEW union, NEW value,
         Node(type, leaf, union, value) \in Nodes,
         Evaluated(k, Node(type, leaf, union, value))
  PROVE  /\ TypeOK' /\ verdict' # "tested"
         /\ Meaning!Replace(k, Meaning!Item(type, value, leaf = "literal",
                                            Misread(Node(type, leaf, union, value))))
<1>1. Item(Node(type, leaf, union, value))
        = Meaning!Item(type, value, leaf = "literal", Misread(Node(type, leaf, union, value)))
  BY DEF Item, Node, Meaning!Item
<1> QED
  BY <1>1, EvaluatedKeeps, EvaluatedMaps DEF Evaluated

\* A node that is no leaf is no constant, and is not misread.
LEMMA InnerNodeStep ==
  ASSUME TypeOK, tree' \in Trees, NEW k \in Nat, k <= Len(results),
         NEW type \in {"INT_TYPE", "BOOL_TYPE", "VOID_TYPE"},
         NEW value \in Meaning!ValuesOf(type) \cup {Trap},
         Evaluated(k, Node(type, "none", 0, value))
  PROVE  /\ TypeOK' /\ verdict' # "tested"
         /\ Meaning!Replace(k, Meaning!Item(type, value, FALSE, FALSE))
<1>1. Node(type, "none", 0, value) \in Nodes
  BY NodeIsGood, 0 \in Int
<1>2. Misread(Node(type, "none", 0, value)) = FALSE
  BY OnlyIdentifiersMisread
<1>3. ("none" = "literal") = FALSE
  OBVIOUS
<1>4. /\ TypeOK' /\ verdict' # "tested"
      /\ Meaning!Replace(k, Meaning!Item(type, value, "none" = "literal",
                                         Misread(Node(type, "none", 0, value))))
  BY <1>1, NodeStep
<1> QED
  BY <1>2, <1>3, <1>4

\* A literal, of the source or folded, is a constant.
LEMMA LiteralNodeStep ==
  ASSUME TypeOK, tree' \in Trees, NEW k \in Nat, k <= Len(results),
         NEW type \in {"INT_TYPE", "BOOL_TYPE"},
         NEW n \in Signed(HalfInt), type = "BOOL_TYPE" => n \in {0, 1},
         Evaluated(k, Node(type, "literal", n, n))
  PROVE  /\ TypeOK' /\ verdict' # "tested"
         /\ Meaning!Replace(k, Meaning!Item(type, n, TRUE, FALSE))
<1>1. n \in Int /\ n \in Meaning!ValuesOf(type)
  BY Widths, Values
<1>2. Node(type, "literal", n, n) \in Nodes
  BY <1>1, NodeIsGood
<1>3. Misread(Node(type, "literal", n, n)) = FALSE
  BY OnlyIdentifiersMisread
<1>4. ("literal" = "literal") = TRUE
  OBVIOUS
<1>5. /\ TypeOK' /\ verdict' # "tested"
      /\ Meaning!Replace(k, Meaning!Item(type, n, "literal" = "literal",
                                         Misread(Node(type, "literal", n, n))))
  BY <1>2, NodeStep
<1> QED
  BY <1>3, <1>4, <1>5

\* An identifier is no constant, and may be misread.
LEMMA IdentifierStep ==
  ASSUME TypeOK, tree' \in Trees,
         NEW type \in {"INT_TYPE", "BOOL_TYPE"}, NEW a \in Addresses,
         NEW v \in Meaning!ValuesOf(type),
         Evaluated(0, Node(type, "id", a, v))
  PROVE  /\ TypeOK' /\ verdict' # "tested"
         /\ \E misread \in BOOLEAN :
              Meaning!Replace(0, Meaning!Item(type, v, FALSE, misread))
<1>1. a \in Int /\ v # Trap
  BY Widths, Values
<1>2. Node(type, "id", a, v) \in Nodes
  BY <1>1, NodeIsGood
<1>3. 0 \in Nat /\ 0 <= Len(results)
  BY DEF TypeOK
<1>4. ("id" = "literal") = FALSE
  OBVIOUS
<1>5. PICK misread \in BOOLEAN : misread = Misread(Node(type, "id", a, v))
  BY OnlyIdentifiersMisread
<1>6. /\ TypeOK' /\ verdict' # "tested"
      /\ Meaning!Replace(0, Meaning!Item(type, v, "id" = "literal", misread))
  BY <1>2, <1>3, <1>5, NodeStep
<1> QED
  BY <1>4, <1>6

\* A literal is a constant of the meaning.
LEMMA LiteralStep ==
  ASSUME TypeOK, EvalLiteral
  PROVE  StepOK
<1>0. 0 \in Nat /\ 0 <= Len(results)
  BY DEF TypeOK
<1>1. PICK type \in {"INT_TYPE", "BOOL_TYPE"}, n \in Signed(HalfInt) :
        /\ Visit("literal", type, <<>>)
        /\ type = "BOOL_TYPE" => n \in {0, 1}
        /\ Evaluated(0, Node(type, "literal", n, n))
  BY Widths DEF EvalLiteral
<1>2. tree' \in Trees /\ tree'.kind = "literal" /\ tree'.type = type
  BY <1>1, NoParams, Visited DEF Kinds
<1>3. /\ TypeOK' /\ verdict' # "tested"
      /\ Meaning!Replace(0, Meaning!Item(type, n, TRUE, FALSE))
  BY <1>0, <1>1, <1>2, LiteralNodeStep
<1>4. n \in Meaning!LiteralsOf(tree'.type)
  BY <1>1, <1>2, SameArithmetic DEF Meaning!LiteralsOf
<1>5. Meaning!Literal
  BY <1>2, <1>3, <1>4 DEF Meaning!Literal, Meaning!Replace, Meaning!Item, Stack, Item
<1> QED
  BY <1>3, <1>5 DEF StepOK, Meaning!Next

\* What a variable or a method yields is of its type.
LEMMA InputOfType ==
  ASSUME NEW type \in Types, NEW v \in Input(type)
  PROVE  v \in Meaning!ValuesOf(type)
  BY ExpressionAnalysisAssumption, Values DEF Input

\* An identifier of a variable is a variable of the meaning.
LEMMA IdStep ==
  ASSUME TypeOK, EvalId
  PROVE  StepOK
<1>1. PICK type \in VarTypes, a \in Addresses :
        /\ Visit("id", type, <<>>)
        /\ \E v \in Input(type) : Evaluated(0, Node(type, "id", a, v))
  BY DEF EvalId
<1>2. PICK v \in Input(type) : Evaluated(0, Node(type, "id", a, v))
  BY <1>1
<1>3. type \in {"INT_TYPE", "BOOL_TYPE"} /\ v \in Meaning!ValuesOf(type)
  BY InputOfType DEF VarTypes
<1>4. tree' \in Trees /\ tree'.kind = "id" /\ tree'.type = type
  BY <1>1, <1>3, NoParams, Visited DEF Kinds
<1>5. /\ TypeOK' /\ verdict' # "tested"
      /\ \E misread \in BOOLEAN :
           Meaning!Replace(0, Meaning!Item(type, v, FALSE, misread))
  BY <1>2, <1>3, <1>4, IdentifierStep
<1>6. PICK misread \in BOOLEAN : Meaning!Replace(0, Meaning!Item(type, v, FALSE, misread))
  BY <1>5
<1>7. v \in Meaning!ValuesOf(tree'.type)
  BY <1>3, <1>4 DEF Meaning!ValuesOf
<1>8. Meaning!Variable
  BY <1>4, <1>6, <1>7 DEF Meaning!Variable, Meaning!Replace, Meaning!Item, Stack, Item
<1> QED
  BY <1>5, <1>8 DEF StepOK, Meaning!Next

\* The name of a method is rejected, or taken for a variable that has no value.
LEMMA MethodNameStep ==
  ASSUME TypeOK, NEW params \in Params, EvalMethodName(params)
  PROVE  StepOK
<1>1. tree' \in Trees /\ tree'.kind = "method_name"
  BY Visited DEF EvalMethodName, Kinds
<1>2. CASE Len(params) >= 2
  <2>1. End("id_error")
    BY <1>2 DEF EvalMethodName
  <2>2. TypeOK' /\ verdict' # "tested" /\ Meaning!Ends("id_error")
    BY <1>1, <2>1, EndKeeps, EndMaps
  <2>3. Meaning!MethodName
    BY <1>1, <2>2 DEF Meaning!MethodName
  <2> QED
    BY <2>2, <2>3 DEF StepOK, Meaning!Next
<1>3. CASE ~(Len(params) >= 2)
  <2>1. PICK type \in {"INT_TYPE", "BOOL_TYPE"}, a \in Addresses :
          Evaluated(0, Node(type, "id", a, Unknown))
    BY <1>3 DEF EvalMethodName
  <2>2. Unknown \in Meaning!ValuesOf(type)
    BY Values
  <2>3. /\ TypeOK' /\ verdict' # "tested"
        /\ \E misread \in BOOLEAN :
             Meaning!Replace(0, Meaning!Item(type, Unknown, FALSE, misread))
    BY <1>1, <2>1, <2>2, IdentifierStep
  <2>4. Meaning!MethodName
    BY <1>1, <2>3 DEF Meaning!MethodName
  <2> QED
    BY <2>3, <2>4 DEF StepOK, Meaning!Next
<1> QED
  BY <1>2, <1>3

-----------------------------------------------------------------------------
(* Operations.                                                             *)

\* The operands of an operation are the last two results, as in the meaning.
LEMMA Operands ==
  ASSUME TypeOK, Len(results) >= 2
  PROVE  /\ Nth(0) \in Nodes /\ Nth(1) \in Nodes
         /\ Meaning!Nth(0) = Item(Nth(0)) /\ Meaning!Nth(1) = Item(Nth(1))
         /\ 2 \in Nat /\ 2 <= Len(results)
         /\ Len(Stack(results)) >= 2
<1>1. results \in Seq(Nodes) /\ Len(results) \in Nat
  BY DEF TypeOK
<1>2. 0 < Len(results) /\ 1 < Len(results)
  BY <1>1
<1> QED
  BY <1>1, <1>2, NthIsGood, StackIsSeq

\* The only operand of a unary operation is the last result, as in the meaning.
LEMMA Operand ==
  ASSUME TypeOK, Len(results) >= 1
  PROVE  /\ Nth(0) \in Nodes /\ Meaning!Nth(0) = Item(Nth(0))
         /\ 1 \in Nat /\ 1 <= Len(results)
         /\ Len(Stack(results)) = Len(results)
<1>1. results \in Seq(Nodes) /\ Len(results) \in Nat
  BY DEF TypeOK
<1>2. 0 < Len(results)
  BY <1>1
<1> QED
  BY <1>1, <1>2, NthIsGood, StackIsSeq

\* The analysis reports the operands that are not typed, and no others, and gives
\* each operation its type.
LEMMA ReportsIffNotTyped ==
  ASSUME NEW op \in BinaryOp, NEW left \in Nodes, NEW right \in Nodes
  PROVE  /\ OperandError(op, left, right) <=> ~Meaning!Typed(op, left.type, right.type)
         /\ ResultType(op) = Meaning!TypeOf(op)
         /\ ResultType(op) \in {"INT_TYPE", "BOOL_TYPE"}
<1>1. ResultType(op) = Meaning!TypeOf(op) /\ ResultType(op) \in {"INT_TYPE", "BOOL_TYPE"}
  <2>1. op # "MINUS"
    BY DEF BinaryOp, Arithmetic, Relational, Logical, Division
  <2> QED
    BY <2>1, SameArithmetic DEF ResultType, Meaning!TypeOf
<1>2. CASE op \in Arithmetic \cup Relational
  BY <1>1, <1>2, SameArithmetic
     DEF OperandError, Meaning!Typed, Arithmetic, Relational, Logical, Division
<1>3. CASE op = "EQ"
  BY <1>1, <1>3, SameArithmetic
     DEF OperandError, Meaning!Typed, Arithmetic, Relational, Logical, Division
<1>4. CASE op \in Logical
  BY <1>1, <1>4, SameArithmetic
     DEF OperandError, Meaning!Typed, Arithmetic, Relational, Logical, Division
<1> QED
  BY <1>2, <1>3, <1>4 DEF BinaryOp

\* What the operands are when they are typed and the program knows them.
LEMMA OperandValues ==
  ASSUME NEW op \in BinaryOp, NEW left \in Nodes, NEW right \in Nodes,
         ~OperandError(op, left, right),
         {left.value, right.value} \cap {Trap, Unknown} = {}
  PROVE  /\ left.value \in Int /\ right.value \in Int
         /\ op \in Arithmetic =>
              left.value \in Signed(HalfWord) /\ right.value \in Signed(HalfWord)
         /\ op \in Logical => left.value \in {0, 1} /\ right.value \in {0, 1}
<1>1. left.value \in Int /\ right.value \in Int
  BY GoodNode
<1>2. CASE op \in Arithmetic
  <2>1. left.type = "INT_TYPE" /\ right.type = "INT_TYPE" /\ op \notin Logical
    BY <1>2 DEF OperandError, Arithmetic, Relational, Logical, Division
  <2> QED
    BY <1>1, <2>1, GoodNode
<1>3. CASE op \in Logical
  <2>1. left.type = "BOOL_TYPE" /\ right.type = "BOOL_TYPE" /\ op \notin Arithmetic
    BY <1>3 DEF OperandError, Arithmetic, Relational, Logical, Division
  <2> QED
    BY <1>1, <2>1, GoodNode
<1> QED
  BY <1>1, <1>2, <1>3

\* The remainder that idivq leaves in %rdx is a word.
LEMMA RemainderInRange ==
  ASSUME NEW h \in Nat \ {0}, NEW a \in Signed(h), NEW b \in Int, b # 0
  PROVE  a - b * Quotient(a, b) \in Signed(h)
<1> DEFINE A == IF a < 0 THEN -a ELSE a
           B == IF b < 0 THEN -b ELSE b
           q == A \div B
           r == A % B
<1>1. /\ a \in Int /\ -h <= a /\ a < h
      /\ A \in Nat /\ B \in Nat \ {0}
      /\ a >= 0 => A = a
      /\ a < 0 => A = -a
      /\ b >= 0 => B = b
      /\ b < 0 => B = -b
  BY DEF Signed
<1>2. Quotient(a, b) = IF (a < 0) = (b < 0) THEN q ELSE -q
  BY DEF Quotient
<1> HIDE DEF A, B
<1>3. q \in 0 .. A /\ r \in Int /\ A = B * q + r /\ 0 <= r
  BY <1>1, DivBound, DivMod
<1> HIDE DEF q, r
<1>4. PICK p \in Int : p = B * q
  BY <1>1, <1>3
<1>5. 0 <= p
  <2>1. B \in Nat /\ q \in Nat
    BY <1>1, <1>3
  <2>2. B * q \in Nat
    BY <2>1
  <2> QED
    BY <1>4, <2>2
<1>6. b * Quotient(a, b) = IF a < 0 THEN -p ELSE p
  <2>1. q \in Int /\ B \in Int
    BY <1>1, <1>3
  <2>2. CASE a < 0 /\ b < 0
    <3>1. b = -B /\ Quotient(a, b) = q
      BY <1>1, <1>2, <2>2
    <3>2. (-B) * q = -(B * q)
      BY <2>1
    <3> QED
      BY <1>4, <2>2, <3>1, <3>2
  <2>3. CASE a < 0 /\ b >= 0
    <3>1. b = B /\ Quotient(a, b) = -q
      BY <1>1, <1>2, <2>3
    <3>2. B * (-q) = -(B * q)
      BY <2>1
    <3> QED
      BY <1>4, <2>3, <3>1, <3>2
  <2>4. CASE a >= 0 /\ b < 0
    <3>1. b = -B /\ Quotient(a, b) = -q
      BY <1>1, <1>2, <2>4
    <3>2. (-B) * (-q) = B * q
      BY <2>1
    <3> QED
      BY <1>1, <1>4, <2>4, <3>1, <3>2
  <2>5. CASE a >= 0 /\ b >= 0
    <3>1. b = B /\ Quotient(a, b) = q
      BY <1>1, <1>2, <2>5
    <3> QED
      BY <1>1, <1>4, <2>5, <3>1
  <2> QED
    BY <1>1, <2>2, <2>3, <2>4, <2>5
<1>7. PICK m : m = b * Quotient(a, b)
  OBVIOUS
<1>8. a - m \in Signed(h)
  BY <1>1, <1>3, <1>4, <1>5, <1>6, <1>7 DEF Signed
<1> QED
  BY <1>7, <1>8

\* What the instructions of a node do to known words is what the language says of
\* its operator.
LEMMA InstructionIsMeant ==
  ASSUME NEW op \in BinaryOp, NEW a \in Int, NEW b \in Int,
         op \in Arithmetic => a \in Signed(HalfWord) /\ b \in Signed(HalfWord),
         op \in Logical => a \in {0, 1} /\ b \in {0, 1}
  PROVE  Instruction(op, a, b) =
           IF DivisionFails(op, a, b, HalfWord) THEN Trap ELSE Computed(op, a, b, HalfWord)
<1>1. CASE op \in {"ADD", "SUB", "MUL"}
  <2>1. op \in Arithmetic /\ op \notin Division
    BY <1>1 DEF Arithmetic, Division
  <2>2. Instruction(op, a, b) = Wrap(Compute(op, a, b), HalfWord)
    <3>1. CASE op = "ADD"
      BY <2>1, <3>1 DEF Instruction, Compute, Relational
    <3>2. CASE op = "SUB"
      BY <2>1, <3>2 DEF Instruction, Compute, Relational
    <3>3. CASE op = "MUL"
      BY <2>1, <3>3 DEF Instruction, Compute, Relational
    <3> QED
      BY <1>1, <3>1, <3>2, <3>3
  <2> QED
    BY <2>1, <2>2 DEF DivisionFails, Computed
<1>2. CASE op \in Division
  <2>1. /\ a \in Signed(HalfWord) /\ op \in Arithmetic
        /\ op \notin {"ADD", "SUB", "MUL"}
        /\ DivisionFails(op, a, b, HalfWord) = DivisionFails("DIV", a, b, HalfWord)
    BY <1>2 DEF Arithmetic, Division, DivisionFails
  <2>2. Instruction(op, a, b) = Divided(op, a, b)
    <3>1. op \notin {"ADD", "SUB", "MUL", "AND", "OR"} /\ op \notin Relational \cup {"EQ"}
      BY <1>2 DEF Division, Relational
    <3> QED
      BY <1>2, <3>1 DEF Instruction
  <2>3. CASE DivisionFails("DIV", a, b, HalfWord)
    BY <2>1, <2>2, <2>3 DEF Divided
  <2>4. CASE ~DivisionFails("DIV", a, b, HalfWord)
    <3>1. b # 0 /\ Quotient(a, b) \in Signed(HalfWord)
      BY <2>4 DEF DivisionFails, Division
    <3>2. a - b * Quotient(a, b) \in Signed(HalfWord)
      BY <2>1, <3>1, RemainderInRange, Widths
    <3>3. Compute(op, a, b) = IF op = "DIV" THEN Quotient(a, b) ELSE a - b * Quotient(a, b)
      BY <1>2 DEF Compute, Division
    <3>4. Divided(op, a, b) = Compute(op, a, b)
      BY <2>4, <3>3 DEF Divided
    <3>5. Compute(op, a, b) \in Signed(HalfWord)
      BY <3>1, <3>2, <3>3
    <3>6. Computed(op, a, b, HalfWord) = Compute(op, a, b)
      BY <2>1, <3>5, WrapIdentity, Widths DEF Computed
    <3> QED
      BY <2>1, <2>2, <2>4, <3>4, <3>6
  <2> QED
    BY <2>3, <2>4
<1>3. CASE op \in Logical
  <2>1. op \notin Arithmetic /\ op \notin Division
    BY <1>3 DEF Arithmetic, Logical, Division
  <2>2. a \in {0, 1} /\ b \in {0, 1}
    BY <1>3
  <2>3. Instruction(op, a, b) = Compute(op, a, b)
    BY <1>3, <2>2 DEF Instruction, Compute, Logical, Division, Truth
  <2> QED
    BY <2>1, <2>3 DEF DivisionFails, Computed
<1>4. CASE op \in Relational \cup {"EQ"}
  <2>1. op \notin Arithmetic /\ op \notin Division /\ op \notin {"ADD", "SUB", "MUL", "AND", "OR"}
    BY <1>4 DEF Arithmetic, Relational, Division
  <2>2. Instruction(op, a, b) = Compute(op, a, b)
    BY <1>4, <2>1 DEF Instruction
  <2> QED
    BY <2>1, <2>2 DEF DivisionFails, Computed
<1> QED
  BY <1>1, <1>2, <1>3, <1>4 DEF BinaryOp, Arithmetic

\* what is divided by a word that is no constant and is taken for one
MisreadDivision(op, left, right, v) ==
  /\ op = "DIV" /\ Misread(right) /\ left.value # Trap
  /\ v \in Meaning!ValuesOf("INT_TYPE")

\* The shift by a constant divisor computes the quotient, and the shift by a word
\* that is no constant computes some word.
LEMMA ShiftIsMeant ==
  ASSUME NEW op \in BinaryOp, NEW left \in Nodes, NEW right \in Nodes,
         ~OperandError(op, left, right), Shifts(op, right),
         NEW v, v = Shifted(left.value, right.union)
  PROVE  \/ v \in Meaning!Evaluations(op, left.value, right.value)
         \/ MisreadDivision(op, left, right, v)
<1>1. /\ op = "DIV" /\ op \in Division /\ op \in Arithmetic
      /\ right.leaf \in {"literal", "id"} /\ IsPowerOfTwo(right.union)
      /\ right.union \in Int
  BY GoodNode DEF Shifts, Division, Arithmetic
<1>2. right.union \in Nat \ {0}
  BY <1>1 DEF IsPowerOfTwo
<1>3. /\ left.value \in Signed(HalfWord) \cup {Trap, Unknown}
      /\ right.value # Trap
  <2>1. left.type = "INT_TYPE"
    BY <1>1 DEF OperandError, Arithmetic, Relational, Logical, Division
  <2>2. right.value # Trap
    BY <1>1, GoodNode, Widths
  <2> QED
    BY <2>1, <2>2, GoodNode
<1>4. CASE left.value = Trap
  BY <1>4 DEF Shifted, Meaning!Evaluations
<1>5. left.value # Trap /\ left.value # Unknown =>
        /\ left.value \in Signed(HalfWord) /\ left.value \in Int
        /\ v = Quotient(left.value, right.union) /\ v \in Signed(HalfWord)
  <2> SUFFICES ASSUME left.value # Trap, left.value # Unknown
               PROVE  /\ left.value \in Signed(HalfWord) /\ left.value \in Int
                      /\ v = Quotient(left.value, right.union) /\ v \in Signed(HalfWord)
    OBVIOUS
  <2>1. left.value \in Signed(HalfWord) /\ left.value \in Int
    BY <1>3, Widths
  <2>2. v = Quotient(left.value, right.union)
    BY <1>2, <2>1, BiasedQuotient DEF Shifted
  <2>3. v \in Signed(HalfWord)
    BY <1>2, <2>1, <2>2, PositiveDivisor, Widths
  <2> QED
    BY <2>1, <2>2, <2>3
<1>6. CASE left.value # Trap /\ right.leaf = "id"
  <2>1. v \in Signed(HalfWord) \cup {Unknown}
    BY <1>5, <1>6 DEF Shifted
  <2>2. Misread(right)
    BY <1>1, <1>6 DEF Misread, Shifts
  <2> QED
    BY <1>1, <1>6, <2>1, <2>2, Values DEF MisreadDivision
<1>7. CASE left.value = Unknown /\ right.leaf = "literal"
  <2>1. v = Unknown /\ Trap \notin {left.value, right.value}
    BY <1>3, <1>7, Widths DEF Shifted
  <2>2. op \notin {"ADD", "SUB", "MUL"} \cup Logical /\ op \notin Relational \cup {"EQ"}
    BY <1>1 DEF Logical, Relational
  <2> QED
    BY <1>1, <1>7, <2>1, <2>2, SameArithmetic DEF Meaning!Evaluations
<1>8. CASE left.value \notin {Trap, Unknown} /\ right.leaf = "literal"
  <2>1. right.value = right.union /\ {left.value, right.value} \cap {Trap, Unknown} = {}
    BY <1>1, <1>8, GoodNode, Widths
  <2>2. v = Quotient(left.value, right.union) /\ v \in Signed(HalfWord)
    BY <1>5, <1>8
  <2>3. ~DivisionFails(op, left.value, right.value, HalfWord)
    BY <1>2, <2>1, <2>2 DEF DivisionFails
  <2>4. Compute(op, left.value, right.value) = v
    BY <1>1, <2>1, <2>2 DEF Compute
  <2>5. Computed(op, left.value, right.value, HalfWord) = v
    BY <1>1, <2>2, <2>4, WrapIdentity, Widths DEF Computed
  <2> QED
    BY <2>1, <2>3, <2>5, SameComputed DEF Meaning!Evaluations
<1> QED
  BY <1>1, <1>4, <1>6, <1>7, <1>8

\* A node that stays in the tree computes what the language says of its operator.
LEMMA RunTimeIsMeant ==
  ASSUME NEW op \in BinaryOp, NEW left \in Nodes, NEW right \in Nodes,
         ~OperandError(op, left, right),
         NEW v \in RunTime(op, left, right)
  PROVE  \/ v \in Meaning!Evaluations(op, left.value, right.value)
         \/ MisreadDivision(op, left, right, v)
<1>1. CASE Shifts(op, right)
  <2>1. v = Shifted(left.value, right.union)
    BY <1>1 DEF RunTime
  <2> QED
    BY <1>1, <2>1, ShiftIsMeant
<1>2. CASE ~Shifts(op, right) /\ Trap \in {left.value, right.value}
  BY <1>2 DEF RunTime, Meaning!Evaluations
<1>3. CASE /\ ~Shifts(op, right)
           /\ Trap \notin {left.value, right.value} /\ Unknown \in {left.value, right.value}
  <2>1. v \in OfUnknown(op)
    BY <1>3 DEF RunTime
  <2> QED
    BY <1>3, <2>1, SameArithmetic DEF OfUnknown, Meaning!Evaluations
<1>4. CASE /\ ~Shifts(op, right)
           /\ {left.value, right.value} \cap {Trap, Unknown} = {}
  <2>1. v = Instruction(op, left.value, right.value)
    BY <1>4 DEF RunTime
  <2>2. v = IF DivisionFails(op, left.value, right.value, HalfWord) THEN Trap
            ELSE Computed(op, left.value, right.value, HalfWord)
    BY <1>4, <2>1, OperandValues, InstructionIsMeant
  <2> QED
    BY <1>4, <2>2, SameComputed DEF Meaning!Evaluations
<1> QED
  BY <1>1, <1>2, <1>3, <1>4

\* The value of an operation is of its type.
LEMMA EvaluationsTyped ==
  ASSUME NEW op \in BinaryOp, NEW left \in Nodes, NEW right \in Nodes,
         ~OperandError(op, left, right),
         NEW v \in Meaning!Evaluations(op, left.value, right.value)
  PROVE  v \in Meaning!ValuesOf(ResultType(op)) \cup {Trap}
<1>1. CASE Trap \in {left.value, right.value}
  BY <1>1 DEF Meaning!Evaluations
<1>2. CASE Trap \notin {left.value, right.value} /\ Unknown \in {left.value, right.value}
  <2>1. CASE op \in Division
    <3>1. op \notin {"ADD", "SUB", "MUL"} \cup Logical /\ op \notin Relational \cup {"EQ"}
      BY <2>1 DEF Division, Logical, Relational
    <3>2. v \in {Unknown, Trap}
      BY <1>2, <2>1, <3>1, SameArithmetic DEF Meaning!Evaluations
    <3>3. ResultType(op) = "INT_TYPE"
      BY <2>1 DEF ResultType, Arithmetic
    <3> QED
      BY <3>2, <3>3, Values
  <2>2. CASE op \in {"ADD", "SUB", "MUL"} \cup Logical
    <3>1. v = Unknown
      BY <1>2, <2>2, SameArithmetic DEF Meaning!Evaluations, Division, Logical, Relational
    <3> QED
      BY <3>1, Values DEF ResultType
  <2>3. CASE op \in Relational \cup {"EQ"}
    <3>1. /\ op \notin Arithmetic /\ op \notin Division
          /\ op \notin {"ADD", "SUB", "MUL"} \cup Logical
      BY <2>3 DEF Arithmetic, Relational, Division, Logical
    <3>2. v \in {0, 1} /\ ResultType(op) = "BOOL_TYPE"
      BY <1>2, <2>3, <3>1, SameArithmetic DEF Meaning!Evaluations, ResultType
    <3> QED
      BY <3>2, Values
  <2> QED
    BY <2>1, <2>2, <2>3 DEF BinaryOp, Arithmetic
<1>3. CASE {left.value, right.value} \cap {Trap, Unknown} = {}
  <2>1. left.value \in Int /\ right.value \in Int
    BY <1>3, OperandValues
  <2>2. CASE DivisionFails(op, left.value, right.value, HalfWord)
    BY <1>3, <2>2, SameComputed DEF Meaning!Evaluations
  <2>3. CASE ~DivisionFails(op, left.value, right.value, HalfWord)
    <3>1. v = Computed(op, left.value, right.value, HalfWord)
      BY <1>3, <2>3, SameComputed DEF Meaning!Evaluations
    <3>2. /\ v \in Signed(HalfWord)
          /\ op \notin Arithmetic => v \in {0, 1}
      BY <2>1, <2>3, <3>1, ComputedInRange, Widths
    <3> QED
      BY <3>2, Values DEF ResultType
  <2> QED
    BY <2>2, <2>3
<1> QED
  BY <1>1, <1>2, <1>3

\* Operands of a wrong type are reported where the meaning reports them.
LEMMA WrongOperandsStep ==
  ASSUME TypeOK, NEW op \in BinaryOp, WrongOperands(op)
  PROVE  StepOK
<1>1. Len(results) >= 2 /\ OperandError(op, Nth(1), Nth(0)) /\ End("operand_error")
  BY DEF WrongOperands
<1>2. tree' \in Trees /\ tree'.kind = op
  BY NoParams, Visited DEF WrongOperands, Kinds
<1>3. TypeOK' /\ verdict' # "tested" /\ Meaning!Ends("operand_error")
  BY <1>1, <1>2, EndKeeps, EndMaps
<1>4. ~Meaning!Typed(op, Meaning!Nth(1).type, Meaning!Nth(0).type)
  BY <1>1, Operands, ReportsIffNotTyped DEF Item
<1>5. Meaning!Operation(op)
  BY <1>1, <1>2, <1>3, <1>4, Operands DEF Meaning!Operation, Stack, Item
<1> QED
  BY <1>3, <1>5, SameArithmetic DEF StepOK, Meaning!Next

\* An operation left to run time has a value that the meaning allows.
LEMMA OperateStep ==
  ASSUME TypeOK, NEW op \in BinaryOp, Operate(op)
  PROVE  StepOK
<1> DEFINE left == Nth(1)
           right == Nth(0)
<1>1. Len(results) >= 2 /\ ~OperandError(op, left, right)
  BY DEF Operate
<1>2. PICK v \in RunTime(op, left, right) : Evaluated(2, Node(ResultType(op), "none", 0, v))
  BY DEF Operate
<1>3. tree' \in Trees /\ tree'.kind = op
  BY NoParams, Visited DEF Operate, Kinds
<1>4. left \in Nodes /\ right \in Nodes /\ 2 \in Nat /\ 2 <= Len(results)
  BY <1>1, Operands
<1>5. \/ v \in Meaning!Evaluations(op, left.value, right.value)
      \/ MisreadDivision(op, left, right, v)
  BY <1>1, <1>2, <1>4, RunTimeIsMeant
<1>6. /\ v \in Meaning!ValuesOf(ResultType(op)) \cup {Trap}
      /\ ResultType(op) \in {"INT_TYPE", "BOOL_TYPE"}
      /\ ResultType(op) = Meaning!TypeOf(op)
  <2>1. op = "DIV" => ResultType(op) = "INT_TYPE"
    BY DEF ResultType, Arithmetic, Division
  <2> QED
    BY <1>1, <1>4, <1>5, <2>1, EvaluationsTyped, ReportsIffNotTyped DEF MisreadDivision
<1>7. /\ TypeOK' /\ verdict' # "tested"
      /\ Meaning!Replace(2, Meaning!Item(ResultType(op), v, FALSE, FALSE))
  BY <1>2, <1>3, <1>4, <1>6, InnerNodeStep
<1>8. /\ Meaning!Nth(1).type = left.type /\ Meaning!Nth(0).type = right.type
      /\ Meaning!Nth(1).value = left.value /\ Meaning!Nth(0).value = right.value
      /\ Meaning!Nth(0).misread = Misread(right)
      /\ Len(Stack(results)) >= 2
  BY <1>1, Operands DEF Item
<1>9. Meaning!Typed(op, Meaning!Nth(1).type, Meaning!Nth(0).type)
  BY <1>1, <1>4, <1>8, ReportsIffNotTyped
<1>10. \/ v \in Meaning!Evaluations(op, Meaning!Nth(1).value, Meaning!Nth(0).value)
       \/ /\ op = "DIV" /\ Meaning!Nth(0).misread /\ Meaning!Nth(1).value # Trap
          /\ v \in Meaning!ValuesOf("INT_TYPE")
  BY <1>5, <1>8 DEF MisreadDivision
<1> HIDE DEF left, right
<1>11. Meaning!Replace(2, Meaning!Item(Meaning!TypeOf(op), v, FALSE, FALSE))
  BY <1>6, <1>7
<1>12. Meaning!Operation(op)
  BY <1>3, <1>8, <1>9, <1>10, <1>11 DEF Meaning!Operation, Stack, Item
<1> QED
  BY <1>7, <1>12, SameArithmetic DEF StepOK, Meaning!Next

\* What is folded is either what the program computes or outside of int.
LEMMA FoldStep ==
  ASSUME TypeOK, NEW op \in BinaryOp, Fold(op)
  PROVE  StepOK
<1> DEFINE left == Nth(1)
           right == Nth(0)
<1>1. /\ Len(results) >= 2 /\ ~OperandError(op, left, right)
      /\ left.leaf = "literal" /\ right.leaf = "literal"
  BY DEF Fold, Literal
<1>2. tree' \in Trees /\ tree'.kind = op
  BY NoParams, Visited DEF Fold, Kinds
<1>3. left \in Nodes /\ right \in Nodes /\ 2 \in Nat /\ 2 <= Len(results)
  BY <1>1, Operands
<1>4. /\ left.union = left.value /\ right.union = right.value
      /\ left.value \in Int /\ right.value \in Int
  BY <1>1, <1>3, GoodNode
<1>5. /\ Meaning!Nth(1).value = left.value /\ Meaning!Nth(0).value = right.value
      /\ Meaning!Nth(1).type = left.type /\ Meaning!Nth(0).type = right.type
      /\ Meaning!Nth(1).constant = TRUE /\ Meaning!Nth(0).constant = TRUE
      /\ Len(Stack(results)) >= 2
  <2>1. /\ Item(left).value = left.value /\ Item(right).value = right.value
        /\ Item(left).constant = TRUE /\ Item(right).constant = TRUE
        /\ Item(left).type = left.type /\ Item(right).type = right.type
    BY <1>1 DEF Item
  <2>2. /\ Meaning!Nth(1) = Item(left) /\ Meaning!Nth(0) = Item(right)
        /\ Len(Stack(results)) >= 2
    BY <1>1, Operands
  <2> HIDE DEF left, right
  <2> QED
    BY <2>1, <2>2
<1>6. /\ Meaning!Typed(op, Meaning!Nth(1).type, Meaning!Nth(0).type)
      /\ ResultType(op) = Meaning!TypeOf(op)
      /\ ResultType(op) \in {"INT_TYPE", "BOOL_TYPE"}
  BY <1>1, <1>3, <1>5, ReportsIffNotTyped
<1>7. CASE DivisionFails(op, left.union, right.union, HalfInt)
  <2>1. End("crashed")
    BY <1>7 DEF Fold
  <2>2. TypeOK' /\ verdict' # "tested" /\ Meaning!Ends("crashed")
    BY <1>2, <2>1, EndKeeps, EndMaps
  <2>3. Meaning!Overflows(op, Meaning!Nth(1).value, Meaning!Nth(0).value)
    BY <1>4, <1>5, <1>7, SameComputed DEF Meaning!Overflows
  <2> HIDE DEF left, right
  <2>4. Meaning!Operation(op)
    BY <1>2, <1>5, <1>6, <2>2, <2>3 DEF Meaning!Operation, Stack, Item
  <2> QED
    BY <2>2, <2>4, SameArithmetic DEF StepOK, Meaning!Next
<1>8. CASE ~DivisionFails(op, left.union, right.union, HalfInt)
  <2>1. PICK n : n = Computed(op, left.union, right.union, HalfInt)
    OBVIOUS
  <2>2. Evaluated(2, Node(ResultType(op), "literal", n, n))
    BY <1>8, <2>1 DEF Fold
  <2>3. n \in Signed(HalfInt) /\ (op \notin Arithmetic => n \in {0, 1})
    BY <1>4, <1>8, <2>1, ComputedInRange, Widths
  <2>4. ResultType(op) = "BOOL_TYPE" => n \in {0, 1}
    BY <2>3 DEF ResultType
  <2>5. /\ TypeOK' /\ verdict' # "tested"
        /\ Meaning!Replace(2, Meaning!Item(ResultType(op), n, TRUE, FALSE))
    BY <1>2, <1>3, <1>6, <2>2, <2>3, <2>4, LiteralNodeStep
  <2>6. Meaning!Replace(2, Meaning!Item(Meaning!TypeOf(op), n, TRUE, FALSE))
    BY <1>6, <2>5
  <2>7. CASE ~Meaning!Overflows(op, left.value, right.value)
    <3>1. op \in Arithmetic => Compute(op, left.value, right.value) \in Signed(HalfInt)
      BY <2>7, SameArithmetic, SameCompute DEF Meaning!Overflows
    <3>2. ~DivisionFails(op, left.value, right.value, HalfInt)
      BY <1>4, <1>8
    <3>3. /\ ~DivisionFails(op, left.value, right.value, HalfWord)
          /\ n = Computed(op, left.value, right.value, HalfWord)
      BY <1>4, <2>1, <3>1, <3>2, SameInBothWidths, Widths
    <3>4. Trap \notin {left.value, right.value} /\ Unknown \notin {left.value, right.value}
      BY <1>4, Widths
    <3>5. n \in Meaning!Evaluations(op, left.value, right.value)
      BY <3>3, <3>4, SameComputed DEF Meaning!Evaluations
    <3>6. n \in Meaning!Evaluations(op, Meaning!Nth(1).value, Meaning!Nth(0).value)
      BY <1>5, <3>5
    <3> HIDE DEF left, right
    <3>7. Meaning!Operation(op)
      BY <1>2, <1>5, <1>6, <2>6, <3>6 DEF Meaning!Operation, Stack, Item
    <3> QED
      BY <2>5, <3>7, SameArithmetic DEF StepOK, Meaning!Next
  <2>8. CASE Meaning!Overflows(op, left.value, right.value)
    <3>1. Meaning!Overflows(op, Meaning!Nth(1).value, Meaning!Nth(0).value)
      BY <1>5, <2>8
    <3>2. n \in Meaning!Signed(HalfInt)
      BY <2>3, SameArithmetic
    <3> HIDE DEF left, right
    <3>3. Meaning!Operation(op)
      BY <1>2, <1>5, <1>6, <2>6, <3>1, <3>2 DEF Meaning!Operation, Stack, Item
    <3> QED
      BY <2>5, <3>3, SameArithmetic DEF StepOK, Meaning!Next
  <2> QED
    BY <2>7, <2>8
<1> QED
  BY <1>7, <1>8

\* negq, and testq with sete, negate what the language negates.
LEMMA UnaryIsMeant ==
  ASSUME NEW op \in {"MINUS", "NEG"}, NEW operand \in Nodes, ~UnaryError(op, operand),
         NEW v \in Unary(op, operand.value)
  PROVE  /\ v \in Meaning!Negations(op, operand.value)
         /\ v \in Meaning!ValuesOf(UnaryType(op)) \cup {Trap}
<1>1. /\ operand.type = UnaryType(op)
      /\ operand.value \in Int \cup {Trap, Unknown}
  BY GoodNode DEF UnaryError
<1>2. CASE operand.value = Trap
  BY <1>2, Widths DEF Unary, Meaning!Negations
<1>3. CASE operand.value = Unknown
  <2>1. Unknown # Trap /\ Unknown \notin Int
    BY Widths
  <2>2. v \in IF op = "MINUS" THEN {Unknown} ELSE {0, 1}
    BY <1>3, <2>1 DEF Unary
  <2>3. v \in Meaning!Negations(op, operand.value)
    BY <1>3, <2>1, <2>2 DEF Meaning!Negations
  <2> QED
    BY <2>2, <2>3, Values DEF UnaryType
<1>4. CASE operand.value \in Int /\ op = "MINUS"
  <2>1. operand.value # Trap /\ operand.value # Unknown
    BY <1>4, Widths
  <2>2. v = Wrap(-operand.value, HalfWord)
    BY <1>4, <2>1 DEF Unary
  <2>3. v \in Meaning!Negations(op, operand.value)
    BY <1>4, <2>1, <2>2, SameArithmetic DEF Meaning!Negations
  <2>4. -operand.value \in Int
    BY <1>4
  <2>5. v \in Signed(HalfWord)
    BY <2>2, <2>4, WrapInRange, Widths
  <2> QED
    BY <1>4, <2>3, <2>5, Values DEF UnaryType
<1>5. CASE operand.value \in Int /\ op = "NEG"
  <2>1. operand.value # Trap /\ operand.value # Unknown
    BY <1>5, Widths
  <2>2. operand.value \in {0, 1}
    BY <1>1, <1>5, <2>1, GoodNode DEF UnaryType
  <2>3. v = Truth(operand.value = 0)
    BY <1>5, <2>1 DEF Unary
  <2>4. v = 1 - operand.value /\ v \in {0, 1}
    BY <2>2, <2>3 DEF Truth
  <2>5. v \in Meaning!Negations(op, operand.value)
    BY <1>5, <2>1, <2>4 DEF Meaning!Negations
  <2> QED
    BY <1>5, <2>4, <2>5, Values DEF UnaryType
<1> QED
  BY <1>1, <1>2, <1>3, <1>4, <1>5

\* Unary operations are evaluated at run time.
LEMMA UnaryStep ==
  ASSUME TypeOK, NEW op \in {"MINUS", "NEG"}, EvalUnary(op)
  PROVE  StepOK
<1> DEFINE operand == Nth(0)
<1>1. Len(results) >= 1
  BY DEF EvalUnary
<1>2. /\ operand \in Nodes /\ 1 \in Nat /\ 1 <= Len(results)
      /\ Meaning!Nth(0).type = operand.type /\ Meaning!Nth(0).value = operand.value
      /\ Len(Stack(results)) >= 1
  BY <1>1, Operand DEF Item
<1>3. tree' \in Trees /\ tree'.kind = op
  BY NoParams, Visited DEF EvalUnary, Kinds
<1>4. UnaryType(op) = Meaning!TypeOf(op) /\ UnaryType(op) \in {"INT_TYPE", "BOOL_TYPE"}
  <2>1. "NEG" \notin Arithmetic
    BY DEF Arithmetic, Division
  <2> QED
    BY <2>1, SameArithmetic DEF UnaryType, Meaning!TypeOf
<1>5. CASE UnaryError(op, operand)
  <2>1. End("operand_error")
    BY <1>5 DEF EvalUnary
  <2>2. TypeOK' /\ verdict' # "tested" /\ Meaning!Ends("operand_error")
    BY <1>3, <2>1, EndKeeps, EndMaps
  <2>3. Meaning!Nth(0).type # Meaning!TypeOf(op)
    BY <1>2, <1>4, <1>5 DEF UnaryError
  <2> HIDE DEF operand
  <2>4. Meaning!Negation(op)
    BY <1>2, <1>3, <2>2, <2>3 DEF Meaning!Negation, Stack, Item
  <2> QED
    BY <2>2, <2>4 DEF StepOK, Meaning!Next
<1>6. CASE ~UnaryError(op, operand)
  <2>1. PICK v \in Unary(op, operand.value) : Evaluated(1, Node(UnaryType(op), "none", 0, v))
    BY <1>6 DEF EvalUnary
  <2>2. /\ v \in Meaning!Negations(op, operand.value)
        /\ v \in Meaning!ValuesOf(UnaryType(op)) \cup {Trap}
    BY <1>2, <1>6, <2>1, UnaryIsMeant
  <2>3. /\ TypeOK' /\ verdict' # "tested"
        /\ Meaning!Replace(1, Meaning!Item(UnaryType(op), v, FALSE, FALSE))
    BY <1>2, <1>3, <1>4, <2>1, <2>2, InnerNodeStep
  <2>4. /\ Meaning!Nth(0).type = Meaning!TypeOf(op)
        /\ v \in Meaning!Negations(op, Meaning!Nth(0).value)
    BY <1>2, <1>4, <1>6, <2>2 DEF UnaryError
  <2>5. Meaning!Replace(1, Meaning!Item(Meaning!TypeOf(op), v, FALSE, FALSE))
    BY <1>4, <2>3
  <2> HIDE DEF operand
  <2>6. Meaning!Negation(op)
    BY <1>2, <1>3, <2>4, <2>5 DEF Meaning!Negation, Stack, Item
  <2> QED
    BY <2>3, <2>6 DEF StepOK, Meaning!Next
<1> QED
  BY <1>5, <1>6

-----------------------------------------------------------------------------
(* Calls and statements.                                                   *)

\* A call that no method answers is reported.
LEMMA NoSuchMethodStep ==
  ASSUME TypeOK, NoSuchMethod
  PROVE  StepOK
<1>1. tree' \in Trees /\ tree'.kind = "no_method" /\ End("call_error")
  BY NoParams, Visited DEF NoSuchMethod, Kinds
<1>2. TypeOK' /\ verdict' # "tested" /\ Meaning!Ends("call_error")
  BY <1>1, EndKeeps, EndMaps
<1>3. Meaning!BadCall
  BY <1>1, <1>2 DEF Meaning!BadCall
<1> QED
  BY <1>2, <1>3 DEF StepOK, Meaning!Next

\* So is an argument that does not fit its parameter.
LEMMA WrongArgumentStep ==
  ASSUME TypeOK, NEW parameter \in VarTypes, WrongArgument(parameter)
  PROVE  StepOK
<1>1. /\ Len(results) >= 1 /\ Nth(0).type # parameter /\ End("call_error")
      /\ parameter \in Types
  BY DEF WrongArgument, VarTypes
<1>2. tree' \in Trees /\ tree'.kind = "argument" /\ tree'.type = parameter
  BY <1>1, NoParams, Visited DEF WrongArgument, Kinds
<1>3. TypeOK' /\ verdict' # "tested" /\ Meaning!Ends("call_error")
  BY <1>1, <1>2, EndKeeps, EndMaps
<1>4. Meaning!Nth(0).type # tree'.type /\ Len(Stack(results)) >= 1
  BY <1>1, <1>2, Operand DEF Item
<1>5. Meaning!BadCall
  BY <1>2, <1>3, <1>4 DEF Meaning!BadCall, Stack, Item
<1> QED
  BY <1>3, <1>5 DEF StepOK, Meaning!Next

\* A call replaces its arguments by a value of its type.
LEMMA MethodCallStep ==
  ASSUME TypeOK, NEW params \in Params, NEW type \in Types, EvalMethodCall(params, type)
  PROVE  StepOK
<1> DEFINE n == Len(params)
           trapped == \E i \in 1 .. n : results[Len(results) - n + i].value = Trap
<1>1. /\ n <= Len(results)
      /\ \A i \in 1 .. n : results[Len(results) - n + i].type = params[i]
  BY DEF EvalMethodCall
<1>2. tree' \in Trees /\ tree'.kind = "call" /\ tree'.type = type /\ tree'.params = params
  BY Visited DEF EvalMethodCall, Kinds
<1>3. PICK v \in Input(type) \cup {Trap} :
        Evaluated(n, Node(type, "none", 0, IF trapped THEN Trap ELSE v))
  BY DEF EvalMethodCall
<1>4. PICK w : w = IF trapped THEN Trap ELSE v
  OBVIOUS
<1>5. n \in Nat /\ results \in Seq(Nodes) /\ Len(results) \in Nat
  BY ParamsAreSeqs DEF TypeOK
<1>6. /\ v \in Meaning!ValuesOf(type) \cup {Trap}
      /\ w \in Meaning!ValuesOf(type) \cup {Trap}
  BY <1>4, InputOfType
<1>7. /\ TypeOK' /\ verdict' # "tested"
      /\ Meaning!Replace(n, Meaning!Item(type, w, FALSE, FALSE))
  BY <1>1, <1>2, <1>3, <1>4, <1>5, <1>6, InnerNodeStep
<1>8. ASSUME NEW i \in 1 .. n
      PROVE  /\ Stack(results)[Len(Stack(results)) - n + i].type = params[i]
             /\ Stack(results)[Len(Stack(results)) - n + i].value
                  = results[Len(results) - n + i].value
  <2>1. PICK j \in 1 .. Len(results) : j = Len(results) - n + i
    BY <1>1, <1>5
  <2>2. Len(Stack(results)) = Len(results)
    BY <1>5, StackIsSeq
  <2>3. Stack(results)[j] = Item(results[j])
    BY <2>1, ResultIsGood
  <2>4. Item(results[j]).type = results[j].type /\ Item(results[j]).value = results[j].value
    BY DEF Item
  <2>5. Stack(results)[j].type = results[j].type /\ Stack(results)[j].value = results[j].value
    BY <2>3, <2>4
  <2>6. results[j].type = params[i]
    BY <1>1, <2>1
  <2> QED
    BY <2>1, <2>2, <2>5, <2>6
<1> DEFINE traps == \E i \in 1 .. n :
                      Stack(results)[Len(Stack(results)) - n + i].value = Trap
<1>9. w = IF traps THEN Trap ELSE v
  BY <1>4, <1>8
<1>10. n <= Len(Stack(results))
  BY <1>1, <1>5, StackIsSeq
<1>11. \A i \in 1 .. n : Stack(results)[Len(Stack(results)) - n + i].type = params[i]
  BY <1>8
<1> HIDE DEF trapped, traps
<1>12. v \in Meaning!ValuesOf(tree'.type) \cup {Trap}
  BY <1>2, <1>6 DEF Meaning!ValuesOf
<1> HIDE DEF n
<1>13. n = Len(tree'.params)
  BY <1>2 DEF n
<1>14. /\ n <= Len(Stack(results))
       /\ \A i \in 1 .. n :
            Stack(results)[Len(Stack(results)) - n + i].type = tree'.params[i]
  BY <1>2, <1>10, <1>11
<1> DEFINE stack == [i \in DOMAIN results |->
                       [type     |-> results[i].type,
                        value    |-> results[i].value,
                        constant |-> results[i].leaf = "literal",
                        misread  |-> Misread(results[i])]]
           item(u) == [type |-> tree'.type, value |-> u, constant |-> FALSE,
                       misread |-> FALSE]
<1>15. stack = Stack(results)
  BY DEF Stack, Item
<1>16. /\ verdict = "evaluating" /\ verdict' = verdict
       /\ stack' = Append(SubSeq(stack, 1, Len(stack) - n), item(w))
  BY <1>2, <1>7 DEF Meaning!Replace, Meaning!Item
<1> HIDE DEF stack
<1>17. traps = \E i \in 1 .. n : stack[Len(stack) - n + i].value = Trap
  BY <1>15 DEF traps
<1>18. /\ n <= Len(stack)
       /\ \A i \in 1 .. n : stack[Len(stack) - n + i].type = tree'.params[i]
  BY <1>14, <1>15
<1>19. stack' = Append(SubSeq(stack, 1, Len(stack) - n), item(
         IF \E i \in 1 .. n : stack[Len(stack) - n + i].value = Trap THEN Trap ELSE v))
  BY <1>9, <1>16, <1>17
<1>20. /\ Len(tree'.params) <= Len(stack)
       /\ \A i \in 1 .. Len(tree'.params) :
            stack[Len(stack) - Len(tree'.params) + i].type = tree'.params[i]
       /\ stack' = Append(SubSeq(stack, 1, Len(stack) - Len(tree'.params)), item(
            IF \E i \in 1 .. Len(tree'.params) :
                 stack[Len(stack) - Len(tree'.params) + i].value = Trap
            THEN Trap ELSE v))
  BY <1>13, <1>18, <1>19
<1>21. \E u \in Meaning!ValuesOf(tree'.type) \cup {Trap} :
         /\ verdict = "evaluating"
         /\ Len(tree'.params) <= Len(stack)
         /\ stack' = Append(SubSeq(stack, 1, Len(stack) - Len(tree'.params)), item(
              IF \E i \in 1 .. Len(tree'.params) :
                   stack[Len(stack) - Len(tree'.params) + i].value = Trap
              THEN Trap ELSE u))
         /\ verdict' = verdict
  BY <1>12, <1>16, <1>20
<1>22. Meaning!MethodCall
  BY <1>2, <1>20, <1>21 DEF stack, Meaning!MethodCall, Meaning!Replace, Meaning!Item
<1> QED
  BY <1>7, <1>22 DEF StepOK, Meaning!Next

\* The expression of a statement is the only result.
LEMMA OnlyResult ==
  ASSUME TypeOK, AfterExpression
  PROVE  /\ Nth(0) = results[1] /\ Nth(0) \in Nodes
         /\ Meaning!Nth(0).type = Nth(0).type /\ Len(Stack(results)) = 1
<1>1. Len(results) = 1
  BY DEF AfterExpression
<1> QED
  BY <1>1, Operand DEF Nth, Item

\* A statement ends in the meaning as it does in the analysis.
LEMMA StatementEnds ==
  ASSUME TypeOK, AfterExpression, tree' \in Trees,
         NEW how \in {"assigned", "declared", "returned", "mismatch_error",
                      "return_type_error", "conditional_error"},
         End(how),
         LET fits == Nth(0).type = tree'.type IN
         \/ tree'.kind = "assign" /\ how = (IF fits THEN "assigned" ELSE "mismatch_error")
         \/ tree'.kind = "return" /\ how = (IF fits THEN "returned" ELSE "return_type_error")
         \/ tree'.kind = "condition" /\ how = "conditional_error" /\ ~fits
         \/ /\ tree'.kind = "decl"
            /\ \/ (fits \/ Nth(0).type = "VOID_TYPE") /\ how = "declared"
               \/ ~fits /\ how = "mismatch_error"
  PROVE  StepOK
<1>1. TypeOK' /\ verdict' # "tested" /\ Meaning!Ends(how)
  BY EndKeeps, EndMaps
<1>2. Meaning!Nth(0).type = Nth(0).type /\ Len(Stack(results)) = 1
  BY OnlyResult
<1>3. LET fits == Meaning!Nth(0).type = tree'.type IN
      \/ tree'.kind = "assign" /\ how = (IF fits THEN "assigned" ELSE "mismatch_error")
      \/ tree'.kind = "return" /\ how = (IF fits THEN "returned" ELSE "return_type_error")
      \/ tree'.kind = "condition" /\ how = (IF fits THEN "tested" ELSE "conditional_error")
      \/ /\ tree'.kind = "decl"
         /\ \/ (fits \/ Meaning!Nth(0).type = "VOID_TYPE") /\ how = "declared"
            \/ ~fits /\ how = "mismatch_error"
  BY <1>2
<1>4. Meaning!Statement
  BY <1>1, <1>2, <1>3 DEF Meaning!Statement, Stack, Item
<1> QED
  BY <1>1, <1>4 DEF StepOK, Meaning!Next

\* An assignment is reported when its types differ, and only then.
LEMMA AssignStep ==
  ASSUME TypeOK, NEW type \in VarTypes, EvalAssign(type)
  PROVE  StepOK
<1>1. tree' \in Trees /\ tree'.kind = "assign" /\ tree'.type = type
  BY NoParams, Visited DEF EvalAssign, Kinds, VarTypes
<1>2. PICK how \in {"assigned", "mismatch_error"} :
        /\ how = (IF Nth(0).type = type THEN "assigned" ELSE "mismatch_error")
        /\ End(how)
  BY DEF EvalAssign
<1> QED
  BY <1>1, <1>2, StatementEnds DEF EvalAssign

\* A declaration is reported when its types differ and its call returns something.
LEMMA DeclStep ==
  ASSUME TypeOK, NEW type \in VarTypes, EvalDecl(type)
  PROVE  StepOK
<1>1. tree' \in Trees /\ tree'.kind = "decl" /\ tree'.type = type
  BY NoParams, Visited DEF EvalDecl, Kinds, VarTypes
<1>2. PICK how \in {"declared", "mismatch_error"} :
        /\ how = (IF Nth(0).type # type /\ Nth(0).type \in VarTypes
                  THEN "mismatch_error" ELSE "declared")
        /\ End(how)
  BY DEF EvalDecl
<1>3. Nth(0).type \in {"INT_TYPE", "BOOL_TYPE", "VOID_TYPE"}
  BY OnlyResult, GoodNode DEF EvalDecl
<1>4. \/ (Nth(0).type = type \/ Nth(0).type = "VOID_TYPE") /\ how = "declared"
      \/ Nth(0).type # type /\ how = "mismatch_error"
  BY <1>2, <1>3 DEF VarTypes
<1> QED
  BY <1>1, <1>2, <1>4, StatementEnds DEF EvalDecl

\* A return is reported when its type is not its method's, and only then.
LEMMA ReturnStep ==
  ASSUME TypeOK, NEW type \in Types, EvalReturn(type)
  PROVE  StepOK
<1>1. tree' \in Trees /\ tree'.kind = "return" /\ tree'.type = type
  BY NoParams, Visited DEF EvalReturn, Kinds
<1>2. PICK how \in {"returned", "return_type_error"} :
        /\ how = (IF Nth(0).type = type THEN "returned" ELSE "return_type_error")
        /\ End(how)
  BY DEF EvalReturn
<1> QED
  BY <1>1, <1>2, StatementEnds DEF EvalReturn

\* A condition is reported when it is not boolean.
LEMMA WrongConditionStep ==
  ASSUME TypeOK, WrongCondition
  PROVE  StepOK
<1>1. tree' \in Trees /\ tree'.kind = "condition" /\ tree'.type = "BOOL_TYPE"
  BY NoParams, Visited DEF WrongCondition, Kinds
<1>2. End("conditional_error") /\ Nth(0).type # "BOOL_TYPE"
  BY DEF WrongCondition
<1> QED
  BY <1>1, <1>2, StatementEnds DEF WrongCondition

\* of the blocks of a statement some stay, and these, without the condition or with
\* it, are the ones that run for the value of the condition
KeptWell(all, stay, without) ==
  LET chosen == all \cap (IF Nth(0).value = 1 THEN {"then", "body"} ELSE {"else"}) IN
  /\ stay \subseteq all /\ all \subseteq {"then", "else", "body"}
  /\ without \in BOOLEAN
  /\ Nth(0).leaf # "id" /\ Nth(0).value \in {0, 1} =>
       (IF without THEN stay ELSE stay \cap chosen) = chosen

\* A condition that is not decided keeps all blocks.
LEMMA UndecidedKeptWell ==
  ASSUME NEW all \in SUBSET {"then", "else", "body"}
  PROVE  KeptWell(all, all, FALSE)
  BY DEF KeptWell

\* What an if keeps is what its condition chooses.
LEMMA IfKeptWell ==
  ASSUME TypeOK, NEW has_else \in BOOLEAN, EvalIf(has_else)
  PROVE  \E all, stay, without : Tested(all, stay, without) /\ KeptWell(all, stay, without)
<1> DEFINE all == IF has_else THEN {"then", "else"} ELSE {"then"}
           truth == Nth(0).union = 1
<1>1. AfterExpression /\ Nth(0) \in Nodes
  BY OnlyResult DEF EvalIf, Condition
<1>2. LeafCondition /\ Nth(0).leaf # "id" => Nth(0).union = Nth(0).value
  BY <1>1, GoodNode DEF LeafCondition
<1>3. \/ LeafCondition /\ truth /\ Tested(all, {"then"}, TRUE)
      \/ LeafCondition /\ ~truth /\ has_else /\ Tested(all, {"else"}, TRUE)
      \/ Tested(all, all, FALSE)
  BY DEF EvalIf
<1>4. CASE LeafCondition /\ truth /\ Tested(all, {"then"}, TRUE)
  <2>1. KeptWell(all, {"then"}, TRUE)
    BY <1>2, <1>4 DEF KeptWell
  <2> HIDE DEF all
  <2> QED
    BY <1>4, <2>1
<1>5. CASE LeafCondition /\ ~truth /\ has_else /\ Tested(all, {"else"}, TRUE)
  <2>1. KeptWell(all, {"else"}, TRUE)
    BY <1>2, <1>5 DEF KeptWell
  <2> HIDE DEF all
  <2> QED
    BY <1>5, <2>1
<1>6. CASE Tested(all, all, FALSE)
  <2>1. KeptWell(all, all, FALSE)
    BY UndecidedKeptWell
  <2> HIDE DEF all
  <2> QED
    BY <1>6, <2>1
<1> QED
  BY <1>3, <1>4, <1>5, <1>6

\* What a while keeps is what its condition chooses.
LEMMA WhileKeptWell ==
  ASSUME TypeOK, EvalWhile
  PROVE  \E all, stay, without : Tested(all, stay, without) /\ KeptWell(all, stay, without)
<1> DEFINE never == LeafCondition /\ Nth(0).union = 0
<1>1. AfterExpression /\ Nth(0) \in Nodes
  BY OnlyResult DEF EvalWhile, Condition
<1>2. LeafCondition /\ Nth(0).leaf # "id" => Nth(0).union = Nth(0).value
  BY <1>1, GoodNode DEF LeafCondition
<1>3. CASE never
  <2>1. Tested({"body"}, {}, TRUE)
    BY <1>3 DEF EvalWhile, Tested
  <2>2. KeptWell({"body"}, {}, TRUE)
    BY <1>2, <1>3 DEF KeptWell
  <2> QED
    BY <2>1, <2>2
<1>4. CASE ~never
  <2>1. Tested({"body"}, {"body"}, FALSE)
    BY <1>4 DEF EvalWhile, Tested
  <2>2. KeptWell({"body"}, {"body"}, FALSE)
    BY UndecidedKeptWell
  <2> QED
    BY <2>1, <2>2
<1> QED
  BY <1>3, <1>4

\* A condition, folded or not, keeps the blocks that its value asks for.
LEMMA ConditionStep ==
  ASSUME TypeOK, (\E has_else \in BOOLEAN : EvalIf(has_else)) \/ EvalWhile
  PROVE  TypeOK' /\ Meaning!Next /\ FoldedConditionDecides'
<1>1. Condition
  BY DEF EvalIf, EvalWhile
<1>2. /\ AfterExpression /\ Nth(0) = results[1] /\ Nth(0) \in Nodes
      /\ Nth(0).type = "BOOL_TYPE" /\ Meaning!Nth(0).type = "BOOL_TYPE"
      /\ Len(Stack(results)) = 1
  BY <1>1, OnlyResult DEF Condition
<1>3. tree' \in Trees /\ tree'.kind = "condition" /\ tree'.type = "BOOL_TYPE"
  BY <1>1, NoParams, Visited DEF Condition, Kinds
<1>4. PICK all, stay, without : Tested(all, stay, without) /\ KeptWell(all, stay, without)
  BY IfKeptWell, WhileKeptWell
<1>5. /\ results' = results /\ verdict' = "tested"
      /\ blocks' = all /\ kept' = stay /\ decided' = without
  BY <1>4 DEF Tested
<1>6. TypeOK'
  BY <1>3, <1>4, <1>5 DEF TypeOK, Trees, KeptWell
<1>7. FoldedConditionDecides'
  BY <1>2, <1>4, <1>5 DEF FoldedConditionDecides, Executed, Chosen, KeptWell
<1>8. Meaning!Ends("tested")
  BY <1>2, <1>5 DEF AfterExpression, Meaning!Ends
<1>9. Meaning!Statement
  BY <1>2, <1>3, <1>8 DEF Meaning!Statement, Stack, Item
<1> QED
  BY <1>6, <1>7, <1>9 DEF Meaning!Next

-----------------------------------------------------------------------------
(* The theorems.                                                           *)

\* every step keeps the invariant, and is one of the meaning
LEMMA Step ==
  ASSUME TypeOK, FoldedConditionDecides, eval
  PROVE  TypeOK' /\ FoldedConditionDecides' /\ Meaning!Next
<1>1. ASSUME StepOK
      PROVE  TypeOK' /\ FoldedConditionDecides' /\ Meaning!Next
  BY <1>1 DEF StepOK, FoldedConditionDecides
<1>2. CASE EvalLiteral \/ EvalId
  BY <1>1, <1>2, LiteralStep, IdStep
<1>3. CASE \E params \in Params : EvalMethodName(params)
  BY <1>1, <1>3, MethodNameStep
<1>4. ASSUME NEW op \in BinaryOp, WrongOperands(op) \/ Operate(op) \/ Fold(op)
      PROVE  TypeOK' /\ FoldedConditionDecides' /\ Meaning!Next
  BY <1>1, <1>4, WrongOperandsStep, OperateStep, FoldStep
<1>5. ASSUME NEW op \in {"MINUS", "NEG"}, EvalUnary(op)
      PROVE  TypeOK' /\ FoldedConditionDecides' /\ Meaning!Next
  BY <1>1, <1>5, UnaryStep
<1>6. CASE NoSuchMethod \/ \E parameter \in VarTypes : WrongArgument(parameter)
  BY <1>1, <1>6, NoSuchMethodStep, WrongArgumentStep
<1>7. CASE \E params \in Params, type \in Types : EvalMethodCall(params, type)
  BY <1>1, <1>7, MethodCallStep
<1>8. CASE \/ \E type \in VarTypes : EvalAssign(type) \/ EvalDecl(type)
           \/ \E type \in Types : EvalReturn(type)
           \/ WrongCondition
  BY <1>1, <1>8, AssignStep, DeclStep, ReturnStep, WrongConditionStep
<1>9. CASE (\E has_else \in BOOLEAN : EvalIf(has_else)) \/ EvalWhile
  BY <1>9, ConditionStep
<1> QED
  BY <1>2, <1>3, <1>4, <1>5, <1>6, <1>7, <1>8, <1>9 DEF eval

\* Every reachable state is well typed and every folded condition decides as its
\* value says.
LEMMA Invariance == Spec => [](TypeOK /\ FoldedConditionDecides)
<1>1. Init => TypeOK /\ FoldedConditionDecides
  <2>1. <<>> \in Seq(Nodes) /\ Len(<<>>) = 0 /\ 0 <= MaxPending
    BY ExpressionAnalysisAssumption
  <2>2. Tree("none", "none", <<>>) \in Trees
    BY NoParams DEF Tree, Trees, Kinds
  <2> QED
    BY <2>1, <2>2 DEF Init, TypeOK, Trees, FoldedConditionDecides
<1>2. TypeOK /\ FoldedConditionDecides /\ [eval]_vars => (TypeOK /\ FoldedConditionDecides)'
  <2>1. ASSUME TypeOK, FoldedConditionDecides, UNCHANGED vars
        PROVE  (TypeOK /\ FoldedConditionDecides)'
    BY <2>1 DEF vars, block_vars, TypeOK, FoldedConditionDecides, Executed, Chosen
  <2> QED
    BY <2>1, Step
<1> QED
  BY <1>1, <1>2, PTL DEF Spec

\* For every width of ints and words: the results of the walk are well typed, and
\* the value of what is folded is an int and the one the program would compute.
THEOREM TypesAndConstants == Spec => []TypeOK
  BY Invariance, PTL

\* For every width and every condition that is not an identifier, the blocks that
\* the compiled program runs are those its value asks for.
THEOREM ConditionsDecide == Spec => []FoldedConditionDecides
  BY Invariance, PTL

\* For every width, in expressions of any size, every construct of the source is
\* compiled to what the language says of it: its operator's value, its verdict.
THEOREM MeaningIsKept == Spec => KeepsMeaning
<1>1. Init => Meaning!Init
  BY DEF Init, Tree, Meaning!Init
<1>2. TypeOK /\ FoldedConditionDecides /\ [eval]_vars => [Meaning!Next]_(Meaning!meaning_vars)
  <2>1. ASSUME UNCHANGED vars
        PROVE  UNCHANGED Meaning!meaning_vars
    BY <2>1 DEF vars, Meaning!meaning_vars, Misread
  <2> QED
    BY <2>1, Step
<1> QED
  BY <1>1, <1>2, Invariance, PTL DEF Spec, KeepsMeaning, Meaning!Spec
=============================================================================
