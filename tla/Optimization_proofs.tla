------------------------- MODULE Optimization_proofs -------------------------
(***************************************************************************)
(* For every program that gen_code can generate: renaming temporaries      *)
(* keeps the counts of uses exact, never gives two temporaries in use the  *)
(* same name, and ends with as few names as temporaries are in use at one  *)
(* time.                                                                   *)
(*                                                                         *)
(* IntermediateCode_proofs says what the pass relies on: a temporary is    *)
(* written before it is read, and lower numbers are written first.  The    *)
(* lemmas on a step of the pass see the code only as the places where each *)
(* temporary occurs, and time as the number of the next place.             *)
(***************************************************************************)
EXTENDS Optimization, IntermediateCode_proofs, WellFoundedInduction

-----------------------------------------------------------------------------
(* Places.                                                                 *)

Places(c) == (1 .. Len(c)) \X (1 .. 3)

\* Places are looked at in the order of their numbers.
LEMMA PlaceFacts ==
  ASSUME NEW c \in Seq(AnyInstr), NEW p \in Places(c)
  PROVE  /\ p[1] \in 1 .. Len(c) /\ p[1] \in Nat /\ p[2] \in 1 .. 3 /\ p = <<p[1], p[2]>>
         /\ Place(p) \in Nat /\ Place(p) >= 4
         /\ \A q \in Places(c) : Place(p) = Place(q) => p = q
         /\ \A q \in Places(c) : p[1] < q[1] => Place(p) < Place(q)
<1>1. \A q \in Places(c) : q[1] \in 1 .. Len(c) /\ q[1] \in Nat /\ q[1] > 0 /\ q[2] \in 1 .. 3 /\ q = <<q[1], q[2]>>
  BY LenProperties DEF Places
<1>2. PICK i \in Nat, f \in 1 .. 3 : i = p[1] /\ f = p[2] /\ i > 0
  BY <1>1
<1>3. 3 * i + f \in Nat /\ 3 * i + f >= 4
  <2>1. i >= 1 /\ f >= 1 /\ f \in Nat
    BY <1>2
  <2> QED
    BY <2>1
<1>4. ASSUME NEW q \in Places(c)
      PROVE  /\ 3 * i + f = 3 * q[1] + q[2] => i = q[1] /\ f = q[2]
             /\ i < q[1] => 3 * i + f < 3 * q[1] + q[2]
  <2>1. PICK j \in Nat, g \in 1 .. 3 : j = q[1] /\ g = q[2]
    BY <1>1
  <2>2. (3 * i + f = 3 * j + g => i = j /\ f = g) /\ (i < j => 3 * i + f < 3 * j + g)
    OBVIOUS
  <2> QED
    BY <2>1, <2>2
<1>5. \A q \in Places(c) : p[1] = q[1] /\ p[2] = q[2] => p = q
  BY <1>1
<1> QED
  BY <1>1, <1>2, <1>3, <1>4, <1>5 DEF Place

LEMMA PlacesFinite ==
  ASSUME NEW c \in Seq(AnyInstr)
  PROVE  IsFiniteSet(Places(c))
<1>1. Len(c) \in Int /\ 1 \in Int /\ 3 \in Int
  BY LenProperties
<1>2. IsFiniteSet(1 .. Len(c)) /\ IsFiniteSet(1 .. 3)
  BY <1>1, FS_Interval
<1> QED
  BY <1>2, FS_Product DEF Places

\* the code as the pass sees it: every temporary occurs, none where another one does, and
\* of two temporaries the one with the lower number occurs first
OccurrencesFit(c, tc) ==
  /\ \A t \in 1 .. tc : Occurrences(c, t) \subseteq Places(c) /\ Occurrences(c, t) # {}
  /\ \A t, u \in 1 .. tc : \A p : p \in Occurrences(c, t) /\ p \in Occurrences(c, u) => t = u
  /\ \A t, u \in 1 .. tc : t < u =>
       \A q \in Occurrences(c, u) : \E p \in Occurrences(c, t) : Place(p) < Place(q)

LEMMA CodeOccurrencesFit ==
  ASSUME NEW c \in Seq(AnyInstr), NEW o, NEW tc \in Nat, \A t \in 1 .. tc : Written(c, o, t), InOrder(c)
  PROVE  OccurrencesFit(c, tc)
<1>1. \A t \in 1 .. tc : Occurrences(c, t) \subseteq Places(c)
  BY DEF Occurrences, Places
<1>2. \A t \in 1 .. tc : \E i \in 1 .. Len(c) :
        /\ <<i, 3>> \in Occurrences(c, t) /\ c[i].reg = Temp(t)
        /\ \A q \in Occurrences(c, t) : q = <<i, 3>> \/ i < q[1]
  <2>1. SUFFICES ASSUME NEW t \in 1 .. tc
                 PROVE  \E i \in 1 .. Len(c) :
                          /\ <<i, 3>> \in Occurrences(c, t) /\ c[i].reg = Temp(t)
                          /\ \A q \in Occurrences(c, t) : q = <<i, 3>> \/ i < q[1]
    OBVIOUS
  <2>2. PICK i \in 1 .. Len(c) : WrittenAt(c, o, t, i)
    BY DEF Written
  <2>3. Arg(c[i], 3) = Temp(t)
    BY <2>2 DEF WrittenAt
  <2>4. c[i].reg = Temp(t) /\ <<i, 3>> \in Occurrences(c, t)
    BY <2>3 DEF Arg, Occurrences
  <2>5. \A q \in Occurrences(c, t) :
          q[1] \in 1 .. Len(c) /\ q[2] \in 1 .. 3 /\ q = <<q[1], q[2]>> /\ Arg(c[q[1]], q[2]) = Temp(t)
    BY DEF Occurrences
  <2>6. \A q \in Occurrences(c, t) : q = <<i, 3>> \/ i < q[1]
    <3>1. SUFFICES ASSUME NEW q \in Occurrences(c, t), q # <<i, 3>> PROVE i < q[1]
      OBVIOUS
    <3>2. UseOf(c, i, t, q[1], q[2])
      BY <2>5, <3>1 DEF UseOf
    <3>3. q[1] > i
      BY <2>2, <2>5, <3>2 DEF WrittenAt
    <3>4. i \in Nat /\ q[1] \in Nat
      BY <2>5, LenProperties
    <3> QED
      BY <3>3, <3>4
  <2> QED
    BY <2>4, <2>6
<1>3. ASSUME NEW t \in 1 .. tc, NEW u \in 1 .. tc, NEW p, p \in Occurrences(c, t), p \in Occurrences(c, u)
      PROVE  t = u
  <2>1. Temp(t) = Temp(u)
    BY <1>3 DEF Occurrences
  <2> QED
    BY <2>1, TempInjective
<1>4. ASSUME NEW t \in 1 .. tc, NEW u \in 1 .. tc, t < u, NEW q \in Occurrences(c, u)
      PROVE  \E p \in Occurrences(c, t) : Place(p) < Place(q)
  <2>1. PICK i \in 1 .. Len(c) : <<i, 3>> \in Occurrences(c, t) /\ c[i].reg = Temp(t)
    BY <1>2
  <2>2. PICK j \in 1 .. Len(c) : /\ <<j, 3>> \in Occurrences(c, u) /\ c[j].reg = Temp(u)
                                 /\ q = <<j, 3>> \/ j < q[1]
    BY <1>2
  <2>3. i < j
    <3>1. c[i].reg.kind = "temp" /\ c[j].reg.kind = "temp" /\ c[i].reg.n = t /\ c[j].reg.n = u
      BY <2>1, <2>2 DEF Temp, Operand
    <3> QED
      BY <1>4, <3>1 DEF InOrder
  <2>4. <<i, 3>> \in Places(c) /\ q \in Places(c) /\ q[1] \in Nat /\ i \in Nat /\ j \in Nat
    BY <1>1, <2>1, PlaceFacts, LenProperties
  <2>5. i < q[1]
    BY <2>2, <2>3, <2>4
  <2>6. Place(<<i, 3>>) < Place(q)
    BY <2>4, <2>5, PlaceFacts
  <2> QED
    BY <2>1, <2>6
<1> QED
  BY <1>1, <1>2, <1>3, <1>4 DEF OccurrencesFit

-----------------------------------------------------------------------------
(* The state of the pass.                                                  *)

Entry(tc) == [cant_ap : Int, locked : BOOLEAN, list : SUBSET (1 .. tc)]

PassTyped(h, b, tc) == h \in [1 .. tc -> Entry(tc)] /\ b \in [1 .. tc -> 1 .. tc]

\* the places from number now on where the operand is named n
Named(c, b, now, n, tc) ==
  {p \in Places(c) : Place(p) >= now /\ \E t \in 1 .. tc : p \in Occurrences(c, t) /\ b[t] = n}

\* the pass has not come to temporary t
Unmet(c, t, now) == \A p \in Occurrences(c, t) : Place(p) >= now

Precedes(c, t, u) == \A p \in Occurrences(c, t), q \in Occurrences(c, u) : Place(p) < Place(q)

LiveAt(c, tc, p) ==
  {t \in 1 .. tc : \E q, r \in Occurrences(c, t) : Place(q) <= Place(p) /\ Place(p) <= Place(r)}

CountsFit(c, h, b, now, tc) ==
  \A n \in 1 .. tc : h[n].cant_ap = Cardinality(Named(c, b, now, n, tc))

\* an entry that is not locked: its name is still that of its own temporary only, which
\* has not been met, or nobody's
UnlockedFit(c, h, b, now, tc) ==
  \A n \in 1 .. tc : ~h[n].locked =>
    \/ /\ h[n].list = {n} /\ Unmet(c, n, now)
       /\ \A t \in 1 .. tc : b[t] = n <=> t = n
    \/ h[n].list = {} /\ \A t \in 1 .. tc : b[t] # n

UnmetFit(c, h, b, now, tc) ==
  \A t \in 1 .. tc : Unmet(c, t, now) => b[t] = t /\ ~h[t].locked

\* temporaries that share a name: one is over before the other begins
SharedFit(c, b, tc) ==
  \A t, u \in 1 .. tc : t # u /\ b[t] = b[u] => Precedes(c, t, u) \/ Precedes(c, u, t)

LowFit(c, b, now, tc) ==
  \A t \in 1 .. tc :
    ~Unmet(c, t, now) => \E p \in Places(c) : b[t] <= Cardinality(LiveAt(c, tc, p))

PassFits(c, h, b, now, tc) ==
  /\ CountsFit(c, h, b, now, tc)
  /\ UnlockedFit(c, h, b, now, tc)
  /\ UnmetFit(c, h, b, now, tc)
  /\ SharedFit(c, b, tc)
  /\ LowFit(c, b, now, tc)

\* After place p.
LEMMA NextPlace ==
  ASSUME NEW c \in Seq(AnyInstr), NEW p \in Places(c)
  PROVE  \A q \in Places(c) : Place(q) >= Place(p) + 1 <=> Place(q) >= Place(p) /\ q # p
<1>1. \A q \in Places(c) : Place(q) \in Nat /\ (Place(p) = Place(q) => p = q)
  BY PlaceFacts
<1> QED
  BY <1>1

LEMMA UnmetNext ==
  ASSUME NEW c \in Seq(AnyInstr), NEW tc \in Nat, NEW p \in Places(c), NEW t \in 1 .. tc,
         OccurrencesFit(c, tc)
  PROVE  Unmet(c, t, Place(p) + 1) <=> Unmet(c, t, Place(p)) /\ p \notin Occurrences(c, t)
<1>1. Occurrences(c, t) \subseteq Places(c)
  BY DEF OccurrencesFit
<1> QED
  BY <1>1, NextPlace DEF Unmet

LEMMA NamedFinite ==
  ASSUME NEW c \in Seq(AnyInstr), NEW b, NEW now, NEW n, NEW tc
  PROVE  /\ IsFiniteSet(Named(c, b, now, n, tc))
         /\ Cardinality(Named(c, b, now, n, tc)) \in Nat
         /\ Cardinality(Named(c, b, now, n, tc)) = 0 => Named(c, b, now, n, tc) = {}
<1>1. Named(c, b, now, n, tc) \in SUBSET Places(c)
  BY DEF Named
<1>2. IsFiniteSet(Named(c, b, now, n, tc))
  BY <1>1, PlacesFinite, FS_Subset
<1> QED
  BY <1>2, FS_CardinalityType, FS_EmptySet

LEMMA NamedNext ==
  ASSUME NEW c \in Seq(AnyInstr), NEW b, NEW p \in Places(c), NEW n, NEW tc
  PROVE  Named(c, b, Place(p) + 1, n, tc) = Named(c, b, Place(p), n, tc) \ {p}
BY NextPlace DEF Named

\* How many operands are left with a name, after place p.
LEMMA CountNext ==
  ASSUME NEW c \in Seq(AnyInstr), NEW b, NEW p \in Places(c), NEW n, NEW tc
  PROVE  Cardinality(Named(c, b, Place(p) + 1, n, tc)) =
           IF \E t \in 1 .. tc : p \in Occurrences(c, t) /\ b[t] = n
           THEN Cardinality(Named(c, b, Place(p), n, tc)) - 1
           ELSE Cardinality(Named(c, b, Place(p), n, tc))
<1>1. Place(p) >= Place(p)
  BY PlaceFacts
<1>2. p \in Named(c, b, Place(p), n, tc) <=> \E t \in 1 .. tc : p \in Occurrences(c, t) /\ b[t] = n
  BY <1>1 DEF Named
<1> DEFINE S == Named(c, b, Place(p), n, tc)
<1>3. IsFiniteSet(S)
  BY NamedFinite
<1>4. Cardinality(S \ {p}) = IF p \in S THEN Cardinality(S) - 1 ELSE Cardinality(S)
  <2> HIDE DEF S
  <2> QED
    BY <1>3, FS_RemoveElement
<1>5. Named(c, b, Place(p) + 1, n, tc) = S \ {p}
  BY NamedNext
<1> HIDE DEF S
<1>6. CASE \E t \in 1 .. tc : p \in Occurrences(c, t) /\ b[t] = n
  BY <1>2, <1>4, <1>5, <1>6 DEF S
<1>7. CASE ~\E t \in 1 .. tc : p \in Occurrences(c, t) /\ b[t] = n
  BY <1>2, <1>4, <1>5, <1>7 DEF S
<1> QED
  BY <1>6, <1>7

\* An operand that is no temporary changes nothing.
LEMMA SkipKeeps ==
  ASSUME NEW c \in Seq(AnyInstr), NEW tc \in Nat, NEW h, NEW b, NEW p \in Places(c),
         OccurrencesFit(c, tc), PassFits(c, h, b, Place(p), tc),
         \A t \in 1 .. tc : p \notin Occurrences(c, t)
  PROVE  PassFits(c, h, b, Place(p) + 1, tc)
<1>1. \A t \in 1 .. tc : Unmet(c, t, Place(p) + 1) <=> Unmet(c, t, Place(p))
  BY UnmetNext
<1>2. \A n : Cardinality(Named(c, b, Place(p) + 1, n, tc)) = Cardinality(Named(c, b, Place(p), n, tc))
  BY CountNext
<1> QED
  BY <1>1, <1>2 DEF PassFits, CountsFit, UnlockedFit, UnmetFit, LowFit

\* When the pass meets temporary t for the first time, and the names below f are all
\* needed, f temporaries are in use: t, and one with each of these names.
LEMMA LiveCount ==
  ASSUME NEW c \in Seq(AnyInstr), NEW tc \in Nat, NEW h, NEW b, NEW t \in 1 .. tc,
         NEW p \in Occurrences(c, t), OccurrencesFit(c, tc), PassFits(c, h, b, Place(p), tc),
         Unmet(c, t, Place(p)), NEW f \in 1 .. t, \A m \in 1 .. (f - 1) : h[m].cant_ap # 0
  PROVE  f <= Cardinality(LiveAt(c, tc, p))
<1> DEFINE live == LiveAt(c, tc, p)
<1>1. p \in Places(c) /\ Place(p) \in Nat
  BY PlaceFacts DEF OccurrencesFit
<1>2. t \in live
  BY <1>1 DEF LiveAt
<1>3. b[t] = t
  BY DEF PassFits, UnmetFit
<1>4. ASSUME NEW m \in 1 .. (f - 1) PROVE \E u \in live : b[u] = m /\ u # t
  <2>1. m \in 1 .. tc /\ m < t /\ h[m].cant_ap # 0
    OBVIOUS
  <2>2. Cardinality(Named(c, b, Place(p), m, tc)) # 0
    BY <2>1 DEF PassFits, CountsFit
  <2>3. Named(c, b, Place(p), m, tc) # {}
    BY <2>2, FS_EmptySet
  <2>4. PICK r \in Places(c), u \in 1 .. tc : r \in Occurrences(c, u) /\ b[u] = m /\ Place(r) >= Place(p)
    BY <2>3 DEF Named
  <2>5. \E q \in Occurrences(c, u) : Place(q) <= Place(p)
    <3>1. CASE Unmet(c, u, Place(p))
      <4>1. u = m
        BY <2>4, <3>1 DEF PassFits, UnmetFit
      <4>2. PICK q \in Occurrences(c, u) : Place(q) < Place(p)
        BY <2>1, <4>1 DEF OccurrencesFit
      <4>3. Place(q) \in Nat
        BY <2>4, PlaceFacts DEF OccurrencesFit
      <4> QED
        BY <1>1, <4>2, <4>3
    <3>2. CASE ~Unmet(c, u, Place(p))
      <4>1. PICK q \in Occurrences(c, u) : ~(Place(q) >= Place(p))
        BY <3>2 DEF Unmet
      <4>2. Place(q) \in Nat
        BY <2>4, PlaceFacts DEF OccurrencesFit
      <4> QED
        BY <1>1, <4>1, <4>2
    <3> QED
      BY <3>1, <3>2
  <2>6. u \in live
    <3>1. Place(r) \in Nat
      BY <2>4, PlaceFacts DEF OccurrencesFit
    <3>2. Place(p) <= Place(r)
      BY <1>1, <2>4, <3>1
    <3> QED
      BY <2>4, <2>5, <3>2 DEF LiveAt
  <2> QED
    BY <1>3, <2>1, <2>4, <2>6
<1> DEFINE g == [m \in 1 .. f |-> IF m = f THEN t ELSE CHOOSE u \in live : b[u] = m /\ u # t]
<1>5. \A m \in 1 .. f : m # f => m \in 1 .. (f - 1)
  OBVIOUS
<1>6. \A m \in 1 .. f : m # f => g[m] \in live /\ b[g[m]] = m /\ g[m] # t
  <2> HIDE DEF live
  <2> QED
    BY <1>4, <1>5
<1>7. g[f] = t
  OBVIOUS
<1>8. g \in Injection(1 .. f, live)
  <2>1. g \in [1 .. f -> live]
    <3> HIDE DEF live
    <3> QED
      BY <1>2, <1>6
  <2>2. \A m, k \in 1 .. f : g[m] = g[k] => m = k
    <3> HIDE DEF g
    <3> QED
      BY <1>6, <1>7
  <2> HIDE DEF g, live
  <2> QED
    BY <2>1, <2>2, Fun_IsInj
<1>9. IsFiniteSet(live)
  <2>1. live \in SUBSET (1 .. tc)
    BY DEF LiveAt
  <2>2. IsFiniteSet(1 .. tc)
    BY FS_Interval
  <2> QED
    BY <2>1, <2>2, FS_Subset
<1>10. Cardinality(1 .. f) = f
  BY FS_Interval
<1> HIDE DEF g, live
<1>11. Cardinality(1 .. f) <= Cardinality(live)
  BY <1>8, <1>9, FS_Injection
<1> QED
  BY <1>10, <1>11 DEF live

\* A use of a name, when nothing is renamed.
LEMMA UseKeeps ==
  ASSUME NEW c \in Seq(AnyInstr), NEW tc \in Nat, NEW h, NEW b, NEW k, NEW t \in 1 .. tc,
         NEW p \in Occurrences(c, t), NEW n \in 1 .. tc, n = b[t],
         OccurrencesFit(c, tc), PassFits(c, h, b, Place(p), tc),
         h[n].locked \/ \A m \in 1 .. (n - 1) : h[m].cant_ap # 0,
         k[n].cant_ap = h[n].cant_ap - 1, k[n].locked,
         \A m \in 1 .. tc : m # n => k[m] = h[m]
  PROVE  PassFits(c, k, b, Place(p) + 1, tc)
<1>1. p \in Places(c) /\ \A u \in 1 .. tc : p \in Occurrences(c, u) <=> u = t
  BY DEF OccurrencesFit
<1>2. \A u \in 1 .. tc : Unmet(c, u, Place(p) + 1) <=> Unmet(c, u, Place(p)) /\ u # t
  BY <1>1, UnmetNext
<1>3. CountsFit(c, k, b, Place(p) + 1, tc)
  <2>1. \A m \in 1 .. tc : Cardinality(Named(c, b, Place(p) + 1, m, tc)) =
          IF \E u \in 1 .. tc : p \in Occurrences(c, u) /\ b[u] = m
          THEN Cardinality(Named(c, b, Place(p), m, tc)) - 1
          ELSE Cardinality(Named(c, b, Place(p), m, tc))
    BY <1>1, CountNext
  <2>2. \A m \in 1 .. tc : (\E u \in 1 .. tc : p \in Occurrences(c, u) /\ b[u] = m) <=> m = n
    BY <1>1
  <2>3. \A m \in 1 .. tc : h[m].cant_ap = Cardinality(Named(c, b, Place(p), m, tc))
    BY DEF PassFits, CountsFit
  <2> QED
    BY <2>1, <2>2, <2>3 DEF CountsFit
<1>4. UnlockedFit(c, k, b, Place(p) + 1, tc)
  <2>1. SUFFICES ASSUME NEW m \in 1 .. tc, ~k[m].locked
                 PROVE  \/ /\ k[m].list = {m} /\ Unmet(c, m, Place(p) + 1)
                           /\ \A u \in 1 .. tc : b[u] = m <=> u = m
                        \/ k[m].list = {} /\ \A u \in 1 .. tc : b[u] # m
    BY DEF UnlockedFit
  <2>2. m # n /\ k[m] = h[m] /\ ~h[m].locked
    BY <2>1
  <2>3. \/ /\ h[m].list = {m} /\ Unmet(c, m, Place(p))
           /\ \A u \in 1 .. tc : b[u] = m <=> u = m
        \/ h[m].list = {} /\ \A u \in 1 .. tc : b[u] # m
    BY <2>2 DEF PassFits, UnlockedFit
  <2>4. (\A u \in 1 .. tc : b[u] = m <=> u = m) => m # t
    BY <2>2
  <2> QED
    BY <1>2, <2>2, <2>3, <2>4
<1>5. UnmetFit(c, k, b, Place(p) + 1, tc)
  <2>1. SUFFICES ASSUME NEW u \in 1 .. tc, Unmet(c, u, Place(p) + 1)
                 PROVE  b[u] = u /\ ~k[u].locked
    BY DEF UnmetFit
  <2>2. u # t /\ b[u] = u /\ ~h[u].locked
    BY <1>2, <2>1 DEF PassFits, UnmetFit
  <2>3. (\A v \in 1 .. tc : b[v] = u <=> v = u) \/ \A v \in 1 .. tc : b[v] # u
    BY <2>2 DEF PassFits, UnlockedFit
  <2>4. u # n
    BY <2>2, <2>3
  <2> QED
    BY <2>2, <2>4
<1>6. SharedFit(c, b, tc)
  BY DEF PassFits
<1>7. LowFit(c, b, Place(p) + 1, tc)
  <2>1. SUFFICES ASSUME NEW u \in 1 .. tc, ~Unmet(c, u, Place(p) + 1)
                 PROVE  \E q \in Places(c) : b[u] <= Cardinality(LiveAt(c, tc, q))
    BY DEF LowFit
  <2>2. CASE ~Unmet(c, u, Place(p))
    BY <2>2 DEF PassFits, LowFit
  <2>3. CASE Unmet(c, u, Place(p))
    <3>1. u = t /\ b[t] = t /\ ~h[t].locked
      BY <1>2, <2>1, <2>3 DEF PassFits, UnmetFit
    <3>2. n = t /\ t \in 1 .. t /\ \A m \in 1 .. (t - 1) : h[m].cant_ap # 0
      BY <3>1
    <3>3. t <= Cardinality(LiveAt(c, tc, p))
      BY <2>3, <3>1, <3>2, LiveCount
    <3> QED
      BY <1>1, <3>1, <3>3
  <2> QED
    BY <2>2, <2>3
<1> QED
  BY <1>3, <1>4, <1>5, <1>6, <1>7 DEF PassFits

\* name n, which is not locked, gives its uses to the first name f that has none left
SwapOf(h, b, k, d, n, f, tc) ==
  /\ ~h[n].locked /\ h[f].cant_ap = 0 /\ \A m \in 1 .. (f - 1) : h[m].cant_ap # 0
  /\ k[f].cant_ap = h[n].cant_ap - 1 /\ k[f].locked
  /\ k[n].cant_ap = 0 /\ ~k[n].locked /\ k[n].list = {}
  /\ \A m \in 1 .. tc : m # n /\ m # f => k[m] = h[m]
  /\ \A u \in 1 .. tc : d[u] = IF u \in h[n].list THEN f ELSE b[u]

\* The first use of temporary n, which is renamed to f: nothing else is named n, no operand
\* that is still to come is named f, and the names below f are needed.
LEMMA SwapKeeps ==
  ASSUME NEW c \in Seq(AnyInstr), NEW tc \in Nat, NEW h, NEW b, NEW k, NEW d, NEW t \in 1 .. tc,
         NEW p \in Occurrences(c, t), NEW n \in 1 .. tc, n = b[t], NEW f \in 1 .. (n - 1),
         OccurrencesFit(c, tc), PassFits(c, h, b, Place(p), tc),
         SwapOf(h, b, k, d, n, f, tc)
  PROVE  PassFits(c, k, d, Place(p) + 1, tc)
<1>0. /\ ~h[n].locked /\ h[f].cant_ap = 0 /\ \A m \in 1 .. (f - 1) : h[m].cant_ap # 0
      /\ k[f].cant_ap = h[n].cant_ap - 1 /\ k[f].locked
      /\ k[n].cant_ap = 0 /\ ~k[n].locked /\ k[n].list = {}
      /\ \A m \in 1 .. tc : m # n /\ m # f => k[m] = h[m]
      /\ \A u \in 1 .. tc : d[u] = IF u \in h[n].list THEN f ELSE b[u]
  BY DEF SwapOf
<1>1. p \in Places(c) /\ \A u \in 1 .. tc : p \in Occurrences(c, u) <=> u = t
  BY DEF OccurrencesFit
<1>2. \A u \in 1 .. tc : Unmet(c, u, Place(p) + 1) <=> Unmet(c, u, Place(p)) /\ u # t
  BY <1>1, UnmetNext
<1>3. f \in 1 .. tc /\ f # n /\ f \in 1 .. n
  OBVIOUS
<1>4. /\ n = t /\ h[n].list = {n} /\ Unmet(c, n, Place(p))
      /\ \A u \in 1 .. tc : b[u] = n <=> u = n
  <2>1. \/ /\ h[n].list = {n} /\ Unmet(c, n, Place(p))
           /\ \A u \in 1 .. tc : b[u] = n <=> u = n
        \/ h[n].list = {} /\ \A u \in 1 .. tc : b[u] # n
    BY <1>0 DEF PassFits, UnlockedFit
  <2> QED
    BY <2>1
<1>5. d[n] = f /\ \A u \in 1 .. tc : u # n => d[u] = b[u] /\ b[u] # n
  BY <1>0, <1>4
<1>6. Named(c, b, Place(p), f, tc) = {}
  <2>1. Cardinality(Named(c, b, Place(p), f, tc)) = 0
    BY <1>0, <1>3 DEF PassFits, CountsFit
  <2> QED
    BY <2>1, NamedFinite
<1>7. \A u \in 1 .. tc : b[u] = f => \A q \in Occurrences(c, u) : Place(q) < Place(p)
  <2>1. SUFFICES ASSUME NEW u \in 1 .. tc, b[u] = f, NEW q \in Occurrences(c, u)
                 PROVE  Place(q) < Place(p)
    OBVIOUS
  <2>2. q \in Places(c)
    BY DEF OccurrencesFit
  <2>3. ~(Place(q) >= Place(p))
    BY <1>6, <2>1, <2>2 DEF Named
  <2> QED
    BY <1>1, <2>2, <2>3, PlaceFacts
<1>8. \A u \in 1 .. tc : b[u] = f => ~Unmet(c, u, Place(p))
  <2>1. SUFFICES ASSUME NEW u \in 1 .. tc, b[u] = f PROVE ~Unmet(c, u, Place(p))
    OBVIOUS
  <2>2. PICK q \in Occurrences(c, u) : q \in Places(c)
    BY DEF OccurrencesFit
  <2>3. Place(q) < Place(p)
    BY <1>7, <2>1
  <2> QED
    BY <1>1, <2>2, <2>3, PlaceFacts DEF Unmet
<1>9. CountsFit(c, k, d, Place(p) + 1, tc)
  <2>1. SUFFICES ASSUME NEW m \in 1 .. tc
                 PROVE  k[m].cant_ap = Cardinality(Named(c, d, Place(p) + 1, m, tc))
    BY DEF CountsFit
  <2>2. /\ h[m].cant_ap = Cardinality(Named(c, b, Place(p), m, tc))
        /\ h[n].cant_ap = Cardinality(Named(c, b, Place(p), n, tc))
    BY DEF PassFits, CountsFit
  <2>3. CASE m = n
    <3>1. \A u \in 1 .. tc : d[u] # n
      BY <1>3, <1>5
    <3>2. Named(c, d, Place(p) + 1, n, tc) = {}
      BY <3>1 DEF Named
    <3> QED
      BY <1>0, <2>3, <3>2, FS_EmptySet
  <2>4. CASE m = f
    <3>1. Named(c, d, Place(p) + 1, f, tc) = Named(c, b, Place(p) + 1, n, tc)
      <4>1. \A u \in 1 .. tc : d[u] = f <=> u = n \/ b[u] = f
        BY <1>5
      <4>2. \A q \in Places(c) : \A u \in 1 .. tc :
              q \in Occurrences(c, u) /\ b[u] = f => ~(Place(q) >= Place(p) + 1)
        BY <1>1, <1>7, PlaceFacts
      <4> QED
        BY <1>4, <4>1, <4>2 DEF Named
    <3>2. Cardinality(Named(c, b, Place(p) + 1, n, tc)) = Cardinality(Named(c, b, Place(p), n, tc)) - 1
      BY <1>1, CountNext
    <3> QED
      BY <1>0, <2>2, <2>4, <3>1, <3>2
  <2>5. CASE m # n /\ m # f
    <3>1. \A u \in 1 .. tc : d[u] = m <=> b[u] = m
      BY <1>5, <2>5
    <3>2. Named(c, d, Place(p) + 1, m, tc) = Named(c, b, Place(p) + 1, m, tc)
      BY <3>1 DEF Named
    <3>3. ~\E u \in 1 .. tc : p \in Occurrences(c, u) /\ b[u] = m
      BY <1>1, <2>5
    <3>4. Cardinality(Named(c, b, Place(p) + 1, m, tc)) = Cardinality(Named(c, b, Place(p), m, tc))
      BY <1>1, <3>3, CountNext
    <3> QED
      BY <1>0, <2>2, <2>5, <3>2, <3>4
  <2> QED
    BY <2>3, <2>4, <2>5
<1>10. UnlockedFit(c, k, d, Place(p) + 1, tc)
  <2>1. SUFFICES ASSUME NEW m \in 1 .. tc, ~k[m].locked
                 PROVE  \/ /\ k[m].list = {m} /\ Unmet(c, m, Place(p) + 1)
                           /\ \A u \in 1 .. tc : d[u] = m <=> u = m
                        \/ k[m].list = {} /\ \A u \in 1 .. tc : d[u] # m
    BY DEF UnlockedFit
  <2>2. CASE m = n
    BY <1>0, <1>3, <1>5, <2>2
  <2>3. CASE m # n
    <3>1. m # f /\ k[m] = h[m] /\ ~h[m].locked
      BY <1>0, <2>1, <2>3
    <3>2. \/ /\ h[m].list = {m} /\ Unmet(c, m, Place(p))
             /\ \A u \in 1 .. tc : b[u] = m <=> u = m
          \/ h[m].list = {} /\ \A u \in 1 .. tc : b[u] # m
      BY <3>1 DEF PassFits, UnlockedFit
    <3>3. \A u \in 1 .. tc : d[u] = m <=> b[u] = m
      BY <1>5, <2>3, <3>1
    <3> QED
      BY <1>2, <1>4, <2>3, <3>1, <3>2, <3>3
  <2> QED
    BY <2>2, <2>3
<1>11. UnmetFit(c, k, d, Place(p) + 1, tc)
  <2>1. SUFFICES ASSUME NEW u \in 1 .. tc, Unmet(c, u, Place(p) + 1)
                 PROVE  d[u] = u /\ ~k[u].locked
    BY DEF UnmetFit
  <2>2. u # t /\ Unmet(c, u, Place(p)) /\ b[u] = u /\ ~h[u].locked
    BY <1>2, <2>1 DEF PassFits, UnmetFit
  <2>3. u # f /\ u # n
    BY <1>4, <1>8, <2>2
  <2> QED
    BY <1>0, <1>5, <2>2, <2>3
<1>12. SharedFit(c, d, tc)
  <2>1. \A u \in 1 .. tc : u # n /\ b[u] = f => Precedes(c, u, n)
    <3>1. SUFFICES ASSUME NEW u \in 1 .. tc, b[u] = f,
                          NEW q \in Occurrences(c, u), NEW r \in Occurrences(c, n)
                   PROVE  Place(q) < Place(r)
      BY DEF Precedes
    <3>2. Place(q) < Place(p) /\ Place(r) >= Place(p)
      BY <1>4, <1>7, <3>1 DEF Unmet
    <3>3. Place(q) \in Nat /\ Place(r) \in Nat /\ Place(p) \in Nat
      BY <1>1, PlaceFacts DEF OccurrencesFit
    <3> QED
      BY <3>2, <3>3
  <2>2. SUFFICES ASSUME NEW u \in 1 .. tc, NEW v \in 1 .. tc, u # v, d[u] = d[v]
                 PROVE  Precedes(c, u, v) \/ Precedes(c, v, u)
    BY DEF SharedFit
  <2>3. CASE u # n /\ v # n
    BY <1>5, <2>2, <2>3 DEF PassFits, SharedFit
  <2>4. CASE u = n \/ v = n
    BY <1>5, <2>1, <2>2, <2>4
  <2> QED
    BY <2>3, <2>4
<1>13. LowFit(c, d, Place(p) + 1, tc)
  <2>1. SUFFICES ASSUME NEW u \in 1 .. tc, ~Unmet(c, u, Place(p) + 1)
                 PROVE  \E q \in Places(c) : d[u] <= Cardinality(LiveAt(c, tc, q))
    BY DEF LowFit
  <2>2. CASE u # n
    <3>1. ~Unmet(c, u, Place(p)) /\ d[u] = b[u]
      BY <1>2, <1>4, <1>5, <2>1, <2>2
    <3> QED
      BY <3>1 DEF PassFits, LowFit
  <2>3. CASE u = n
    <3>1. f <= Cardinality(LiveAt(c, tc, p))
      BY <1>0, <1>3, <1>4, LiveCount
    <3> QED
      BY <1>1, <1>5, <2>3, <3>1
  <2> QED
    BY <2>2, <2>3
<1> QED
  BY <1>9, <1>10, <1>11, <1>12, <1>13 DEF PassFits

-----------------------------------------------------------------------------
(* The steps of the pass.                                                  *)

LEMMA SmallestOf ==
  ASSUME NEW S \in SUBSET Nat, S # {}
  PROVE  \E m \in S : \A k \in S : m <= k
<1>1. IsWellFoundedOn(OpToRel(<, Nat), Nat)
  BY NatLessThanWellFounded
<1>2. \E m \in S : \A k \in S : ~(<<k, m>> \in OpToRel(<, Nat))
  BY <1>1, WFMin, Zenon
<1>3. PICK m \in S : \A k \in S : ~(<<k, m>> \in OpToRel(<, Nat))
  BY <1>2, Zenon
<1>4. \A k \in S : ~(k < m)
  BY <1>3 DEF OpToRel
<1> QED
  BY <1>4

\* get_free returns the first entry before n that has no uses left.
LEMMA GetFree ==
  ASSUME NEW tc \in Nat, NEW h, NEW n \in 1 .. tc
  PROVE  \/ get_free(h, n) = 0 /\ \A m \in 1 .. (n - 1) : h[m].cant_ap # 0
         \/ \E f \in 1 .. (n - 1) : /\ get_free(h, n) = f /\ h[f].cant_ap = 0
                                    /\ \A m \in 1 .. (f - 1) : h[m].cant_ap # 0
<1>1. CASE FreeBefore(h, n) = {}
  BY <1>1 DEF get_free, FreeBefore
<1>2. CASE FreeBefore(h, n) # {}
  <2>1. FreeBefore(h, n) \in SUBSET Nat
    BY DEF FreeBefore
  <2>2. \E m \in FreeBefore(h, n) : \A k \in FreeBefore(h, n) : m <= k
    BY <1>2, <2>1, SmallestOf
  <2>3. PICK f \in FreeBefore(h, n) : f = get_free(h, n) /\ \A k \in FreeBefore(h, n) : f <= k
    BY <1>2, <2>2, Zenon DEF get_free
  <2>4. f \in 1 .. (n - 1) /\ h[f].cant_ap = 0
    BY DEF FreeBefore
  <2>5. \A m \in 1 .. (f - 1) : h[m].cant_ap # 0
    <3>1. \A m \in 1 .. (f - 1) : m \in 1 .. (n - 1) /\ ~(f <= m)
      BY <2>4
    <3> QED
      BY <2>3, <3>1 DEF FreeBefore
  <2> QED
    BY <2>3, <2>4, <2>5
<1> QED
  BY <1>1, <1>2

\* The operand at a place.
LEMMA OperandAt ==
  ASSUME NEW c \in Seq(AnyInstr), NEW tc \in Nat, NEW l, AllMade(c, tc, l), NEW p \in Places(c)
  PROVE  LET o == Arg(c[p[1]], p[2]) IN
         \/ o.kind = "temp" /\ o.n \in 1 .. tc /\ o = Temp(o.n) /\ p \in Occurrences(c, o.n)
         \/ o.kind # "temp" /\ \A t \in 1 .. tc : p \notin Occurrences(c, t)
<1>1. p[1] \in 1 .. Len(c) /\ p[2] \in 1 .. 3 /\ c[p[1]] \in AnyInstr
  BY ElementOfSeq, PlaceFacts
<1> DEFINE o == Arg(c[p[1]], p[2])
<1>2. o \in AnyOperand
  BY <1>1 DEF Arg, AnyInstr
<1>3. Made(o, tc, l)
  BY <1>1 DEF AllMade
<1> HIDE DEF o
<1>4. CASE o.kind = "temp"
  <2>1. o.n \in 1 .. tc /\ o = Temp(o.n)
    BY <1>2, <1>3, <1>4 DEF Made, AnyOperand, Temp, Operand
  <2>2. p \in Occurrences(c, o.n)
    BY <1>1, <2>1 DEF o, Occurrences, Places
  <2> QED
    BY <1>4, <2>1, <2>2 DEF o
<1>5. CASE o.kind # "temp"
  <2>1. \A t \in 1 .. tc : o # Temp(t)
    BY <1>5, TempInjective
  <2> QED
    BY <1>5, <2>1 DEF o, Occurrences
<1> QED
  BY <1>4, <1>5

Now == 3 * instr + operand

\* gen_code has just been there, optimize_memory has not begun
Fresh ==
  /\ ListInv
  /\ buffer = [t \in 1 .. temp_counter |-> t]
  /\ instr = 1 /\ operand = 1

\* The inductive invariant of the pass.
OptInv ==
  /\ GenInv
  /\ PassTyped(cant_ap_h, buffer, temp_counter)
  /\ instr \in 1 .. (Len(code) + 1) /\ operand \in 1 .. 3
  /\ instr > Len(code) => operand = 1
  /\ PassFits(code, cant_ap_h, buffer, Now, temp_counter)
  /\ phase = "gen" => Fresh
  /\ phase = "done" /\ Optimizations => instr > Len(code)

\* What the generator leaves is a state the pass can begin in.
LEMMA FreshFits ==
  ASSUME NEW c \in Seq(AnyInstr), NEW o, NEW tc \in Nat, InOrder(c),
         \A t \in 1 .. tc : Written(c, o, t),
         NEW h, h = [t \in 1 .. tc |-> [cant_ap |-> Cardinality(Occurrences(c, t)),
                                        locked |-> FALSE, list |-> {t}]],
         NEW b, b = [t \in 1 .. tc |-> t]
  PROVE  PassTyped(h, b, tc) /\ PassFits(c, h, b, 4, tc)
<1>1. OccurrencesFit(c, tc)
  BY CodeOccurrencesFit
<1>2. b \in [1 .. tc -> 1 .. tc] /\ \A t \in 1 .. tc : b[t] = t
  OBVIOUS
<1>3. \A p \in Places(c) : Place(p) >= 4
  BY PlaceFacts
<1>4. \A t \in 1 .. tc : Unmet(c, t, 4) /\ Occurrences(c, t) \subseteq Places(c)
  BY <1>1, <1>3 DEF Unmet, OccurrencesFit
<1>5. \A t \in 1 .. tc : /\ h[t].cant_ap = Cardinality(Occurrences(c, t))
                         /\ h[t].locked = FALSE /\ h[t].list = {t} /\ h[t] \in Entry(tc)
  <2>1. SUFFICES ASSUME NEW t \in 1 .. tc
                 PROVE  /\ h[t].cant_ap = Cardinality(Occurrences(c, t))
                        /\ h[t].locked = FALSE /\ h[t].list = {t} /\ h[t] \in Entry(tc)
    OBVIOUS
  <2>2. PICK n \in Nat : n = Cardinality(Occurrences(c, t))
    BY OccurrencesFinite
  <2>3. h[t] = [cant_ap |-> n, locked |-> FALSE, list |-> {t}]
    BY <2>2
  <2> DEFINE x == h[t]
  <2>4. x = [cant_ap |-> n, locked |-> FALSE, list |-> {t}]
    BY <2>3
  <2> HIDE DEF x
  <2>5. x.cant_ap = n /\ x.locked = FALSE /\ x.list = {t} /\ x \in Entry(tc)
    BY <2>4 DEF Entry
  <2> QED
    BY <2>2, <2>5 DEF x
<1>6. h \in [1 .. tc -> Entry(tc)]
  <2>1. h = [t \in 1 .. tc |-> h[t]]
    OBVIOUS
  <2> QED
    BY <1>5, <2>1
<1>7. CountsFit(c, h, b, 4, tc)
  <2>1. \A t \in 1 .. tc : Named(c, b, 4, t, tc) = Occurrences(c, t)
    BY <1>2, <1>3, <1>4 DEF Named
  <2> QED
    BY <1>5, <2>1 DEF CountsFit
<1>8. UnlockedFit(c, h, b, 4, tc) /\ UnmetFit(c, h, b, 4, tc)
  BY <1>2, <1>4, <1>5 DEF UnlockedFit, UnmetFit
<1>9. SharedFit(c, b, tc) /\ LowFit(c, b, 4, tc)
  BY <1>2, <1>4 DEF SharedFit, LowFit
<1> QED
  BY <1>2, <1>6, <1>7, <1>8, <1>9 DEF PassTyped, PassFits

\* What optimize_memory leaves alone is all that the generator's invariant speaks of.
LEMMA PassKeepsGen ==
  ASSUME GenInv, UNCHANGED gen_vars, phase' \in {"gen", "optimize", "done"}
  PROVE  GenInv'
<1>1. /\ code' = code /\ temp_counter' = temp_counter /\ label_counter' = label_counter
      /\ operands' = operands /\ open' = open
  BY DEF gen_vars
<1>2. GenTypes'
  BY <1>1 DEF GenInv, GenTypes
<1>3. TempInv'
  BY <1>1 DEF GenInv, TempInv, PendingOnce
<1>4. LabelInv'
  BY <1>1 DEF GenInv, LabelInv
<1> QED
  BY <1>2, <1>3, <1>4 DEF GenInv

\* check_optimize on the operand at place p, as the change it makes to the list h and the
\* buffers b of tc temporaries.
LEMMA CheckKeeps ==
  ASSUME NEW c \in Seq(AnyInstr), NEW tc \in Nat, NEW h, NEW b, NEW k, NEW d, NEW t \in 1 .. tc,
         NEW p \in Occurrences(c, t), OccurrencesFit(c, tc), PassTyped(h, b, tc),
         PassFits(c, h, b, Place(p), tc),
         IF Swaps(h, b[t])
         THEN /\ k = swap_temps(h, get_free(h, b[t]), b[t])
              /\ d = [u \in 1 .. tc |-> IF u \in h[b[t]].list THEN get_free(h, b[t]) ELSE b[u]]
         ELSE k = [h EXCEPT ![b[t]].cant_ap = @ - 1, ![b[t]].locked = TRUE] /\ d = b
  PROVE  PassTyped(k, d, tc) /\ PassFits(c, k, d, Place(p) + 1, tc)
<1>1. PICK n \in 1 .. tc : n = b[t]
  BY DEF PassTyped
<1>2. h \in [1 .. tc -> Entry(tc)] /\ b \in [1 .. tc -> 1 .. tc] /\ h[n] \in Entry(tc)
  BY DEF PassTyped
<1>3. h[n].cant_ap \in Int /\ h[n].locked \in BOOLEAN /\ h[n].list \in SUBSET (1 .. tc)
  BY <1>2 DEF Entry
<1>4. CASE ~Swaps(h, n)
  <2>1. k = [h EXCEPT ![n] = [cant_ap |-> h[n].cant_ap - 1, locked |-> TRUE, list |-> h[n].list]]
    <3>1. k = [h EXCEPT ![n].cant_ap = @ - 1, ![n].locked = TRUE]
      BY <1>1, <1>4
    <3> QED
      BY <1>2, <3>1 DEF Entry
  <2> DEFINE e == [cant_ap |-> h[n].cant_ap - 1, locked |-> TRUE, list |-> h[n].list]
  <2>2. e \in Entry(tc) /\ e.cant_ap = h[n].cant_ap - 1 /\ e.locked
    BY <1>3 DEF Entry
  <2> HIDE DEF e
  <2>3. /\ k \in [1 .. tc -> Entry(tc)] /\ k[n] = e
        /\ \A m \in 1 .. tc : m # n => k[m] = h[m]
    BY <1>2, <2>1, <2>2 DEF e
  <2>4. h[n].locked \/ \A m \in 1 .. (n - 1) : h[m].cant_ap # 0
    <3>1. h[n].locked \/ get_free(h, n) = 0
      BY <1>4 DEF Swaps
    <3>2. get_free(h, n) = 0 => \A m \in 1 .. (n - 1) : h[m].cant_ap # 0
      <4>1. \/ get_free(h, n) = 0 /\ \A m \in 1 .. (n - 1) : h[m].cant_ap # 0
            \/ \E f \in 1 .. (n - 1) : get_free(h, n) = f
        BY GetFree
      <4> QED
        BY <4>1
    <3> QED
      BY <3>1, <3>2
  <2>5. d = b
    BY <1>1, <1>4
  <2>6. PassFits(c, k, b, Place(p) + 1, tc)
    BY <1>1, <2>2, <2>3, <2>4, UseKeeps
  <2> QED
    BY <1>2, <2>3, <2>5, <2>6 DEF PassTyped
<1>5. CASE Swaps(h, n)
  <2>1. ~h[n].locked /\ get_free(h, n) # 0
    BY <1>5 DEF Swaps
  <2>2. PICK f \in 1 .. (n - 1) : /\ get_free(h, n) = f /\ h[f].cant_ap = 0
                                  /\ \A m \in 1 .. (f - 1) : h[m].cant_ap # 0
    BY <2>1, GetFree
  <2> DEFINE e == [cant_ap |-> h[n].cant_ap - 1, locked |-> TRUE, list |-> h[n].list]
             z == [cant_ap |-> 0, locked |-> FALSE, list |-> {}]
  <2>3. k = [h EXCEPT ![f] = e, ![n] = z]
    BY <1>1, <1>5, <2>2 DEF swap_temps
  <2>4. d = [u \in 1 .. tc |-> IF u \in h[n].list THEN f ELSE b[u]]
    BY <1>1, <1>5, <2>2
  <2>5. e \in Entry(tc) /\ e.cant_ap = h[n].cant_ap - 1 /\ e.locked
    BY <1>3 DEF Entry
  <2>6. z \in Entry(tc) /\ z.cant_ap = 0 /\ ~z.locked /\ z.list = {}
    BY DEF Entry
  <2> HIDE DEF e, z
  <2>7. f \in 1 .. tc /\ f # n
    OBVIOUS
  <2>8. /\ k \in [1 .. tc -> Entry(tc)] /\ k[f] = e /\ k[n] = z
        /\ \A m \in 1 .. tc : m # n /\ m # f => k[m] = h[m]
    BY <1>2, <2>3, <2>5, <2>6, <2>7
  <2>9. d \in [1 .. tc -> 1 .. tc] /\ \A u \in 1 .. tc : d[u] = IF u \in h[n].list THEN f ELSE b[u]
    BY <1>2, <2>4, <2>7
  <2>10. PassFits(c, k, d, Place(p) + 1, tc)
    <3>1. k[f].cant_ap = h[n].cant_ap - 1 /\ k[f].locked
      BY <2>5, <2>8
    <3>2. k[n].cant_ap = 0 /\ ~k[n].locked /\ k[n].list = {}
      BY <2>6, <2>8
    <3>3. \A m \in 1 .. tc : m # n /\ m # f => k[m] = h[m]
      BY <2>8
    <3>4. \A u \in 1 .. tc : d[u] = IF u \in h[n].list THEN f ELSE b[u]
      BY <2>9
    <3>5. ~h[n].locked /\ h[f].cant_ap = 0 /\ \A m \in 1 .. (f - 1) : h[m].cant_ap # 0
      BY <2>1, <2>2
    <3> QED
      <4>1. SwapOf(h, b, k, d, n, f, tc)
        BY <3>1, <3>2, <3>3, <3>4, <3>5 DEF SwapOf
      <4> QED
        BY <1>1, <4>1, SwapKeeps
  <2> QED
    BY <2>8, <2>9, <2>10 DEF PassTyped
<1> QED
  BY <1>4, <1>5

LEMMA ScanKeeps ==
  ASSUME OptInv, Scan
  PROVE  OptInv'
<1>1. PICK c \in Seq(AnyInstr), tc \in Nat, l \in Nat :
        /\ c = code /\ tc = temp_counter /\ l = label_counter /\ AllMade(c, tc, l)
        /\ InOrder(c) /\ \A t \in 1 .. tc : Written(c, operands, t)
  BY DEF OptInv, GenInv, GenTypes, TempInv
<1>2. PICK h \in [1 .. tc -> Entry(tc)], b \in [1 .. tc -> 1 .. tc] :
        h = cant_ap_h /\ b = buffer /\ PassFits(c, h, b, Now, tc)
  BY <1>1 DEF OptInv, PassTyped
<1>3. PICK i \in 1 .. Len(c), f \in 1 .. 3 : i = instr /\ f = operand
  BY <1>1 DEF OptInv, Scan
<1>4. /\ phase = "optimize" /\ phase' = phase /\ UNCHANGED gen_vars
      /\ check_optimize(NameOf(Arg(c[i], f)))
      /\ operand' = (f % 3) + 1 /\ instr' = IF f = 3 THEN i + 1 ELSE i
  BY <1>1, <1>3 DEF Scan
<1>5. OccurrencesFit(c, tc)
  BY <1>1, CodeOccurrencesFit
<1>6. PICK p \in Places(c) : p[1] = i /\ p[2] = f /\ Place(p) = Now
  <2>1. <<i, f>> \in Places(c) /\ Place(<<i, f>>) = Now
    BY <1>3 DEF Places, Place, Now
  <2> QED
    BY <2>1
<1>7. /\ instr' \in 1 .. (Len(c) + 1) /\ operand' \in 1 .. 3
      /\ instr' > Len(c) => operand' = 1
      /\ Now' = Place(p) + 1
  <2>1. i \in Nat /\ Len(c) \in Nat /\ i <= Len(c) /\ i >= 1 /\ Place(p) = 3 * i + f
    BY <1>3, <1>6, LenProperties DEF Now
  <2>2. f = 1 \/ f = 2 \/ f = 3
    OBVIOUS
  <2>3. CASE f = 3
    BY <1>4, <2>1, <2>3 DEF Now
  <2>4. CASE f = 1
    BY <1>4, <2>1, <2>4 DEF Now
  <2>5. CASE f = 2
    BY <1>4, <2>1, <2>5 DEF Now
  <2> QED
    BY <2>2, <2>3, <2>4, <2>5
<1>8. PICK k, d : k = cant_ap_h' /\ d = buffer'
  OBVIOUS
<1>9. PassTyped(k, d, tc) /\ PassFits(c, k, d, Place(p) + 1, tc)
  <2> DEFINE o == Arg(c[p[1]], p[2])
  <2>1. \/ o.kind = "temp" /\ o.n \in 1 .. tc /\ o = Temp(o.n) /\ p \in Occurrences(c, o.n)
        \/ o.kind # "temp" /\ \A t \in 1 .. tc : p \notin Occurrences(c, t)
    BY <1>1, OperandAt
  <2>2. check_optimize(NameOf(o))
    BY <1>4, <1>6
  <2> HIDE DEF o
  <2>3. CASE o.kind # "temp"
    <3>1. NameOf(o) = 0
      BY <2>3 DEF NameOf
    <3>2. k = h /\ d = b
      BY <1>2, <1>8, <2>2, <3>1 DEF check_optimize
    <3>3. PassFits(c, h, b, Place(p) + 1, tc)
      BY <1>2, <1>5, <1>6, <2>1, <2>3, SkipKeeps
    <3> QED
      BY <1>2, <3>2, <3>3 DEF PassTyped
  <2>4. CASE o.kind = "temp"
    <3>1. PICK t \in 1 .. tc : t = o.n /\ p \in Occurrences(c, t)
      BY <2>1, <2>4
    <3>2. NameOf(o) = b[t] /\ b[t] \in 1 .. tc /\ b[t] # 0
      BY <1>2, <2>4, <3>1 DEF NameOf
    <3>3. check_optimize(b[t])
      BY <2>2, <3>2
    <3>4. IF Swaps(h, b[t])
          THEN k = swap_temps(h, get_free(h, b[t]), b[t]) /\ d = Renamed(h, get_free(h, b[t]), b[t])
          ELSE k = [h EXCEPT ![b[t]].cant_ap = @ - 1, ![b[t]].locked = TRUE] /\ d = b
      BY <1>2, <1>8, <3>2, <3>3 DEF check_optimize
    <3>5. Renamed(h, get_free(h, b[t]), b[t]) =
             [u \in 1 .. tc |-> IF u \in h[b[t]].list THEN get_free(h, b[t]) ELSE b[u]]
      BY <1>2 DEF Renamed
    <3>6. IF Swaps(h, b[t])
          THEN /\ k = swap_temps(h, get_free(h, b[t]), b[t])
               /\ d = [u \in 1 .. tc |-> IF u \in h[b[t]].list THEN get_free(h, b[t]) ELSE b[u]]
          ELSE k = [h EXCEPT ![b[t]].cant_ap = @ - 1, ![b[t]].locked = TRUE] /\ d = b
      BY <3>4, <3>5
    <3>7. PassTyped(h, b, tc) /\ PassFits(c, h, b, Place(p), tc)
      BY <1>2, <1>6 DEF PassTyped
    <3> QED
      BY <1>5, <3>1, <3>6, <3>7, CheckKeeps
  <2> QED
    BY <2>3, <2>4
<1>10. code' = c /\ temp_counter' = tc
  BY <1>1, <1>4 DEF gen_vars
<1>11. GenInv'
  BY <1>4, PassKeepsGen DEF OptInv
<1>12. PassTyped(cant_ap_h', buffer', temp_counter') /\ PassFits(code', cant_ap_h', buffer', Now', temp_counter')
  BY <1>7, <1>8, <1>9, <1>10
<1>13. phase' = "optimize"
  BY <1>4
<1> QED
  BY <1>7, <1>10, <1>11, <1>12, <1>13 DEF OptInv

LEMMA EndOfCodeKeeps ==
  ASSUME OptInv, EndOfCode
  PROVE  OptInv'
<1>1. /\ phase = "optimize" /\ phase' = "done" /\ UNCHANGED gen_vars /\ instr > Len(code)
      /\ cant_ap_h' = cant_ap_h /\ buffer' = buffer /\ instr' = instr /\ operand' = operand
      /\ code' = code /\ temp_counter' = temp_counter
  BY DEF EndOfCode, gen_vars
<1>2. GenInv'
  BY <1>1, PassKeepsGen DEF OptInv
<1>3. Now' = Now
  BY <1>1 DEF Now
<1> QED
  BY <1>1, <1>2, <1>3 DEF OptInv

\* The generator stops where the pass begins.
LEMMA GenPhases ==
  ASSUME gen_code
  PROVE  phase = "gen" /\ (phase' = "done" => ~Optimizations)
BY DEF gen_code, GenLiteral, GenBinary, GenUnary, GenShift, GenId, GenCall, GenCallStatement, GenStore,
       GenStoreLeaf, GenReturn, GenIf, GenThenEnd, GenElseEnd, GenWhile, GenWhileTest, GenWhileEnd,
       GenBlock, GenBlockEnd, GenExtern, GenMethod, GenMethodEnd, EndOfProgram, Result, BlockContinues,
       AtStatement, StoreAllowed, AtBlockEnd

LEMMA GenerateKeeps ==
  ASSUME OptInv, Generate
  PROVE  OptInv'
<1>1. /\ gen_code /\ phase = "gen" /\ (phase' = "done" => ~Optimizations)
      /\ buffer' = [t \in 1 .. temp_counter' |-> t] /\ instr' = instr /\ operand' = operand
  BY GenPhases DEF Generate
<1>2. GenInv /\ GenTypes /\ ListInv /\ instr' = 1 /\ operand' = 1
  BY <1>1 DEF OptInv, GenInv, Fresh
<1>3. GenInv' /\ Emits
  BY <1>1, <1>2, GenKept
<1>4. ListInv'
  BY <1>2, <1>3, ListKept
<1>5. Fresh'
  BY <1>1, <1>2, <1>4 DEF Fresh
<1>6. PICK c \in Seq(AnyInstr), tc \in Nat, o \in Seq(AnyOperand) :
        /\ c = code' /\ tc = temp_counter' /\ o = operands'
        /\ InOrder(c) /\ \A t \in 1 .. tc : Written(c, o, t)
  BY <1>3 DEF GenInv, GenTypes, TempInv
<1>7. PICK h, b : h = cant_ap_h' /\ b = buffer'
  OBVIOUS
<1>8. h = [t \in 1 .. tc |-> [cant_ap |-> Cardinality(Occurrences(c, t)), locked |-> FALSE, list |-> {t}]]
  BY <1>4, <1>6, <1>7 DEF ListInv
<1>9. b = [t \in 1 .. tc |-> t]
  BY <1>1, <1>6, <1>7
<1>10. PassTyped(h, b, tc) /\ PassFits(c, h, b, 4, tc)
  BY <1>6, <1>8, <1>9, FreshFits
<1>11. Now' = 4
  BY <1>2 DEF Now
<1>12. instr' \in 1 .. (Len(code') + 1) /\ operand' \in 1 .. 3
  BY <1>2, <1>6, LenProperties
<1> QED
  BY <1>1, <1>2, <1>3, <1>5, <1>6, <1>7, <1>10, <1>11, <1>12 DEF OptInv

-----------------------------------------------------------------------------
(* The theorems about the pass.                                            *)

LEMMA OptInvariant == OptSpec => []OptInv
<1>1. OptInit => OptInv
  <2>1. SUFFICES ASSUME OptInit PROVE OptInv
    OBVIOUS
  <2>2. /\ Init /\ buffer = <<>> /\ instr = 1 /\ operand = 1
        /\ code = <<>> /\ temp_counter = 0 /\ cant_ap_h = <<>> /\ phase = "gen"
    BY <2>1 DEF OptInit, Init
  <2>3. GenInv
    BY <2>2, GenInit
  <2>4. Fresh
    BY <2>2 DEF Fresh, ListInv
  <2>5. PassTyped(cant_ap_h, buffer, temp_counter)
    BY <2>2 DEF PassTyped
  <2>6. PassFits(code, cant_ap_h, buffer, Now, temp_counter)
    BY <2>2 DEF PassFits, CountsFit, UnlockedFit, UnmetFit, SharedFit, LowFit
  <2> QED
    BY <2>2, <2>3, <2>4, <2>5, <2>6 DEF OptInv
<1>2. OptInv /\ [OptNext]_opt_vars => OptInv'
  <2>1. SUFFICES ASSUME OptInv, [OptNext]_opt_vars PROVE OptInv'
    OBVIOUS
  <2>2. CASE UNCHANGED opt_vars
    <3>1. /\ UNCHANGED gen_vars /\ code' = code /\ temp_counter' = temp_counter
          /\ cant_ap_h' = cant_ap_h /\ phase' = phase
          /\ buffer' = buffer /\ instr' = instr /\ operand' = operand
      BY <2>2 DEF opt_vars, vars, gen_vars
    <3>2. GenInv'
      <4>1. phase' \in {"gen", "optimize", "done"}
        BY <2>1, <3>1 DEF OptInv, GenInv, GenTypes
      <4> QED
        BY <2>1, <3>1, <4>1, PassKeepsGen DEF OptInv
    <3>3. Now' = Now /\ (Fresh => Fresh')
      BY <3>1 DEF Now, Fresh, ListInv
    <3> QED
      BY <2>1, <3>1, <3>2, <3>3 DEF OptInv
  <2> QED
    BY <2>1, <2>2, GenerateKeeps, ScanKeeps, EndOfCodeKeeps DEF OptNext, optimize_memory
<1> QED
  BY <1>1, <1>2, PTL DEF OptSpec

LEMMA LengthOf ==
  ASSUME NEW S, NEW n \in Nat, NEW g \in [1 .. n -> S]
  PROVE  g \in Seq(S) /\ Len(g) = n
<1>1. g \in Seq(S)
  BY SeqDef
<1>2. DOMAIN g = 1 .. n /\ DOMAIN g = 1 .. Len(g) /\ Len(g) \in Nat
  BY <1>1, LenProperties
<1>3. \A m \in Nat : 1 .. m = 1 .. n => m = n
  OBVIOUS
<1> QED
  BY <1>1, <1>2, <1>3

\* The state of the code, the list and the buffers.
LEMMA PassFacts ==
  ASSUME OptInv
  PROVE  \E c \in Seq(AnyInstr), tc \in Nat, l \in Nat :
           /\ c = code /\ tc = temp_counter /\ AllMade(c, tc, l)
           /\ OccurrencesFit(c, tc) /\ \A t \in 1 .. tc : Written(c, operands, t)
           /\ cant_ap_h \in [1 .. tc -> Entry(tc)] /\ buffer \in [1 .. tc -> 1 .. tc]
           /\ PassFits(c, cant_ap_h, buffer, Now, tc)
<1>1. PICK c \in Seq(AnyInstr), tc \in Nat, l \in Nat :
        /\ c = code /\ tc = temp_counter /\ AllMade(c, tc, l)
        /\ InOrder(c) /\ \A t \in 1 .. tc : Written(c, operands, t)
  BY DEF OptInv, GenInv, GenTypes, TempInv
<1>2. OccurrencesFit(c, tc)
  BY <1>1, CodeOccurrencesFit
<1>3. /\ cant_ap_h \in [1 .. tc -> Entry(tc)] /\ buffer \in [1 .. tc -> 1 .. tc]
      /\ PassFits(c, cant_ap_h, buffer, Now, tc)
  BY <1>1 DEF OptInv, PassTyped
<1> QED
  BY <1>1, <1>2, <1>3

LEMMA PassTypesHold ==
  ASSUME OptInv
  PROVE  OptTypeOK
<1>1. PICK c \in Seq(AnyInstr), tc \in Nat, l \in Nat :
        /\ c = code /\ tc = temp_counter
        /\ cant_ap_h \in [1 .. tc -> Entry(tc)] /\ buffer \in [1 .. tc -> 1 .. tc]
        /\ PassFits(c, cant_ap_h, buffer, Now, tc)
  BY PassFacts
<1>2. PICK h \in [1 .. tc -> Entry(tc)], b \in [1 .. tc -> 1 .. tc] : h = cant_ap_h /\ b = buffer
  BY <1>1
<1>3. Len(h) = tc /\ b \in Seq(1 .. tc) /\ Len(b) = tc
  BY LengthOf
<1>4. \A t \in 1 .. tc : h[t] \in Entry(tc) /\ h[t].cant_ap = Cardinality(Named(c, b, Now, t, tc))
  BY <1>1, <1>2 DEF PassFits, CountsFit
<1>5. \A t \in 1 .. tc : h[t].cant_ap \in Nat
  BY <1>4, NamedFinite
<1>6. \A t \in 1 .. tc : h[t].locked \in BOOLEAN /\ h[t].list \subseteq 1 .. tc
  BY <1>4 DEF Entry
<1>7. ListTyped
  BY <1>1, <1>2, <1>3, <1>5, <1>6 DEF ListTyped
<1>8. TypeOK
  BY <1>7, TypesHold DEF OptInv, GenInv
<1> QED
  BY <1>1, <1>2, <1>3, <1>8 DEF OptTypeOK, OptInv

\* What is ahead of the pass, and what it is called.
LEMMA AheadPlaces ==
  ASSUME OptInv
  PROVE  Ahead = {p \in Places(code) : Place(p) >= Now}
<1>1. PICK c \in Seq(AnyInstr), i \in Nat, f \in 1 .. 3 : c = code /\ i = instr /\ f = operand /\ i >= 1
  <2>1. code \in Seq(AnyInstr) /\ instr \in 1 .. (Len(code) + 1) /\ operand \in 1 .. 3
    BY DEF OptInv, GenInv, GenTypes
  <2>2. instr \in Nat /\ instr >= 1
    BY <2>1, LenProperties
  <2> QED
    BY <2>1, <2>2
<1>2. ASSUME NEW p \in Places(c)
      PROVE  Place(p) >= 3 * i + f <=> p[1] >= i /\ (p[1] = i => p[2] >= f)
  <2>1. PICK j \in Nat, g \in 1 .. 3 : j = p[1] /\ g = p[2]
    BY PlaceFacts
  <2>2. 3 * j + g >= 3 * i + f <=> j >= i /\ (j = i => g >= f)
    OBVIOUS
  <2> QED
    BY <2>1, <2>2 DEF Place
<1>3. \A p \in Places(c) : p[1] \in 1 .. Len(c) /\ p[1] \in Nat /\ p[2] \in 1 .. 3 /\ p = <<p[1], p[2]>>
  BY PlaceFacts
<1>4. Ahead = {p \in (i .. Len(c)) \X (1 .. 3) : p[1] = i => p[2] >= f}
  BY <1>1 DEF Ahead
<1>5. (i .. Len(c)) \X (1 .. 3) = {p \in Places(c) : p[1] >= i}
  <2>1. i .. Len(c) \subseteq 1 .. Len(c) /\ \A j \in 1 .. Len(c) : j \in i .. Len(c) <=> j >= i
    BY <1>1, LenProperties
  <2> QED
    BY <1>3, <2>1 DEF Places
<1>6. Now = 3 * i + f
  BY <1>1 DEF Now
<1> QED
  BY <1>1, <1>2, <1>4, <1>5, <1>6

LEMMA NameAtPlace ==
  ASSUME OptInv
  PROVE  \A p \in Places(code), n \in 1 .. temp_counter :
           NameAt(p) = n <=> \E t \in 1 .. temp_counter : p \in Occurrences(code, t) /\ buffer[t] = n
<1>1. PICK c \in Seq(AnyInstr), tc \in Nat, l \in Nat :
        /\ c = code /\ tc = temp_counter /\ AllMade(c, tc, l) /\ OccurrencesFit(c, tc)
        /\ buffer \in [1 .. tc -> 1 .. tc]
  BY PassFacts
<1>2. SUFFICES ASSUME NEW p \in Places(c), NEW n \in 1 .. tc
               PROVE  NameAt(p) = n <=> \E t \in 1 .. tc : p \in Occurrences(c, t) /\ buffer[t] = n
  BY <1>1
<1> DEFINE o == Arg(c[p[1]], p[2])
<1>3. \/ o.kind = "temp" /\ o.n \in 1 .. tc /\ o = Temp(o.n) /\ p \in Occurrences(c, o.n)
      \/ o.kind # "temp" /\ \A t \in 1 .. tc : p \notin Occurrences(c, t)
  BY <1>1, OperandAt
<1>4. NameAt(p) = NameOf(o)
  BY <1>1 DEF NameAt
<1> HIDE DEF o
<1>5. CASE o.kind # "temp"
  <2>1. NameAt(p) = 0 /\ n # 0
    BY <1>4, <1>5 DEF NameOf
  <2> QED
    BY <1>3, <1>5, <2>1
<1>6. CASE o.kind = "temp"
  <2>1. NameAt(p) = buffer[o.n]
    BY <1>4, <1>6 DEF NameOf
  <2>2. o.n \in 1 .. tc /\ \A t \in 1 .. tc : p \in Occurrences(c, t) <=> t = o.n
    BY <1>1, <1>3, <1>6 DEF OccurrencesFit
  <2> QED
    BY <2>1, <2>2
<1> QED
  BY <1>5, <1>6

LEMMA CountsHold ==
  ASSUME OptInv
  PROVE  CountsExact
<1>1. PICK c \in Seq(AnyInstr), tc \in Nat, l \in Nat :
        /\ c = code /\ tc = temp_counter /\ AllMade(c, tc, l) /\ OccurrencesFit(c, tc)
        /\ buffer \in [1 .. tc -> 1 .. tc] /\ PassFits(c, cant_ap_h, buffer, Now, tc)
  BY PassFacts
<1>2. SUFFICES ASSUME NEW n \in 1 .. tc
               PROVE  cant_ap_h[n].cant_ap = Cardinality({p \in Ahead : NameAt(p) = n})
  BY <1>1 DEF CountsExact
<1>3. {p \in Ahead : NameAt(p) = n} = Named(c, buffer, Now, n, tc)
  <2>1. \A p \in Places(c) :
          NameAt(p) = n <=> \E t \in 1 .. tc : p \in Occurrences(c, t) /\ buffer[t] = n
    BY <1>1, NameAtPlace
  <2>2. Ahead = {p \in Places(c) : Place(p) >= Now}
    BY <1>1, AheadPlaces
  <2> QED
    BY <2>1, <2>2 DEF Named
<1> QED
  BY <1>1, <1>3 DEF PassFits, CountsFit

\* Between two occurrences of a temporary in different instructions there is no third one.
LEMMA NoneBetween ==
  ASSUME NEW c \in Seq(AnyInstr), NEW o, NEW t, Written(c, o, t),
         NEW p \in Occurrences(c, t), NEW q \in Occurrences(c, t), NEW r \in Occurrences(c, t),
         p[1] < r[1], r[1] < q[1]
  PROVE  FALSE
<1>1. PICK i \in 1 .. Len(c) : WrittenAt(c, o, t, i)
  BY DEF Written
<1>2. \A x \in Occurrences(c, t) : /\ x[1] \in 1 .. Len(c) /\ x[1] \in Nat /\ x[2] \in 1 .. 3
                                   /\ x[1] # i \/ x[2] # 3 => UseOf(c, i, t, x[1], x[2])
  <2>1. \A x \in Occurrences(c, t) : x \in Places(c) /\ Arg(c[x[1]], x[2]) = Temp(t)
    BY DEF Occurrences, Places
  <2> QED
    BY <2>1, PlaceFacts DEF UseOf
<1>3. \A x, y \in Occurrences(c, t) : x[1] # i /\ y[1] # i => x[1] = y[1]
  BY <1>1, <1>2 DEF WrittenAt
<1>4. \A x \in Occurrences(c, t) : x[1] # i => x[1] > i
  BY <1>1, <1>2 DEF WrittenAt
<1>5. p[1] \in Nat /\ q[1] \in Nat /\ r[1] \in Nat /\ i \in Nat
  BY <1>2, LenProperties
<1>6. p[1] = i
  BY <1>3, <1>5
<1>7. r[1] # i /\ q[1] # i
  BY <1>5, <1>6
<1> QED
  BY <1>3, <1>5, <1>7

LEMMA ValuesHold ==
  ASSUME OptInv
  PROVE  SameValues
<1>1. PICK c \in Seq(AnyInstr), tc \in Nat, l \in Nat :
        /\ c = code /\ tc = temp_counter /\ OccurrencesFit(c, tc)
        /\ \A t \in 1 .. tc : Written(c, operands, t)
        /\ buffer \in [1 .. tc -> 1 .. tc] /\ PassFits(c, cant_ap_h, buffer, Now, tc)
  BY PassFacts
<1>2. PICK b \in [1 .. tc -> 1 .. tc], o \in Seq(AnyOperand) : b = buffer /\ o = operands
  BY <1>1 DEF OptInv, GenInv, GenTypes
<1>3. SUFFICES ASSUME NEW t \in 1 .. tc, NEW p \in Occurrences(c, t), NEW q \in Occurrences(c, t),
                      NEW i \in (p[1] + 1) .. q[1], i < q[1], NEW f \in 1 .. 3,
                      NameAt(<<i, f>>) = b[t]
               PROVE  FALSE
  BY <1>1, <1>2 DEF SameValues
<1>4. p \in Places(c) /\ q \in Places(c) /\ p[1] \in 1 .. Len(c) /\ q[1] \in 1 .. Len(c) /\ Len(c) \in Nat
  BY PlaceFacts, LenProperties DEF OccurrencesFit, Occurrences, Places
<1>5. i \in 1 .. Len(c) /\ p[1] < i
  <2>1. \A a, e, n \in Nat : \A x \in (a + 1) .. e : a >= 1 /\ e <= n => x \in 1 .. n /\ a < x
    OBVIOUS
  <2>2. p[1] \in Nat /\ q[1] \in Nat /\ p[1] >= 1 /\ q[1] <= Len(c)
    BY <1>4
  <2> QED
    BY <1>3, <1>4, <2>1, <2>2
<1>6. PICK r \in Places(c) : r = <<i, f>> /\ r[1] = i
  <2>1. <<i, f>> \in Places(c) /\ <<i, f>>[1] = i
    BY <1>3, <1>5 DEF Places
  <2> QED
    BY <2>1
<1>7. PICK u \in 1 .. tc : r \in Occurrences(c, u) /\ b[u] = b[t]
  <2>1. \A x \in Places(c), n \in 1 .. tc :
          NameAt(x) = n <=> \E u \in 1 .. tc : x \in Occurrences(c, u) /\ buffer[u] = n
    BY <1>1, NameAtPlace
  <2>2. b[t] \in 1 .. tc /\ NameAt(r) = b[t]
    BY <1>3, <1>6
  <2> QED
    BY <1>2, <2>1, <2>2
<1>8. Place(p) < Place(r) /\ Place(r) < Place(q)
  BY <1>3, <1>4, <1>5, <1>6, PlaceFacts
<1>9. Place(p) \in Nat /\ Place(q) \in Nat /\ Place(r) \in Nat
  BY <1>4, <1>6, PlaceFacts
<1>10. u # t
  <2>1. Written(c, o, t)
    BY <1>1, <1>2
  <2>2. p[1] < r[1] /\ r[1] < q[1]
    BY <1>3, <1>5, <1>6
  <2> QED
    BY <1>7, <2>1, <2>2, NoneBetween
<1>11. Precedes(c, t, u) \/ Precedes(c, u, t)
  BY <1>1, <1>2, <1>7, <1>10 DEF PassFits, SharedFit
<1>12. ~Precedes(c, t, u)
  BY <1>7, <1>8, <1>9 DEF Precedes
<1>13. ~Precedes(c, u, t)
  BY <1>7, <1>8, <1>9 DEF Precedes
<1> QED
  BY <1>11, <1>12, <1>13

LEMMA NamesHold ==
  ASSUME OptInv
  PROVE  AsFewNamesAsLive
<1>1. PICK c \in Seq(AnyInstr), tc \in Nat, l \in Nat :
        /\ c = code /\ tc = temp_counter /\ OccurrencesFit(c, tc)
        /\ PassFits(c, cant_ap_h, buffer, Now, tc)
  BY PassFacts
<1>2. SUFFICES ASSUME phase = "done", Optimizations, NEW t \in 1 .. tc
               PROVE  \E p \in (1 .. Len(c)) \X (1 .. 3) : buffer[t] <= Cardinality(Live(p))
  BY <1>1 DEF AsFewNamesAsLive
<1>3. PICK i \in Nat, f \in 1 .. 3 : i = instr /\ f = operand /\ i > Len(c)
  <2>1. instr \in 1 .. (Len(c) + 1) /\ operand \in 1 .. 3 /\ instr > Len(c)
    BY <1>1, <1>2 DEF OptInv
  <2>2. instr \in Nat
    BY <2>1, LenProperties
  <2> QED
    BY <2>1, <2>2
<1>4. \A p \in Places(c) : Place(p) < 3 * i + f
  <2>1. SUFFICES ASSUME NEW p \in Places(c) PROVE Place(p) < 3 * i + f
    OBVIOUS
  <2>2. PICK j \in Nat, g \in 1 .. 3 : j = p[1] /\ g = p[2] /\ j < i
    BY <1>3, PlaceFacts, LenProperties
  <2>3. 3 * j + g < 3 * i + f
    BY <2>2
  <2> QED
    BY <2>2, <2>3 DEF Place
<1>5. PICK q \in Occurrences(c, t) : q \in Places(c)
  BY <1>1 DEF OccurrencesFit
<1>6. ~(Place(q) >= Now)
  <2>1. Place(q) < 3 * i + f /\ Place(q) \in Nat
    BY <1>4, <1>5, PlaceFacts
  <2> QED
    BY <1>3, <2>1 DEF Now
<1>7. ~Unmet(c, t, Now)
  BY <1>6 DEF Unmet
<1>8. PICK p \in Places(c) : buffer[t] <= Cardinality(LiveAt(c, tc, p))
  BY <1>1, <1>7 DEF PassFits, LowFit
<1>9. Live(p) = LiveAt(c, tc, p)
  BY <1>1 DEF Live, LiveAt
<1> QED
  BY <1>8, <1>9 DEF Places

\* Every variable of the generator and of the pass has its type; no count of uses left
\* becomes negative.
THEOREM TypesOfThePass == OptSpec => []OptTypeOK
BY OptInvariant, PassTypesHold, PTL

\* With the pass too, every temporary is written once and read at most once, later in the
\* basic block that wrote it.
THEOREM TemporariesOfThePass == OptSpec => []TempsStayInTheirBlock
<1>1. OptInv => TempsStayInTheirBlock
  BY TempsHold DEF OptInv, GenInv
<1> QED
  BY <1>1, OptInvariant, PTL

\* check_optimize keeps the counts exact: an entry with no uses left has a name that no
\* operand ahead of the pass has.
THEOREM CountsOfThePass == OptSpec => []CountsExact
BY OptInvariant, CountsHold, PTL

\* swap_temps never gives a temporary the name of one that is still to be read, whatever
\* the program: the optimized code computes the values of the original one.
THEOREM ValuesOfThePass == OptSpec => []SameValues
BY OptInvariant, ValuesHold, PTL

\* get_free takes the lowest free name, and that is enough: the pass ends with no more names
\* than temporaries are in use at one time, and they are the first ones.
THEOREM NamesOfThePass == OptSpec => []AsFewNamesAsLive
BY OptInvariant, NamesHold, PTL

=============================================================================
