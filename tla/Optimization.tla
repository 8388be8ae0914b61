---------------------------- MODULE Optimization ----------------------------
(***************************************************************************)
(* The reuse of temporaries (optimization.c): one pass over the operands   *)
(* of the intermediate code, in the order they are executed.  Whenever an  *)
(* operand names a temporary met for the first time and an earlier one has *)
(* no uses left, every occurrence of the former is renamed to the latter.  *)
(*                                                                         *)
(* The occurrences of a temporary share one string buffer, which strcpy    *)
(* overwrites: code does not change, the contents of the buffers do.       *)
(***************************************************************************)
EXTENDS IntermediateCode, Integers

VARIABLES
  buffer,    \* buffer[t] = n: the buffer of temporary t holds "$T(n - 1)"
  instr,     \* loop variable i of optimize_memory, counted from 1
  operand    \* 1, 2, 3: var1, var2 or reg is the next to be looked at

opt_vars == <<vars, buffer, instr, operand>>

OptInit ==
  /\ Init
  /\ buffer = <<>>
  /\ instr = 1
  /\ operand = 1

\* the name an operand has now, 0 if it is not a temporary
NameOf(o) == IF o.kind = "temp" THEN buffer[o.n] ELSE 0

-----------------------------------------------------------------------------
(* The helpers of check_optimize, on the list h = cant_ap_h.               *)

\* the entries before that of name n with no uses left
FreeBefore(h, n) == {m \in 1..(n - 1) : h[m].cant_ap = 0}

\* mutant of get_free: the last free entry is returned
get_free_last(h, n) ==
  IF FreeBefore(h, n) = {} THEN 0
  ELSE CHOOSE m \in FreeBefore(h, n) : \A k \in FreeBefore(h, n) : k <= m

\* the first of them; 0 is NULL
get_free(h, n) ==
  IF FreeBefore(h, n) = {} THEN 0
  ELSE CHOOSE m \in FreeBefore(h, n) : \A k \in FreeBefore(h, n) : m <= k

\* mutant of swap_temps: the use being looked at is not subtracted
swap_temps_all(h, free, n) ==
  [h EXCEPT ![free] = [cant_ap |-> h[n].cant_ap, locked |-> TRUE, list |-> h[n].list],
            ![n]    = [cant_ap |-> 0, locked |-> FALSE, list |-> {}]]

\* the use being looked at is already subtracted from the uses of free
swap_temps(h, free, n) ==
  [h EXCEPT ![free] = [cant_ap |-> h[n].cant_ap - 1, locked |-> TRUE, list |-> h[n].list],
            ![n]    = [cant_ap |-> 0, locked |-> FALSE, list |-> {}]]

\* the strcpy loop of swap_temps
Renamed(h, free, n) ==
  [t \in DOMAIN buffer |-> IF t \in h[n].list THEN free ELSE buffer[t]]

\* mutant of Swaps: a temporary that is in use is swapped too
Swaps_locked(h, n) == get_free(h, n) # 0

\* only optimize if some temporary is free and this one is met for the first time
Swaps(h, n) == get_free(h, n) # 0 /\ ~h[n].locked

check_optimize(n) ==
  IF n = 0 THEN UNCHANGED <<cant_ap_h, buffer>>
  ELSE IF Swaps(cant_ap_h, n)
  THEN /\ cant_ap_h' = swap_temps(cant_ap_h, get_free(cant_ap_h, n), n)
       /\ buffer' = Renamed(cant_ap_h, get_free(cant_ap_h, n), n)
  ELSE /\ cant_ap_h' = [cant_ap_h EXCEPT ![n].cant_ap = @ - 1, ![n].locked = TRUE]
       /\ UNCHANGED buffer

-----------------------------------------------------------------------------

\* gen_code: new_temp writes the name into a buffer of its own
Generate ==
  /\ gen_code
  /\ buffer' = [t \in 1..temp_counter' |-> t]
  /\ UNCHANGED <<instr, operand>>

\* the next operand of optimize_memory
Scan ==
  /\ phase = "optimize"
  /\ instr <= Len(code)
  /\ check_optimize(NameOf(Arg(code[instr], operand)))
  /\ operand' = (operand % 3) + 1
  /\ instr' = IF operand = 3 THEN instr + 1 ELSE instr
  /\ UNCHANGED <<gen_vars, phase>>

\* mutant of EndOfCode: off by one
EndOfCode_late ==
  /\ phase = "optimize"
  /\ instr > Len(code) + 1
  /\ phase' = "done"
  /\ UNCHANGED <<gen_vars, cant_ap_h, buffer, instr, operand>>

EndOfCode ==
  /\ phase = "optimize"
  /\ instr > Len(code)
  /\ phase' = "done"
  /\ UNCHANGED <<gen_vars, cant_ap_h, buffer, instr, operand>>

optimize_memory == Scan \/ EndOfCode

OptNext == Generate \/ optimize_memory

OptSpec == OptInit /\ [][OptNext]_opt_vars /\ WF_opt_vars(optimize_memory)

-----------------------------------------------------------------------------
(* Properties.                                                             *)

\* Every variable has its type; the uses left are never negative.
OptTypeOK ==
  /\ TypeOK
  /\ buffer \in Seq(1..temp_counter)
  /\ Len(buffer) = temp_counter
  /\ instr \in 1..(Len(code) + 1)
  /\ operand \in 1..3

\* the operands the pass has not looked at
Ahead == {p \in (instr..Len(code)) \X (1..3) : p[1] = instr => p[2] >= operand}

NameAt(p) == NameOf(Arg(code[p[1]], p[2]))

\* At every moment of the pass, the uses recorded for a name are the operands
\* with that name that are still ahead: an entry with none is free to be taken.
CountsExact ==
  phase # "gen" \/ Optimizations =>
    \A n \in 1..temp_counter :
      cant_ap_h[n].cant_ap = Cardinality({p \in Ahead : NameAt(p) = n})

\* Renaming never changes what an operand means: between the instruction that
\* computes a temporary and the one that reads it, no other operand has got the
\* same name.  With TempsStayInTheirBlock the optimized program computes what
\* the original one does.
SameValues ==
  \A t \in 1..temp_counter : \A p \in Occurrences(code, t) : \A q \in Occurrences(code, t) :
    \A i \in (p[1] + 1)..q[1] :
      i < q[1] => \A f \in 1..3 : NameAt(<<i, f>>) # buffer[t]

\* position of an operand in the order of the pass
Place(p) == 3 * p[1] + p[2]

\* temporaries in use when operand p is looked at
Live(p) ==
  {t \in 1..temp_counter :
     \E q, r \in Occurrences(code, t) : Place(q) <= Place(p) /\ Place(p) <= Place(r)}

\* "try to compress temporals towards T0" (optimization.c:27): when the pass is
\* over, no more names are used than temporaries are in use at the same time,
\* and they are the first ones.
AsFewNamesAsLive ==
  phase = "done" /\ Optimizations =>
    \A t \in 1..temp_counter :
      \E p \in (1..Len(code)) \X (1..3) : buffer[t] <= Cardinality(Live(p))

\* The pass ends.
PassEnds == phase = "optimize" ~> phase = "done"
=============================================================================
