--------------------------- MODULE MCOptimization ---------------------------
(* Optimization for TLC: every program of up to AllCode instructions, and    *)
(* beyond that the programs made of statements that compute with temporaries.*)
EXTENDS Optimization

AllCode == 6

\* no leaf but literals in temporaries, no division by a power of two, no label and
\* no nested block
Computation ==
  /\ \A i \in DOMAIN code :
       \/ code[i].op \in {"ENTER", "LOADVAL", "CALL"}
       \/ /\ code[i].op \in {"BINARY", "UNARY", "PARAM", "STORE", "RET", "JMPF"}
          /\ {code[i].var1, code[i].var2} \cap {Name, Constant} = {}
  /\ \A i \in DOMAIN open : open[i].kind # "block"

MCNext ==
  \/ Generate /\ (Len(code') <= AllCode \/ Computation')
  \/ optimize_memory

MCSpec == OptInit /\ [][MCNext]_opt_vars /\ WF_opt_vars(optimize_memory)
=============================================================================
