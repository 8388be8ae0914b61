---------------------------- MODULE MCObjectCode ----------------------------
(* The programs ObjectCodeRun is checked on: families that vary the number   *)
(* of parameters, the arguments, the bodies and the order of calls.          *)
EXTENDS ObjectCodeRun, SequencesExt

names == <<"a", "b", "c", "d", "e", "f", "g", "h">>

params(n) == SubSeq(names, 1, n)

source(n)   == [params |-> params(n), extern |-> FALSE]
external(n) == [params |-> params(n), extern |-> TRUE]

T(k) == Temp("$T" \o ToString(k))

one(op, a)        == Instr(op, a, None, None)
move(op, a, r)    == Instr(op, a, None, r)
load(v, r)        == move("LOADVAL", Constant(v), r)
method(f, body)   == <<one("ENTER", Method(f))>> \o body \o <<one("LEAVE", Method(f))>>
pass(as)          == [k \in DOMAIN as |-> one("PARAM", as[k])]
call(f, as, r)    == pass(as) \o <<move("CALL", Method(f), r)>>
program_of(m, cs) == [methods |-> m, code |-> cs]

\* print(x); return
report(x, t) == call("print", <<x>>, t) \o <<one("RET", None)>>

-----------------------------------------------------------------------------
(* many(a, b, ...) with n parameters adds up the first and the last of them,  *)
(* uses the others, and calls other methods before, between or not at all.    *)

many_names(n) == [k \in 1..n |-> Var(names[k], "many")]

\* every parameter occurs in the body
touch(n) == [k \in 1..n |-> move("STORE", many_names(n)[k], Var("local", "many"))]

many_body(n, style) ==
  CASE style = "sum" ->
         touch(n) \o <<Instr("ADD", many_names(n)[1], many_names(n)[n], T(20)), one("RET", T(20))>>
    [] style = "calls" ->
         call("inc", <<many_names(n)[n]>>, T(20)) \o touch(n)
         \o call("inc", <<many_names(n)[1]>>, T(21))
         \o <<Instr("SUB", T(20), T(21), T(22)), one("RET", T(22))>>
    [] style = "divides" ->
         <<Instr("SHIFT_RIGHT", many_names(n)[1], Constant(1), T(20)),
           Instr("MOD", many_names(n)[n], many_names(n)[1], T(21)),
           Instr("DIV", T(20), many_names(n)[1], T(22))>>
         \o touch(n) \o <<Instr("MUL", T(22), T(21), T(23)), one("RET", T(23))>>

\* main passes constants, its own variable and results of calls: arguments are
\* all computed before the first of them is passed
main_body(n, calls) ==
  LET argument(k) == IF k \in calls THEN T(k) ELSE IF k = 2 THEN Var("x", "main") ELSE T(k)
      compute(k)  == IF k \in calls
                     THEN <<load(k + 30, T(10 + k))>> \o call("inc", <<T(10 + k)>>, T(k))
                     ELSE IF k = 2 THEN <<one("LOAD", Var("x", "main"))>>
                     ELSE <<load(IF k = 1 THEN -7 ELSE k, T(k))>>
  IN  <<load(5, T(30)), move("STORE", T(30), Var("x", "main"))>>
      \o FlattenSeq([k \in 1..n |-> compute(k)])
      \o call("many", [k \in 1..n |-> argument(k)], T(31))
      \o <<move("STORE", T(31), Var("y", "main"))>>
      \o report(Var("y", "main"), T(32))

inc_body == <<load(1, T(40)), Instr("ADD", Var("a", "inc"), T(40), T(41)), one("RET", T(41))>>

many_program(n, style, calls) ==
  program_of(("main" :> source(0)) @@ ("many" :> source(n)) @@ ("inc" :> source(1))
               @@ ("print" :> external(1)),
             <<one("EXTERN", Method("print"))>> \o method("inc", inc_body)
             \o method("many", many_body(n, style)) \o method("main", main_body(n, calls)))

ManyPrograms(counts) ==
  {many_program(n, style, calls) :
     n \in counts, style \in {"sum", "calls", "divides"}, calls \in {{}, {1}, {2, 3}, {1, 7}}}

-----------------------------------------------------------------------------
(* Recursion, loops, and the remaining operators.                            *)

\* integer fact(integer a) { if (a == 0) then { return 1; }
\*                           else { return a * fact(a - 1); } }
fact_body ==
  <<load(0, T(1)), Instr("EQ", Var("a", "fact"), T(1), T(2)),
    move("JMPF", T(2), Label(0)),
    load(1, T(3)), one("RET", T(3)), one("JMP", Label(1)), one("LABEL", Label(0)),
    load(1, T(4)), Instr("SUB", Var("a", "fact"), T(4), T(5))>>
  \o call("fact", <<T(5)>>, T(6))
  \o <<Instr("MUL", Var("a", "fact"), T(6), T(7)), one("RET", T(7)),
       one("LABEL", Label(1))>>

fact_program(v) ==
  program_of(("main" :> source(0)) @@ ("fact" :> source(1)) @@ ("print" :> external(1)),
             <<one("EXTERN", Method("print"))>> \o method("fact", fact_body)
             \o method("main", <<load(v, T(8))>> \o call("fact", <<T(8)>>, T(9))
                               \o report(T(9), T(10))))

\* while (x < v) { x = x + 1; step(); }   with a method that returns nothing
loop_program(v) ==
  program_of(("main" :> source(0)) @@ ("step" :> source(0)) @@ ("print" :> external(1)),
             <<one("EXTERN", Method("print"))>>
             \o method("step", <<load(9, T(9)), move("STORE", T(9), Var("x", "step"))>>)
             \o method("main",
                  <<load(-2, T(1)), move("STORE", T(1), Var("x", "main")), one("LABEL", Label(0)),
                    load(v, T(2)), Instr("LES", Var("x", "main"), T(2), T(3)),
                    Instr("NEG", T(3), None, T(4)), Instr("NEG", T(4), None, T(5)),
                    move("JMPF", T(5), Label(1)),
                    load(-1, T(6)), Instr("MIN", T(6), None, T(7)),
                    Instr("ADD", Var("x", "main"), T(7), T(8)),
                    move("STORE", T(8), Var("x", "main"))>>
                  \o call("step", <<>>, T(10))
                  \o <<one("JMP", Label(0)), one("LABEL", Label(1))>>
                  \o report(Var("x", "main"), T(11))))

\* print(v op w), and the same through main's local variable
operator_program(op, v, w) ==
  program_of(("main" :> source(0)) @@ ("print" :> external(1)),
             <<one("EXTERN", Method("print"))>>
             \o method("main",
                  <<load(v, T(1)), move("STORE", T(1), Var("x", "main")), load(w, T(2)),
                    Instr(op, T(1), T(2), T(3)), Instr(op, Var("x", "main"), T(2), T(4)),
                    Instr("EQ", T(3), T(4), T(5))>>
                  \o report(T(3), T(6))))

OperatorPrograms ==
  {operator_program(op, v, w) :
     op \in (Arithmetic \ Division) \cup Relational \cup {"EQ"}, v, w \in {-3, 0, 5}}
  \cup {operator_program(op, v, w) : op \in Division, v \in {-7, 0, 7}, w \in {-2, 3}}
  \cup {operator_program(op, v, w) : op \in Logical, v, w \in {0, 1}}

\* "long" stands for a name of more than 63 characters, "lon" for its first 63
MCFirstCharacters(f) == IF f = "long" THEN "lon" ELSE f

\* main calls long, which returns (and does not link) or just ends
long_program(returns) ==
  program_of(("main" :> source(0)) @@ ("long" :> source(1)) @@ ("inc" :> source(1))
               @@ ("print" :> external(1)),
             <<one("EXTERN", Method("print"))>> \o method("inc", inc_body)
             \o method("long", call("inc", <<Var("a", "long")>>, T(1))
                               \o (IF returns THEN <<one("RET", None)>> ELSE <<>>))
             \o method("main", <<load(3, T(2))>> \o call("long", <<T(2)>>, T(3))
                               \o report(T(2), T(4))))

\* all parameters used, at most seven of them, no name declared twice
GoodPrograms ==
  ManyPrograms(1..7) \cup {fact_program(v) : v \in 0..3} \cup {loop_program(v) : v \in {-5, 1}}
    \cup OperatorPrograms \cup {long_program(returns) : returns \in BOOLEAN}

-----------------------------------------------------------------------------
(* Programs for the runs that end in a violation.                            *)

\* an eighth argument
EightArguments == ManyPrograms({8})

\* many only uses the last of its parameters, and calls
UnusedParameters ==
  {program_of(("main" :> source(0)) @@ ("many" :> source(n)) @@ ("inc" :> source(1))
                @@ ("print" :> external(1)),
              <<one("EXTERN", Method("print"))>> \o method("inc", inc_body)
              \o method("many", call("inc", <<many_names(n)[n]>>, T(20))
                                \o call("inc", <<many_names(n)[n]>>, T(21))
                                \o <<Instr("ADD", T(20), T(21), T(22)), one("RET", T(22))>>)
              \o method("main", main_body(n, {}))) : n \in 1..6}

\* main assigns a global variable, another method reads it
GlobalVariable ==
  {program_of(("main" :> source(0)) @@ ("show" :> source(0)) @@ ("print" :> external(1)),
              <<one("EXTERN", Method("print"))>>
              \o method("show", report(Var("x", "global"), T(1)))
              \o method("main", <<load(3, T(2)), move("STORE", T(2), Var("x", "global"))>>
                                \o call("show", <<>>, T(3))))}
=============================================================================
