---------------------------- MODULE SymbolTable ----------------------------
(***************************************************************************)
(* The scoped symbol table (symbol_table/symbol_table.c) as operators on a *)
(* table value: what each function returns, and the table it leaves.       *)
(*                                                                         *)
(*   scopes  every TABLE_STACK ever allocated, in allocation order, each   *)
(*           the list head_block .. end_block of the names declared in it; *)
(*           scopes are never freed, a popped one stays reachable through  *)
(*           method_decl.scope.  Scope 1 is global_level.                  *)
(*   stack   the up-chain of stack_level read from the global scope to the *)
(*           top; <<>> while stack_level is NULL.  A scope's up pointer is *)
(*           written once, so following it is dropping the last element.   *)
(***************************************************************************)
EXTENDS Naturals, Sequences

\* stack_level = global_level = NULL, before the first use
empty_table == [stack |-> <<>>, scopes |-> <<>>]

Top(t) == t.stack[Len(t.stack)]

Global == 1

NamesIn(t, s) == {t.scopes[s][i] : i \in DOMAIN t.scopes[s]}

st_init(t) == [stack |-> <<Global>>, scopes |-> << <<>> >>]

\* every function that needs a scope starts with: if (!stack_level) st_init()
Started(t) == IF t.stack = <<>> THEN st_init(t) ELSE t

\* mutant of Push: scopes are freed when popped, and calloc hands one out again
Push_reusing_popped(t) ==
  LET free == {s \in DOMAIN t.scopes : \A k \in DOMAIN t.stack : t.stack[k] # s}
      new  == IF free = {} THEN Len(t.scopes) + 1 ELSE CHOOSE s \in free : TRUE
  IN  [stack  |-> Append(t.stack, new),
       scopes |-> [s \in DOMAIN t.scopes \cup {new} |->
                     IF s = new THEN <<>> ELSE t.scopes[s]]]

\* allocate_scope(stack_level), then stack_level = the new scope
Push(t) == [stack  |-> Append(t.stack, Len(t.scopes) + 1),
            scopes |-> Append(t.scopes, <<>>)]

push_scope(t) == Push(Started(t))

\* mutant of pop_scope: the global scope is popped like any other
pop_scope_past_global(t) ==
  IF t.stack # <<>> THEN [t EXCEPT !.stack = SubSeq(@, 1, Len(@) - 1)] ELSE t

\* the global scope is never popped
pop_scope(t) ==
  IF t.stack # <<>> /\ Top(t) # Global
  THEN [t EXCEPT !.stack = SubSeq(@, 1, Len(@) - 1)]
  ELSE t

\* the positions of the stack whose scope declares n
Levels(t, n) == {k \in DOMAIN t.stack : n \in NamesIn(t, t.stack[k])}

\* mutant of find: the search starts at the global scope
find_outermost(t, n) ==
  IF Levels(t, n) = {} THEN 0
  ELSE CHOOSE k \in Levels(t, n) : \A j \in Levels(t, n) : k <= j

\* the position on the stack of the scope whose symbol is returned, from the
\* top down; 0 is NULL
find(t, n) ==
  IF Levels(t, n) = {} THEN 0
  ELSE CHOOSE k \in Levels(t, n) : \A j \in Levels(t, n) : j <= k

find_in_current_scope(t, n) == t.stack # <<>> /\ n \in NamesIn(t, Top(t))

\* link a new symbol at the end_block of scope s
Link(t, s, n) == [stack  |-> t.stack,
                  scopes |-> [t.scopes EXCEPT ![s] = Append(@, n)]]

\* add_id and add_method after their redeclaration check
add_id(t, n) == LET u == Started(t) IN Link(u, Top(u), n)

add_method(t, n) == Link(Started(t), Global, n)

\* mutant of get_this_scope: stack_level->up, NULL (0) for the global scope
get_enclosing_scope(t) ==
  IF Len(t.stack) > 1 THEN t.stack[Len(t.stack) - 1] ELSE 0

get_this_scope(t) == Top(t)
=============================================================================
