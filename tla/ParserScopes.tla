---------------------------- MODULE ParserScopes ----------------------------
(***************************************************************************)
(* The syntactic stage (parser.y) as far as it drives the symbol table:    *)
(* the mid-rule and reduction actions in the order the grammar runs them,  *)
(* over every program with at most MaxScopes scopes.  The tokens are the   *)
(* input: which identifier comes, and whether the next token opens a       *)
(* block, closes one or declares something, is chosen freely wherever the  *)
(* grammar accepts it.                                                     *)
(*                                                                         *)
(* A block '{' var_decls statements '}' pushes a scope unless              *)
(* suppress_next_block_push is set, and pops one at its '}' if             *)
(* last_block_pushed is set.  Both are single global flags: nothing in the *)
(* code relates them to the block being closed.                            *)
(***************************************************************************)
EXTENDS SymbolTable, SequencesExt

CONSTANTS Name,       \* identifiers of the program
          MaxScopes   \* bound: scopes one compilation may allocate

ASSUME MaxScopesAssumption == MaxScopes \in Nat

VARIABLES
  symtab,                    \* the symbol table
  suppress_next_block_push,  \* the next '{' is a method body
  last_block_pushed,         \* the last '{' reduced pushed a scope
  current_args_list,         \* arguments of the method being parsed
  methods,                   \* method symbols, in order of declaration
  phase,                     \* where in the grammar the parser is
  blocks,                    \* parser stack: the open blocks of the method, TRUE
                             \* once a nested block has ended its var_decls
  method_name,               \* semantic value $2 of the method being parsed
  id_leaf                    \* stack position the last identifier resolved to

\* Of the input, not of the parser: what stands between '(' and ')' of every
\* method header read so far, in the order of the source.
VARIABLE headers

vars == <<symtab, suppress_next_block_push, last_block_pushed,
          current_args_list, methods, phase, blocks, method_name, id_leaf, headers>>

Phases == {"decls", "args", "body", "closed", "done", "error"}

Init ==
  /\ symtab = empty_table
  /\ suppress_next_block_push = FALSE
  /\ last_block_pushed = FALSE
  /\ current_args_list = <<>>
  /\ methods = <<>>
  /\ phase = "decls"
  /\ blocks = <<>>
  /\ method_name \in Name
  /\ id_leaf = 0
  /\ headers = <<>>

\* error_variable_redeclaration, error_variable_not_declared: exit(EXIT_FAILURE)
Exit ==
  /\ phase' = "error"
  /\ UNCHANGED <<symtab, suppress_next_block_push, last_block_pushed,
                 current_args_list, methods, blocks, method_name, id_leaf, headers>>

-----------------------------------------------------------------------------
(* Declarations and uses of variables.                                     *)

\* var_decls come before the statements of a block; between methods they are
\* the global variables
VarDeclAllowed ==
  \/ phase = "decls"
  \/ phase = "body" /\ ~blocks[Len(blocks)]

\* type ID ';'  and  type ID '=' expr ';' (its expr is UseId, reduced before)
var_decl(n) ==
  /\ VarDeclAllowed
  /\ ~find_in_current_scope(symtab, n)
  /\ symtab' = add_id(symtab, n)
  /\ UNCHANGED <<suppress_next_block_push, last_block_pushed, current_args_list,
                 methods, phase, blocks, method_name, id_leaf, headers>>

VarRedeclared(n) ==
  /\ VarDeclAllowed
  /\ find_in_current_scope(symtab, n)
  /\ Exit

\* an identifier in an expression or on the left of '=': in the initializer of
\* the declaration that follows (the only place between methods) or a statement
UseId(n) ==
  /\ phase \in {"decls", "body"}
  /\ find(symtab, n) # 0
  /\ id_leaf' = find(symtab, n)
  /\ UNCHANGED <<symtab, suppress_next_block_push, last_block_pushed,
                 current_args_list, methods, phase, blocks, method_name, headers>>

UseUndeclared(n) ==
  /\ phase \in {"decls", "body"}
  /\ find(symtab, n) = 0
  /\ Exit

-----------------------------------------------------------------------------
(* Methods and blocks.                                                     *)

\* type ID '(' : mid-rule action of method_args
method_args(n) ==
  /\ phase = "decls"
  /\ Len(push_scope(symtab).scopes) <= MaxScopes
  /\ symtab' = push_scope(symtab)
  /\ suppress_next_block_push' = TRUE
  /\ method_name' = n
  /\ headers' = Append(headers, <<>>)
  /\ phase' = "args"
  /\ UNCHANGED <<last_block_pushed, current_args_list, methods, blocks, id_leaf>>

arg_list(n) ==
  /\ phase = "args"
  /\ ~find_in_current_scope(symtab, n)
  /\ symtab' = add_id(symtab, n)
  /\ current_args_list' = Append(current_args_list, n)
  /\ headers' = [headers EXCEPT ![Len(headers)] = Append(@, n)]
  /\ UNCHANGED <<suppress_next_block_push, last_block_pushed, methods, phase,
                 blocks, method_name, id_leaf>>

ArgRedeclared(n) ==
  /\ phase = "args"
  /\ find_in_current_scope(symtab, n)
  /\ Exit

\* '{' : mid-rule action of block.  The block is the method's body right after
\* ')', and a statement (nested block, then, else or while body) afterwards.
block_open ==
  /\ phase \in {"args", "body"}
  /\ \/ /\ suppress_next_block_push
        /\ last_block_pushed' = FALSE
        /\ suppress_next_block_push' = FALSE
        /\ UNCHANGED symtab
     \/ /\ ~suppress_next_block_push
        /\ Len(push_scope(symtab).scopes) <= MaxScopes
        /\ symtab' = push_scope(symtab)
        /\ last_block_pushed' = TRUE
        /\ UNCHANGED suppress_next_block_push
  /\ phase' = "body"
  /\ blocks' = Append([k \in DOMAIN blocks |-> TRUE], FALSE)
  /\ UNCHANGED <<current_args_list, methods, method_name, id_leaf, headers>>

\* '}' : reduction of block
block_close ==
  /\ phase = "body"
  /\ symtab' = IF last_block_pushed THEN pop_scope(symtab) ELSE symtab
  /\ blocks' = SubSeq(blocks, 1, Len(blocks) - 1)
  /\ phase' = IF Len(blocks) = 1 THEN "closed" ELSE "body"
  /\ UNCHANGED <<suppress_next_block_push, last_block_pushed,
                 current_args_list, methods, method_name, id_leaf, headers>>

\* mutant of add_current_list: the search stops at the first method it meets
add_list_to_first(ms, n, list) == [ms EXCEPT ![1].args = list]

\* the list goes to the first method named n (find_global, by name again)
add_current_list(ms, n, list) ==
  [i \in DOMAIN ms |->
     IF ms[i].name = n /\ \A j \in 1 .. i - 1 : ms[j].name # n
     THEN [ms[i] EXCEPT !.args = list]
     ELSE ms[i]]

\* mutant of MethodNameTaken: only the innermost scope is searched
MethodNameTakenHere == find_in_current_scope(symtab, method_name)

\* add_method's redeclaration check
MethodNameTaken == find(symtab, method_name) # 0

\* reduction of method_decl, after the body or after EXTERN ';'
method_decl(is_extern) ==
  /\ phase = IF is_extern THEN "args" ELSE "closed"
  /\ ~MethodNameTaken
  /\ methods' =
       add_current_list(
         Append(methods, [name |-> method_name, scope |-> get_this_scope(symtab),
                          args |-> <<>>, is_extern |-> is_extern]),
         method_name, current_args_list)
  /\ symtab' = pop_scope(add_method(symtab, method_name))
  /\ current_args_list' = <<>>
  /\ phase' = "decls"
  /\ UNCHANGED <<suppress_next_block_push, last_block_pushed, blocks,
                 method_name, id_leaf, headers>>

MethodRedeclared(is_extern) ==
  /\ phase = IF is_extern THEN "args" ELSE "closed"
  /\ MethodNameTaken
  /\ Exit

\* PROGRAM '{' decls '}'
program ==
  /\ phase = "decls"
  /\ phase' = "done"
  /\ UNCHANGED <<symtab, suppress_next_block_push, last_block_pushed,
                 current_args_list, methods, blocks, method_name, id_leaf, headers>>

Next ==
  \/ \E n \in Name :
       \/ var_decl(n)    \/ VarRedeclared(n)
       \/ UseId(n)       \/ UseUndeclared(n)
       \/ method_args(n)
       \/ arg_list(n)    \/ ArgRedeclared(n)
  \/ block_open
  \/ block_close
  \/ \E is_extern \in BOOLEAN :
       method_decl(is_extern) \/ MethodRedeclared(is_extern)
  \/ program

Spec == Init /\ [][Next]_vars

-----------------------------------------------------------------------------
(* Properties.                                                             *)

Table == [stack : Seq(Nat \ {0}), scopes : Seq(Seq(Name))]

Method == [name : Name, scope : Nat \ {0}, args : Seq(Name), is_extern : BOOLEAN]

TypeOK ==
  /\ symtab \in Table
  /\ suppress_next_block_push \in BOOLEAN
  /\ last_block_pushed \in BOOLEAN
  /\ current_args_list \in Seq(Name)
  /\ methods \in Seq(Method)
  /\ phase \in Phases
  /\ blocks \in Seq(BOOLEAN)
  /\ method_name \in Name
  /\ id_leaf \in Nat
  /\ headers \in Seq(Seq(Name))

\* The up-chain is a chain: it starts at the global scope, names only scopes
\* that exist, and every scope is younger than the one around it (push_scope,
\* pop_scope and st_init together never link a scope twice or skip one).
Chain(stack, allocated) ==
  /\ stack = <<>> <=> allocated = 0
  /\ stack # <<>> => stack[1] = Global
  /\ \A i \in DOMAIN stack : stack[i] \in 1 .. allocated
  /\ \A i, j \in DOMAIN stack : i < j => stack[i] < stack[j]

UpChain(t) == Chain(t.stack, Len(t.scopes))

\* One scope per open block: the method's parameters and its body share one,
\* every block nested in it adds one.  Only between the '}' of the body and the
\* end of method_decl is the depth uncertain.
ScopePerBlock ==
  /\ phase = "decls" => Len(symtab.stack) \in 0 .. 1
  /\ phase = "args" => Len(symtab.stack) = 2
  /\ phase = "body" => Len(symtab.stack) = 1 + Len(blocks)
  /\ phase = "closed" => Len(symtab.stack) \in 1 .. 2

BlocksInBody ==
  /\ phase \in {"decls", "args", "closed"} => blocks = <<>>
  /\ phase = "body" => blocks # <<>>

\* What the two flags are worth.  suppress_next_block_push is set exactly while
\* a body is expected; last_block_pushed is set whenever a nested block is open,
\* but about the body itself it says nothing.
FlagsMatchBlocks ==
  /\ phase = "args" => suppress_next_block_push = TRUE
  /\ phase = "body" => suppress_next_block_push = FALSE
  /\ phase = "body" /\ Len(blocks) > 1 => last_block_pushed = TRUE

\* The symbol table's discipline: what every push, pop and flag keeps between
\* any two parser actions, for every nesting of blocks.
ScopeInv ==
  UpChain(symtab) /\ ScopePerBlock /\ BlocksInBody /\ FlagsMatchBlocks

\* find returns the first match of a scope's list, so a second symbol with the
\* name of another in the same scope could never be reached: no sequence of
\* add_id (which checks the innermost scope) and add_method (which checks the
\* whole chain but writes to the global scope) leaves two of them.
DistinctNames == \A s \in DOMAIN symtab.scopes : IsInjective(symtab.scopes[s])

\* The arguments are collected in one global list while the header is read, and
\* attached after the whole body to a method found again by its name.  Every
\* declared method has the arguments of its own header, all of them and in their
\* order, whatever blocks its body has; until then the list is the one of the
\* header read last, it is the parameter scope's while the header is open, and
\* no other method's list is left over when the next header comes.
ArgsOfTheirMethod ==
  /\ \A i \in DOMAIN methods : methods[i].args = headers[i]
  /\ phase = "decls" =>
       current_args_list = <<>> /\ Len(headers) = Len(methods)
  /\ phase \in {"args", "body", "closed"} =>
       Len(headers) = Len(methods) + 1 /\ current_args_list = Last(headers)
  /\ phase = "args" => current_args_list = symtab.scopes[Top(symtab)]

\* A scope that has left the up-chain is closed for good: the ID_TABLE entries
\* that AST leaves and method_decl.scope still point into never change, and it
\* never becomes part of the chain again.
ClosedScopesStayClosed ==
  [][\A s \in DOMAIN symtab.scopes :
       s \notin ToSet(symtab.stack) =>
         s \notin ToSet(symtab'.stack) /\ symtab'.scopes[s] = symtab.scopes[s]]_vars

\* The frames of LexicalScopes that a table stands for: the scopes of its chain.
FramesOf(t) ==
  IF t.stack = <<>> THEN << <<>> >>
  ELSE [k \in DOMAIN t.stack |-> t.scopes[t.stack[k]]]

\* The parser's scopes implement block structured visibility.
Lexical == INSTANCE LexicalScopes WITH frames <- FramesOf(symtab)

LexicalVisibility == Lexical!Spec
=============================================================================
