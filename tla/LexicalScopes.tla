---------------------------- MODULE LexicalScopes ----------------------------
(***************************************************************************)
(* What the symbol table promises the parser: block structured visibility. *)
(* A frame is the list of names one block declares.  A block sees the      *)
(* names of its own frame and of every frame around it, the innermost      *)
(* declaration first; leaving a block forgets exactly its own names; only  *)
(* the names of global variables and methods outlive a method.             *)
(*                                                                         *)
(* ParserScopes reaches this with a chain of scopes that are never freed   *)
(* and two flags saying whether a '{' pushes and a '}' pops.               *)
(***************************************************************************)
EXTENDS Naturals, Sequences, SequencesExt

CONSTANT Name

VARIABLES frames,   \* the names of each open frame, outermost (global) first
          blocks,   \* the open blocks of the method being parsed, TRUE once a
                    \* nested block has ended a block's declarations
          phase,    \* "decls" between methods, "args", "body", "closed" (body read),
                    \* "done" or "error"
          id_leaf   \* the frame the last identifier was resolved in

vars == <<frames, blocks, phase, id_leaf>>

Init == /\ frames = << <<>> >>
        /\ blocks = <<>>
        /\ phase = "decls"
        /\ id_leaf = 0

Visible(n) == \E k \in DOMAIN frames : Contains(frames[k], n)

\* a name new to the innermost frame is declared there
Declare(n) ==
  /\ phase \in {"decls", "args", "body"}
  /\ phase = "body" => ~Last(blocks)
  /\ ~Contains(Last(frames), n)
  /\ frames' = Append(Front(frames), Append(Last(frames), n))
  /\ UNCHANGED <<blocks, phase, id_leaf>>

\* a use of n means the declaration of n in the innermost frame that has one
Resolve(n) ==
  /\ phase \in {"decls", "body"}
  /\ \E k \in DOMAIN frames :
       /\ Contains(frames[k], n)
       /\ \A j \in k + 1 .. Len(frames) : ~Contains(frames[j], n)
       /\ id_leaf' = k
  /\ UNCHANGED <<frames, blocks, phase>>

\* the method's own frame holds its parameters and its body's variables
EnterMethod ==
  /\ phase = "decls"
  /\ frames' = Append(frames, <<>>)
  /\ phase' = "args"
  /\ UNCHANGED <<blocks, id_leaf>>

EnterBody ==
  /\ phase = "args"
  /\ phase' = "body"
  /\ blocks' = <<FALSE>>
  /\ UNCHANGED <<frames, id_leaf>>

EnterBlock ==
  /\ phase = "body"
  /\ frames' = Append(frames, <<>>)
  /\ blocks' = Append([k \in DOMAIN blocks |-> TRUE], FALSE)
  /\ UNCHANGED <<phase, id_leaf>>

LeaveBlock ==
  /\ phase = "body"
  /\ Len(blocks) > 1
  /\ frames' = Front(frames)
  /\ blocks' = Front(blocks)
  /\ UNCHANGED <<phase, id_leaf>>

\* the method's frame may be left with its body or, at the latest, when the
\* method is declared: nothing is declared or resolved in between
LeaveBody ==
  /\ phase = "body"
  /\ Len(blocks) = 1
  /\ frames' \in {frames, << frames[1] >>}
  /\ blocks' = <<>>
  /\ phase' = "closed"
  /\ UNCHANGED id_leaf

DeclareMethod(n) ==
  /\ phase \in {"args", "closed"}
  /\ ~Contains(frames[1], n)
  /\ frames' = << Append(frames[1], n) >>
  /\ phase' = "decls"
  /\ UNCHANGED <<blocks, id_leaf>>

\* a program may be rejected for declaring a name its frame has, using a name
\* it does not see, or giving a method a name that is visible
Reject(n) ==
  /\ \/ phase \in {"decls", "args", "body"} /\ Contains(Last(frames), n)
     \/ phase \in {"decls", "body"} /\ ~Visible(n)
     \/ phase \in {"args", "closed"} /\ Visible(n)
  /\ phase' = "error"
  /\ UNCHANGED <<frames, blocks, id_leaf>>

Finish == /\ phase = "decls"
          /\ phase' = "done"
          /\ UNCHANGED <<frames, blocks, id_leaf>>

Next == \/ \E n \in Name : \/ Declare(n) \/ Resolve(n)
                           \/ DeclareMethod(n) \/ Reject(n)
        \/ EnterMethod \/ EnterBody \/ EnterBlock \/ LeaveBlock \/ LeaveBody
        \/ Finish

Spec == Init /\ [][Next]_vars
=============================================================================
