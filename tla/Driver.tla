------------------------------- MODULE Driver -------------------------------
(***************************************************************************)
(* The command ctds (main.c): it reads its arguments one by one, runs the  *)
(* stages up to the one asked for and leaves files behind, which outlive   *)
(* it: NAME.codinter, NAME.s and, written by link.sh, NAME.o and NAME.     *)
(* Users run it again and again, for other sources, with the same names.   *)
(*                                                                         *)
(* What a stage does with a source is one choice here; the other modules   *)
(* say what it depends on.  Any file may be impossible to open, gcc may    *)
(* fail, and the user may interrupt the command at any moment.             *)
(***************************************************************************)
EXTENDS Naturals, FiniteSets

CONSTANTS Sources,    \* names of source files
          Names,      \* what follows -o
          MaxArgs,    \* bound: arguments of a command
          MaxRuns     \* bound: commands

ASSUME DriverAssumption == MaxArgs \in Nat /\ MaxRuns \in Nat

VARIABLES
  phase,     \* what main does next; "idle" when no command runs
  argc,      \* arguments read
  options,   \* [stage, optimizations, debug, outname, sourcename]
  head_ast,  \* the tree: of which source, and the verdict on it
  code,      \* contents of code[]
  status,    \* of the last command: "0", "1", "signal"
  disk,      \* contents of the files: disk[name][kind]
  before,    \* history: disk when the command started
  faults,    \* history: what went wrong outside of the compiler in this command
  runs       \* commands so far

process == <<argc, options, head_ast, code>>

vars == <<phase, process, status, disk, before, faults, runs>>

\* enum STAGE
SCAN == 0
PARSE == 1
CODINTER == 2
ASSEMBLY == 3
EXECUTABLE == 4
STAGE == SCAN .. EXECUTABLE

Default == "out"

Kinds == {"codinter", "s", "o", "exe"}

\* contents of a file or of code[]
Absent    == <<"absent">>
Truncated == <<"truncated">>
NoCode    == <<"no code">>
CodeOf(source, opt) == <<"code", source, opt>>

Contents == {Absent, Truncated, NoCode}
              \cup {CodeOf(s, opt) : s \in Sources, opt \in BOOLEAN}

\* the file of the command of that kind has new contents
Write(kind, contents) == disk' = [disk EXCEPT ![options.outname][kind] = contents]

Exit(s) ==
  /\ phase' = "idle"
  /\ status' = s
  /\ UNCHANGED <<process, disk, before, runs>>

Init ==
  /\ phase = "idle"
  /\ argc = 0
  /\ options = [stage |-> EXECUTABLE, optimizations |-> FALSE, debug |-> FALSE,
                outname |-> Default, sourcename |-> "none"]
  /\ head_ast = "none"
  /\ code = NoCode
  /\ status = "0"
  /\ disk = [n \in Names \cup {Default} |-> [k \in Kinds |-> Absent]]
  /\ before = disk
  /\ faults = {}
  /\ runs = 0

-----------------------------------------------------------------------------
(* The command line.                                                       *)

\* a new process, whose arguments are not read yet
Start ==
  /\ phase = "idle"
  /\ runs < MaxRuns
  /\ phase' = "arguments"
  /\ argc' = 0
  /\ options' = [stage |-> EXECUTABLE, optimizations |-> FALSE, debug |-> FALSE,
                 outname |-> Default, sourcename |-> "none"]
  /\ head_ast' = "none" /\ code' = NoCode
  /\ before' = disk /\ faults' = {}
  /\ runs' = runs + 1
  /\ UNCHANGED <<status, disk>>

\* -h alone, or nothing at all
Help ==
  /\ phase = "arguments" /\ argc = 0
  /\ \E s \in {"0", "1"} : Exit(s)
  /\ UNCHANGED faults

\* one turn of the loop takes n arguments and leaves the options opts
Read(n, opts) ==
  /\ phase = "arguments"
  /\ argc + n <= MaxArgs
  /\ argc' = argc + n
  /\ options' = opts
  /\ UNCHANGED <<phase, head_ast, code, status, disk, before, faults, runs>>

OptFlag == Read(1, [options EXCEPT !.optimizations = TRUE])

DebugFlag == Read(1, [options EXCEPT !.debug = TRUE])

OutFlag(name) == Read(2, [options EXCEPT !.outname = name])

\* EXECUTABLE cannot be asked for, it is what is done by default
TargetFlag(stage) ==
  /\ stage # EXECUTABLE
  /\ Read(2, [options EXCEPT !.stage = stage])

\* the first source counts
SourceName(s) ==
  Read(1, IF options.sourcename = "none" THEN [options EXCEPT !.sourcename = s]
          ELSE options)

\* an unknown flag, a flag without its argument, or an unknown stage
BadFlag ==
  /\ phase = "arguments"
  /\ Exit("1")
  /\ UNCHANGED faults

\* mutant of NoSource: the test is left to fopen
NoSourceUntested == FALSE

NoSource == options.sourcename = "none"

EndOfArguments ==
  /\ phase = "arguments"
  /\ argc > 0
  /\ IF NoSource
     THEN Exit("1") /\ UNCHANGED faults
     ELSE \/ /\ phase' = IF options.stage = SCAN THEN "scan" ELSE "parse"
             /\ UNCHANGED <<process, status, disk, before, faults, runs>>
          \/ Exit("1") /\ faults' = faults \cup {"open"}

-----------------------------------------------------------------------------
(* The stages.                                                             *)

\* on to the next stage, with the tree and the code it leaves
Continue(next, tree, instructions) ==
  /\ phase' = next
  /\ head_ast' = tree /\ code' = instructions
  /\ UNCHANGED <<argc, options, status, before, faults, runs>>

\* mutant of Rejected: the report does not exit
RejectedGoesOn ==
  /\ phase \in {"scan", "parse"}
  /\ Continue("codinter", "rejected", code)
  /\ UNCHANGED disk

\* error_lexical, error_parse or an error of the semantic analysis exits, and a
\* folded division by zero is a signal; a scan finds lexical errors only
Rejected ==
  /\ phase \in {"scan", "parse"}
  /\ head_ast' = "rejected"
  /\ phase' = "idle"
  /\ status' \in IF phase = "parse" /\ options.optimizations THEN {"1", "signal"} ELSE {"1"}
  /\ UNCHANGED <<argc, options, code, disk, before, faults, runs>>

Scanned ==
  /\ phase = "scan"
  /\ Continue("codinter", "none", code)
  /\ UNCHANGED disk

Analysed ==
  /\ phase = "parse"
  /\ Continue("codinter", "accepted", code)
  /\ UNCHANGED disk

\* mutant of DumpsCode: the dump is kept whatever the stage
DumpsAlways == options.stage >= CODINTER

\* the intermediate code goes to a file
DumpsCode == options.debug \/ options.stage = CODINTER

\* mutant of Generated: only the stage codinter generates
GeneratedForDump ==
  IF options.stage = CODINTER THEN CodeOf(options.sourcename, options.optimizations)
  ELSE code

\* reset_code, gen_code of every declaration, optimize_memory
Generated ==
  IF options.stage > PARSE THEN CodeOf(options.sourcename, options.optimizations)
  ELSE code

GenerateCode ==
  /\ phase = "codinter"
  /\ \/ /\ IF options.stage > PARSE /\ DumpsCode THEN Write("codinter", Generated)
           ELSE UNCHANGED disk
        /\ Continue("assembly", head_ast, Generated)
     \* print_code_to_file goes on with a file it could not open
     \/ /\ options.stage > PARSE /\ DumpsCode
        /\ faults' = faults \cup {"open"}
        /\ Exit("signal")

\* generate_object_code runs, on whatever is in code[]
Assembles == options.stage > CODINTER \/ options.debug

\* fopen truncates the file
OpenObject ==
  /\ phase = "assembly"
  /\ Assembles
  /\ \/ Write("s", Truncated) /\ Continue("object", head_ast, code)
     \/ Exit("1") /\ faults' = faults \cup {"open"}

WriteObject ==
  /\ phase = "object"
  /\ Write("s", code)
  /\ Continue(IF options.stage > ASSEMBLY THEN "as" ELSE "end", head_ast, code)

NoObject ==
  /\ phase = "assembly"
  /\ ~Assembles
  /\ Continue("end", head_ast, code)
  /\ UNCHANGED disk

\* link.sh runs gcc twice; it does not look at the result of the first one
Step(kind, from, next) ==
  LET contents == disk[options.outname][from] IN
  \/ /\ contents # Absent
     /\ Write(kind, contents)
     /\ Continue(next, head_ast, code)
  \/ \* gcc fails, and may remove its output file or leave an older one
     /\ \/ Write(kind, Absent) \/ UNCHANGED disk
     /\ phase' = next
     /\ faults' = faults \cup {"gcc"}
     /\ UNCHANGED <<process, status, before, runs>>

\* mutant of Assemble: an object file that is there is taken for up to date
AssembleIfMissing ==
  /\ phase = "as"
  /\ IF disk[options.outname]["o"] = Absent THEN Step("o", "s", "ld")
     ELSE Continue("ld", head_ast, code) /\ UNCHANGED disk

Assemble == phase = "as" /\ Step("o", "s", "ld")

Link == phase = "ld" /\ Step("exe", "o", "end")

\* the result of system is not looked at
Return ==
  /\ phase = "end"
  /\ Exit("0")
  /\ UNCHANGED faults

Interrupt ==
  /\ phase # "idle"
  /\ Exit("signal")
  /\ faults' = faults \cup {"interrupt"}

main ==
  \/ Help
  \/ OptFlag \/ DebugFlag
  \/ \E n \in Names : OutFlag(n)
  \/ \E stage \in STAGE : TargetFlag(stage)
  \/ \E s \in Sources : SourceName(s)
  \/ BadFlag
  \/ EndOfArguments
  \/ Rejected \/ Scanned \/ Analysed
  \/ GenerateCode
  \/ OpenObject \/ WriteObject \/ NoObject
  \/ Assemble \/ Link \/ Return

Next == Start \/ main \/ Interrupt

Spec == Init /\ [][Next]_vars

-----------------------------------------------------------------------------
(* Properties, of what commands leave to the ones that come after them.    *)

\* Every variable has its type; the stages run only with a source.
TypeOK ==
  /\ phase \in {"idle", "arguments", "scan", "parse", "codinter", "assembly",
                "object", "as", "ld", "end"}
  /\ argc \in 0 .. MaxArgs
  /\ options \in [stage : STAGE, optimizations : BOOLEAN, debug : BOOLEAN,
                  outname : Names \cup {Default}, sourcename : Sources \cup {"none"}]
  /\ phase \notin {"idle", "arguments"} => options.sourcename \in Sources
  /\ head_ast \in {"none", "accepted", "rejected"}
  /\ code \in Contents
  /\ status \in {"0", "1", "signal"}
  /\ {disk, before} \subseteq [Names \cup {Default} -> [Kinds -> Contents]]
  /\ faults \subseteq {"open", "gcc", "interrupt"}
  /\ runs \in 0 .. MaxRuns

\* the last command compiled a source, and said it had
Succeeded == phase = "idle" /\ status = "0" /\ options.sourcename # "none"

ThisCode == CodeOf(options.sourcename, options.optimizations)

\* A source that is rejected changes no file, so that what an earlier command left
\* under the same name is still what it was.
RejectedLeavesFiles == head_ast = "rejected" => disk = before

\* When a command ends with status 0, the files it was asked for are the ones of its
\* source and of its flags, whatever the commands before it did with the name,
\* those that were interrupted or could not write included.
FilesOfThisSource ==
  Succeeded =>
    LET files == disk[options.outname] IN
    /\ options.stage = CODINTER \/ (options.debug /\ options.stage > CODINTER)
         => files["codinter"] = ThisCode
    /\ options.stage > CODINTER => files["s"] = ThisCode

\* So is the executable, if gcc did its part: the command does not notice when gcc
\* does not, and an executable of an earlier command may be there instead.
ExecutableOfThisSource ==
  Succeeded /\ options.stage = EXECUTABLE /\ "gcc" \notin faults
    => disk[options.outname]["exe"] = ThisCode

\* the files of a stage
Products(stage) ==
  CASE stage \in {SCAN, PARSE} -> {}
    [] stage = CODINTER -> {"codinter"}
    [] stage = ASSEMBLY -> {"s"}
    [] stage = EXECUTABLE -> {"s", "o", "exe"}

\* Without -debug a command touches the files of its stage only, and never those of
\* another name, however it ends.
OnlyProductsChange ==
  \A n \in DOMAIN disk, k \in Kinds :
    disk[n][k] # before[n][k] =>
      n = options.outname /\ (options.debug \/ k \in Products(options.stage))


=============================================================================
