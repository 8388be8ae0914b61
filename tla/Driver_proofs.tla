---------------------------- MODULE Driver_proofs ----------------------------
(***************************************************************************)
(* Theorems about Driver: for every set of sources and names, any number   *)
(* of arguments and any number of commands one after another, the files    *)
(* that are left behind are the ones the last command was asked for.       *)
(***************************************************************************)
EXTENDS Driver, TLAPS

\* where nothing has been written yet, and where all code is in code[]
Early == {"arguments", "scan", "parse", "codinter"}
Late  == {"assembly", "object", "as", "ld", "end"}

\* What the place in main says of the options, the tree and the code.
Place ==
  /\ phase = "arguments" /\ argc = 0 => options.sourcename = "none"
  /\ head_ast = "rejected" => phase = "idle"
  /\ phase \in Early \/ head_ast = "rejected" => disk = before
  /\ phase \in Early => code = NoCode
  /\ phase = "object" => Assembles
  /\ phase \in {"as", "ld"} => options.stage = EXECUTABLE
  /\ phase \in Late =>
       code = IF options.stage > PARSE THEN ThisCode ELSE NoCode

File(kind) == disk[options.outname][kind]

\* What has been written when main is at that place, or has returned 0.
Written ==
  /\ phase \in Late \/ Succeeded =>
       (options.stage > PARSE /\ DumpsCode => File("codinter") = ThisCode)
  /\ phase \in {"as", "ld", "end"} \/ Succeeded =>
       (options.stage > CODINTER => File("s") = ThisCode)
  /\ phase = "ld" /\ "gcc" \notin faults => File("o") = ThisCode
  /\ phase = "end" \/ Succeeded =>
       (options.stage = EXECUTABLE /\ "gcc" \notin faults => File("exe") = ThisCode)

IInv == TypeOK /\ Place /\ Written /\ OnlyProductsChange

-----------------------------------------------------------------------------

\* A file that is written has its new contents, and all others are what they were.
LEMMA WriteKeeps ==
  ASSUME TypeOK, NEW kind \in Kinds, NEW contents \in Contents, Write(kind, contents)
  PROVE  /\ disk' \in [Names \cup {Default} -> [Kinds -> Contents]]
         /\ disk'[options.outname][kind] = contents
         /\ \A n \in Names \cup {Default}, k \in Kinds :
              n # options.outname \/ k # kind => disk'[n][k] = disk[n][k]
<1>1. /\ disk \in [Names \cup {Default} -> [Kinds -> Contents]]
      /\ options.outname \in Names \cup {Default}
  BY DEF TypeOK
<1>2. disk' = [disk EXCEPT ![options.outname] =
                 [disk[options.outname] EXCEPT ![kind] = contents]]
  BY <1>1 DEF Write
<1>3. [disk[options.outname] EXCEPT ![kind] = contents] \in [Kinds -> Contents]
  BY <1>1
<1> QED
  BY <1>1, <1>2, <1>3

\* The first command starts with no files.
LEMMA InitKeeps == Init => IInv
<1> SUFFICES ASSUME Init PROVE IInv
  OBVIOUS
<1>1. [stage |-> EXECUTABLE, optimizations |-> FALSE, debug |-> FALSE,
       outname |-> Default, sourcename |-> "none"]
        \in [stage : STAGE, optimizations : BOOLEAN, debug : BOOLEAN,
             outname : Names \cup {Default}, sourcename : Sources \cup {"none"}]
  BY DEF STAGE, SCAN, EXECUTABLE
<1>2. disk \in [Names \cup {Default} -> [Kinds -> Contents]]
  BY DEF Init, Contents
<1>3. TypeOK
  BY <1>1, <1>2, DriverAssumption DEF Init, TypeOK, Contents
<1>4. Place /\ Written
  BY DEF Init, Place, Written, Early, Late, Succeeded
<1>5. OnlyProductsChange
  BY DEF Init, OnlyProductsChange
<1> QED
  BY <1>3, <1>4, <1>5 DEF IInv

\* A new process starts from the files that are there.
LEMMA StartKeeps == IInv /\ Start => IInv'
<1> SUFFICES ASSUME IInv, Start PROVE IInv'
  OBVIOUS
<1>1. [stage |-> EXECUTABLE, optimizations |-> FALSE, debug |-> FALSE,
       outname |-> Default, sourcename |-> "none"]
        \in [stage : STAGE, optimizations : BOOLEAN, debug : BOOLEAN,
             outname : Names \cup {Default}, sourcename : Sources \cup {"none"}]
  BY DEF STAGE, SCAN, EXECUTABLE
<1>2. TypeOK'
  BY <1>1, DriverAssumption DEF IInv, Start, TypeOK, Contents
<1>3. Place' /\ Written'
  BY DEF Start, Place, Written, Early, Late, Succeeded
<1>4. OnlyProductsChange'
  BY DEF Start, OnlyProductsChange
<1> QED
  BY <1>2, <1>3, <1>4 DEF IInv

\* A command that ends without having succeeded leaves what it has written.
LEMMA ExitKeeps ==
  ASSUME IInv, NEW s \in {"0", "1", "signal"}, Exit(s), phase # "idle",
         faults' = faults \/ faults' = faults \cup {"open"}
           \/ faults' = faults \cup {"interrupt"},
         s = "0" => phase = "end" \/ options.sourcename = "none"
  PROVE  IInv'
<1>1. TypeOK'
  BY DEF IInv, Exit, TypeOK, process
<1>2. Place'
  BY DEF IInv, Exit, Place, process, Early, Late, ThisCode, Assembles
<1>3. "gcc" \notin faults' => "gcc" \notin faults
  OBVIOUS
<1>4. Written'
  BY <1>3 DEF IInv, Exit, Written, process, Late, ThisCode, DumpsCode, File, Succeeded
<1>5. OnlyProductsChange'
  BY DEF IInv, Exit, OnlyProductsChange, process
<1> QED
  BY <1>1, <1>2, <1>4, <1>5 DEF IInv

-----------------------------------------------------------------------------
(* The command line.                                                       *)

\* Help ends before a source is read.
LEMMA HelpKeeps == IInv /\ Help => IInv'
<1> SUFFICES ASSUME IInv, Help PROVE IInv'
  OBVIOUS
<1>1. PICK s \in {"0", "1"} : Exit(s)
  BY DEF Help
<1>2. options.sourcename = "none"
  BY DEF IInv, Place, Help
<1> QED
  BY <1>1, <1>2, ExitKeeps DEF Help

\* An argument changes the options, before anything is done with them.
LEMMA ReadKeeps ==
  ASSUME IInv, NEW n \in {1, 2},
         NEW opts \in [stage : STAGE, optimizations : BOOLEAN, debug : BOOLEAN,
                       outname : Names \cup {Default},
                       sourcename : Sources \cup {"none"}],
         Read(n, opts)
  PROVE  IInv'
<1>1. argc' \in 1 .. MaxArgs
  BY DriverAssumption DEF IInv, TypeOK, Read
<1>2. TypeOK'
  BY <1>1 DEF IInv, TypeOK, Read
<1>3. Place'
  BY <1>1 DEF IInv, Place, Read, Early, Late
<1>4. Written'
  BY DEF IInv, Written, Read, Late, Succeeded
<1>5. OnlyProductsChange'
  BY <1>3 DEF Read, OnlyProductsChange, Place, Early
<1> QED
  BY <1>2, <1>3, <1>4, <1>5 DEF IInv

\* Every option is read as an argument is.
LEMMA OptionsKeep ==
  ASSUME IInv,
         \/ OptFlag \/ DebugFlag
         \/ \E n \in Names : OutFlag(n)
         \/ \E stage \in STAGE : TargetFlag(stage)
         \/ \E s \in Sources : SourceName(s)
  PROVE  IInv'
<1> DEFINE Options == [stage : STAGE, optimizations : BOOLEAN, debug : BOOLEAN,
                       outname : Names \cup {Default},
                       sourcename : Sources \cup {"none"}]
<1>1. options \in Options
  BY DEF IInv, TypeOK
<1>2. \E n \in {1, 2}, opts \in Options : Read(n, opts)
  <2>1. CASE OptFlag
    <3>1. [options EXCEPT !.optimizations = TRUE] \in Options
      BY <1>1
    <3> QED
      BY <2>1, <3>1 DEF OptFlag
  <2>2. CASE DebugFlag
    <3>1. [options EXCEPT !.debug = TRUE] \in Options
      BY <1>1
    <3> QED
      BY <2>2, <3>1 DEF DebugFlag
  <2>3. CASE \E n \in Names : OutFlag(n)
    <3>1. PICK n \in Names : OutFlag(n)
      BY <2>3
    <3>2. [options EXCEPT !.outname = n] \in Options
      BY <1>1
    <3> QED
      BY <3>1, <3>2 DEF OutFlag
  <2>4. CASE \E stage \in STAGE : TargetFlag(stage)
    <3>1. PICK stage \in STAGE : TargetFlag(stage)
      BY <2>4
    <3>2. [options EXCEPT !.stage = stage] \in Options
      BY <1>1
    <3> QED
      BY <3>1, <3>2 DEF TargetFlag
  <2>5. CASE \E s \in Sources : SourceName(s)
    <3>1. PICK s \in Sources : SourceName(s)
      BY <2>5
    <3>2. [options EXCEPT !.sourcename = s] \in Options
      BY <1>1
    <3> QED
      BY <1>1, <3>1, <3>2 DEF SourceName
  <2> QED
    BY <2>1, <2>2, <2>3, <2>4, <2>5
<1>3. PICK n \in {1, 2}, opts \in Options : Read(n, opts)
  BY <1>2
<1> QED
  BY <1>3, ReadKeeps

\* A wrong flag ends the command with status 1.
LEMMA BadFlagKeeps == IInv /\ BadFlag => IInv'
  BY ExitKeeps DEF BadFlag

\* The stages start with a source.
LEMMA EndOfArgumentsKeeps == IInv /\ EndOfArguments => IInv'
<1> SUFFICES ASSUME IInv, EndOfArguments PROVE IInv'
  OBVIOUS
<1>1. CASE Exit("1")
  BY <1>1, ExitKeeps DEF EndOfArguments
<1>2. CASE /\ phase' \in {"scan", "parse"}
           /\ UNCHANGED <<process, status, disk, before, faults, runs>>
           /\ ~NoSource
  <2>1. TypeOK'
    BY <1>2 DEF IInv, TypeOK, process, NoSource
  <2>2. Place'
    BY <1>2 DEF IInv, Place, process, Early, Late, EndOfArguments
  <2>3. Written'
    BY <1>2 DEF Written, Late, Succeeded
  <2>4. OnlyProductsChange'
    BY <1>2 DEF IInv, OnlyProductsChange, process
  <2> QED
    BY <2>1, <2>2, <2>3, <2>4 DEF IInv
<1> QED
  BY <1>1, <1>2 DEF EndOfArguments

-----------------------------------------------------------------------------
(* The stages.                                                             *)

\* A rejected source ends the command before anything is written.
LEMMA RejectedKeeps == IInv /\ Rejected => IInv'
<1> SUFFICES ASSUME IInv, Rejected PROVE IInv'
  OBVIOUS
<1>1. TypeOK'
  BY DEF IInv, Rejected, TypeOK
<1>2. Place'
  BY DEF IInv, Rejected, Place, Early, Late
<1>3. Written'
  BY DEF Rejected, Written, Late, Succeeded
<1>4. OnlyProductsChange'
  BY DEF IInv, Rejected, OnlyProductsChange
<1> QED
  BY <1>1, <1>2, <1>3, <1>4 DEF IInv

\* A stage that goes on keeps the types.
LEMMA ContinueKeepsTypes ==
  ASSUME TypeOK, phase \notin {"idle", "arguments"},
         NEW next \in {"codinter", "assembly", "object", "as", "ld", "end"},
         NEW tree \in {"none", "accepted"}, NEW instructions \in Contents,
         Continue(next, tree, instructions),
         disk' \in [Names \cup {Default} -> [Kinds -> Contents]]
  PROVE  TypeOK'
  BY DEF TypeOK, Continue

\* The first stages write nothing.
LEMMA AnalysisKeeps == IInv /\ (Scanned \/ Analysed) => IInv'
<1> SUFFICES ASSUME IInv, Scanned \/ Analysed PROVE IInv'
  OBVIOUS
<1>1. PICK tree \in {"none", "accepted"}, instructions \in Contents :
        instructions = code /\ Continue("codinter", tree, instructions) /\ UNCHANGED disk
  BY DEF Scanned, Analysed, IInv, TypeOK
<1>2. TypeOK'
  BY <1>1, ContinueKeepsTypes DEF IInv, TypeOK, Scanned, Analysed
<1>3. Place'
  BY <1>1 DEF IInv, Place, Continue, Early, Late, Scanned, Analysed
<1>4. Written'
  BY <1>1 DEF Written, Continue, Late, Succeeded
<1>5. OnlyProductsChange'
  BY <1>1 DEF IInv, OnlyProductsChange, Continue
<1> QED
  BY <1>2, <1>3, <1>4, <1>5 DEF IInv

\* Writing a product of the stage touches nothing else.
LEMMA ProductsKeep ==
  ASSUME TypeOK, OnlyProductsChange, NEW kind \in Kinds, NEW contents \in Contents,
         Write(kind, contents), UNCHANGED <<options, before>>,
         options.debug \/ kind \in Products(options.stage)
  PROVE  OnlyProductsChange'
<1> SUFFICES ASSUME NEW n \in DOMAIN disk', NEW k \in Kinds,
                    disk'[n][k] # before[n][k]
             PROVE  n = options.outname /\ (options.debug \/ k \in Products(options.stage))
  BY DEF OnlyProductsChange
<1>1. n \in Names \cup {Default} /\ n \in DOMAIN disk
  BY WriteKeeps DEF TypeOK
<1>2. CASE n = options.outname /\ k = kind
  BY <1>2
<1>3. CASE ~(n = options.outname /\ k = kind)
  <2>1. disk'[n][k] = disk[n][k]
    BY <1>1, <1>3, WriteKeeps
  <2> QED
    BY <1>1, <2>1 DEF OnlyProductsChange
<1> QED
  BY <1>2, <1>3

\* What is in code[] is one of the contents of a file.
LEMMA CodeIsContents ==
  ASSUME TypeOK, options.sourcename \in Sources
  PROVE  ThisCode \in Contents /\ Generated \in Contents /\ code \in Contents
<1>1. options.optimizations \in BOOLEAN /\ code \in Contents
  BY DEF TypeOK
<1> QED
  BY <1>1 DEF ThisCode, Generated, Contents

\* After this stage code[] is what the source asks for, and so is its dump.
LEMMA GenerateCodeKeeps == IInv /\ GenerateCode => IInv'
<1> SUFFICES ASSUME IInv, GenerateCode PROVE IInv'
  OBVIOUS
<1>0. /\ phase = "codinter" /\ options.sourcename \in Sources
      /\ head_ast \in {"none", "accepted"} /\ options.stage \in 0 .. 4
  BY DEF GenerateCode, IInv, TypeOK, Place, STAGE, SCAN, EXECUTABLE
<1>1. CASE Exit("signal") /\ faults' = faults \cup {"open"}
  BY <1>0, <1>1, ExitKeeps
<1>2. CASE /\ IF options.stage > PARSE /\ DumpsCode THEN Write("codinter", Generated)
              ELSE UNCHANGED disk
           /\ Continue("assembly", head_ast, Generated)
  <2>1. PICK contents \in Contents : contents = Generated
    BY <1>0, CodeIsContents DEF IInv
  <2>2. PICK tree \in {"none", "accepted"} : tree = head_ast
    BY <1>0
  <2>3. Continue("assembly", tree, contents)
    BY <1>2, <2>1, <2>2
  <2>4. /\ phase' = "assembly" /\ code' = contents
        /\ UNCHANGED <<argc, options, status, before, faults, runs, head_ast>>
    BY <2>2, <2>3 DEF Continue
  <2>5. code' = (IF options.stage > PARSE THEN ThisCode ELSE NoCode)
    <3>1. CASE options.stage > PARSE
      BY <2>1, <2>4, <3>1 DEF Generated, ThisCode
    <3>2. CASE ~(options.stage > PARSE)
      BY <2>1, <2>4, <3>2, <1>0 DEF Generated, IInv, Place, Early
    <3> QED
      BY <3>1, <3>2
  <2>6. Place'
    BY <1>0, <2>4, <2>5 DEF Place, Early, Late, ThisCode
  <2>7. CASE options.stage > PARSE /\ DumpsCode
    <3>1. Write("codinter", contents) /\ "codinter" \in Kinds
      BY <1>2, <2>1, <2>7 DEF Kinds
    <3>2. /\ disk' \in [Names \cup {Default} -> [Kinds -> Contents]]
          /\ disk'[options.outname]["codinter"] = ThisCode
      BY <2>1, <2>7, <3>1, WriteKeeps DEF IInv, Generated, ThisCode
    <3>3. TypeOK'
      BY <1>0, <2>3, <3>2, ContinueKeepsTypes DEF IInv
    <3>4. Written'
      BY <2>4, <3>2 DEF Written, Late, Succeeded, File, ThisCode
    <3>5. options.debug \/ "codinter" \in Products(options.stage)
      BY <2>7 DEF DumpsCode, Products, SCAN, PARSE, CODINTER, ASSEMBLY, EXECUTABLE
    <3>6. OnlyProductsChange'
      BY <2>4, <3>1, <3>5, ProductsKeep DEF IInv
    <3> QED
      BY <2>6, <3>3, <3>4, <3>6 DEF IInv
  <2>8. CASE ~(options.stage > PARSE /\ DumpsCode)
    <3>1. UNCHANGED disk
      BY <1>2, <2>8
    <3>2. TypeOK'
      BY <1>0, <2>3, <3>1, ContinueKeepsTypes DEF IInv, TypeOK
    <3>3. Written'
      BY <2>4, <2>8, <3>1 DEF Written, Late, Succeeded, DumpsCode
    <3>4. OnlyProductsChange'
      BY <2>4, <3>1 DEF IInv, OnlyProductsChange
    <3> QED
      BY <2>6, <3>2, <3>3, <3>4 DEF IInv
  <2> QED
    BY <2>7, <2>8
<1> QED
  BY <1>1, <1>2 DEF GenerateCode

\* A step of the later stages writes a file of a kind other than the dump.
LEMMA LateWriteKeeps ==
  ASSUME IInv, phase \in {"assembly", "object", "as", "ld"},
         NEW kind \in {"s", "o", "exe"}, NEW contents \in Contents,
         Write(kind, contents),
         NEW next \in {"object", "as", "ld", "end"},
         phase' = next, faults' \in SUBSET {"open", "gcc", "interrupt"},
         UNCHANGED <<argc, options, head_ast, code, status, before, runs>>,
         options.debug \/ kind \in Products(options.stage),
         next = "object" => Assembles,
         next \in {"as", "ld"} => options.stage = EXECUTABLE
  PROVE  /\ TypeOK' /\ Place' /\ OnlyProductsChange'
         /\ options.stage > PARSE /\ DumpsCode => File("codinter")' = ThisCode'
         /\ File(kind)' = contents
         /\ \A k \in Kinds \ {kind} : File(k)' = File(k)
         /\ ThisCode' = ThisCode /\ phase' # "idle"
<1>1. kind \in Kinds /\ options.outname \in Names \cup {Default}
  BY DEF Kinds, IInv, TypeOK
<1>2. /\ disk' \in [Names \cup {Default} -> [Kinds -> Contents]]
      /\ disk'[options.outname][kind] = contents
      /\ \A n \in Names \cup {Default}, k \in Kinds :
           n # options.outname \/ k # kind => disk'[n][k] = disk[n][k]
  BY <1>1, WriteKeeps DEF IInv
<1>3. TypeOK'
  BY <1>2 DEF IInv, TypeOK
<1>4. Place'
  BY DEF IInv, Place, Early, Late, ThisCode, Assembles
<1>5. OnlyProductsChange'
  BY <1>1, ProductsKeep DEF IInv
<1>6. File(kind)' = contents /\ \A k \in Kinds \ {kind} : File(k)' = File(k)
  BY <1>1, <1>2 DEF File
<1>7. ThisCode' = ThisCode
  BY DEF ThisCode
<1>8. options.stage > PARSE /\ DumpsCode => File("codinter")' = ThisCode'
  BY <1>6, <1>7 DEF IInv, Written, Late, Kinds
<1> QED
  BY <1>3, <1>4, <1>5, <1>6, <1>7, <1>8

\* The object code is truncated, or the command fails.
LEMMA OpenObjectKeeps == IInv /\ OpenObject => IInv'
<1> SUFFICES ASSUME IInv, OpenObject PROVE IInv'
  OBVIOUS
<1>0. options.stage \in 0 .. 4
  BY DEF IInv, TypeOK, STAGE, SCAN, EXECUTABLE
<1>1. CASE Exit("1") /\ faults' = faults \cup {"open"}
  BY <1>1, ExitKeeps DEF OpenObject
<1>2. CASE Write("s", Truncated) /\ Continue("object", head_ast, code)
  <2>1. /\ phase' = "object"
        /\ UNCHANGED <<argc, options, head_ast, code, status, before, faults, runs>>
    BY <1>2 DEF Continue
  <2>2. Truncated \in Contents
    BY DEF Contents
  <2>3. options.debug \/ "s" \in Products(options.stage)
    BY <1>0 DEF OpenObject, Assembles, Products, SCAN, PARSE, CODINTER, ASSEMBLY, EXECUTABLE
  <2>4. faults' \in SUBSET {"open", "gcc", "interrupt"} /\ Assembles /\ phase = "assembly"
    BY <2>1 DEF IInv, TypeOK, OpenObject
  <2>5. /\ TypeOK' /\ Place' /\ OnlyProductsChange'
        /\ options.stage > PARSE /\ DumpsCode => File("codinter")' = ThisCode'
    BY <1>2, <2>1, <2>2, <2>3, <2>4, LateWriteKeeps
  <2>6. Written'
    BY <2>1, <2>5 DEF Written, Late, Succeeded, DumpsCode
  <2> QED
    BY <2>5, <2>6 DEF IInv
<1> QED
  BY <1>1, <1>2 DEF OpenObject

\* The object code of this source replaces it.
LEMMA WriteObjectKeeps == IInv /\ WriteObject => IInv'
<1> SUFFICES ASSUME IInv, WriteObject PROVE IInv'
  OBVIOUS
<1>0. /\ options.stage \in 0 .. 4 /\ phase = "object" /\ Assembles
      /\ code = IF options.stage > PARSE THEN ThisCode ELSE NoCode
  BY DEF IInv, TypeOK, Place, Late, WriteObject, STAGE, SCAN, EXECUTABLE
<1>1. PICK contents \in Contents : contents = code
  BY DEF IInv, TypeOK
<1>2. PICK next \in {"as", "end"} : next = IF options.stage > ASSEMBLY THEN "as" ELSE "end"
  OBVIOUS
<1>3. Write("s", contents) /\ Continue(next, head_ast, code)
  BY <1>1, <1>2 DEF WriteObject
<1>4. /\ phase' = next
      /\ UNCHANGED <<argc, options, head_ast, code, status, before, faults, runs>>
  BY <1>3 DEF Continue
<1>5. options.debug \/ "s" \in Products(options.stage)
  BY <1>0 DEF Assembles, Products, SCAN, PARSE, CODINTER, ASSEMBLY, EXECUTABLE
<1>6. faults' \in SUBSET {"open", "gcc", "interrupt"}
  BY <1>4 DEF IInv, TypeOK
<1>7. next = "as" <=> options.stage = EXECUTABLE
  BY <1>0, <1>2 DEF ASSEMBLY, EXECUTABLE
<1>8. /\ TypeOK' /\ Place' /\ OnlyProductsChange'
      /\ options.stage > PARSE /\ DumpsCode => File("codinter")' = ThisCode'
      /\ File("s")' = contents /\ ThisCode' = ThisCode
  BY <1>0, <1>3, <1>4, <1>5, <1>6, <1>7, LateWriteKeeps
<1>9. options.stage > CODINTER => File("s")' = ThisCode'
  BY <1>0, <1>1, <1>8 DEF CODINTER, PARSE
<1>10. Written'
  BY <1>4, <1>7, <1>8, <1>9 DEF Written, Late, Succeeded, DumpsCode
<1> QED
  BY <1>8, <1>10 DEF IInv

\* No object code was asked for.
LEMMA NoObjectKeeps == IInv /\ NoObject => IInv'
<1> SUFFICES ASSUME IInv, NoObject PROVE IInv'
  OBVIOUS
<1>0. /\ options.stage \in 0 .. 4 /\ options.stage <= CODINTER /\ phase = "assembly"
  BY DEF IInv, TypeOK, NoObject, Assembles, STAGE, SCAN, EXECUTABLE, CODINTER
<1>1. /\ phase' = "end"
      /\ UNCHANGED <<argc, options, head_ast, code, status, before, faults, runs, disk>>
  BY DEF NoObject, Continue
<1>2. TypeOK'
  BY <1>0, <1>1 DEF IInv, TypeOK
<1>3. Place'
  BY <1>0, <1>1 DEF IInv, Place, Early, Late, ThisCode
<1>4. Written'
  BY <1>0, <1>1 DEF IInv, Written, Late, Succeeded, DumpsCode, File, ThisCode, CODINTER, EXECUTABLE
<1>5. OnlyProductsChange'
  BY <1>1 DEF IInv, OnlyProductsChange
<1> QED
  BY <1>2, <1>3, <1>4, <1>5 DEF IInv

\* Each of the steps of link.sh makes one file of another, or gcc fails.
LEMMA StepOfLink ==
  ASSUME IInv, phase \in {"as", "ld"}, NEW kind \in {"o", "exe"},
         NEW from \in {"s", "o"}, from # kind, NEW next \in {"ld", "end"},
         kind = "o" <=> phase = "as", next = "ld" <=> phase = "as",
         Step(kind, from, next)
  PROVE  /\ TypeOK' /\ Place' /\ OnlyProductsChange' /\ phase' = next
         /\ UNCHANGED options
         /\ options.stage > PARSE /\ DumpsCode => File("codinter")' = ThisCode'
         /\ File("s")' = ThisCode'
         /\ "gcc" \notin faults' /\ File(from) = ThisCode => File(kind)' = ThisCode'
<1>0. /\ options.stage = EXECUTABLE /\ File("s") = ThisCode
      /\ options.stage > PARSE /\ DumpsCode => File("codinter") = ThisCode
  BY DEF IInv, Place, Written, Late, EXECUTABLE, CODINTER
<1>1. options.debug \/ kind \in Products(options.stage)
  BY <1>0 DEF Products, SCAN, PARSE, CODINTER, ASSEMBLY, EXECUTABLE
<1>2. from \in Kinds /\ kind \in Kinds /\ File(from) \in Contents /\ Absent \in Contents
  BY DEF Kinds, File, IInv, TypeOK, Contents
<1>3. CASE Write(kind, disk[options.outname][from]) /\ Continue(next, head_ast, code)
  <2>1. PICK contents \in Contents : contents = disk[options.outname][from]
    BY <1>2 DEF File
  <2>2. /\ Write(kind, contents) /\ phase' = next
        /\ UNCHANGED <<argc, options, head_ast, code, status, before, faults, runs>>
    BY <1>3, <2>1 DEF Continue
  <2>3. faults' \in SUBSET {"open", "gcc", "interrupt"}
    BY <2>2 DEF IInv, TypeOK
  <2>4. /\ TypeOK' /\ Place' /\ OnlyProductsChange'
        /\ options.stage > PARSE /\ DumpsCode => File("codinter")' = ThisCode'
        /\ File(kind)' = contents /\ ThisCode' = ThisCode
        /\ \A k \in Kinds \ {kind} : File(k)' = File(k)
    BY <1>0, <1>1, <2>2, <2>3, LateWriteKeeps
  <2>5. File("s")' = ThisCode'
    BY <1>0, <2>4 DEF Kinds
  <2> QED
    BY <2>1, <2>2, <2>4, <2>5 DEF File
<1>4. CASE /\ Write(kind, Absent)
           /\ phase' = next /\ faults' = faults \cup {"gcc"}
           /\ UNCHANGED <<process, status, before, runs>>
  <2>1. UNCHANGED <<argc, options, head_ast, code, status, before, runs>>
    BY <1>4 DEF process
  <2>2. faults' \in SUBSET {"open", "gcc", "interrupt"}
    BY <1>4 DEF IInv, TypeOK
  <2>3. /\ TypeOK' /\ Place' /\ OnlyProductsChange'
        /\ options.stage > PARSE /\ DumpsCode => File("codinter")' = ThisCode'
        /\ ThisCode' = ThisCode
        /\ \A k \in Kinds \ {kind} : File(k)' = File(k)
    BY <1>0, <1>1, <1>2, <1>4, <2>1, <2>2, LateWriteKeeps
  <2>4. File("s")' = ThisCode'
    BY <1>0, <2>3 DEF Kinds
  <2> QED
    BY <1>4, <2>1, <2>3, <2>4
<1>5. CASE /\ UNCHANGED disk
           /\ phase' = next /\ faults' = faults \cup {"gcc"}
           /\ UNCHANGED <<process, status, before, runs>>
  <2>1. TypeOK'
    BY <1>5 DEF IInv, TypeOK, process
  <2>2. Place'
    BY <1>0, <1>5 DEF IInv, Place, Early, Late, ThisCode, process
  <2>3. OnlyProductsChange'
    BY <1>5 DEF IInv, OnlyProductsChange, process
  <2> QED
    BY <1>0, <1>5, <2>1, <2>2, <2>3 DEF File, ThisCode, process
<1> QED
  BY <1>3, <1>4, <1>5 DEF Step

\* After the first step the object file is made of this source, if gcc did not fail.
LEMMA AssembleKeeps == IInv /\ Assemble => IInv'
<1> SUFFICES ASSUME IInv, Assemble PROVE IInv'
  OBVIOUS
<1>1. /\ phase = "as" /\ Step("o", "s", "ld")
      /\ File("s") = ThisCode
  BY DEF IInv, Assemble, Place, Written, EXECUTABLE, CODINTER
<1>2. /\ TypeOK' /\ Place' /\ OnlyProductsChange' /\ phase' = "ld"
      /\ UNCHANGED options
      /\ options.stage > PARSE /\ DumpsCode => File("codinter")' = ThisCode'
      /\ File("s")' = ThisCode'
      /\ "gcc" \notin faults' => File("o")' = ThisCode'
  BY <1>1, StepOfLink
<1>3. Written'
  BY <1>2 DEF Written, Late, Succeeded, DumpsCode
<1> QED
  BY <1>2, <1>3 DEF IInv

\* After the second one so is the executable.
LEMMA LinkKeeps == IInv /\ Link => IInv'
<1> SUFFICES ASSUME IInv, Link PROVE IInv'
  OBVIOUS
<1>1. /\ phase = "ld" /\ Step("exe", "o", "end")
      /\ "gcc" \notin faults => File("o") = ThisCode
  BY DEF IInv, Link, Written
<1>2. "gcc" \notin faults' => "gcc" \notin faults
  BY <1>1 DEF Step, Continue
<1>3. /\ TypeOK' /\ Place' /\ OnlyProductsChange' /\ phase' = "end"
      /\ UNCHANGED options
      /\ options.stage > PARSE /\ DumpsCode => File("codinter")' = ThisCode'
      /\ File("s")' = ThisCode'
      /\ "gcc" \notin faults' => File("exe")' = ThisCode'
  BY <1>1, <1>2, StepOfLink
<1>4. Written'
  BY <1>3 DEF Written, Late, Succeeded, DumpsCode
<1> QED
  BY <1>3, <1>4 DEF IInv

\* The command succeeds, or is interrupted.
LEMMA EndKeeps == IInv /\ (Return \/ Interrupt) => IInv'
  BY ExitKeeps DEF Return, Interrupt

-----------------------------------------------------------------------------

\* The invariant is inductive.
LEMMA NextKeeps == IInv /\ [Next]_vars => IInv'
<1> SUFFICES ASSUME IInv, [Next]_vars PROVE IInv'
  OBVIOUS
<1>1. CASE Start
  BY <1>1, StartKeeps
<1>2. CASE Help \/ BadFlag \/ EndOfArguments
  BY <1>2, HelpKeeps, BadFlagKeeps, EndOfArgumentsKeeps
<1>3. CASE \/ OptFlag \/ DebugFlag
           \/ \E n \in Names : OutFlag(n)
           \/ \E stage \in STAGE : TargetFlag(stage)
           \/ \E s \in Sources : SourceName(s)
  BY <1>3, OptionsKeep
<1>4. CASE Rejected \/ Scanned \/ Analysed \/ GenerateCode
  BY <1>4, RejectedKeeps, AnalysisKeeps, GenerateCodeKeeps
<1>5. CASE OpenObject \/ WriteObject \/ NoObject
  BY <1>5, OpenObjectKeeps, WriteObjectKeeps, NoObjectKeeps
<1>6. CASE Assemble \/ Link \/ Return \/ Interrupt
  BY <1>6, AssembleKeeps, LinkKeeps, EndKeeps
<1>7. CASE UNCHANGED vars
  <2>1. UNCHANGED <<phase, argc, options, head_ast, code, status, disk, before, faults, runs>>
    BY <1>7 DEF vars, process
  <2>2. TypeOK' /\ OnlyProductsChange'
    BY <2>1 DEF IInv, TypeOK, OnlyProductsChange
  <2>3. Place'
    BY <2>1 DEF IInv, Place, ThisCode, Assembles
  <2>4. Written'
    BY <2>1 DEF IInv, Written, ThisCode, DumpsCode, File, Succeeded
  <2> QED
    BY <2>2, <2>3, <2>4 DEF IInv
<1> QED
  BY <1>1, <1>2, <1>3, <1>4, <1>5, <1>6, <1>7 DEF Next, main

\* What the properties say follows from the invariant.
LEMMA InvariantSuffices ==
  IInv => RejectedLeavesFiles /\ FilesOfThisSource /\ ExecutableOfThisSource
<1> SUFFICES ASSUME IInv
             PROVE  RejectedLeavesFiles /\ FilesOfThisSource /\ ExecutableOfThisSource
  OBVIOUS
<1>1. RejectedLeavesFiles
  BY DEF IInv, Place, RejectedLeavesFiles
<1>2. options.stage \in 0 .. 4
  BY DEF IInv, TypeOK, STAGE, SCAN, EXECUTABLE
<1>3. FilesOfThisSource
  BY <1>2 DEF IInv, Written, FilesOfThisSource, File, DumpsCode, PARSE, CODINTER
<1>4. ExecutableOfThisSource
  BY DEF IInv, Written, ExecutableOfThisSource, File
<1> QED
  BY <1>1, <1>3, <1>4

\* The invariant holds always.
LEMMA Invariance == Spec => []IInv
  BY InitKeeps, NextKeeps, PTL DEF Spec

\* Every reachable state is well typed, however many commands have run.
THEOREM DriverTypes == Spec => []TypeOK
<1>1. IInv => TypeOK
  BY DEF IInv
<1> QED
  BY <1>1, Invariance, PTL

\* A source that is rejected changes no file, whatever was there.
THEOREM RejectionIsHarmless == Spec => []RejectedLeavesFiles
  BY Invariance, InvariantSuffices, PTL

\* A command that ends with status 0 leaves the intermediate code and the object code
\* of its own source, after any number of commands that failed or were interrupted.
THEOREM FilesAreFresh == Spec => []FilesOfThisSource
  BY Invariance, InvariantSuffices, PTL

\* So it does with the executable, if gcc did not fail.
THEOREM ExecutableIsFresh == Spec => []ExecutableOfThisSource
  BY Invariance, InvariantSuffices, PTL

\* Without -debug a command touches the files of its stage and its name only.
THEOREM OtherFilesAreSafe == Spec => []OnlyProductsChange
<1>1. IInv => OnlyProductsChange
  BY DEF IInv
<1> QED
  BY <1>1, Invariance, PTL
=============================================================================
