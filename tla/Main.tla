-------------------------------- MODULE Main --------------------------------
(***************************************************************************)
(* The program (main.c): its arguments (args.c), the loop over the files   *)
(* with its early returns, the memory each part holds, which the program   *)
(* counts (common.c) and checks to be none at the end, and, with --lsp,    *)
(* the language server of Lsp in its place.                                *)
(*                                                                         *)
(* A word of the command line is an option, a triple, a kind of server or  *)
(* the name of a file, and a file is what the lexer and the parser make of *)
(* it (Lexer, Parser): "clean" goes through both, perhaps with errors      *)
(* reported, and leaves nothing; "lets" leaves the types of its            *)
(* let-statements; "unlexable" ends the lexer with an error; in "fatal"    *)
(* the parser, or the release of its tree, panics, crashes or hangs.  Any  *)
(* other word names no file.                                               *)
(***************************************************************************)
EXTENDS Lsp

CONSTANTS
    MaxArgs,    \* bound: words of the command line
    InputCap,   \* first capacity of the list of files (4)
    MaxOpen     \* files the C library can have open

ASSUME MainAssumption ==
    /\ MaxArgs \in Nat
    /\ InputCap \in Nat \ {0}
    /\ MaxOpen \in Nat

\* "--flag" is an option that only changes what is printed: --verbose or
\* --dbg-dump-tok.  --dbg-dump-ast is left out.  "--unknown" is one the
\* program does not have.
Dashed == {"--help", "--output", "--target", "--flag", "--lsp", "--unknown"}
File == {"clean", "lets", "unlexable", "fatal"}
Word == Dashed \cup File \cup {"tcp", "triple"}

\* What holds memory.
Owner == {"input", "output", "target", "lsp", "types",
          "source", "name", "tokens", "tree", "lettypes"}

NoMem == [o \in Owner |-> 0]

VARIABLES
    argv,       \* the words after the name of the program
    at,         \* the next word make_args looks at
    args,       \* Args
    mem,        \* blocks allocated, by what holds them
    next,       \* the next file of the list
    opened,     \* files opened; none is closed
    phase,      \* where main is
    exit        \* "none" while it runs, then how it ended

mainVars == <<argv, at, args, mem, next, opened, phase, exit>>
vars == <<mainVars, lspVars>>

None == "none"

NoArgs == [help |-> FALSE, lsp |-> FALSE, output |-> None, target |-> None,
           type |-> None, input |-> <<>>, cap |-> InputCap]

Holds(owners) == [o \in Owner |-> IF o \in owners THEN mem[o] + 1 ELSE mem[o]]

\* release: nothing happens to a pointer that is NULL.
Releases(owners) ==
    [o \in Owner |-> IF o \in owners /\ mem[o] > 0 THEN mem[o] - 1 ELSE mem[o]]

MainInit ==
    /\ argv \in UNION { [1 .. n -> Word] : n \in 0 .. MaxArgs }
    /\ at = 1
    /\ args = NoArgs
    /\ mem = NoMem
    /\ next = 1
    /\ opened = 0
    /\ phase = "start"
    /\ exit = None

Ends(how) == phase' = "ended" /\ exit' = how
-----------------------------------------------------------------------------
(***************************************************************************)
(* Arguments.                                                              *)
(***************************************************************************)
TooFewArgs ==
    /\ phase = "start"
    /\ argv = <<>>
    /\ Ends("0")
    /\ UNCHANGED <<argv, at, args, mem, next, opened>>

MakeArgs ==
    /\ phase = "start"
    /\ argv # <<>>
    /\ mem' = Holds({"input"})
    /\ phase' = "args"
    /\ UNCHANGED <<argv, at, args, next, opened, exit>>

\* The loop looks at a word.  has(n): are there n more after it?
At(word) == phase = "args" /\ at <= Len(argv) /\ argv[at] = word

Has(n) == at + n <= Len(argv)

ArgHelp ==
    /\ At("--help")
    /\ args' = [args EXCEPT !.help = TRUE]
    /\ at' = at + 1
    /\ UNCHANGED <<argv, mem, next, opened, phase, exit>>

ArgFlag ==
    /\ At("--flag")
    /\ at' = at + 1
    /\ UNCHANGED <<argv, args, mem, next, opened, phase, exit>>

\* The word after it is copied, an option too; the copy of an option that
\* was given before is lost.
ArgOutput ==
    /\ At("--output")
    /\ Has(1)
    /\ args' = [args EXCEPT !.output = argv[at + 1]]
    /\ mem' = Holds({"output"})
    /\ at' = at + 2
    /\ UNCHANGED <<argv, next, opened, phase, exit>>

ArgTarget ==
    /\ At("--target")
    /\ Has(1)
    /\ args' = [args EXCEPT !.target = argv[at + 1]]
    /\ mem' = Holds({"target"})
    /\ at' = at + 2
    /\ UNCHANGED <<argv, next, opened, phase, exit>>

ArgMissing ==
    /\ At("--output") \/ At("--target")
    /\ ~Has(1)
    /\ Ends("-1")
    /\ UNCHANGED <<argv, at, args, mem, next, opened>>

\* The type, the host and the port.
ArgLsp ==
    /\ At("--lsp")
    /\ Has(3)
    /\ \A k \in 1 .. 3 : argv[at + k] \notin Dashed
    /\ args' = [args EXCEPT !.lsp = TRUE, !.type = argv[at + 1]]
    /\ mem' = Holds({"lsp"})
    /\ at' = at + 4
    /\ UNCHANGED <<argv, next, opened, phase, exit>>

ArgLspMissing ==
    /\ At("--lsp")
    /\ ~Has(3)
    /\ Ends("-2")
    /\ UNCHANGED <<argv, at, args, mem, next, opened>>

\* The first of the three that begins with a '-' gives the status.
ArgLspDashed ==
    /\ At("--lsp")
    /\ Has(3)
    /\ \E k \in 1 .. 3 :
          /\ argv[at + k] \in Dashed
          /\ \A j \in 1 .. k - 1 : argv[at + j] \notin Dashed
          /\ Ends(<<"-3", "-4", "-5">>[k])
    /\ UNCHANGED <<argv, at, args, mem, next, opened>>

\* Mutated form: the list is not moved with what it holds.
StrListReserveLosing(list, cap) ==
    IF list.cap > cap THEN list ELSE [list EXCEPT !.cap = cap, !.input = <<>>]

\* str_list_reserve.  What the list holds is moved, and the old buffer is
\* released, so that the list always holds one.
StrListReserve(list, cap) ==
    IF list.cap > cap THEN list ELSE [list EXCEPT !.cap = cap]

StrListAppend(str) ==
    LET list == IF Len(args.input) >= args.cap
                THEN StrListReserve(args, 2 * args.cap)
                ELSE args
    IN  [list EXCEPT !.input = Append(@, str)]

\* Whatever is no option is a file, an option that does not exist as well.
ArgInput ==
    /\ phase = "args"
    /\ at <= Len(argv)
    /\ argv[at] \notin Dashed \ {"--unknown"}
    /\ args' = StrListAppend(argv[at])
    /\ at' = at + 1
    /\ UNCHANGED <<argv, mem, next, opened, phase, exit>>

ArgsEnd == phase = "args" /\ at > Len(argv)

Help ==
    /\ ArgsEnd
    /\ args.help
    /\ Ends("0")
    /\ UNCHANGED <<argv, at, args, mem, next, opened>>

\* main_init, and the decision what to do.  The words are not read again.
MainStart ==
    /\ ArgsEnd
    /\ ~args.help
    /\ mem' = Holds({"types"})
    /\ phase' = IF args.lsp THEN "lsp" ELSE "files"
    /\ argv' = IF args.lsp THEN <<>> ELSE argv
    /\ UNCHANGED <<at, args, next, opened, exit>>

Args == \/ TooFewArgs \/ MakeArgs \/ ArgHelp \/ ArgFlag \/ ArgOutput \/ ArgTarget
        \/ ArgMissing \/ ArgLsp \/ ArgLspMissing \/ ArgLspDashed \/ ArgInput
        \/ Help \/ MainStart
-----------------------------------------------------------------------------
(***************************************************************************)
(* main_lsp.                                                               *)
(***************************************************************************)
ArgOwners == {"input", "output", "target", "lsp"}

\* "Only tcp servers are implemented at the moment"
LspBadType ==
    /\ phase = "lsp"
    /\ args.type # "tcp"
    /\ Ends("panic")
    /\ UNCHANGED <<argv, at, args, mem, next, opened, lspVars>>

LspStep ==
    /\ phase = "lsp"
    /\ args.type = "tcp"
    /\ LspNext
    /\ UNCHANGED mainVars

\* lsp_run only returns with an error.  Nothing but the arguments is
\* released, and there is no check.
LspReturns ==
    /\ phase = "lsp"
    /\ lout = "returned"
    /\ mem' = Releases(ArgOwners)
    /\ Ends("-1")
    /\ UNCHANGED <<argv, at, args, next, opened, lspVars>>

LspMode == LspBadType \/ LspStep \/ LspReturns
-----------------------------------------------------------------------------
(***************************************************************************)
(* main_compile_files and main_cleanup.                                    *)
(***************************************************************************)
Input == args.input[next]

InFile(p) == phase = p /\ next <= Len(args.input)

\* There is no triple for the name of the target, and it is dereferenced.
TargetUnknown ==
    /\ InFile("files")
    /\ args.target \notin {None, "triple"}
    /\ Ends("crash")
    /\ UNCHANGED <<argv, at, args, mem, next, opened>>

\* LLVM was built without the target.
TargetInvalid ==
    /\ InFile("files")
    /\ args.target = "triple"
    /\ Ends("-1")
    /\ UNCHANGED <<argv, at, args, mem, next, opened>>

TargetMade == InFile("files") /\ args.target \in {None, "triple"}

SourceFails ==
    /\ TargetMade
    /\ Input \notin File \/ opened = MaxOpen
    /\ Ends("-1")
    /\ UNCHANGED <<argv, at, args, mem, next, opened>>

\* make_src, with file_read_str, which does not close the file.
MakeSrc ==
    /\ TargetMade
    /\ Input \in File
    /\ opened < MaxOpen
    /\ mem' = Holds({"source", "name"})
    /\ opened' = opened + 1
    /\ phase' = "lex"
    /\ UNCHANGED <<argv, at, args, next, exit>>

\* Mutated form: the loop goes on with the next file.
LexFailsGoesOn ==
    /\ InFile("lex")
    /\ Input = "unlexable"
    /\ mem' = Releases({"source", "name"})
    /\ next' = next + 1
    /\ phase' = "files"
    /\ UNCHANGED <<argv, at, args, opened, exit>>

\* tok_list_lex has released the tokens; main does not look at the result.
LexFails ==
    /\ InFile("lex")
    /\ Input = "unlexable"
    /\ phase' = "cleanup"
    /\ UNCHANGED <<argv, at, args, mem, next, opened, exit>>

Lexed ==
    /\ InFile("lex")
    /\ Input # "unlexable"
    /\ mem' = Holds({"tokens"})
    /\ phase' = "parse"
    /\ UNCHANGED <<argv, at, args, next, opened, exit>>

ParseDies ==
    /\ InFile("parse")
    /\ Input = "fatal"
    /\ Ends("fatal")
    /\ UNCHANGED <<argv, at, args, mem, next, opened>>

Parsed ==
    /\ InFile("parse")
    /\ Input # "fatal"
    /\ mem' = Holds({"tree"} \cup (IF Input = "lets" THEN {"lettypes"} ELSE {}))
    /\ phase' = "release"
    /\ UNCHANGED <<argv, at, args, next, opened, exit>>

\* Mutated form: the name of the source is forgotten.
ReleaseFileKeepsName ==
    /\ InFile("release")
    /\ mem' = Releases({"tree", "tokens", "source"})
    /\ next' = next + 1
    /\ phase' = "files"
    /\ UNCHANGED <<argv, at, args, opened, exit>>

ReleaseFile ==
    /\ InFile("release")
    /\ mem' = Releases({"tree", "tokens", "source", "name"})
    /\ next' = next + 1
    /\ phase' = "files"
    /\ UNCHANGED <<argv, at, args, opened, exit>>

FilesEnd ==
    /\ phase = "files"
    /\ next > Len(args.input)
    /\ phase' = "cleanup"
    /\ UNCHANGED <<argv, at, args, mem, next, opened, exit>>

\* release_args, main_cleanup and its LN_CHECK_LEAK.
Cleanup ==
    /\ phase = "cleanup"
    /\ mem' = Releases(ArgOwners \cup {"types"})
    /\ Ends(IF mem' = NoMem THEN "0" ELSE "panic")
    /\ UNCHANGED <<argv, at, args, next, opened>>

CompileFiles == \/ TargetUnknown \/ TargetInvalid \/ SourceFails \/ MakeSrc
                \/ LexFails \/ Lexed \/ ParseDies \/ Parsed \/ ReleaseFile
                \/ FilesEnd \/ Cleanup

Init == MainInit /\ LspInit

Next == \/ (Args \/ CompileFiles) /\ UNCHANGED lspVars
        \/ LspMode

Spec == Init /\ [][Next]_vars

\* The server is one thread whose calls return, and TCP delivers what is
\* sent while the connection lasts.  Nothing makes the client send.
FairSpec == /\ Spec
            /\ WF_vars(phase = "lsp" /\ args.type = "tcp" /\ Server
                         /\ UNCHANGED mainVars)
            /\ WF_vars(phase = "lsp" /\ args.type = "tcp" /\ Deliver
                         /\ UNCHANGED mainVars)
-----------------------------------------------------------------------------
TypeOK ==
    /\ LspTypeOK
    /\ \A i \in 1 .. Len(argv) : argv[i] \in Word
    /\ at \in 1 .. MaxArgs + 1
    /\ \A i \in 1 .. Len(args.input) : args.input[i] \in Word
    /\ Len(args.input) <= args.cap
    /\ mem \in [Owner -> 0 .. MaxArgs]
    /\ next \in 1 .. Len(args.input) + 1
    /\ opened \in 0 .. MaxOpen
    /\ phase \in {"start", "args", "lsp", "files", "lex", "parse", "release",
                  "cleanup", "ended"}
    /\ (phase = "ended") = (exit # None)

\* The places of the command line where a word is looked at, not those taken
\* by an option before it: the fewest that follow one another from the first.
Width(word) == IF word \in {"--output", "--target"} THEN 2
               ELSE IF word = "--lsp" THEN 4 ELSE 1

Follows(places) ==
    /\ argv # <<>> => 1 \in places
    /\ \A i \in places :
          i + Width(argv[i]) <= Len(argv) => i + Width(argv[i]) \in places

Looked ==
    { i \in 1 .. Len(argv) :
        \A places \in SUBSET (1 .. Len(argv)) : Follows(places) => i \in places }

Times(word) == Cardinality({ i \in Looked : argv[i] = word })

\* The files compiled are the words that are neither options nor arguments
\* of options, in the order they were given, however many there are and
\* whatever make_args and str_list_append do with them.
InputsInOrder ==
    phase \in {"files", "lex", "parse", "release", "cleanup"} =>
        LET inputs == { i \in Looked : argv[i] \notin Dashed \ {"--unknown"} }
        IN  /\ Len(args.input) = Cardinality(inputs)
            /\ \A i \in inputs :
                  args.input[Cardinality({ j \in inputs : j <= i })] = argv[i]

\* The program was to compile files and has ended.
Compiled == /\ phase = "ended"
            /\ argv # <<>> /\ at > Len(argv)
            /\ ~args.help /\ ~args.lsp

\* The first file that is not gone through, or one more than there are.
FirstStop ==
    Min({ i \in 1 .. Len(args.input) :
            args.input[i] \notin {"clean", "lets"} \/ i > MaxOpen }
          \cup {Len(args.input) + 1})
Lets == { i \in 1 .. Min({FirstStop - 1, Len(args.input)}) : args.input[i] = "lets" }

NothingLeaks == Lets = {} /\ Times("--output") <= 1 /\ Times("--target") <= 1

\* The status, when a target could be made for each file.
Status ==
    IF FirstStop > Len(args.input) THEN IF NothingLeaks THEN "0" ELSE "panic"
    ELSE IF FirstStop > MaxOpen \/ args.input[FirstStop] \notin File THEN "-1"
    ELSE IF args.input[FirstStop] = "fatal" THEN "fatal" ELSE "panic"

\* How the program ends follows from its files and options alone: status 0
\* means that every file was read, lexed and parsed, though perhaps with
\* errors; main does not look at what main_compile_files returns, and it is
\* the leak check that fails for a file that cannot be lexed.
EndsAsFilesSay ==
    Compiled =>
        IF args.input = <<>> \/ args.target = None THEN exit = Status
        ELSE IF args.target = "triple" THEN exit \in {Status, "-1"}
        ELSE exit = "crash"

\* What the leak check finds, over all files and early returns: the source of
\* the one file that could not be lexed, the types of let-statements, and
\* options that were given again.
OnlyTheseLeak ==
    Compiled /\ exit \in {"0", "panic"} =>
        mem = [NoMem EXCEPT
            !["source"] = IF FirstStop <= Len(args.input) THEN 1 ELSE 0,
            !["name"] = IF FirstStop <= Len(args.input) THEN 1 ELSE 0,
            !["lettypes"] = Cardinality(Lets),
            !["output"] = Max({Times("--output") - 1, 0}),
            !["target"] = Max({Times("--target") - 1, 0})]
=============================================================================
