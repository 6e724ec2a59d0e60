# Lingon in TLA+

A model of the Lingon compiler (`src/src/`): the lexer, the parser with its
syntax tree, the table of types, the printer of errors, the language server, and
the program that runs them, with TLC runs on small instances and proofs checked
by TLAPS.

## The system

`main_compile_files` takes one file after the other through `make_src`,
`tok_list_lex`, `parser_parse` and the release of what they made; nothing runs
concurrently there. With `--lsp` the program is a language server instead: one
loop over a socket. Code generation is not written yet.

| Component | State | Operations | What is hard | What makes it correct |
|---|---|---|---|---|
| Source text (`str.c`, `src.c`) | a byte buffer, iterators into it | decode, advance, offsets to lines | truncated, broken and overlong code points | an offset never leaves the text by more than a code point |
| Lexer (`lex.c`) | position, line, column; a token list that is moved when full | six handlers in a fixed order, error returns | lookahead of one; flags and positions carried along; full list | tokens tile the text, are the longest of their kind, have right positions |
| Parser (`parser.c`) | token iterator, the C stack, nodes in hand | one function per construct | end of tokens, errors it goes on from, release of half-built trees, loops that must advance | accepts its grammar, builds the right tree, owns every node |
| Syntax tree (`ast.c`) | nodes and their children | make, link, release | places without a node, children a release function forgets | released once and completely |
| Type table (`type.c`) | a list that is moved when full; global pointers into it | `types_init`, `get_type_*` | every pointer dangles after a move; types compared by address | duplicates only where a move makes them, well founded, live pointers |
| Spans (`span.c`), error printer (`err.c`) | none | line of a span, lines around it | first, last and empty lines; spans over several lines | the lines shown are those of the span |
| Language server (`lsp.c`) | socket, static and heap buffers, server state | connect, read, frame, dispatch, answer | messages split or joined by the network, resizing, closed peers, what an earlier message left in the buffer | each message handled once, whole, as long as the server knows its place in the stream |
| Program (`main.c`, `args.c`, `common.c`, `file.c`, `target.c`) | the arguments, a memory counter, open files | read the command line, compile each file, clean up, leak check | early returns, options given twice, a list that is moved when full | all memory released; the status says what happened |
| Console, LLVM binding, vendored libraries | | | | not modelled, see below |

How they meet: the lexer reads a `Src` through a `StrIter` and fills a
`TokList`; the parser reads that through a `TokIter`, makes `Ast` nodes, asks
the type table for `Type*` and calls the error printer with spans of tokens;
the program releases the tree, the tokens and the source, and counts all memory
through `alloc` and `release`. The language server runs in the place of the
compiler and calls none of it yet.

## Modules

| Module | Models | Correspondence |
|---|---|---|
| `SourceText` | the buffer of a `Str`, `str_iter_peek` and `alfUTF8Decode` | bytes are numbers, and code points are what the decoder computes from them |
| `Lexer` | `tok_list_lex`, its handlers, `tok_list_push` | `pc` is the handler and the loop in it; one step is one iteration of one loop |
| `Tokenizer` | nothing: what lexical analysis promises | `Lexer!ImplementsTokenizer` is the refinement |
| `TypeTable` | `type.c` and its client `parse_type_aux` | a `Type*` is the buffer it points into and an index |
| `Parser` | `parser.c`, the nodes of `ast.c`, the release and leak check of `main.c` | `stack` is the C stack; a label is the code from one look at a token to the next |
| `ParserGrammar` | nothing: the grammar, a phrase being a function from the places of a program to where the phrase may end | `AcceptsGrammar` compares the parser with it |
| `Spans` | `span.c` and the offsets and lines of `str.c` | operators: a search one byte at a time is written as what it finds |
| `ErrPrinter` | the builder of `err.c`, as any client may set it | one action per setter; `Emit` is all of `err_builder_emit`, and a row it prints is a record |
| `Lsp` | `lsp.c`, the client and the network | `lpc` is where `lsp_recv` is; the stream is counted in bytes |
| `MessageServer` | nothing: what a client may rely on | `Lsp!ImplementsServer` is the refinement |
| `Main` | `main.c`, `args.c`, and what `file.c`, `src.c` and `target.c` come to | extends `Lsp`: the compiler and the server are the two ways through `main` |
| `LexerProofs`, `TypeTableProofs`, `ParserProofs`, `ParserGrammarProofs`, `ErrPrinterProofs`, `LspProofs`, `MainProofs` | nothing: the theorems about the module of that name | `ParserGrammarProofs` extends `ParserProofs`, and `MainProofs` extends `LspProofs` |
| `Induction` | nothing: induction over the naturals in a form that can be cited | |
| `MCLexer`, `MCTypeTable`, `MCParser`, `MCErrPrinter`, `MCLsp`, `MCMain` | values of the constants for TLC | |

Six abstractions matter.

- `alfUTF8Decode` takes the width of a code point from its first byte and its bits
  from all of them, and does not look at what the others are: `C0 8A` is a newline
  and `C0 A2` a quote, and a code point at the end of the text takes in bytes that
  are behind it. In `SourceText` a source is therefore its bytes and `Slack` more,
  which are what happens to be in memory there (`file_read_str` allocates one byte
  more than the file has and does not set it; past that it is whatever the allocator has). They
  are part of each of `Sources`, and do not change while a source is lexed.
- In `Parser` tokens are classes (a `prim` is an identifier that names a type,
  `lines` a string with a newline in it), and a token is chosen when the parser
  first looks at it, which gives the same runs as choosing the list first because
  the parser never looks further ahead.
- A `Type*` in `Parser` is just there or NULL; `TypeTable` has the rest.
- In `Lsp` a message is a header and a content of some numbers of bytes, and
  whether it is a request; what `lsp_cont_len` and `lsp_cont_off` find in the buffer
  follows from how much of it there is and from what it held before. When the
  server has lost its place, what is no header gives any size of `StraySizes`.
- A write out of bounds may end the program or may not: both happen in the model,
  and a program that goes on is taken to have lost nothing the server looks at.
- In `Main` a file is what `Lexer` and `Parser` make of it: `clean`, `lets` (types of
  let-statements leak), `unlexable` or `fatal`.

## Runs

| Run | Shows |
|---|---|
| `lexer` | all sources of up to 3 bytes over 19 bytes, at least one of every class, which spell newlines, spaces, quotes, letters and symbols in two bytes as well, before 3 kinds of memory; and all of up to 6 bytes that begin with a quote, over the 7 bytes strings are about, with code points of 3 and 4 bytes, quotes among them: termination, a bound on the steps, the refinement, tiling, positions, the list (it starts with room for 1 token and doubles twice) |
| `types` | up to 5 types over 2 primitives, first buffer of 3: the table is moved, types nest three deep, several files; what is entered again after a move |
| `parser_all` | every program of up to 6 tokens over all 27 classes: termination, a bound on the steps and the depth of the stack |
| `parser_programs` | functions of up to 16 tokens: `fn f() -> s32 { ret 1 - 1 * 1; }` and `fn f() -> s32 { let x: s32 = 1 }` are the longest of interest |
| `parser_errors` | let-statements with array types in programs of up to 13 tokens, up to two errors |
| `types_live` | a counterexample: pointers to the primitives dangle once the table has moved |
| `parser_release` | a counterexample: `release_ast(NULL)` for a function without a return type |
| `parser_params` | a counterexample: the loop over the parameters never ends |
| `errprinter` | all texts of up to 5 bytes, all token spans, all settings of the builder: rows, numbers, dashes, gutter; offsets against lines and columns |
| `errprinter_lines` | a counterexample: lines around the error are shown together with an empty line next to them |
| `main` | all command lines of up to 4 words over 12, and the server with up to 3 messages: the files compiled, the status, the leaks; framing, order, what the server stops for, the one way to lose the place in the stream, liveness |
| `lsp_buffer` | a counterexample: the rest of a large message is written past its buffer |

`PROJECT.json` quotes what the five counterexamples contradict. The models
reproduce more that a reader of the code should know of:

- `^` is refused (`lex_is_special` does not list it, `lex.c:282`), and a byte
  that does not decode ends the lexer without an error (`Tokenizer!Accept`).
- A newline, a space, a quote, a letter or a digit may be spelled with more bytes than
  one, and is taken for what it decodes to (`SourceText!Decode`); a symbol spelled
  so is refused, because its slice is compared (`Lexer!SpecialTake`, `lex.c:441`).
- A type built again after the table has moved may be entered again: an array of or
  a pointer to a derived type is looked for by the address of that type
  (`TypeTable!DuplicatesByMove`, `type.c:269`).
- `"a\\"` does not close: a backslash after a backslash escapes again
  (`Lexer!StrChar`).
- `s8` has the kind of `s16` (`TypeTable!InitKind`, `type.c:136`).
- The end of the tokens anywhere in a function is a NULL dereference, although
  `parse_block` tests for it and has an error for it (`Parser!LookAtNull`).
- A string constant panics (`Parser!BottomStr`, `parser.c:535`), and so does an
  error at a string over several lines (`Parser!Expect`, `span.c:162`).
- `[]]` and `[[s32;]]` are types, with an element type NULL
  (`ParserGrammar!TypeEnds`, `parser.c:767`), and `[ s32]` is none.
- The type of a let-statement is never released (`Parser!ReleasedKids`), and a
  let-statement without a value makes `release_ast` dereference NULL.
- An empty line after the error is shown together with the one after it
  (`span.c:246`), and line 2 before it with the newline of an empty line 1
  (`span.c:213`); `LinesAsNumbered` says that these are the only such rows.
- A builder without a message or a suggestion dereferences NULL
  (`ErrPrinter!EmitNoMsg`, `EmitNoSugg`).
- Two messages read together make `size_left` wrap around, and the server waits
  for what never comes (`Lsp!Coalesced`, `lsp.c:384`); the same for a client
  that closes the connection in the middle of a message (`Lsp!RestRead`).
- `lsp_cont_len` copies as many bytes as were read into 32, all but the shortest
  messages (`Lsp!CopyCrashes`, `lsp.c:242`). A header that was cut panics
  (`Lsp!CutHeader`); one or two bytes of it are framed by the header of an
  earlier message (`Lsp!FrameStale`, `lsp.c:214`). The server goes on then: it
  hands on a part of the message or more than it, reads on in the middle of one and takes
  what is there for a header (`Lsp!FrameStray`), or waits for bytes nobody sends.
- The JSON of each message and the string of each reply are never released
  (`Lsp!MsgLeak`, `lsp.c:254` and `106`), an id that is a string panics (`Lsp!HandleStrId`), and `main_lsp` does not look
  at what `lsp_connect` returns (`Lsp!Connect`, `main.c:70`).
- A file that cannot be lexed is detected only by the leak check, and errors in
  a program leave the status 0 (`Main!EndsAsFilesSay`). An option that is given
  again leaks its first argument; files are never closed (`Main!MakeSrc`); a
  target that does not exist is a NULL dereference (`Main!TargetUnknown`).
- `str_list_remove`, `err_list_remove` and `ast_list_remove` do not shorten the
  list. Nothing calls them, and no module has them.

### Bounds

`MaxSize`, `MaxTypes`, `MaxToks`, `MaxArgs` and `MaxMsgs` bound inputs only. A
lexeme's first, inner and last code point and what follows it are the cases the
handlers distinguish, and six bytes hold an escaped quote with a wide code point
next to it. `MaxErrs`
ends the programs the parser has found more errors in. The parser keeps no state
between functions but the tree, and its loops keep none but the node in hand, so
that programs in which every loop runs twice reach all of it. Small token
sets keep the long programs few; `parser_all` has the whole set.

Five bytes of a text are four lines, or with empty lines next to each other at
either end, around a token; `Base` is 2 instead of ten, so that numbers get a
digit more within it; the padding is capped at `PadCap`, 1 instead of 99, for the
same reason. Four words are an option with its arguments and files
besides it, two files after `InputCap` is reached, or one more file than
`MaxOpen`. In `MCMain.cfg` a message has 5 or 7 bytes, 4 of them header, the
static buffer 5 and the array for the digits 6: a message fits the one, the
other, neither or only together with the next; three of them are one after a
buffer that holds an old header, and one more. `StraySizes` is a size that is
neither of the two, so that a server that has lost its place may read past the end of a
message or not to it. `LspAssumption` keeps what is
sent below `U32`, so that only `size_left` wraps around.

`CHECK_DEADLOCK` is off where the program ends.

### Fairness

`FairSpec` of `Lexer` and of `Parser` is `WF_vars(Next)`: one thread, no calls
that block. The lexer always ends. The parser ends unless it is in the loop over
the parameters, which is what `Terminates` of `Parser` says; the loop itself is
the finding `parser_params`.

`FairSpec` of `Main` is weak fairness of the server (one thread, whose calls
return: the socket is polled with a timeout, and a read is only made of what is
there or of a peer that is gone) and of `Deliver` (TCP delivers while the
connection lasts). Nothing makes the client send or close, and nothing makes the
compiler go on. `EveryMessageHandled` needs both: each message is handled unless
the connection ended, the server stopped, messages were read together, or bytes
were framed by a size that is not their own. In both of the last cases the program
does not stop, it waits or handles what is no message, and the message may never be
handled.

## Proofs

Every invariant, the three action properties and both refinements that the passing
runs check are also proved, for all values of the constants that the named
assumptions allow. The three liveness properties are not, see below. The assumptions say that sizes and bounds are numbers; the others are: a source has at most half of what a `u32` counts
(`LexerAssumption`; above that the doubled capacity of the token list wraps
around); the table of types starts with room for the primitives; the numbers in
a gutter have a base of 2 or more; a header is longer than the bytes that end it
and fits the static buffer, and no more is sent than a `u32` counts
(`LspAssumption`).

An invariant of a run is seldom inductive. For each module there is one that is,
`IInv` (`Inv` in `TypeTableProofs`, `MainInv` in `MainProofs`): a lemma for the
initial states, one for each action or group of actions alike, and the theorems
are its consequences.

### Lexer

`TokensTile` and `TokListFits`: while a lexeme is being scanned the gap between
the last token and the place where it began holds only newlines (`Tiling`), the
lexeme begun is never empty where a token is made of it without a check
(`LexemeBegun`), and the list never has more tokens than the offset has bytes
(`Bounded`). Almost every action is one of `Skip`, `Begin`, `Scan` and `End`, so
that there are lemmas for these four.

What `TokensTile` says lies between tokens is a set of places, each of a code point
that decodes to a newline and each where the one before ends (`NewlinesAt`); two
such stretches can be joined (`NewlinesJoin`).

`PositionsAgree`: `AllAgree` counts the newlines before an offset, and the first bytes
of code points in its line, as cardinalities of sets (`Newlines`, `Firsts`), to which
a step adds one member.

`ImplementsTokenizer`: `CutInv` adds to `IInv` that the bytes taken since the
lexeme began are a `Path` of code points of the right kind (`Scanned`; in a string
a quote has a backslash before it, `StringOf`), and what the code point at which
an iteration began has already been offered to (`Offered`), because a handler of
`tok_list_lex` runs only if those before it took nothing. Every step is then one
of `Tokenizer` or a stutter.

`AlwaysProgress`: `StepsLeft` counts 12 for each byte that the iterations of the
outer loop have not reached, 1 for each byte the handlers have not, and the
handlers to come in this iteration (`Rank`). Every step lowers it (`LoopFalls`,
`HandlerFalls`). At `check` the next iteration begins further on, or there is none.

### Type table

`TypeOK`, `NoDuplicates`, `DuplicatesByMove`, `WellFounded` and `LiveWhileSmall`:
`Inv` relates the buffer counter to the capacity (the table has not moved as long as
the capacity is the first one) and bounds the index and the buffer of each
reference. The type in hand when an array or a pointer is made was found or entered
just now, so that it is named in the buffer of the day (`Elements`), and an entry that
the search did not find names it in another, an earlier one.

### Parser

`ParserProofs` has `TypeOK`, `HeapOwned`, `StatementsAdvance`, `AlwaysProgress`,
`OnlyLetTypesLeak` and `ExprShape`. `Frames` says which function may have called which, at which
label, and what each frame holds then (`Calls`, `Holds`, `Fits`); `Answer` what
kind of node a caller is given; `Tree` what kinds the children of a node have.
`StatementsAdvance` follows from `Begun`: a statement has consumed a token as soon
as its function has left the label it begins at.

`Owners` states that each node in use is the root of one frame (or the value just
returned) or one child of one other node, over functions from places to nodes, so
that the four things an action does to it (a node is made, handed on, given to
another node, or released) are four lemmas that do not mention the parser. From it follows what the release of the tree reaches: `Reached`, although
defined step by step as the code goes through the tree, is the least set that is
closed under what a release function releases (`ReachedLeast`). By `Owned` a node
that is left is the type of a let-statement or the child of one that is left; but
no function is, so no block is, so no statement is, and of the operators left the
last one made would have none above it.

`AlwaysProgress`: `StepsLeft` weighs 12 for each token not consumed, 2 for each
frame, and for the function that goes on what it may do before it consumes a token
or returns (`Effort`, at most 12). A call is paid for by the effort of the caller,
which has more than that of the function called and its frame; a function that
returns must leave enough for what its caller does next, which depends on
whether it returned NULL: an operand that is none ends the expression, one that
is there has consumed a token (`CallFalls`, `ReturnFalls`, with `Calls` of the
inductive invariant). The loop over the parameters, which returns to where it
began, is the one exception, and it is in the property.

For `ExprShape`: an expression lies between two
tokens if there is a set of operators and constants closed under operands, with
all their tokens between the two (`Lies`); so that nothing is said by recursion
over the tree. `ShapeInv` says it of what each frame of `parse_expr_term` and
`parse_expr_factor` has built, and of the operand just returned.

`ParserGrammarProofs` has `AcceptsGrammar`. From each label its function takes a
phrase to its end (`Rest`): after the name of a function, `FnLparenTail`, and so
on. The frames can get from a place to the end of a program if their phrases, one
after another from the top of the stack down, can (`Good`); `Ahead` adds that the
function which goes on can use the value just returned, as `make_ast_let` cannot
use a block. `GInv` says of every program that begins with the tokens seen so far
that it is of the grammar if and only if `Ahead` holds and no error has been
reported. It has to be all those programs, because a token is chosen when the
parser first looks at it: one token more only makes them fewer.

One lemma for each action (`FnNameAgrees`, ...) says that it keeps `Ahead`, or
that `Ahead` did not hold and the action reports it (`Agrees`). Most are instances
of a few: the function takes a token, goes on at another label, calls, calls twice
or returns (`SymbolAgrees`, `GotoAgrees`, `CallsAgrees`, `ReturnsAgrees`). Where the
parser decides by one token, as at the end of the statements of a block or of the
factors of a term, the way it does not take must be closed: `Follows` says which
tokens may stand where the frames below go on, and they are never those the other
way begins with (`AfterType`, `AfterTerm`, `AfterFactor` and the like). That the
repetitions and the types, defined step by step, are the least solutions of their
equations (`StarIs`, `TypeOfIs`) rests on `Induction`. A type in the place of the
element type of an array may also be none (`AuxNull`), the oddity of
`parse_type_aux` that makes `[]]` a type.

From `GInv` follows also what no run can check, since it is about all ways in
which a program may go on: `ErrorsAreFinal`, no error is reported and the parser
does not panic as long as some continuation is of the grammar.

### Error printer

`ErrPrinterProofs` has all its properties. What has been printed is a function of
the text, the span and the builder (`Emitted`), so that the invariant is simple
and the work is in the searches. The offset a search of `span.c` stops at is
described by its rank: how many newlines are below it. The lemmas about ranks
(`Around`, `RankUnique`, `RankExists`) give each line its number, first offset and
end (`IsLineOf`, `LineIs`), what each search finds (`SpanLineIs`,
`SpanLineBeforeIs`, `SpanLineAfterIs`), and that no two offsets have the same line
and column (`PosOnce`). `LaidOut` gives each row its place, and `RowsAre` says what
is there. A smaller number is never wider (`WidthGrows`).

### Language server

`LspProofs` has `LspTypeOK`, `FramedAtBoundary`, `SlipsOnlyFor`, `StopsOnlyFor`, `LeakPerMessage`
and the refinement of `MessageServer`. `Connection`, `Reading` and `InStep` relate the
bytes read (`readTo`) to the end of the messages handled at every place of
`lsp_recv`, until the server slips or the connection ends. `Apart` says that no two
messages begin at the same byte, and `HandledBefore` that what has been
handled was sent before the place the server has read from: these hold after a slip
as well, so that nothing is handled twice or out of order. `GarbledLast` says that,
before a slip, only a message cut off by a reset is handled as something else, and is the last one.
`NoneBefore` puts the first slip after the first message. `BytesCounted` keeps the stream below
`U32`, so that of all subtractions only `size_left` wraps around, and never comes down
to 0 then. `SlipsOnlyFor` is a matter of one step: as long as the server is in step,
three bytes or more begin where the next message does (`AtNext`). `Buffers` says that the heap buffer is there only inside of a message,
which gives the leak.

### Program

`MainRunsLsp`: every step of `Main` is one of `Lsp` or leaves its variables alone,
which carries all of `LspProofs` over to `Main` (`ServerInMain`). `MainProofs` has
`TypeOK`, `InputsInOrder`, `EndsAsFilesSay` and `OnlyTheseLeak`. The words looked
at, `Looked`, are the least set of places that begins at 1 and goes on after each
word and its arguments; `Reading` counts in it what has been given so far, and
`InLoop` says what is held of the files compiled, of the one at hand and of those
to come.

### How the models are written for it

What the code does in a loop over data is, in the modules proved about, a set
and the least, greatest or nth of its members (`NewlinesIn`, `HasBelow`,
`Printed`), the least set closed under something (`Reached`, `Looked`), or a
recursive function (`Power`). A theorem that takes an operator cannot be cited
with the provers used, so `Induction` states induction over the naturals with a
set in the place of the predicate.

### Only model-checked

- `Lexer!Terminates`, `Parser!Terminates` and `Lsp!EveryMessageHandled`: liveness
  under fairness. Of the first two, what the code could get wrong is proved as
  `AlwaysProgress`: a natural number falls with every step, or the parser goes
  round in the loop over the parameters. What is left to TLC is that a step can
  be taken until the end (`ENABLED`), and that a fair process then takes it.
- That the five counterexamples exist.

## Not modelled

The console (output only), the LLVM binding (calls of a library without sources
here; code generation is not written yet), formatting, the dumps of
`--dbg-dump-tok` and `--dbg-dump-ast`, and vendored code but the decoder: `Lsp` has of the socket
library what `lsp.c` relies on, on POSIX. The values of constants, the lengths of
arrays and the spans of nodes, which nothing reads, are abstract. `ErrList` and
the functions that make spans from offsets are not used by the program;
`make_pos_off` and `make_pos_line_col` are not either, but `Spans` has them.

## Plan

1. What `Tokenizer` and `MessageServer` themselves promise (tokens in order and
   without overlap, each message handled at most once), as theorems about them
   that reach the lexer and the server through the refinements.
2. The shape of statements, functions and types in the tree, as `ShapeInv` has it
   for expressions: that the tree is the derivation of the program in its grammar.
