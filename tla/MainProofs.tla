------------------------------ MODULE MainProofs -----------------------------
(***************************************************************************)
(* Proofs about Main, for command lines and lists of files of any length,  *)
(* and what is proved about the language server carried over to it.        *)
(***************************************************************************)
EXTENDS Main, LspProofs, FiniteSetTheorems

(***************************************************************************)
(* The invariant.                                                          *)
(***************************************************************************)
Args0 == [help : BOOLEAN, lsp : BOOLEAN, output : Word \cup {None},
          target : Word \cup {None}, type : Word \cup {None},
          input : Seq(Word), cap : Nat]

MainTyped ==
    /\ argv \in Seq(Word) /\ Len(argv) <= MaxArgs
    /\ at \in Nat /\ 1 <= at /\ at <= MaxArgs + 1
    /\ args \in Args0
    /\ args.cap > 0 /\ Len(args.input) <= args.cap
    /\ Len(args.input) < at
    /\ mem \in [Owner -> Nat]
    /\ next \in Nat /\ 1 <= next /\ next <= Len(args.input) + 1
    /\ opened \in Nat /\ opened <= MaxOpen
    /\ phase \in {"start", "args", "lsp", "files", "lex", "parse", "release",
                  "cleanup", "ended"}
    /\ phase = "ended" <=> exit # None

\* No more is held than there are words.
MemSmall ==
    /\ mem # NoMem => MaxArgs > 0
    /\ \A o \in {"output", "target", "lsp"} : mem[o] < at
    /\ mem["lettypes"] <= Len(args.input)
    /\ \A o \in Owner \ {"output", "target", "lsp", "lettypes"} : mem[o] <= 1

\* The places looked at before place k.
Before(k) == { i \in Looked : i < k }

Given(word, k) == { i \in Before(k) : argv[i] = word }

Inputs(k) == { i \in Before(k) : argv[i] \notin Dashed \ {"--unknown"} }

\* The words before at are done with, and at is looked at next.
Reading ==
    /\ at <= Len(argv) + 1
    /\ at <= Len(argv) => at \in Looked
    /\ \A i \in Looked : i < at => i + Width(argv[i]) <= at
    /\ mem["output"] = Cardinality(Given("--output", at))
    /\ mem["target"] = Cardinality(Given("--target", at))
    /\ mem["input"] = 1
    /\ ~args.lsp => mem["lsp"] = 0
    /\ Len(args.input) = Cardinality(Inputs(at))
    /\ \A i \in Inputs(at) :
          args.input[Cardinality({ j \in Inputs(at) : j <= i })] = argv[i]

\* What is held while nothing is compiled.
Outside == {"source", "name", "tokens", "tree", "lettypes"}

Started ==
    phase = "start" =>
        at = 1 /\ args = NoArgs /\ mem = NoMem /\ next = 1 /\ opened = 0

ReadingArgs ==
    phase = "args" =>
        /\ argv # <<>> /\ Reading /\ next = 1 /\ opened = 0
        /\ \A o \in Outside \cup {"types"} : mem[o] = 0

Good(i) == args.input[i] \in {"clean", "lets"} /\ i <= MaxOpen

Gone(k) == { i \in 1 .. k : args.input[i] = "lets" }

TargetOK == args.target \in {None, "triple"}

\* The loop over the files has come to the file next.
Compiling ==
    /\ argv # <<>> /\ Reading /\ at > Len(argv) /\ ~args.help /\ ~args.lsp
    /\ mem["types"] = 1
    /\ \A i \in 1 .. next - 1 : Good(i)
    /\ next > 1 => TargetOK

\* What is held of the file next, and what is left of those before.
HeldOfFile(owners, gone) ==
    /\ \A o \in Outside \ {"lettypes"} : mem[o] = IF o \in owners THEN 1 ELSE 0
    /\ mem["lettypes"] = Cardinality(Gone(gone))

InLoop ==
    /\ phase = "files" =>
          /\ Compiling /\ opened = next - 1
          /\ HeldOfFile({}, next - 1)
    /\ phase \in {"lex", "parse", "release"} =>
          /\ Compiling /\ opened = next /\ next <= Len(args.input)
          /\ TargetOK /\ Input \in File
    /\ phase = "lex" => HeldOfFile({"source", "name"}, next - 1)
    /\ phase = "parse" => /\ HeldOfFile({"source", "name", "tokens"}, next - 1)
                          /\ Input # "unlexable"
    /\ phase = "release" =>
          /\ HeldOfFile({"source", "name", "tokens", "tree"}, next)
          /\ Input \in {"clean", "lets"}
    /\ phase = "cleanup" =>
          /\ Compiling
          /\ IF next <= Len(args.input)
             THEN /\ Input = "unlexable" /\ next <= MaxOpen /\ TargetOK
                  /\ HeldOfFile({"source", "name"}, next - 1)
             ELSE HeldOfFile({}, next - 1)

Serving == phase = "lsp" => args.lsp

MainInv == /\ MainTyped /\ MemSmall /\ Started /\ ReadingArgs /\ Serving /\ InLoop
           /\ EndsAsFilesSay /\ OnlyTheseLeak
-----------------------------------------------------------------------------
(***************************************************************************)
(* The places that are looked at.                                          *)
(***************************************************************************)
\* The widths of words are lengths.
LEMMA Widths ==
    \A w : Width(w) \in Nat /\ Width(w) >= 1
BY DEF Width

\* They are places of the command line, and follow one another.
LEMMA LookedFollows ==
    ASSUME MainTyped
    PROVE  /\ Looked \subseteq 1 .. Len(argv) /\ Len(argv) \in Nat
           /\ IsFiniteSet(Looked)
           /\ Follows(Looked)
<1>1. Len(argv) \in Nat /\ (argv # <<>> => 1 \in 1 .. Len(argv))
  BY DEF MainTyped
<1>2. Looked \subseteq 1 .. Len(argv)
  BY DEF Looked
<1>3. IsFiniteSet(Looked)
  <2>1. IsFiniteSet(1 .. Len(argv))
    BY <1>1, FS_Interval
  <2>2. QED
    BY <1>2, <2>1, FS_Subset
<1>4. argv # <<>> => 1 \in Looked
  BY <1>1 DEF Looked, Follows
<1>5. ASSUME NEW i \in Looked, i + Width(argv[i]) <= Len(argv)
      PROVE  i + Width(argv[i]) \in Looked
  <2> DEFINE n == i + Width(argv[i])
  <2>1. n \in 1 .. Len(argv)
    BY <1>1, <1>2, <1>5, Widths
  <2>2. ASSUME NEW places \in SUBSET (1 .. Len(argv)), Follows(places)
        PROVE  n \in places
    <3>1. i \in places
      BY <2>2 DEF Looked
    <3>2. QED
      BY <1>5, <2>2, <3>1 DEF Follows
  <2> HIDE DEF n
  <2>3. n \in Looked
    BY <2>1, <2>2 DEF Looked
  <2>4. QED
    BY <2>3 DEF n
<1>6. QED
  BY <1>1, <1>2, <1>3, <1>4, <1>5 DEF Follows

\* The word at place at takes what follows it: nothing else before the next
\* place is looked at.
LEMMA LooksOn ==
    ASSUME MainTyped, Reading, at <= Len(argv)
    PROVE  LET after == at + Width(argv[at])
           IN  /\ after \in Nat /\ at < after
               /\ after <= Len(argv) => after \in Looked
               /\ \A i \in Looked : i < after => i + Width(argv[i]) <= after
               /\ Before(after) = Before(at) \cup {at}
               /\ at \notin Before(at)
<1> DEFINE after == at + Width(argv[at])
<1>1. /\ Looked \subseteq 1 .. Len(argv) /\ Len(argv) \in Nat
      /\ Follows(Looked)
  BY LookedFollows
<1>2. at \in Nat /\ at \in Looked /\ \A i \in Looked : i \in Nat
  BY <1>1 DEF MainTyped, Reading
<1>3. after \in Nat /\ at < after
  BY <1>2, Widths
<1> DEFINE places == { i \in Looked : i <= at } \cup { i \in 1 .. Len(argv) : i >= after }
<1>4. places \in SUBSET (1 .. Len(argv))
  BY <1>1
<1>5. Follows(places)
  <2>1. argv # <<>> => 1 \in places
    BY <1>1, <1>2 DEF Follows
  <2>2. ASSUME NEW i \in places, i + Width(argv[i]) <= Len(argv)
        PROVE  i + Width(argv[i]) \in places
    <3>1. i \in Nat /\ Width(argv[i]) \in Nat /\ Width(argv[i]) >= 1
      BY <1>1, Widths
    <3>2. i + Width(argv[i]) \in 1 .. Len(argv)
      BY <1>1, <2>2, <3>1
    <3>3. CASE i \in Looked /\ i < at
      <4>1. i + Width(argv[i]) <= at
        BY <3>3 DEF Reading
      <4>2. i + Width(argv[i]) \in Looked
        BY <1>1, <2>2, <3>3 DEF Follows
      <4>3. QED
        BY <4>1, <4>2
    <3>4. CASE i = at
      <4>1. i + Width(argv[i]) = after
        BY <3>4
      <4>2. QED
        BY <1>3, <3>2, <4>1
    <3>5. CASE i >= after
      <4>1. i + Width(argv[i]) >= after
        BY <1>3, <3>1, <3>5
      <4>2. QED
        BY <3>2, <4>1
    <3>6. QED
      BY <1>2, <3>1, <3>3, <3>4, <3>5
  <2> HIDE DEF places
  <2>3. QED
    BY <2>1, <2>2 DEF Follows
<1>6. \A i \in Looked : i <= at \/ i >= after
  <2>1. Looked \subseteq places
    <3> HIDE DEF places
    <3>1. QED
      BY <1>4, <1>5 DEF Looked
  <2>2. QED
    BY <2>1
<1>7. after <= Len(argv) => after \in Looked
  BY <1>1, <1>2 DEF Follows
<1>8. \A i \in Looked : i < after => i + Width(argv[i]) <= after
  <2> SUFFICES ASSUME NEW i \in Looked, i < after
               PROVE  i + Width(argv[i]) <= after
    OBVIOUS
  <2>1. i \in Nat /\ Width(argv[i]) \in Nat
    BY <1>2, Widths
  <2>2. i <= at
    BY <1>3, <1>6, <2>1
  <2>3. CASE i = at
    BY <1>3, <2>3
  <2>4. CASE i < at
    <3>1. i + Width(argv[i]) <= at
      BY <2>4 DEF Reading
    <3>2. QED
      BY <1>2, <1>3, <2>1, <3>1
  <2>5. QED
    BY <1>2, <2>1, <2>2, <2>3, <2>4
<1>9. Before(after) = Before(at) \cup {at}
  <2>1. ASSUME NEW i PROVE i \in Before(after) <=> i \in Before(at) \cup {at}
    <3>1. i \in Looked => (i < after <=> i <= at)
      BY <1>2, <1>3, <1>6
    <3>2. i \in Looked => (i <= at <=> i < at \/ i = at)
      BY <1>2
    <3>3. QED
      BY <1>2, <3>1, <3>2 DEF Before
  <2>2. QED
    BY <2>1
<1>10. at \notin Before(at)
  BY <1>2 DEF Before
<1>11. QED
  BY <1>3, <1>7, <1>8, <1>9, <1>10

\* A word that is no option is a file.
IsInput(word) == word \notin Dashed \ {"--unknown"}

\* What is given and what is to be compiled are finitely many words.
LEMMA Finite ==
    ASSUME MainTyped, NEW k, NEW word
    PROVE  /\ IsFiniteSet(Given(word, k)) /\ Cardinality(Given(word, k)) \in Nat
           /\ IsFiniteSet(Inputs(k)) /\ Cardinality(Inputs(k)) \in Nat
<1>1. IsFiniteSet(Looked)
  BY LookedFollows
<1>2. IsFiniteSet(Given(word, k)) /\ IsFiniteSet(Inputs(k))
  BY <1>1, FS_Subset DEF Given, Inputs, Before
<1>3. QED
  BY <1>2, FS_CardinalityType

\* One word more of its kind has been looked at.
LEMMA CountsOn ==
    ASSUME MainTyped, Reading, at <= Len(argv)
    PROVE  LET after == at + Width(argv[at])
           IN  /\ \A word :
                     Cardinality(Given(word, after)) =
                        Cardinality(Given(word, at))
                          + (IF argv[at] = word THEN 1 ELSE 0)
               /\ ~IsInput(argv[at]) => Inputs(after) = Inputs(at)
               /\ IsInput(argv[at]) =>
                     /\ Inputs(after) = Inputs(at) \cup {at}
                     /\ Cardinality(Inputs(after)) = Cardinality(Inputs(at)) + 1
                     /\ at \notin Inputs(at)
                     /\ \A i \in Inputs(at) : { j \in Inputs(after) : j <= i }
                                                = { j \in Inputs(at) : j <= i }
                     /\ { j \in Inputs(after) : j <= at } = Inputs(after)
<1> DEFINE after == at + Width(argv[at])
<1>1. Before(after) = Before(at) \cup {at} /\ at \notin Before(at)
  BY LooksOn
<1>2. at \in Nat /\ \A i \in Before(at) : i \in Nat /\ i < at
  BY LookedFollows DEF MainTyped, Before
<1> HIDE DEF after
<1>3. ASSUME NEW word
      PROVE  Cardinality(Given(word, after)) =
               Cardinality(Given(word, at)) + (IF argv[at] = word THEN 1 ELSE 0)
  <2>1. IsFiniteSet(Given(word, at)) /\ Cardinality(Given(word, at)) \in Nat
    BY Finite
  <2>2. CASE argv[at] = word
    <3>1. Given(word, after) = Given(word, at) \cup {at}
      BY <1>1, <2>2 DEF Given
    <3>2. at \notin Given(word, at)
      BY <1>1 DEF Given
    <3>3. QED
      BY <2>1, <2>2, <3>1, <3>2, FS_AddElement
  <2>3. CASE argv[at] # word
    <3>1. Given(word, after) = Given(word, at)
      BY <1>1, <2>3 DEF Given
    <3>2. QED
      BY <2>1, <2>3, <3>1
  <2>4. QED
    BY <2>2, <2>3
<1>4. ~IsInput(argv[at]) => Inputs(after) = Inputs(at)
  BY <1>1 DEF Inputs, IsInput
<1>5. ASSUME IsInput(argv[at])
      PROVE  /\ Inputs(after) = Inputs(at) \cup {at}
             /\ Cardinality(Inputs(after)) = Cardinality(Inputs(at)) + 1
             /\ at \notin Inputs(at)
             /\ \A i \in Inputs(at) : { j \in Inputs(after) : j <= i }
                                        = { j \in Inputs(at) : j <= i }
             /\ { j \in Inputs(after) : j <= at } = Inputs(after)
  <2>1. Inputs(after) = Inputs(at) \cup {at} /\ at \notin Inputs(at)
    BY <1>1, <1>5 DEF Inputs, IsInput
  <2>2. Cardinality(Inputs(after)) = Cardinality(Inputs(at)) + 1
    BY <2>1, Finite, FS_AddElement
  <2>3. \A i \in Inputs(at) : i \in Nat /\ i < at
    BY <1>2 DEF Inputs
  <2>4. \A i \in Inputs(at) : { j \in Inputs(after) : j <= i }
                                = { j \in Inputs(at) : j <= i }
    <3> SUFFICES ASSUME NEW i \in Inputs(at)
                 PROVE  { j \in Inputs(after) : j <= i }
                          = { j \in Inputs(at) : j <= i }
      OBVIOUS
    <3>1. ~(at <= i)
      BY <1>2, <2>3
    <3>2. QED
      BY <2>1, <3>1
  <2>5. { j \in Inputs(after) : j <= at } = Inputs(after)
    <3>1. \A j \in Inputs(after) : j <= at
      BY <1>2, <2>1, <2>3
    <3>2. QED
      BY <3>1
  <2>6. QED
    BY <2>1, <2>2, <2>4, <2>5
<1>6. QED
  BY <1>3, <1>4, <1>5 DEF after

\* The words of another state are the same when the command line is.
LEMMA LookedSame ==
    ASSUME argv' = argv
    PROVE  /\ Looked' = Looked
           /\ \A k : Before(k)' = Before(k) /\ Inputs(k)' = Inputs(k)
           /\ \A k, word : Given(word, k)' = Given(word, k)
<1>1. Looked' = Looked
  BY DEF Looked, Follows
<1>2. QED
  BY <1>1 DEF Before, Inputs, Given

\* make_args goes on to the next word.
LEMMA ReadsWord ==
    ASSUME MainTyped, Reading, at <= Len(argv), argv' = argv,
           at' = at + Width(argv[at]), at' <= Len(argv) + 1,
           mem'["output"] = mem["output"] + (IF argv[at] = "--output" THEN 1 ELSE 0),
           mem'["target"] = mem["target"] + (IF argv[at] = "--target" THEN 1 ELSE 0),
           mem'["input"] = mem["input"],
           ~args'.lsp => ~args.lsp /\ mem'["lsp"] = mem["lsp"],
           args'.input = IF IsInput(argv[at]) THEN Append(args.input, argv[at])
                                              ELSE args.input
    PROVE  Reading'
<1> DEFINE after == at + Width(argv[at])
<1>1. /\ Looked' = Looked
      /\ Inputs(at)' = Inputs(after)
      /\ \A word : Given(word, at)' = Given(word, after)
  <2>1. Looked' = Looked
    BY LookedSame
  <2>2. QED
    BY <2>1 DEF Inputs, Given, Before
<1>2. /\ after <= Len(argv) => after \in Looked
      /\ \A i \in Looked : i < after => i + Width(argv[i]) <= after
  BY LooksOn
<1>3. /\ Cardinality(Given("--output", after)) =
            Cardinality(Given("--output", at))
              + (IF argv[at] = "--output" THEN 1 ELSE 0)
      /\ Cardinality(Given("--target", after)) =
            Cardinality(Given("--target", at))
              + (IF argv[at] = "--target" THEN 1 ELSE 0)
  BY CountsOn
<1>4. /\ Len(args'.input) = Cardinality(Inputs(after))
      /\ \A i \in Inputs(after) :
            args'.input[Cardinality({ j \in Inputs(after) : j <= i })] = argv[i]
  <2>1. /\ args.input \in Seq(Word) /\ Len(args.input) \in Nat
        /\ Len(args.input) = Cardinality(Inputs(at))
        /\ \A i \in Inputs(at) :
              args.input[Cardinality({ j \in Inputs(at) : j <= i })] = argv[i]
    <3>1. args.input \in Seq(Word) /\ Len(args.input) \in Nat
      BY DEF MainTyped, Args0
    <3>2. QED
      BY <3>1 DEF Reading
  <2>2. CASE ~IsInput(argv[at])
    <3>1. Inputs(after) = Inputs(at)
      BY <2>2, CountsOn
    <3>2. QED
      BY <2>1, <2>2, <3>1
  <2>3. CASE IsInput(argv[at])
    <3>1. /\ Inputs(after) = Inputs(at) \cup {at}
          /\ Cardinality(Inputs(after)) = Cardinality(Inputs(at)) + 1
          /\ \A i \in Inputs(at) : { j \in Inputs(after) : j <= i }
                                     = { j \in Inputs(at) : j <= i }
          /\ { j \in Inputs(after) : j <= at } = Inputs(after)
      BY <2>3, CountsOn
    <3>2. args'.input = Append(args.input, argv[at]) /\ argv[at] \in Word
      <4>1. at \in 1 .. Len(argv)
        BY LookedFollows DEF MainTyped
      <4>2. QED
        BY <2>3, <4>1, SMTT(20) DEF MainTyped
    <3>3. /\ Len(args'.input) = Len(args.input) + 1
          /\ \A i \in 1 .. Len(args.input) : args'.input[i] = args.input[i]
          /\ args'.input[Len(args.input) + 1] = argv[at]
      BY <2>1, <3>2
    <3>4. ASSUME NEW i \in Inputs(at)
          PROVE  args'.input[Cardinality({ j \in Inputs(after) : j <= i })] = argv[i]
      <4> DEFINE upTo == { j \in Inputs(at) : j <= i }
      <4>1. IsFiniteSet(Inputs(at)) /\ upTo \subseteq Inputs(at)
        BY Finite
      <4>2. IsFiniteSet(upTo) /\ Cardinality(upTo) <= Cardinality(Inputs(at))
        BY <4>1, FS_Subset
      <4>3. i \in upTo
        <5>1. i \in Nat
          BY LookedFollows DEF Inputs, Before
        <5>2. QED
          BY <5>1
      <4> HIDE DEF upTo
      <4>4. Cardinality(upTo) \in Nat /\ Cardinality(upTo) # 0
        BY <4>2, <4>3, FS_CardinalityType, FS_EmptySet
      <4>5. Cardinality(upTo) \in 1 .. Len(args.input)
        BY <2>1, <4>2, <4>4
      <4>6. args.input[Cardinality(upTo)] = argv[i]
        BY <2>1 DEF upTo
      <4>7. { j \in Inputs(after) : j <= i } = upTo
        BY <3>1 DEF upTo
      <4>8. QED
        BY <3>3, <4>5, <4>6, <4>7
    <3>5. args'.input[Cardinality({ j \in Inputs(after) : j <= at })] = argv[at]
      BY <2>1, <3>1, <3>3
    <3>6. QED
      BY <2>1, <3>1, <3>3, <3>4, <3>5
  <2>4. QED
    BY <2>2, <2>3
<1> HIDE DEF after
<1>5. at' = after
  BY DEF after
<1>6. QED
  BY <1>1, <1>2, <1>3, <1>4, <1>5 DEF Reading
-----------------------------------------------------------------------------
(***************************************************************************)
(* The arguments.                                                          *)
(***************************************************************************)
\* What make_args does with one word, whatever it is.
LEMMA WordStep ==
    ASSUME MainInv, phase = "args", at <= Len(argv),
           UNCHANGED <<argv, next, opened, phase, exit>>,
           at' = at + Width(argv[at]), at' <= Len(argv) + 1,
           mem' = Holds(IF argv[at] = "--output" THEN {"output"}
                        ELSE IF argv[at] = "--target" THEN {"target"}
                        ELSE IF argv[at] = "--lsp" THEN {"lsp"} ELSE {}),
           args' \in Args0, ~args'.lsp => ~args.lsp /\ argv[at] # "--lsp",
           args'.cap > 0, Len(args'.input) <= args'.cap,
           args'.input = IF IsInput(argv[at]) THEN Append(args.input, argv[at])
                                              ELSE args.input
    PROVE  MainInv'
<1> USE DEF MainInv
<1> DEFINE word == argv[at]
<1>1. /\ mem \in [Owner -> Nat]
      /\ mem' \in [Owner -> Nat]
      /\ \A o \in Owner :
            mem'[o] = mem[o] + (IF \/ o = "output" /\ word = "--output"
                                   \/ o = "target" /\ word = "--target"
                                   \/ o = "lsp" /\ word = "--lsp"
                                THEN 1 ELSE 0)
  BY DEF MainTyped, Holds
<1>2. /\ Reading /\ argv # <<>> /\ next = 1 /\ opened = 0
      /\ \A o \in Outside \cup {"types"} : mem[o] = 0
  BY DEF ReadingArgs
<1> HIDE DEF word
<1>3. Reading'
  <2>1. /\ mem'["output"] = mem["output"] + (IF word = "--output" THEN 1 ELSE 0)
        /\ mem'["target"] = mem["target"] + (IF word = "--target" THEN 1 ELSE 0)
        /\ mem'["input"] = mem["input"]
        /\ word # "--lsp" => mem'["lsp"] = mem["lsp"]
    BY <1>1, SMTT(20) DEF Owner
  <2>2. QED
    BY <1>2, <2>1, ReadsWord DEF word
<1>4. at \in Nat /\ at' \in Nat /\ at < at' /\ at >= 1
  BY Widths DEF MainTyped
<1>5. Len(argv) \in Nat /\ Len(argv) <= MaxArgs /\ Len(argv) > 0 /\ MaxArgs \in Nat
  BY <1>2, MainAssumption DEF MainTyped
<1>6. /\ args.input \in Seq(Word) /\ args'.input \in Seq(Word)
      /\ Len(args.input) < at /\ Len(args'.input) <= Len(args.input) + 1
      /\ Len(args.input) \in Nat /\ Len(args'.input) \in Nat
  <2>1. args.input \in Seq(Word) /\ args'.input \in Seq(Word)
    BY DEF MainTyped, Args0
  <2>2. argv[at] \in Word
    <3>1. at \in 1 .. Len(argv)
      BY <1>4, <1>5
    <3>2. QED
      BY <3>1 DEF MainTyped
  <2>3. Len(args'.input) <= Len(args.input) + 1
    BY <2>1, <2>2
  <2>4. QED
    BY <2>1, <2>3 DEF MainTyped
<1>7. MainTyped'
  <2>1. Len(args'.input) < at'
    BY <1>4, <1>6
  <2>2. at' <= MaxArgs + 1 /\ 1 <= at'
    BY <1>4, <1>5
  <2>3. next' <= Len(args'.input) + 1
    BY <1>2, <1>6
  <2>4. QED
    BY <1>1, <1>2, <1>4, <2>1, <2>2, <2>3 DEF MainTyped
<1>8. MemSmall'
  <2>1. \A o \in Owner :
           mem[o] \in Nat /\ mem'[o] \in Nat /\ mem'[o] <= mem[o] + 1
    BY <1>1
  <2>2. {"output", "target", "lsp"} \subseteq Owner
    BY DEF Owner
  <2>3. \A o \in {"output", "target", "lsp"} : mem[o] < at
    BY DEF MemSmall
  <2>4. \A o \in {"output", "target", "lsp"} : mem'[o] < at'
    BY <1>4, <2>1, <2>2, <2>3, SMTT(20)
  <2>5. \A o \in Owner \ {"output", "target", "lsp"} : mem'[o] = mem[o]
    BY <1>1
  <2>6. mem'["lettypes"] <= Len(args'.input)
    BY <1>2, <1>6, <2>5 DEF Owner, Outside
  <2>7. QED
    BY <1>5, <2>4, <2>5, <2>6 DEF MemSmall
<1>9. Started' /\ Serving' /\ InLoop' /\ EndsAsFilesSay' /\ OnlyTheseLeak'
  BY DEF Started, Serving, InLoop, EndsAsFilesSay, OnlyTheseLeak, Compiled
<1>10. ReadingArgs'
  <2>1. ASSUME NEW o \in Outside \cup {"types"} PROVE mem'[o] = 0
    <3>1. o \in Owner /\ o \notin {"output", "target", "lsp"}
      BY DEF Outside, Owner
    <3>2. mem[o] = 0
      BY <1>2
    <3>3. QED
      BY <1>1, <3>1, <3>2
  <2>2. QED
    BY <1>2, <1>3, <2>1 DEF ReadingArgs
<1>11. QED
  BY <1>7, <1>8, <1>9, <1>10

\* The list of files has room for one more.
LEMMA ListGrows ==
    ASSUME MainTyped, NEW word \in Word
    PROVE  LET list == StrListAppend(word)
           IN  /\ list \in Args0
               /\ list.input = Append(args.input, word) /\ list.lsp = args.lsp
               /\ list.cap > 0 /\ Len(list.input) <= list.cap
<1>1. /\ args \in Args0 /\ args.input \in Seq(Word) /\ args.cap \in Nat
      /\ args.cap > 0 /\ Len(args.input) <= args.cap /\ Len(args.input) \in Nat
  BY DEF MainTyped, Args0
<1>2. Append(args.input, word) \in Seq(Word)
      /\ Len(Append(args.input, word)) = Len(args.input) + 1
  BY <1>1
<1>3. CASE Len(args.input) >= args.cap
  <2>1. ~(args.cap > 2 * args.cap)
    BY <1>1
  <2> DEFINE moved == [args EXCEPT !.cap = 2 * args.cap]
  <2>2. StrListAppend(word) = [moved EXCEPT !.input = Append(@, word)]
    BY <1>3, <2>1 DEF StrListAppend, StrListReserve
  <2>3. /\ moved \in Args0 /\ moved.input = args.input
        /\ moved.lsp = args.lsp /\ moved.cap = 2 * args.cap
    BY <1>1 DEF Args0
  <2> HIDE DEF moved
  <2>4. /\ StrListAppend(word) \in Args0
        /\ StrListAppend(word).input = Append(args.input, word)
        /\ StrListAppend(word).lsp = args.lsp
        /\ StrListAppend(word).cap = 2 * args.cap
    BY <1>2, <2>2, <2>3 DEF Args0
  <2>5. QED
    BY <1>1, <1>2, <1>3, <2>4
<1>4. CASE ~(Len(args.input) >= args.cap)
  <2>1. StrListAppend(word) = [args EXCEPT !.input = Append(@, word)]
    BY <1>4 DEF StrListAppend
  <2>2. /\ StrListAppend(word) \in Args0
        /\ StrListAppend(word).input = Append(args.input, word)
        /\ StrListAppend(word).lsp = args.lsp
        /\ StrListAppend(word).cap = args.cap
    BY <1>1, <1>2, <2>1 DEF Args0
  <2>3. QED
    BY <1>1, <1>2, <1>4, <2>2
<1>5. QED
  BY <1>3, <1>4

\* The options, and the files among them.
LEMMA ArgSteps ==
    ASSUME MainInv,
           \/ ArgHelp \/ ArgFlag \/ ArgOutput \/ ArgTarget \/ ArgLsp \/ ArgInput
    PROVE  MainInv'
<1>1. /\ phase = "args" /\ at <= Len(argv)
      /\ UNCHANGED <<argv, next, opened, phase, exit>>
  BY DEF ArgHelp, ArgFlag, ArgOutput, ArgTarget, ArgLsp, ArgInput, At
<1>2. /\ args \in Args0 /\ args.cap > 0 /\ Len(args.input) <= args.cap
      /\ mem \in [Owner -> Nat] /\ at \in Nat /\ Len(argv) \in Nat
      /\ argv \in Seq(Word) /\ at \in 1 .. Len(argv)
  BY <1>1 DEF MainInv, MainTyped
<1>3. mem = Holds({})
  BY <1>2 DEF Holds
<1>4. argv[at] \in Word /\ (Has(1) => argv[at + 1] \in Word)
  BY <1>2 DEF Has
<1>5. CASE ArgHelp
  <2>1. /\ argv[at] = "--help" /\ at' = at + 1 /\ mem' = mem
        /\ args' = [args EXCEPT !.help = TRUE]
    BY <1>5 DEF ArgHelp, At
  <2>2. /\ args' \in Args0 /\ args'.lsp = args.lsp
        /\ args'.input = args.input /\ args'.cap = args.cap
    BY <1>2, <2>1 DEF Args0
  <2>3. QED
    BY <1>1, <1>2, <1>3, <2>1, <2>2, WordStep DEF Width, IsInput, Dashed
<1>6. CASE ArgFlag
  <2>1. argv[at] = "--flag" /\ at' = at + 1 /\ mem' = mem /\ args' = args
    BY <1>6 DEF ArgFlag, At
  <2>2. QED
    BY <1>1, <1>2, <1>3, <2>1, WordStep DEF Width, IsInput, Dashed
<1>7. CASE ArgOutput
  <2>1. /\ argv[at] = "--output" /\ at' = at + 2 /\ mem' = Holds({"output"})
        /\ Has(1) /\ args' = [args EXCEPT !.output = argv[at + 1]]
    BY <1>7 DEF ArgOutput, At
  <2>2. /\ args' \in Args0 /\ args'.lsp = args.lsp
        /\ args'.input = args.input /\ args'.cap = args.cap
    BY <1>2, <1>4, <2>1 DEF Args0
  <2>3. at' <= Len(argv) + 1
    BY <1>2, <2>1 DEF Has
  <2>4. QED
    BY <1>1, <1>2, <2>1, <2>2, <2>3, WordStep DEF Width, IsInput, Dashed
<1>8. CASE ArgTarget
  <2>1. /\ argv[at] = "--target" /\ at' = at + 2 /\ mem' = Holds({"target"})
        /\ Has(1) /\ args' = [args EXCEPT !.target = argv[at + 1]]
    BY <1>8 DEF ArgTarget, At
  <2>2. /\ args' \in Args0 /\ args'.lsp = args.lsp
        /\ args'.input = args.input /\ args'.cap = args.cap
    BY <1>2, <1>4, <2>1 DEF Args0
  <2>3. at' <= Len(argv) + 1
    BY <1>2, <2>1 DEF Has
  <2>4. QED
    BY <1>1, <1>2, <2>1, <2>2, <2>3, WordStep DEF Width, IsInput, Dashed
<1>9. CASE ArgLsp
  <2>1. /\ argv[at] = "--lsp" /\ at' = at + 4 /\ mem' = Holds({"lsp"})
        /\ Has(3) /\ args' = [args EXCEPT !.lsp = TRUE, !.type = argv[at + 1]]
    BY <1>9 DEF ArgLsp, At
  <2>2. argv[at + 1] \in Word
    BY <1>2, <2>1 DEF Has
  <2>3. /\ args' \in Args0 /\ args'.lsp
        /\ args'.input = args.input /\ args'.cap = args.cap
    BY <1>2, <2>1, <2>2 DEF Args0
  <2>4. at' <= Len(argv) + 1
    BY <1>2, <2>1 DEF Has
  <2>5. QED
    BY <1>1, <1>2, <2>1, <2>3, <2>4, WordStep DEF Width, IsInput, Dashed
<1>10. CASE ArgInput
  <2>1. /\ IsInput(argv[at]) /\ at' = at + 1 /\ mem' = mem
        /\ args' = StrListAppend(argv[at])
    BY <1>10 DEF ArgInput, IsInput
  <2>2. /\ args' \in Args0 /\ args'.lsp = args.lsp
        /\ args'.input = Append(args.input, argv[at])
        /\ args'.cap > 0 /\ Len(args'.input) <= args'.cap
    BY <1>4, <2>1, ListGrows DEF MainInv
  <2>3. argv[at] \notin {"--output", "--target", "--lsp"}
    BY <2>1 DEF IsInput, Dashed
  <2>4. QED
    BY <1>1, <1>2, <1>3, <2>1, <2>2, <2>3, WordStep DEF Width
<1>11. QED
  BY <1>5, <1>6, <1>7, <1>8, <1>9, <1>10

\* The program ends, perhaps after a release of what it holds.
LEMMA Ending ==
    ASSUME MainInv, NEW how, Ends(how), how # None,
           UNCHANGED <<argv, at, args, next, opened>>,
           NEW owners, mem' = mem \/ mem' = Releases(owners),
           EndsAsFilesSay', OnlyTheseLeak'
    PROVE  MainInv'
<1> USE DEF MainInv
<1>1. phase' = "ended" /\ exit' = how
  BY DEF Ends
<1>2. mem \in [Owner -> Nat] /\ at \in Nat /\ Len(args.input) \in Nat
  BY DEF MainTyped, Args0
<1>3. mem' \in [Owner -> Nat] /\ \A o \in Owner : mem'[o] <= mem[o]
  <2>1. CASE mem' = mem
    BY <1>2, <2>1
  <2>2. CASE mem' = Releases(owners)
    BY <1>2, <2>2 DEF Releases
  <2>3. QED
    BY <2>1, <2>2
<1>4. MainTyped'
  BY <1>1, <1>3 DEF MainTyped
<1>5. MemSmall'
  <2>1. mem' # NoMem => mem # NoMem
    <3>1. ASSUME mem = NoMem PROVE mem' = NoMem
      <4>1. \A o \in Owner : mem[o] = 0
        BY <3>1 DEF NoMem
      <4>2. \A o \in Owner : mem'[o] = 0
        BY <1>3, <4>1
      <4>3. QED
        BY <1>3, <4>2 DEF NoMem
    <3>2. QED
      BY <3>1
  <2>2. /\ mem'["output"] <= mem["output"] /\ mem'["target"] <= mem["target"]
        /\ mem'["lsp"] <= mem["lsp"] /\ mem'["lettypes"] <= mem["lettypes"]
        /\ \A o \in {"output", "target", "lsp", "lettypes"} :
              mem[o] \in Nat /\ mem'[o] \in Nat
    BY <1>2, <1>3 DEF Owner
  <2>3. \A o \in {"output", "target", "lsp"} : mem'[o] < at'
    BY <1>2, <2>2 DEF MemSmall
  <2>4. mem'["lettypes"] <= Len(args'.input)
    BY <1>2, <2>2 DEF MemSmall
  <2>5. ASSUME NEW o \in Owner \ {"output", "target", "lsp", "lettypes"}
        PROVE  mem'[o] <= 1
    <3>1. mem[o] <= 1 /\ mem[o] \in Nat /\ mem'[o] \in Nat /\ mem'[o] <= mem[o]
      BY <1>2, <1>3 DEF MemSmall
    <3>2. QED
      BY <3>1
  <2>6. QED
    BY <2>1, <2>3, <2>4, <2>5 DEF MemSmall
<1>6. Started' /\ ReadingArgs' /\ Serving' /\ InLoop'
  BY <1>1 DEF Started, ReadingArgs, Serving, InLoop
<1>7. QED
  BY <1>4, <1>5, <1>6

\* It ends before anything was compiled.
LEMMA EndsEarly ==
    ASSUME MainInv, NEW how, Ends(how), how # None,
           UNCHANGED <<argv, at, args, next, opened>>,
           ~Compiled',
           mem' = mem \/ mem' = Releases(ArgOwners)
    PROVE  MainInv'
<1>1. EndsAsFilesSay' /\ OnlyTheseLeak'
  BY DEF EndsAsFilesSay, OnlyTheseLeak
<1>2. QED
  BY <1>1, Ending

\* There is nothing to do, a word is missing or wrong, or help is asked for.
LEMMA ArgsEndEarly ==
    ASSUME MainInv,
           \/ TooFewArgs \/ ArgMissing \/ ArgLspMissing \/ ArgLspDashed \/ Help
           \/ LspBadType \/ LspReturns
    PROVE  MainInv'
<1>1. MainTyped
  BY DEF MainInv
<1>2. CASE TooFewArgs
  <2>1. /\ phase = "start" /\ argv = <<>> /\ Ends("0")
        /\ UNCHANGED <<argv, at, args, mem, next, opened>>
    BY <1>2 DEF TooFewArgs
  <2>2. ~Compiled'
    BY <2>1 DEF Compiled
  <2>3. QED
    BY <2>1, <2>2, EndsEarly DEF None
<1>3. CASE ArgMissing
  <2>1. /\ phase = "args" /\ at <= Len(argv) /\ Ends("-1")
        /\ UNCHANGED <<argv, at, args, mem, next, opened>>
    BY <1>3 DEF ArgMissing, At
  <2>2. ~Compiled'
    BY <1>1, <2>1 DEF Compiled, MainTyped
  <2>3. QED
    BY <2>1, <2>2, EndsEarly DEF None
<1>4. CASE ArgLspMissing
  <2>1. /\ phase = "args" /\ at <= Len(argv) /\ Ends("-2")
        /\ UNCHANGED <<argv, at, args, mem, next, opened>>
    BY <1>4 DEF ArgLspMissing, At
  <2>2. ~Compiled'
    BY <1>1, <2>1 DEF Compiled, MainTyped
  <2>3. QED
    BY <2>1, <2>2, EndsEarly DEF None
<1>5. CASE ArgLspDashed
  <2>1. /\ phase = "args" /\ at <= Len(argv)
        /\ UNCHANGED <<argv, at, args, mem, next, opened>>
    BY <1>5 DEF ArgLspDashed, At
  <2>2. PICK k \in 1 .. 3 : Ends(<<"-3", "-4", "-5">>[k])
    BY <1>5 DEF ArgLspDashed
  <2>3. <<"-3", "-4", "-5">>[k] # None
    BY DEF None
  <2>4. ~Compiled'
    BY <1>1, <2>1 DEF Compiled, MainTyped
  <2>5. QED
    BY <2>1, <2>2, <2>3, <2>4, EndsEarly
<1>6. CASE Help
  <2>1. /\ phase = "args" /\ args.help /\ Ends("0")
        /\ UNCHANGED <<argv, at, args, mem, next, opened>>
    BY <1>6 DEF Help, ArgsEnd
  <2>2. ~Compiled'
    BY <2>1 DEF Compiled
  <2>3. QED
    BY <2>1, <2>2, EndsEarly DEF None
<1>7. CASE LspBadType
  <2>1. /\ phase = "lsp" /\ Ends("panic")
        /\ UNCHANGED <<argv, at, args, mem, next, opened>>
    BY <1>7 DEF LspBadType
  <2>2. ~Compiled'
    BY <2>1 DEF Compiled, MainInv, Serving
  <2>3. QED
    BY <2>1, <2>2, EndsEarly DEF None
<1>8. CASE LspReturns
  <2>1. /\ phase = "lsp" /\ Ends("-1") /\ mem' = Releases(ArgOwners)
        /\ UNCHANGED <<argv, at, args, next, opened>>
    BY <1>8 DEF LspReturns
  <2>2. ~Compiled'
    BY <2>1 DEF Compiled, MainInv, Serving
  <2>3. QED
    BY <2>1, <2>2, EndsEarly DEF None
<1>9. QED
  BY <1>2, <1>3, <1>4, <1>5, <1>6, <1>7, <1>8

\* Nothing has been looked at before the first word.
LEMMA FirstWord ==
    ASSUME MainTyped, argv # <<>>, at = 1
    PROVE  /\ at <= Len(argv) /\ at \in Looked
           /\ Before(at) = {} /\ Inputs(at) = {}
           /\ \A word : Given(word, at) = {}
<1>1. Looked \subseteq 1 .. Len(argv) /\ 1 \in Looked
  BY LookedFollows DEF Follows
<1>2. \A i \in Looked : ~(i < at)
  BY <1>1, LookedFollows
<1>3. Before(at) = {}
  BY <1>2 DEF Before
<1>4. at <= Len(argv)
  BY <1>1, LookedFollows
<1>5. QED
  BY <1>1, <1>3, <1>4 DEF Inputs, Given

\* make_args begins: the list of files is made.
LEMMA MakesArgs ==
    ASSUME MainInv, MakeArgs
    PROVE  MainInv'
<1> USE DEF MainInv
<1>1. /\ phase = "start" /\ phase' = "args" /\ argv # <<>>
      /\ mem' = Holds({"input"})
      /\ UNCHANGED <<argv, at, args, next, opened, exit>>
  BY DEF MakeArgs
<1>2. at = 1 /\ args = NoArgs /\ mem = NoMem /\ next = 1 /\ opened = 0
  BY <1>1 DEF Started
<1>3. \A o \in Owner : mem'[o] = IF o = "input" THEN 1 ELSE 0
  BY <1>1, <1>2 DEF Holds, NoMem
<1>4. mem' \in [Owner -> Nat]
  BY <1>1, <1>2 DEF Holds, NoMem
<1>5. MainTyped'
  BY <1>1, <1>4 DEF MainTyped
<1>6. MaxArgs \in Nat /\ MaxArgs > 0
  BY <1>1, MainAssumption DEF MainTyped
<1>7. MemSmall'
  <2>1. /\ \A o \in {"output", "target", "lsp", "lettypes"} : mem'[o] = 0
        /\ \A o \in Owner : mem'[o] <= 1
    BY <1>3 DEF Owner
  <2>2. at' = 1 /\ Len(args'.input) = 0
    BY <1>1, <1>2 DEF NoArgs
  <2>3. QED
    BY <1>6, <2>1, <2>2 DEF MemSmall
<1>8. Reading'
  <2>1. /\ at <= Len(argv) /\ at \in Looked
        /\ \A i \in Looked : ~(i < at) /\ Inputs(at) = {}
        /\ Given("--output", at) = {} /\ Given("--target", at) = {}
    BY <1>1, <1>2, FirstWord DEF Before
  <2>2. Cardinality({}) = 0
    BY FS_EmptySet
  <2>3. at' = at /\ Looked' = Looked /\ argv' = argv
        /\ Inputs(at)' = Inputs(at)
        /\ Given("--output", at)' = Given("--output", at)
        /\ Given("--target", at)' = Given("--target", at)
    BY <1>1, LookedSame DEF Inputs, Given, Before
  <2>4. /\ mem'["output"] = 0 /\ mem'["target"] = 0 /\ mem'["lsp"] = 0
        /\ mem'["input"] = 1
    BY <1>3 DEF Owner
  <2>5. args'.input = <<>> /\ Len(args'.input) = 0
    BY <1>1, <1>2 DEF NoArgs
  <2>6. at' <= Len(argv') + 1
    BY <1>1, <2>1 DEF MainTyped
  <2>7. QED
    BY <2>1, <2>2, <2>3, <2>4, <2>5, <2>6 DEF Reading
<1>9. ReadingArgs'
  <2>1. \A o \in Outside \cup {"types"} : mem'[o] = 0
    BY <1>3 DEF Outside, Owner
  <2>2. QED
    BY <1>1, <1>2, <1>8, <2>1 DEF ReadingArgs
<1>10. Started' /\ Serving' /\ InLoop' /\ EndsAsFilesSay' /\ OnlyTheseLeak'
  BY <1>1 DEF Started, Serving, InLoop, EndsAsFilesSay, OnlyTheseLeak, Compiled
<1>11. QED
  BY <1>5, <1>7, <1>9, <1>10

\* What was read of the command line stays.
LEMMA ReadingSame ==
    ASSUME Reading, UNCHANGED <<argv, at, args>>,
           \A o \in {"output", "target", "lsp", "input"} : mem'[o] = mem[o]
    PROVE  Reading'
<1>1. Looked' = Looked /\ Inputs(at)' = Inputs(at)
      /\ Given("--output", at)' = Given("--output", at)
      /\ Given("--target", at)' = Given("--target", at)
  BY LookedSame DEF Inputs, Given, Before
<1>2. QED
  BY <1>1 DEF Reading

\* main_init.
LEMMA StartsMain ==
    ASSUME MainInv, MainStart
    PROVE  MainInv'
<1> USE DEF MainInv
<1>1. /\ phase = "args" /\ at > Len(argv) /\ ~args.help
      /\ mem' = Holds({"types"})
      /\ phase' = IF args.lsp THEN "lsp" ELSE "files"
      /\ argv' = IF args.lsp THEN <<>> ELSE argv
      /\ UNCHANGED <<at, args, next, opened, exit>>
  BY DEF MainStart, ArgsEnd
<1>2. /\ argv # <<>> /\ Reading /\ next = 1 /\ opened = 0
      /\ \A o \in Outside \cup {"types"} : mem[o] = 0
  BY <1>1 DEF ReadingArgs
<1>3. mem \in [Owner -> Nat] /\ args \in Args0 /\ args.lsp \in BOOLEAN
  BY DEF MainTyped, Args0
<1>4. /\ mem' \in [Owner -> Nat]
      /\ \A o \in Owner \ {"types"} : mem'[o] = mem[o]
      /\ mem'["types"] = 1
  <2>1. mem' \in [Owner -> Nat]
        /\ \A o \in Owner : mem'[o] = IF o = "types" THEN mem[o] + 1 ELSE mem[o]
    BY <1>1, <1>3 DEF Holds
  <2>2. "types" \in Owner /\ mem["types"] = 0
    BY <1>2 DEF Owner
  <2>3. QED
    BY <2>1, <2>2
<1>5. MainTyped'
  <2>1. argv' \in Seq(Word) /\ Len(argv') <= MaxArgs
    BY <1>1, MainAssumption DEF MainTyped
  <2>2. phase' \in {"lsp", "files"} /\ exit = None
    BY <1>1 DEF MainTyped
  <2>3. QED
    BY <1>1, <1>4, <2>1, <2>2 DEF MainTyped
<1>6. MemSmall'
  <2>1. MaxArgs > 0
    BY <1>2, MainAssumption DEF MainTyped
  <2>2. \A o \in Owner \ {"output", "target", "lsp", "lettypes"} : mem'[o] <= 1
    BY <1>4 DEF MemSmall
  <2>3. \A o \in {"output", "target", "lsp", "lettypes"} : mem'[o] = mem[o]
    BY <1>4 DEF Owner
  <2>4. QED
    BY <1>1, <2>1, <2>2, <2>3 DEF MemSmall
<1>7. Started' /\ ReadingArgs' /\ Serving' /\ EndsAsFilesSay' /\ OnlyTheseLeak'
  BY <1>1 DEF Started, ReadingArgs, Serving, EndsAsFilesSay, OnlyTheseLeak, Compiled
<1>8. InLoop'
  <2>1. CASE args.lsp
    BY <1>1, <2>1 DEF InLoop
  <2>2. CASE ~args.lsp
    <3>1. phase' = "files" /\ argv' = argv
      BY <1>1, <2>2
    <3>2. Reading'
      <4>1. \A o \in {"output", "target", "lsp", "input"} : mem'[o] = mem[o]
        BY <1>4 DEF Owner
      <4>2. QED
        BY <1>1, <1>2, <3>1, <4>1, ReadingSame
    <3>3. Compiling'
      BY <1>1, <1>2, <1>4, <2>2, <3>1, <3>2 DEF Compiling
    <3>4. HeldOfFile({}, next - 1)'
      <4>1. Gone(next - 1)' = {}
        BY <1>1, <1>2 DEF Gone
      <4>2. Cardinality({}) = 0
        BY FS_EmptySet
      <4>3. \A o \in Outside : mem'[o] = 0
        BY <1>2, <1>4 DEF Outside, Owner
      <4>4. QED
        BY <4>1, <4>2, <4>3 DEF HeldOfFile, Outside
    <3>5. QED
      BY <1>1, <1>2, <3>1, <3>3, <3>4 DEF InLoop
  <2>3. QED
    BY <1>3, <2>1, <2>2
<1>9. QED
  BY <1>5, <1>6, <1>7, <1>8
-----------------------------------------------------------------------------
(***************************************************************************)
(* The loop over the files.                                                *)
(***************************************************************************)
\* The files with let-statements are counted one by one.
LEMMA GoneOn ==
    ASSUME MainTyped, NEW k \in Nat
    PROVE  /\ Cardinality(Gone(k)) \in Nat /\ Cardinality(Gone(k)) <= k
           /\ Gone(k) = {} <=> Cardinality(Gone(k)) = 0
           /\ Cardinality(Gone(k + 1)) =
                 Cardinality(Gone(k)) + (IF args.input[k + 1] = "lets" THEN 1 ELSE 0)
<1>1. IsFiniteSet(1 .. k) /\ Cardinality(1 .. k) = k
  BY FS_Interval
<1>2. Gone(k) \subseteq 1 .. k
  BY DEF Gone
<1>3. IsFiniteSet(Gone(k)) /\ Cardinality(Gone(k)) <= k
  BY <1>1, <1>2, FS_Subset
<1>4. Cardinality(Gone(k)) \in Nat
  BY <1>3, FS_CardinalityType
<1>5. Gone(k) = {} <=> Cardinality(Gone(k)) = 0
  BY <1>3, FS_EmptySet
<1>6. \A i : i \in 1 .. k + 1 <=> i \in 1 .. k \/ i = k + 1
  OBVIOUS
<1>7. ASSUME args.input[k + 1] = "lets"
      PROVE  Cardinality(Gone(k + 1)) = Cardinality(Gone(k)) + 1
  <2>1. Gone(k + 1) = Gone(k) \cup {k + 1}
    BY <1>6, <1>7 DEF Gone
  <2>2. k + 1 \notin Gone(k)
    BY <1>2
  <2>3. QED
    BY <1>3, <2>1, <2>2, FS_AddElement
<1>8. ASSUME args.input[k + 1] # "lets"
      PROVE  Cardinality(Gone(k + 1)) = Cardinality(Gone(k))
  <2>1. Gone(k + 1) = Gone(k)
    BY <1>6, <1>8 DEF Gone
  <2>2. QED
    BY <2>1
<1>9. QED
  BY <1>3, <1>4, <1>5, <1>7, <1>8

Loop == {"files", "lex", "parse", "release", "cleanup"}

\* What the loop over the files leaves alone.
LEMMA LoopStep ==
    ASSUME MainInv, phase \in Loop, phase' \in Loop,
           UNCHANGED <<argv, at, args, exit>>,
           mem' \in [Owner -> Nat],
           \A o \in Owner \ Outside : mem'[o] = mem[o],
           \A o \in Outside \ {"lettypes"} : mem'[o] <= 1,
           mem'["lettypes"] <= Len(args.input),
           next' \in Nat, 1 <= next', next' <= Len(args.input) + 1,
           opened' \in Nat, opened' <= MaxOpen,
           \A i \in 1 .. next' - 1 : Good(i),
           next' > 1 => TargetOK,
           Compiling' => InLoop'
    PROVE  MainInv'
<1> USE DEF MainInv
<1>1. Compiling
  BY DEF Loop, InLoop
<1>2. Reading'
  <2>1. \A o \in {"output", "target", "lsp", "input"} : o \in Owner \ Outside
    BY DEF Owner, Outside
  <2>2. QED
    BY <1>1, <2>1, ReadingSame DEF Compiling
<1>3. Compiling'
  <2>1. mem'["types"] = mem["types"]
    BY DEF Owner, Outside
  <2>2. \A i \in 1 .. next' - 1 : Good(i)'
    BY DEF Good
  <2>3. QED
    BY <1>1, <1>2, <2>1, <2>2 DEF Compiling, TargetOK
<1>4. MainTyped'
  BY DEF MainTyped, Loop
<1>5. MemSmall'
  <2>1. MaxArgs > 0
    BY <1>1, MainAssumption DEF MainTyped, Compiling
  <2>2. \A o \in {"output", "target", "lsp"} : mem'[o] < at'
    <3>1. \A o \in {"output", "target", "lsp"} : o \in Owner \ Outside
      BY DEF Owner, Outside
    <3>2. QED
      BY <3>1 DEF MemSmall
  <2>3. mem'["lettypes"] <= Len(args'.input)
    OBVIOUS
  <2>4. ASSUME NEW o \in Owner \ {"output", "target", "lsp", "lettypes"}
        PROVE  mem'[o] <= 1
    <3>1. CASE o \in Outside
      BY <3>1
    <3>2. CASE o \notin Outside
      BY <3>2 DEF MemSmall
    <3>3. QED
      BY <3>1, <3>2
  <2>5. QED
    BY <2>1, <2>2, <2>3, <2>4 DEF MemSmall
<1>6. Started' /\ ReadingArgs' /\ Serving' /\ EndsAsFilesSay' /\ OnlyTheseLeak'
  BY DEF Loop, Started, ReadingArgs, Serving, EndsAsFilesSay, OnlyTheseLeak, Compiled
<1>7. QED
  BY <1>3, <1>4, <1>5, <1>6

\* The types that a file with let-statements leaves count as it is gone through.
LEMMA LoopSteps ==
    ASSUME MainInv,
           \/ MakeSrc \/ LexFails \/ Lexed \/ Parsed \/ ReleaseFile \/ FilesEnd
    PROVE  MainInv'
<1>1. /\ MainTyped /\ mem \in [Owner -> Nat] /\ next \in Nat /\ 1 <= next
      /\ next <= Len(args.input) + 1 /\ Len(args.input) \in Nat
      /\ opened \in Nat /\ opened <= MaxOpen /\ MaxOpen \in Nat
  BY MainAssumption DEF MainInv, MainTyped, Args0
<1>2. phase \in Loop /\ UNCHANGED <<argv, at, args>>
  BY DEF MakeSrc, TargetMade, InFile, LexFails, Lexed, Parsed, ReleaseFile,
     FilesEnd, Loop
<1>3. Compiling /\ (\A i \in 1 .. next - 1 : Good(i)) /\ (next > 1 => TargetOK)
  BY <1>2 DEF MainInv, InLoop, Loop, Compiling
<1>4. next - 1 \in Nat /\ mem["lettypes"] <= Len(args.input)
  BY <1>1 DEF MainInv, MemSmall
<1>5. next' = next => Gone(next - 1)' = Gone(next - 1)
  BY <1>2 DEF Gone
<1>6. CASE MakeSrc
  <2>1. /\ phase = "files" /\ phase' = "lex" /\ next <= Len(args.input)
        /\ TargetOK /\ Input \in File /\ opened < MaxOpen /\ opened' = opened + 1
        /\ mem' = Holds({"source", "name"}) /\ UNCHANGED <<next, exit>>
    BY <1>6 DEF MakeSrc, TargetMade, InFile, TargetOK
  <2>2. opened = next - 1 /\ HeldOfFile({}, next - 1)
    BY <2>1 DEF MainInv, InLoop
  <2>3. HeldOfFile({"source", "name"}, next - 1)'
    BY <1>1, <1>2, <2>1, <2>2, <1>5 DEF HeldOfFile, Holds, Outside, Owner, Gone
  <2>4. opened' = next
    BY <1>1, <2>1, <2>2
  <2>5. Compiling' => InLoop'
    BY <1>2, <2>1, <2>3, <2>4 DEF InLoop, TargetOK, Input
  <2>6. mem' \in [Owner -> Nat] /\ \A o \in Owner \ Outside : mem'[o] = mem[o]
    BY <1>1, <2>1 DEF Holds, Outside
  <2>7. opened' \in Nat /\ opened' <= MaxOpen
    BY <1>1, <2>1
  <2>8. /\ \A o \in Outside \ {"lettypes"} : mem'[o] <= 1
        /\ mem'["lettypes"] = mem["lettypes"]
    <3>1. mem'["lettypes"] = mem["lettypes"]
      BY <2>1 DEF Holds, Owner
    <3>2. QED
      BY <2>3, <3>1 DEF HeldOfFile
  <2>9. QED
    BY <1>1, <1>2, <1>3, <1>4, <2>1, <2>5, <2>6, <2>7, <2>8, LoopStep DEF Loop
<1>7. CASE LexFails
  <2>1. /\ phase = "lex" /\ phase' = "cleanup" /\ next <= Len(args.input)
        /\ Input = "unlexable" /\ UNCHANGED <<mem, next, opened, exit>>
    BY <1>7 DEF LexFails, InFile
  <2>2. opened = next /\ TargetOK /\ HeldOfFile({"source", "name"}, next - 1)
    BY <2>1 DEF MainInv, InLoop
  <2>3. HeldOfFile({"source", "name"}, next - 1)'
    BY <1>2, <2>1, <2>2 DEF HeldOfFile, Gone
  <2>4. Compiling' => InLoop'
    BY <1>1, <1>2, <2>1, <2>2, <2>3 DEF InLoop, TargetOK, Input
  <2>5. \A o \in Outside \ {"lettypes"} : mem'[o] <= 1
    BY <2>3 DEF HeldOfFile
  <2>6. QED
    BY <1>1, <1>2, <1>3, <1>4, <2>1, <2>4, <2>5, LoopStep DEF Loop
<1>8. CASE Lexed
  <2>1. /\ phase = "lex" /\ phase' = "parse" /\ next <= Len(args.input)
        /\ Input # "unlexable" /\ mem' = Holds({"tokens"})
        /\ UNCHANGED <<next, opened, exit>>
    BY <1>8 DEF Lexed, InFile
  <2>2. /\ opened = next /\ TargetOK /\ Input \in File
        /\ HeldOfFile({"source", "name"}, next - 1)
    BY <2>1 DEF MainInv, InLoop
  <2>3. HeldOfFile({"source", "name", "tokens"}, next - 1)'
    BY <1>1, <1>2, <2>1, <2>2 DEF HeldOfFile, Holds, Outside, Owner, Gone
  <2>4. Compiling' => InLoop'
    BY <1>1, <1>2, <2>1, <2>2, <2>3 DEF InLoop, TargetOK, Input
  <2>5. mem' \in [Owner -> Nat] /\ \A o \in Owner \ Outside : mem'[o] = mem[o]
    BY <1>1, <2>1 DEF Holds, Outside
  <2>6. /\ \A o \in Outside \ {"lettypes"} : mem'[o] <= 1
        /\ mem'["lettypes"] = mem["lettypes"]
    BY <1>1, <2>1, <2>3, SMTT(20) DEF HeldOfFile, Holds, Owner
  <2>7. QED
    BY <1>1, <1>2, <1>3, <1>4, <2>1, <2>4, <2>5, <2>6, LoopStep DEF Loop
<1>9. CASE Parsed
  <2> DEFINE held == {"tree"} \cup (IF Input = "lets" THEN {"lettypes"} ELSE {})
  <2>1. /\ phase = "parse" /\ phase' = "release" /\ next <= Len(args.input)
        /\ Input # "fatal" /\ mem' = Holds(held)
        /\ UNCHANGED <<next, opened, exit>>
    BY <1>9 DEF Parsed, InFile
  <2>2. /\ opened = next /\ TargetOK /\ Input \in File /\ Input # "unlexable"
        /\ HeldOfFile({"source", "name", "tokens"}, next - 1)
    BY <2>1 DEF MainInv, InLoop
  <2>3. \A o \in Owner : mem'[o] = IF o \in held THEN mem[o] + 1 ELSE mem[o]
    <3> HIDE DEF held
    <3>1. QED
      BY <1>1, <2>1 DEF Holds
  <2>4. HeldOfFile({"source", "name", "tokens", "tree"}, next)'
    <3>1. \A o \in Outside \ {"lettypes"} :
             mem'[o] = IF o \in {"source", "name", "tokens", "tree"} THEN 1 ELSE 0
      BY <2>2, <2>3 DEF HeldOfFile, Outside, Owner
    <3>2. mem'["lettypes"] = mem["lettypes"] + (IF Input = "lets" THEN 1 ELSE 0)
      BY <1>1, <2>3 DEF Owner
    <3>3. mem["lettypes"] = Cardinality(Gone(next - 1))
      BY <2>2 DEF HeldOfFile
    <3>4. Cardinality(Gone((next - 1) + 1)) =
             Cardinality(Gone(next - 1))
               + (IF args.input[(next - 1) + 1] = "lets" THEN 1 ELSE 0)
      BY <1>1, <1>4, GoneOn
    <3>5. (next - 1) + 1 = next
      BY <1>1
    <3>6. mem'["lettypes"] = Cardinality(Gone(next))
      BY <3>2, <3>3, <3>4, <3>5 DEF Input
    <3>7. Gone(next)' = Gone(next)
      BY <1>2, <2>1 DEF Gone
    <3>8. QED
      BY <3>1, <3>6, <3>7 DEF HeldOfFile
  <2>5. Compiling' => InLoop'
    BY <1>1, <1>2, <2>1, <2>2, <2>4 DEF InLoop, TargetOK, Input, File
  <2>6. mem' \in [Owner -> Nat] /\ \A o \in Owner \ Outside : mem'[o] = mem[o]
    <3>1. mem' \in [Owner -> Nat]
      <4> HIDE DEF held
      <4>1. QED
        BY <1>1, <2>1 DEF Holds
    <3>2. QED
      BY <2>3, <3>1 DEF Outside
  <2>7. /\ \A o \in Outside \ {"lettypes"} : mem'[o] <= 1
        /\ mem'["lettypes"] <= Len(args.input)
    <3>1. mem'["lettypes"] = Cardinality(Gone(next))
      BY <1>2, <2>1, <2>4 DEF HeldOfFile, Gone
    <3>2. Cardinality(Gone(next)) <= next /\ Cardinality(Gone(next)) \in Nat
      BY <1>1, GoneOn
    <3>3. mem'["lettypes"] <= Len(args.input)
      BY <1>1, <2>1, <3>1, <3>2
    <3>4. QED
      BY <2>4, <3>3 DEF HeldOfFile
  <2>8. QED
    BY <1>1, <1>2, <1>3, <2>1, <2>5, <2>6, <2>7, LoopStep DEF Loop
<1>10. CASE ReleaseFile
  <2>1. /\ phase = "release" /\ phase' = "files" /\ next <= Len(args.input)
        /\ mem' = Releases({"tree", "tokens", "source", "name"})
        /\ next' = next + 1 /\ UNCHANGED <<opened, exit>>
    BY <1>10 DEF ReleaseFile, InFile
  <2>2. /\ opened = next /\ TargetOK /\ Input \in {"clean", "lets"}
        /\ HeldOfFile({"source", "name", "tokens", "tree"}, next)
    BY <2>1 DEF MainInv, InLoop
  <2>3. \A o \in Owner :
           mem'[o] = IF o \in {"tree", "tokens", "source", "name"} /\ mem[o] > 0
                     THEN mem[o] - 1 ELSE mem[o]
    BY <1>1, <2>1 DEF Releases
  <2>4. next' - 1 = next /\ next' \in Nat /\ 1 <= next'
        /\ next' <= Len(args.input) + 1
    BY <1>1, <2>1
  <2>5. HeldOfFile({}, next - 1)'
    <3>1. Gone(next - 1)' = Gone(next)
      BY <1>2, <2>4 DEF Gone
    <3>2. \A o \in Outside \ {"lettypes"} : mem'[o] = 0
      BY <2>2, <2>3 DEF HeldOfFile, Outside, Owner
    <3>3. mem'["lettypes"] = Cardinality(Gone(next))
      BY <2>2, <2>3 DEF HeldOfFile, Owner
    <3>4. QED
      BY <3>1, <3>2, <3>3 DEF HeldOfFile
  <2>6. Compiling' => InLoop'
    BY <1>1, <2>1, <2>2, <2>4, <2>5 DEF InLoop
  <2>7. \A i \in 1 .. next' - 1 : Good(i)
    <3>1. Good(next)
      BY <1>1, <2>2 DEF Good, Input
    <3>2. \A i \in 1 .. next : i \in 1 .. next - 1 \/ i = next
      BY <1>1
    <3>3. QED
      BY <1>3, <2>4, <3>1, <3>2
  <2>8. mem' \in [Owner -> Nat] /\ \A o \in Owner \ Outside : mem'[o] = mem[o]
    BY <1>1, <2>1 DEF Releases, Outside
  <2>9. /\ \A o \in Outside \ {"lettypes"} : mem'[o] <= 1
        /\ mem'["lettypes"] = mem["lettypes"]
    BY <2>3, <2>5 DEF HeldOfFile, Owner
  <2>10. QED
    BY <1>1, <1>2, <1>4, <2>1, <2>2, <2>4, <2>6, <2>7, <2>8, <2>9, LoopStep
    DEF Loop
<1>11. CASE FilesEnd
  <2>1. /\ phase = "files" /\ phase' = "cleanup" /\ ~(next <= Len(args.input))
        /\ UNCHANGED <<mem, next, opened, exit>>
    BY <1>1, <1>11 DEF FilesEnd
  <2>2. HeldOfFile({}, next - 1)
    BY <2>1 DEF MainInv, InLoop
  <2>3. HeldOfFile({}, next - 1)'
    BY <1>2, <2>1, <2>2 DEF HeldOfFile, Gone
  <2>4. Compiling' => InLoop'
    BY <1>1, <1>2, <2>1, <2>2, <2>3 DEF InLoop, TargetOK, Input
  <2>5. \A o \in Outside \ {"lettypes"} : mem'[o] <= 1
    BY <2>3 DEF HeldOfFile
  <2>6. QED
    BY <1>1, <1>2, <1>3, <1>4, <2>1, <2>4, <2>5, LoopStep DEF Loop
<1>12. QED
  BY <1>6, <1>7, <1>8, <1>9, <1>10, <1>11

(***************************************************************************)
(* How compiling ends.                                                     *)
(***************************************************************************)
\* The file at which the loop stops is the first that is not good.
LEMMA FirstStopIs ==
    ASSUME MainTyped, NEW k \in Nat, 1 <= k, k <= Len(args.input) + 1,
           \A i \in 1 .. k - 1 : Good(i),
           k <= Len(args.input) => ~Good(k)
    PROVE  FirstStop = k /\ Lets = Gone(k - 1)
<1> DEFINE n == Len(args.input)
           bad == { i \in 1 .. n : args.input[i] \notin {"clean", "lets"}
                                     \/ i > MaxOpen } \cup {n + 1}
<1>1. n \in Nat /\ MaxOpen \in Nat
  BY MainAssumption DEF MainTyped, Args0
<1>2. \A i \in 1 .. n : i \in bad <=> ~Good(i)
  BY <1>1 DEF Good
<1>3. k \in bad
  <2>1. CASE k <= n
    <3>1. k \in 1 .. n
      BY <2>1
    <3>2. QED
      BY <1>2, <2>1, <3>1
  <2>2. CASE k = n + 1
    BY <2>2
  <2>3. QED
    BY <1>1, <2>1, <2>2
<1>4. \A i \in bad : k <= i /\ i \in Nat
  <2> SUFFICES ASSUME NEW i \in bad PROVE k <= i /\ i \in Nat
    OBVIOUS
  <2>1. i \in 1 .. n \/ i = n + 1
    OBVIOUS
  <2>2. i \in Nat /\ 1 <= i
    BY <1>1, <2>1
  <2>3. ASSUME i < k PROVE FALSE
    <3>1. i \in 1 .. n /\ i \in 1 .. k - 1
      BY <1>1, <2>2, <2>3
    <3>2. QED
      BY <1>2, <3>1
  <2>4. QED
    BY <2>2, <2>3
<1>5. FirstStop = Min(bad)
  BY DEF FirstStop
<1> HIDE DEF bad
<1>6. \A x \in bad : (\A y \in bad : x <= y) => x = k
  BY <1>3, <1>4
<1>7. Min(bad) = k
  <2>1. \E x \in bad : \A y \in bad : x <= y
    BY <1>3, <1>4
  <2>2. Min(bad) \in bad /\ \A y \in bad : Min(bad) <= y
    BY <2>1, Zenon DEF Min
  <2>3. QED
    BY <1>6, <2>2
<1>8. Min({k - 1, n}) = k - 1
  <2>1. k - 1 \in Nat /\ k - 1 <= n
    BY <1>1
  <2>2. QED
    BY <1>1, <2>1, MinOfTwo
<1>9. QED
  BY <1>5, <1>7, <1>8 DEF Lets, Gone

\* All places that are looked at are before the end.
LEMMA AllGiven ==
    ASSUME MainTyped, Reading, at > Len(argv), NEW word
    PROVE  Times(word) = Cardinality(Given(word, at))
<1>1. \A i \in Looked : i < at
  BY LookedFollows DEF MainTyped
<1>2. Given(word, at) = { i \in Looked : argv[i] = word }
  BY <1>1 DEF Given, Before
<1>3. QED
  BY <1>2 DEF Times

\* What the properties of the end are about stays the same as it ends.
LEMMA SameAtEnd ==
    ASSUME UNCHANGED <<argv, at, args>>
    PROVE  /\ FirstStop' = FirstStop /\ Lets' = Lets
           /\ \A word : Times(word)' = Times(word)
           /\ NothingLeaks' = NothingLeaks /\ Status' = Status
<1>1. FirstStop' = FirstStop
  BY DEF FirstStop
<1>2. Lets' = Lets
  BY <1>1 DEF Lets
<1>3. \A word : Times(word)' = Times(word)
  BY LookedSame DEF Times
<1>4. NothingLeaks' = NothingLeaks
  BY <1>2, <1>3 DEF NothingLeaks
<1>5. QED
  BY <1>1, <1>2, <1>3, <1>4 DEF Status

\* A target or a file cannot be had, or the parser ends the program.
LEMMA LoopEnds ==
    ASSUME MainInv, TargetUnknown \/ TargetInvalid \/ SourceFails \/ ParseDies
    PROVE  MainInv'
<1>1. /\ MainTyped /\ next \in Nat /\ 1 <= next
      /\ next <= Len(args.input) + 1 /\ Len(args.input) \in Nat
      /\ opened \in Nat /\ MaxOpen \in Nat /\ args.input \in Seq(Word)
  BY MainAssumption DEF MainInv, MainTyped, Args0
<1>2. /\ next <= Len(args.input) /\ phase \in Loop
      /\ UNCHANGED <<argv, at, args, mem, next, opened>>
  BY DEF TargetUnknown, TargetInvalid, SourceFails, ParseDies, TargetMade, InFile,
     Loop
<1>3. Compiling /\ \A i \in 1 .. next - 1 : Good(i)
  BY <1>2 DEF MainInv, InLoop, Loop, Compiling
<1>4. args.input # <<>>
  BY <1>1, <1>2
<1>5. ~Good(next) => FirstStop = next
  BY <1>1, <1>3, FirstStopIs
<1>6. CASE TargetUnknown
  <2>1. ~TargetOK /\ Ends("crash")
    BY <1>6 DEF TargetUnknown, TargetOK
  <2>2. args.target # None /\ args.target # "triple"
    BY <2>1 DEF TargetOK
  <2>3. EndsAsFilesSay' /\ OnlyTheseLeak'
    BY <1>2, <1>4, <2>1, <2>2 DEF EndsAsFilesSay, OnlyTheseLeak, Ends
  <2>4. QED
    BY <1>2, <2>1, <2>3, Ending DEF None
<1>7. CASE TargetInvalid
  <2>1. args.target = "triple" /\ Ends("-1")
    BY <1>7 DEF TargetInvalid
  <2>2. EndsAsFilesSay' /\ OnlyTheseLeak'
    BY <1>2, <1>4, <2>1 DEF EndsAsFilesSay, OnlyTheseLeak, Ends, None
  <2>3. QED
    BY <1>2, <2>1, <2>2, Ending DEF None
<1>8. CASE SourceFails
  <2>1. /\ TargetOK /\ Ends("-1") /\ phase = "files"
        /\ Input \notin File \/ opened = MaxOpen
    BY <1>8 DEF SourceFails, TargetMade, TargetOK, InFile
  <2>2. opened = next - 1
    BY <2>1 DEF MainInv, InLoop
  <2>3. ~Good(next) /\ (next > MaxOpen \/ Input \notin File)
    BY <1>1, <2>1, <2>2 DEF Good, Input, File
  <2>4. Status = "-1"
    BY <1>1, <1>2, <1>5, <2>3 DEF Status, Input
  <2>5. EndsAsFilesSay' /\ OnlyTheseLeak'
    <3>1. Status' = "-1" /\ exit' = "-1"
      BY <1>2, <2>1, <2>4, SameAtEnd DEF Ends
    <3>2. QED
      BY <1>2, <2>1, <3>1 DEF EndsAsFilesSay, OnlyTheseLeak, TargetOK
  <2>6. QED
    BY <1>2, <2>1, <2>5, Ending DEF None
<1>9. CASE ParseDies
  <2>1. /\ Input = "fatal" /\ Ends("fatal") /\ phase = "parse"
    BY <1>9 DEF ParseDies, InFile
  <2>2. opened = next /\ TargetOK /\ opened <= MaxOpen
    BY <2>1 DEF MainInv, InLoop, MainTyped
  <2>3. ~Good(next)
    BY <2>1 DEF Good, Input
  <2>4. Status = "fatal"
    <3>1. FirstStop = next /\ ~(next > Len(args.input)) /\ ~(next > MaxOpen)
      BY <1>1, <1>2, <1>5, <2>2, <2>3
    <3>2. args.input[FirstStop] = "fatal" /\ "fatal" \in File
      BY <2>1, <3>1 DEF Input, File
    <3>3. QED
      BY <3>1, <3>2 DEF Status
  <2>5. EndsAsFilesSay' /\ OnlyTheseLeak'
    <3>1. Status' = "fatal" /\ exit' = "fatal"
      BY <1>2, <2>1, <2>4, SameAtEnd DEF Ends
    <3>2. QED
      BY <1>2, <2>2, <3>1 DEF EndsAsFilesSay, OnlyTheseLeak, TargetOK
  <2>6. QED
    BY <1>2, <2>1, <2>5, Ending DEF None
<1>10. QED
  BY <1>6, <1>7, <1>8, <1>9

\* What is left when the arguments and the types are released.
Leaks(o) ==
    CASE o = "output" -> Max({Times("--output") - 1, 0})
      [] o = "target" -> Max({Times("--target") - 1, 0})
      [] o = "lettypes" -> Cardinality(Lets)
      [] o \in {"source", "name"} -> IF FirstStop <= Len(args.input) THEN 1 ELSE 0
      [] OTHER -> 0

\* One less than a number, but not less than none.
LEMMA OneLess ==
    ASSUME NEW c \in Nat
    PROVE  Max({c - 1, 0}) = IF c > 0 THEN c - 1 ELSE c
<1>1. CASE c > 0
  <2>1. c - 1 \in Nat
    BY <1>1
  <2>2. QED
    BY <1>1, <2>1, MaxOfTwo
<1>2. CASE c = 0
  <2>1. \A y \in {c - 1, 0} : 0 >= y
    BY <1>2
  <2>2. \A x \in {c - 1, 0} : (\A y \in {c - 1, 0} : x >= y) => x = 0
    BY <1>2
  <2>3. Max({c - 1, 0}) \in {c - 1, 0}
        /\ \A y \in {c - 1, 0} : Max({c - 1, 0}) >= y
    BY <2>1, Zenon DEF Max
  <2>4. QED
    BY <1>2, <2>2, <2>3
<1>3. QED
  BY <1>1, <1>2

\* main_cleanup.
LEMMA CleansUp ==
    ASSUME MainInv, Cleanup
    PROVE  MainInv'
<1>1. /\ MainTyped /\ next \in Nat /\ 1 <= next
      /\ next <= Len(args.input) + 1 /\ Len(args.input) \in Nat
      /\ opened \in Nat /\ MaxOpen \in Nat /\ args.input \in Seq(Word)
      /\ mem \in [Owner -> Nat]
  BY MainAssumption DEF MainInv, MainTyped, Args0
<1>2. /\ phase = "cleanup" /\ UNCHANGED <<argv, at, args, next, opened>>
      /\ mem' = Releases(ArgOwners \cup {"types"})
      /\ Ends(IF mem' = NoMem THEN "0" ELSE "panic")
  BY DEF Cleanup
<1>3. /\ Compiling /\ \A i \in 1 .. next - 1 : Good(i)
      /\ IF next <= Len(args.input)
         THEN /\ Input = "unlexable" /\ next <= MaxOpen /\ TargetOK
              /\ HeldOfFile({"source", "name"}, next - 1)
         ELSE HeldOfFile({}, next - 1)
  BY <1>2 DEF MainInv, InLoop, Compiling
<1>4. FirstStop = next /\ Lets = Gone(next - 1)
  <2>1. next <= Len(args.input) => ~Good(next)
    BY <1>3 DEF Good, Input
  <2>2. QED
    BY <1>1, <1>3, <2>1, FirstStopIs
<1>5. /\ mem["output"] = Times("--output") /\ mem["target"] = Times("--target")
      /\ mem["input"] = 1 /\ mem["lsp"] = 0 /\ mem["types"] = 1
      /\ Times("--output") \in Nat /\ Times("--target") \in Nat
  <2>1. /\ Times("--output") = Cardinality(Given("--output", at))
        /\ Times("--target") = Cardinality(Given("--target", at))
    BY <1>1, <1>3, AllGiven DEF Compiling
  <2>2. QED
    BY <1>1, <1>3, <2>1, Finite DEF Compiling, Reading
<1>6. /\ \A o \in {"source", "name"} :
            mem[o] = IF FirstStop <= Len(args.input) THEN 1 ELSE 0
      /\ mem["tokens"] = 0 /\ mem["tree"] = 0
      /\ mem["lettypes"] = Cardinality(Lets)
  BY <1>3, <1>4 DEF HeldOfFile, Outside
<1>7. \A o \in Owner : mem'[o] = Leaks(o)
  <2>1. \A o \in Owner :
           mem'[o] = IF o \in ArgOwners \cup {"types"} /\ mem[o] > 0
                     THEN mem[o] - 1 ELSE mem[o]
    BY <1>2 DEF Releases
  <2>2. mem'["output"] = Leaks("output") /\ mem'["target"] = Leaks("target")
    BY <1>5, <2>1, OneLess DEF Owner, ArgOwners, Leaks
  <2>3. /\ mem'["input"] = 0 /\ mem'["lsp"] = 0 /\ mem'["types"] = 0
    BY <1>5, <2>1 DEF Owner, ArgOwners
  <2>4. /\ \A o \in {"source", "name"} :
              mem'[o] = IF FirstStop <= Len(args.input) THEN 1 ELSE 0
        /\ mem'["tokens"] = 0 /\ mem'["tree"] = 0
        /\ mem'["lettypes"] = Cardinality(Lets)
    BY <1>6, <2>1 DEF Owner, ArgOwners
  <2>5. QED
    BY <2>2, <2>3, <2>4 DEF Owner, Leaks
<1>8. mem' = [o \in Owner |-> Leaks(o)]
  BY <1>2, <1>7 DEF Releases
<1>9. mem' = [NoMem EXCEPT
            !["source"] = IF FirstStop <= Len(args.input) THEN 1 ELSE 0,
            !["name"] = IF FirstStop <= Len(args.input) THEN 1 ELSE 0,
            !["lettypes"] = Cardinality(Lets),
            !["output"] = Max({Times("--output") - 1, 0}),
            !["target"] = Max({Times("--target") - 1, 0})]
  BY <1>8 DEF Leaks, NoMem, Owner
<1>10. OnlyTheseLeak'
  BY <1>2, <1>9, SameAtEnd DEF OnlyTheseLeak
<1>11. mem' = NoMem <=> FirstStop > Len(args.input) /\ NothingLeaks
  <2>1. mem' = NoMem <=> \A o \in Owner : Leaks(o) = 0
    BY <1>8 DEF NoMem
  <2>2. Lets = {} <=> Leaks("lettypes") = 0
    <3>1. next - 1 \in Nat
      BY <1>1
    <3>2. QED
      BY <1>1, <1>4, <3>1, GoneOn DEF Leaks
  <2>3. /\ Times("--output") <= 1 <=> Leaks("output") = 0
        /\ Times("--target") <= 1 <=> Leaks("target") = 0
    BY <1>5, OneLess DEF Leaks
  <2>4. FirstStop > Len(args.input) <=> Leaks("source") = 0 /\ Leaks("name") = 0
    BY <1>1, <1>4 DEF Leaks
  <2>5. /\ \A o \in Owner \ {"output", "target", "lettypes", "source", "name"} :
              Leaks(o) = 0
        /\ {"output", "target", "lettypes", "source", "name"} \subseteq Owner
    BY DEF Leaks, Owner
  <2>6. QED
    BY <2>1, <2>2, <2>3, <2>4, <2>5 DEF NothingLeaks
<1>12. exit' = Status
  <2>1. exit' = IF mem' = NoMem THEN "0" ELSE "panic"
    BY <1>2 DEF Ends
  <2>2. CASE next <= Len(args.input)
    <3>1. Status = "panic"
      BY <1>1, <1>3, <1>4, <2>2 DEF Status, Input, File
    <3>2. ~(FirstStop > Len(args.input))
      BY <1>1, <1>4, <2>2
    <3>3. QED
      BY <1>11, <2>1, <3>1, <3>2
  <2>3. CASE ~(next <= Len(args.input))
    <3>1. FirstStop > Len(args.input)
      BY <1>1, <1>4, <2>3
    <3>2. QED
      BY <1>11, <2>1, <3>1 DEF Status
  <2>4. QED
    BY <2>2, <2>3
<1>13. args.input = <<>> \/ TargetOK
  BY <1>1, <1>3 DEF Compiling
<1>14. EndsAsFilesSay'
  BY <1>2, <1>12, <1>13, SameAtEnd DEF EndsAsFilesSay, TargetOK
<1>15. QED
  <2>1. (IF mem' = NoMem THEN "0" ELSE "panic") # None
    BY DEF None
  <2>2. QED
    BY <1>2, <1>10, <1>14, <2>1, Ending
-----------------------------------------------------------------------------
(***************************************************************************)
(* The theorems.                                                           *)
(***************************************************************************)
\* The program begins with the words of the command line.
LEMMA MainInitInv == Init => MainInv
<1> SUFFICES ASSUME MainInit PROVE MainInv
  BY DEF Init
<1> USE DEF MainInit
<1>1. PICK n \in 0 .. MaxArgs : argv \in [1 .. n -> Word]
  OBVIOUS
<1>2. argv \in Seq(Word) /\ Len(argv) <= MaxArgs
  BY <1>1, MainAssumption
<1>3. args \in Args0 /\ args.cap > 0 /\ args.input = <<>> /\ Len(args.input) = 0
  BY MainAssumption DEF NoArgs, Args0
<1>4. mem \in [Owner -> Nat] /\ \A o \in Owner : mem[o] = 0
  BY DEF NoMem
<1>5. MainTyped
  <2>1. MaxArgs \in Nat /\ MaxOpen \in Nat
    BY MainAssumption
  <2>2. phase = "ended" <=> exit # None
    BY DEF None
  <2>3. args.cap \in Nat
    BY <1>3 DEF Args0
  <2>4. QED
    BY <1>2, <1>3, <1>4, <2>1, <2>2, <2>3 DEF MainTyped
<1>6. MemSmall
  <2>1. \A o \in {"output", "target", "lsp"} : mem[o] = 0
    BY <1>4 DEF Owner
  <2>2. mem["lettypes"] = 0
    BY <1>4 DEF Owner
  <2>3. QED
    BY <1>3, <1>4, <2>1, <2>2 DEF MemSmall
<1>7. Started /\ ReadingArgs /\ Serving /\ InLoop
  BY DEF Started, ReadingArgs, Serving, InLoop
<1>8. EndsAsFilesSay /\ OnlyTheseLeak
  BY DEF EndsAsFilesSay, OnlyTheseLeak, Compiled
<1>9. QED
  BY <1>5, <1>6, <1>7, <1>8 DEF MainInv

\* Every step of the program preserves the invariant, those of the language
\* server as well.
LEMMA MainNextInv == MainInv /\ [Next]_vars => MainInv'
<1> SUFFICES ASSUME MainInv, [Next]_vars PROVE MainInv'
  OBVIOUS
<1>1. CASE TooFewArgs \/ ArgMissing \/ ArgLspMissing \/ ArgLspDashed \/ Help
             \/ LspBadType \/ LspReturns
  BY <1>1, ArgsEndEarly
<1>2. CASE MakeArgs
  BY <1>2, MakesArgs
<1>3. CASE ArgHelp \/ ArgFlag \/ ArgOutput \/ ArgTarget \/ ArgLsp \/ ArgInput
  BY <1>3, ArgSteps
<1>4. CASE MainStart
  BY <1>4, StartsMain
<1>5. CASE MakeSrc \/ LexFails \/ Lexed \/ Parsed \/ ReleaseFile \/ FilesEnd
  BY <1>5, LoopSteps
<1>6. CASE TargetUnknown \/ TargetInvalid \/ SourceFails \/ ParseDies
  BY <1>6, LoopEnds
<1>7. CASE Cleanup
  BY <1>7, CleansUp
<1>8. CASE LspStep \/ UNCHANGED vars
  <2>1. UNCHANGED <<argv, at, args, mem, next, opened, phase, exit>>
    BY <1>8 DEF LspStep, vars, mainVars
  <2>2. Looked' = Looked /\ Reading' = Reading
    BY <2>1, LookedSame DEF Reading, Given, Inputs, Before
  <2>3. /\ MainTyped' /\ MemSmall' /\ Started' /\ ReadingArgs' /\ Serving'
    BY <2>1, <2>2
    DEF MainInv, MainTyped, MemSmall, Started, ReadingArgs, Serving
  <2>4. InLoop'
    BY <2>1, <2>2
    DEF MainInv, InLoop, Compiling, HeldOfFile, Gone, Good, TargetOK, Input
  <2>5. EndsAsFilesSay' /\ OnlyTheseLeak'
    <3>1. Compiled' = Compiled
      BY <2>1 DEF Compiled
    <3>2. /\ FirstStop' = FirstStop /\ Lets' = Lets /\ Status' = Status
          /\ Times("--output")' = Times("--output")
          /\ Times("--target")' = Times("--target")
      BY <2>1, SameAtEnd
    <3>3. EndsAsFilesSay'
      BY <2>1, <3>1, <3>2 DEF MainInv, EndsAsFilesSay
    <3>4. OnlyTheseLeak'
      BY <2>1, <3>1, <3>2 DEF MainInv, OnlyTheseLeak
    <3>5. QED
      BY <3>3, <3>4
  <2>6. QED
    BY <2>3, <2>4, <2>5 DEF MainInv
<1>9. QED
  BY <1>1, <1>2, <1>3, <1>4, <1>5, <1>6, <1>7, <1>8
  DEF Next, Args, CompileFiles, LspMode

\* So it always holds.
LEMMA MainAlwaysInv == Spec => []MainInv
BY MainInitInv, MainNextInv, PTL DEF Spec

\* Of the language server the program makes no steps but its own.
THEOREM MainRunsLsp == Spec => LspSpec
<1>1. Init => LspInit
  BY DEF Init
<1>2. [Next]_vars => [LspNext]_lspVars
  BY DEF Next, LspMode, LspBadType, LspStep, LspReturns, vars
<1>3. QED
  BY <1>1, <1>2, PTL DEF Spec, LspSpec

\* Whatever the command line is.
THEOREM MainTypeCorrect == Spec => []TypeOK
<1>1. MainInv /\ LspTypeOK => TypeOK
  <2> SUFFICES ASSUME MainInv, LspTypeOK PROVE TypeOK
    OBVIOUS
  <2>1. /\ MainTyped /\ MemSmall /\ args.input \in Seq(Word)
        /\ Len(args.input) \in Nat /\ MaxArgs \in Nat /\ mem \in [Owner -> Nat]
    BY MainAssumption DEF MainInv, MainTyped, Args0
  <2>2. mem \in [Owner -> 0 .. MaxArgs]
    <3>1. CASE mem = NoMem
      BY <2>1, <3>1 DEF NoMem
    <3>2. CASE mem # NoMem
      <4>1. MaxArgs > 0
        BY <2>1, <3>2 DEF MemSmall
      <4>2. ASSUME NEW o \in Owner PROVE mem[o] <= MaxArgs
        <5>1. mem[o] \in Nat /\ at \in Nat /\ at <= MaxArgs + 1
              /\ Len(args.input) < at
          BY <2>1 DEF MainTyped
        <5>2. CASE o \in {"output", "target", "lsp"}
          <6>1. mem[o] < at
            BY <2>1, <5>2 DEF MemSmall
          <6>2. QED
            BY <2>1, <5>1, <6>1
        <5>3. CASE o = "lettypes"
          <6>1. mem[o] <= Len(args.input)
            BY <2>1, <5>3 DEF MemSmall
          <6>2. QED
            BY <2>1, <5>1, <6>1
        <5>4. CASE o \notin {"output", "target", "lsp", "lettypes"}
          <6>1. mem[o] <= 1
            BY <2>1, <5>4 DEF MemSmall
          <6>2. QED
            BY <2>1, <4>1, <5>1, <6>1
        <5>5. QED
          BY <5>2, <5>3, <5>4
      <4>3. QED
        BY <2>1, <4>2
    <3>3. QED
      BY <3>1, <3>2
  <2>3. /\ \A i \in 1 .. Len(argv) : argv[i] \in Word
        /\ \A i \in 1 .. Len(args.input) : args.input[i] \in Word
    BY <2>1 DEF MainTyped
  <2>4. at \in 1 .. MaxArgs + 1 /\ next \in 1 .. Len(args.input) + 1
        /\ opened \in 0 .. MaxOpen /\ Len(args.input) <= args.cap
    BY <2>1, MainAssumption DEF MainTyped
  <2>5. (phase = "ended") = (exit # None)
    BY <2>1 DEF MainTyped
  <2>6. phase \in {"start", "args", "lsp", "files", "lex", "parse", "release",
                   "cleanup", "ended"}
    BY <2>1 DEF MainTyped
  <2>7. QED
    BY <2>2, <2>3, <2>4, <2>5, <2>6 DEF TypeOK
<1>2. QED
  BY <1>1, MainAlwaysInv, MainRunsLsp, LspTypeCorrect, PTL

\* The files compiled are the words that are files, in order.
THEOREM AlwaysInputsInOrder == Spec => []InputsInOrder
<1>1. MainInv => InputsInOrder
  <2> SUFFICES ASSUME MainInv, phase \in {"files", "lex", "parse", "release", "cleanup"}
               PROVE  LET inputs == { i \in Looked : argv[i] \notin Dashed \ {"--unknown"} }
                      IN  /\ Len(args.input) = Cardinality(inputs)
                          /\ \A i \in inputs :
                                args.input[Cardinality({ j \in inputs : j <= i })]
                                  = argv[i]
    BY DEF InputsInOrder
  <2>1. Reading /\ at > Len(argv) /\ MainTyped
    BY DEF MainInv, InLoop, Compiling
  <2>2. \A i \in Looked : i < at
    BY <2>1, LookedFollows DEF MainTyped
  <2>3. Inputs(at) = { i \in Looked : argv[i] \notin Dashed \ {"--unknown"} }
    BY <2>2 DEF Inputs, Before
  <2>4. QED
    BY <2>1, <2>3 DEF Reading
<1>2. QED
  BY <1>1, MainAlwaysInv, PTL

\* How the program ends is what its files and options say.
THEOREM AlwaysEndsAsFilesSay == Spec => []EndsAsFilesSay
<1>1. MainInv => EndsAsFilesSay
  BY DEF MainInv
<1>2. QED
  BY <1>1, MainAlwaysInv, PTL

\* What the leak check finds.
THEOREM AlwaysOnlyTheseLeak == Spec => []OnlyTheseLeak
<1>1. MainInv => OnlyTheseLeak
  BY DEF MainInv
<1>2. QED
  BY <1>1, MainAlwaysInv, PTL

\* What is proved of the language server holds of the program.
THEOREM ServerInMain ==
    Spec => /\ [](FramedAtBoundary /\ StopsOnlyFor /\ LeakPerMessage)
            /\ SlipsOnlyFor /\ ImplementsServer
<1>1. Spec => []FramedAtBoundary
  BY MainRunsLsp, AlwaysFramed
<1>2. Spec => []StopsOnlyFor
  BY MainRunsLsp, StopsForTheseOnly
<1>3. Spec => []LeakPerMessage
  BY MainRunsLsp, MessagesLeak
<1>4. Spec => ImplementsServer
  BY MainRunsLsp, ServerImplements
<1>5. Spec => SlipsOnlyFor
  BY MainRunsLsp, SlipsForThisOnly
<1>6. QED
  BY <1>1, <1>2, <1>3, <1>4, <1>5, PTL
=============================================================================
