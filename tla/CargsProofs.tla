---------------------------- MODULE CargsProofs ----------------------------
(***************************************************************************)
(* Proofs about Cargs, for every program and every argv: what parse does   *)
(* to the values, what it passes over, and what get_arg finds afterwards.  *)
(***************************************************************************)
EXTENDS Cargs, SequenceTheorems, TLAPS

-----------------------------------------------------------------------------
(* The inductive invariant. *)

\* The names that options and tokens go by.
Name == Token \cup {HelpName}
Short == {ShortName(n) : n \in Name} \cup {NoName}

Arg == [large : Name, short : Short, required : BOOLEAN, type : Types,
        parsed : BOOLEAN, no_default : BOOLEAN, value : Int]

\* The loop over the options runs on a token of argv.
Typed ==
  /\ argv \in Seq(Token) /\ args \in Seq(Arg)
  /\ \E p \in Programs : options = p.options
  /\ i \in 1 .. Argc /\ (pc = "add" => i = 1) /\ (pc = "option" => i \in 1 .. Len(argv))
  /\ j \in Nat /\ j >= 2

\* args holds --help and, in their order, the options registered so far.
IsOption(k) == args[k].large = options[k - 1].name /\ args[k].required = options[k - 1].required

Gone == {"helped", "failed", "freed"}

Rows ==
  /\ pc \notin Gone => Len(args) \in 1 .. Len(options) + 1 /\ args[1].large = HelpName
  /\ pc \in {"token", "option", "parsed"} => Len(args) = Len(options) + 1
  /\ \A k \in 2 .. Len(args) : IsOption(k)

\* The place where the name of a parsed option was found.
At(a) == IF a.type = "bool" THEN a.value ELSE a.value - 1

\* No value lies behind the token that the search has come to.
Placed ==
  \A k \in Opts : args[k].parsed =>
    /\ args[k].value \in 1 .. i /\ args[k].value \in 1 .. Len(argv)
    /\ At(args[k]) \in 1 .. Len(argv) /\ Names(args[k], argv[At(args[k])])

Unshared ==
  \A k, l \in Opts : TakesValue(k) /\ TakesValue(l) /\ args[k].value = args[l].value => k = l

\* parse has compared the token at p with option k, or passed over it.
Past(k, p) == pc \in {"token", "option", "parsed"} /\ (p < i \/ (pc = "option" /\ p = i /\ k < j))

\* Why an option of that name may be unparsed.
Excused(k, p) ==
  \/ p = Len(argv) /\ args[k].type # "bool"
  \/ \E l \in k + 1 .. Len(args) : TakesValue(l) /\ args[l].value = p
  \/ \E l \in 2 .. k - 1 : TakesValue(l) /\ args[l].value = p + 1

NoneMissed ==
  \A k \in 2 .. Len(args), p \in 1 .. Len(argv) :
    Past(k, p) /\ ~args[k].parsed /\ Names(args[k], argv[p]) => Excused(k, p)

Complete == pc = "parsed" => i >= Argc /\ ~Missing

IInv == Typed /\ Rows /\ FreesWhatItOwns /\ Placed /\ Unshared /\ NoneMissed /\ Complete

-----------------------------------------------------------------------------
(* cargs_init and add_arg. *)

(* What is registered is an option without a value of the command line. *)
LEMMA RegisteredFacts ==
  ASSUME NEW o, o.name \in Name, o.required \in BOOLEAN, o.type \in Types, o.default \in BOOLEAN,
         NEW a \in Registered(o)
  PROVE  /\ a \in Arg /\ a.large = o.name /\ a.required = o.required /\ ~a.parsed
         /\ ~(a.no_default /\ ~a.parsed) <=> a.value # NoValue
<1>1. PICK s \in {ShortName(o.name), NoName} :
        a = [large |-> o.name, short |-> s, required |-> o.required, type |-> o.type,
             parsed |-> FALSE, no_default |-> ~o.default,
             value |-> IF o.default THEN Default ELSE NoValue]
  BY DEF Registered
<1>2. s \in Short
  BY <1>1 DEF Short
<1>3. a.value # NoValue <=> o.default
  BY <1>1 DEF NoValue, Default
<1>4. a \in Arg
  BY <1>1, <1>2 DEF Arg, NoValue, Default
<1>5. a.large = o.name /\ a.required = o.required /\ a.no_default = ~o.default /\ a.parsed = FALSE
  BY <1>1
<1>6. ~(a.no_default /\ ~a.parsed) <=> o.default
  BY <1>5, Zenon
<1>7. QED
  BY <1>3, <1>4, <1>5, <1>6, Zenon

(* The program starts with the help argument only. *)
LEMMA InitIInv == ASSUME Init PROVE IInv
<1>1. PICK a \in Registered(Help) : args = << a >>
  BY DEF Init
<1>2. a \in Arg /\ a.large = HelpName /\ ~a.parsed /\ (~(a.no_default /\ ~a.parsed) <=> a.value # NoValue)
  <2>1. /\ Help.name = HelpName /\ Help.name \in Name /\ Help.required \in BOOLEAN
        /\ Help.type \in Types /\ Help.default \in BOOLEAN
    BY DEF Help, Name, Types
  <2>2. QED
    BY <2>1, RegisteredFacts
<1>3. args \in Seq(Arg) /\ Len(args) = 1 /\ args[1] = a
  BY <1>1, <1>2
<1>4. PICK p \in Programs : options = p.options /\ argv \in p.argv
  BY DEF Init
<1>5. argv \in Seq(Token) /\ options \in Seq(Option) /\ Len(argv) \in Nat /\ Len(options) \in Nat
  BY <1>4, ProgramsAssumption, LenProperties
<1>6. pc = "add" /\ i = 1 /\ j = 2
  BY DEF Init
<1>7. Typed
  BY <1>3, <1>4, <1>5, <1>6 DEF Typed, Argc
<1>8. Rows
  BY <1>2, <1>3, <1>5, <1>6 DEF Rows
<1>9. FreesWhatItOwns /\ Placed /\ Unshared
  BY <1>2, <1>3 DEF FreesWhatItOwns, FreesValueOf, Opts, Placed, Unshared, TakesValue
<1>10. NoneMissed /\ Complete
  BY <1>6 DEF NoneMissed, Past, Complete
<1>11. QED
  BY <1>7, <1>8, <1>9, <1>10 DEF IInv

(* The sorts of what the state is made of. *)
LEMMA TypeFacts ==
  ASSUME Typed
  PROVE  /\ Len(args) \in Nat /\ Len(argv) \in Nat /\ i \in Nat /\ j \in Nat /\ i >= 1
         /\ options \in Seq(Option) /\ Len(options) \in Nat
         /\ \A k \in Opts : args[k] \in Arg
BY ProgramsAssumption, LenProperties, ElementOfSeq DEF Typed, Opts, Argc

(* add_arg appends an argument that has no value yet. *)
LEMMA AddArgStep == ASSUME IInv, AddArg PROVE IInv'
<1>1. /\ Len(args) \in Nat /\ Len(argv) \in Nat /\ options \in Seq(Option) /\ Len(options) \in Nat
      /\ args \in Seq(Arg)
  BY TypeFacts DEF IInv, Typed
<1>2. /\ pc = "add" /\ pc' = "add" /\ Len(args) <= Len(options) /\ options' = options /\ argv' = argv
      /\ i' = i /\ j' = j
  BY DEF AddArg
<1>3. Len(args) \in 1 .. Len(options)
  BY <1>1, <1>2 DEF IInv, Rows, Gone
<1>4. PICK a \in Registered(options[Len(args)]) : args' = Append(args, a)
  BY DEF AddArg
<1>5. options[Len(args)] \in Option
  BY <1>1, <1>3, ElementOfSeq
<1>6. /\ a \in Arg /\ a.large = options[Len(args)].name /\ a.required = options[Len(args)].required
      /\ ~a.parsed /\ (~(a.no_default /\ ~a.parsed) <=> a.value # NoValue)
  <2> DEFINE o == options[Len(args)]
  <2>1. o.name \in Name /\ o.required \in BOOLEAN /\ o.type \in Types /\ o.default \in BOOLEAN
    BY <1>5 DEF Option, Name
  <2> HIDE DEF o
  <2>2. a \in Registered(o)
    BY <1>4 DEF o
  <2>3. /\ a \in Arg /\ a.large = o.name /\ a.required = o.required
        /\ ~a.parsed /\ (~(a.no_default /\ ~a.parsed) <=> a.value # NoValue)
    BY <2>1, <2>2, RegisteredFacts
  <2>4. QED
    BY <2>3 DEF o
<1>7. /\ args' \in Seq(Arg) /\ Len(args') = Len(args) + 1 /\ args'[Len(args) + 1] = a
      /\ \A k \in 1 .. Len(args) : args'[k] = args[k]
  BY <1>1, <1>4, <1>6, AppendProperties
<1>8. \A k \in 1 .. Len(args') : k \in 1 .. Len(args) \/ k = Len(args) + 1
  BY <1>1, <1>7
<1>9. Typed'
  BY <1>2, <1>7 DEF IInv, Typed, Argc
<1>10. Rows'
  <2>1. ASSUME NEW k \in 2 .. Len(args') PROVE IsOption(k)'
    <3>1. CASE k \in 2 .. Len(args)
      BY <1>1, <1>2, <1>7, <3>1 DEF IInv, Rows, IsOption
    <3>2. CASE k = Len(args) + 1
      <4>1. k - 1 = Len(args)
        BY <1>1, <3>2
      <4>2. QED
        BY <1>2, <1>6, <1>7, <3>2, <4>1 DEF IsOption
    <3>3. k \in 2 .. Len(args) \/ k = Len(args) + 1
      BY <1>1, <1>7
    <3>4. QED
      BY <3>1, <3>2, <3>3
  <2>2. args'[1] = args[1] /\ Len(args') \in 1 .. Len(options) + 1
    BY <1>1, <1>3, <1>7
  <2>3. QED
    BY <1>2, <2>1, <2>2 DEF IInv, Rows, Gone
<1>11. FreesWhatItOwns'
  BY <1>6, <1>7, <1>8 DEF IInv, FreesWhatItOwns, FreesValueOf, Opts
<1>12. Placed' /\ Unshared'
  BY <1>2, <1>6, <1>7, <1>8 DEF IInv, Placed, Unshared, TakesValue, Opts, Names, At
<1>13. NoneMissed' /\ Complete'
  BY <1>2 DEF NoneMissed, Past, Complete
<1>14. QED
  BY <1>9, <1>10, <1>11, <1>12, <1>13 DEF IInv

-----------------------------------------------------------------------------
(* The steps of parse that leave the options alone. *)

(* A step that only moves the loops on: to the next token or to the next
   option, or to the end, and lets go of no name that it has not compared. *)
LEMMA LoopStep ==
  ASSUME IInv, UNCHANGED << options, argv, args >>, pc' \in {"token", "option", "parsed"},
         pc \notin Gone, Len(args) = Len(options) + 1,
         i' \in i .. Argc, pc' = "option" => i' \in 1 .. Len(argv), j' \in Nat, j' >= 2,
         pc' = "parsed" => i' >= Argc /\ ~Missing,
         \A k \in 2 .. Len(args), p \in 1 .. Len(argv) :
           Past(k, p)' /\ ~args[k].parsed /\ Names(args[k], argv[p]) => Past(k, p) \/ Excused(k, p)
  PROVE  IInv'
<1>1. Len(args) \in Nat /\ Len(argv) \in Nat /\ i \in Nat /\ i >= 1
  BY TypeFacts DEF IInv
<1>2. Typed'
  BY <1>1 DEF IInv, Typed, Argc
<1>3. Rows'
  BY DEF IInv, Rows, IsOption, Gone
<1>4. FreesWhatItOwns' /\ Unshared'
  BY DEF IInv, FreesWhatItOwns, FreesValueOf, Opts, Unshared, TakesValue
<1>5. Placed'
  <2>1. \A v \in 1 .. i : v \in 1 .. i'
    BY <1>1 DEF Argc
  <2>2. QED
    BY <2>1 DEF IInv, Placed, Opts, Names, At
<1>6. NoneMissed'
  <2>1. \A k, p : Excused(k, p)' <=> Excused(k, p)
    BY DEF Excused, TakesValue
  <2>2. ASSUME NEW k \in 2 .. Len(args), NEW p \in 1 .. Len(argv), Past(k, p)', ~args[k].parsed,
               Names(args[k], argv[p])
        PROVE  Excused(k, p)
    BY <2>2 DEF IInv, NoneMissed
  <2>3. QED
    BY <2>1, <2>2 DEF NoneMissed, Names
<1>7. Complete'
  BY DEF Complete, Missing, Argc
<1>8. QED
  BY <1>2, <1>3, <1>4, <1>5, <1>6, <1>7 DEF IInv

(* parse begins with the first token. *)
LEMMA ParseStartStep == ASSUME IInv, ParseStart PROVE IInv'
<1>1. /\ pc = "add" /\ pc' = "token" /\ UNCHANGED << options, argv, args, i, j >>
      /\ Len(args) = Len(options) + 1
  BY DEF ParseStart
<1>2. i \in Nat /\ i \in 1 .. Argc /\ j \in Nat /\ j >= 2
  BY TypeFacts DEF IInv, Typed
<1>3. i = 1 /\ \A k, p : p \in 1 .. Len(argv) => ~Past(k, p)'
  <2>1. i = 1
    BY <1>1 DEF IInv, Typed
  <2>2. QED
    BY <1>1, <2>1, TypeFacts DEF Past, IInv
<1>4. pc' # "option" /\ pc' # "parsed" /\ pc \notin Gone /\ i' \in i .. Argc
  BY <1>1, <1>2, TypeFacts DEF Gone, Argc, IInv
<1>5. QED
  BY <1>1, <1>2, <1>3, <1>4, LoopStep

\* What the rest of the steps of parse may use.
LEMMA ParseFacts ==
  ASSUME IInv, pc \in {"token", "option"}
  PROVE  /\ pc \notin Gone /\ Len(args) = Len(options) + 1 /\ Len(args) \in Nat
         /\ Len(argv) \in Nat /\ i \in Nat /\ i \in 1 .. Argc /\ j \in Nat /\ j >= 2
         /\ args \in Seq(Arg) /\ \A k \in Opts : args[k] \in Arg
BY TypeFacts DEF IInv, Typed, Rows, Gone

(* On to the next token: what the last one passed is passed for good. *)
LEMMA TokenNextStep == ASSUME IInv, TokenNext PROVE IInv'
<1>1. /\ pc = "token" /\ pc' = "option" /\ i < Argc /\ j' = 2 /\ i' = i
      /\ UNCHANGED << options, argv, args >>
  BY DEF TokenNext
<1>2. i' \in i .. Argc /\ i' \in 1 .. Len(argv) /\ pc' # "parsed"
  BY <1>1, ParseFacts DEF Argc
<1>3. ASSUME NEW k \in 2 .. Len(args), NEW p \in 1 .. Len(argv), Past(k, p)' PROVE Past(k, p)
  BY <1>1, <1>3, ParseFacts DEF Past
<1>4. QED
  BY <1>1, <1>2, <1>3, ParseFacts, LoopStep

(* An option that is not named by the token is passed. *)
LEMMA OptionPassStep == ASSUME IInv, OptionPass PROVE IInv'
<1>1. /\ pc = "option" /\ pc' = "option" /\ j <= Len(args) /\ j' = j + 1 /\ i' = i
      /\ UNCHANGED << options, argv, args >>
      /\ ~Matches(j) \/ (args[j].type # "bool" /\ i + 1 >= Argc)
  BY DEF OptionPass
<1>2. i' \in i .. Argc /\ i' \in 1 .. Len(argv) /\ pc' # "parsed" /\ j' \in Nat /\ j' >= 2
  BY <1>1, ParseFacts DEF Argc, IInv, Typed
<1>3. ASSUME NEW k \in 2 .. Len(args), NEW p \in 1 .. Len(argv), Past(k, p)', ~args[k].parsed,
             Names(args[k], argv[p])
      PROVE  Past(k, p) \/ Excused(k, p)
  <2>1. Past(k, p) \/ (p = i /\ k = j)
    BY <1>1, <1>3, ParseFacts DEF Past
  <2>2. ASSUME p = i, k = j PROVE Excused(k, p)
    <3>1. Matches(j)
      BY <1>3, <2>2 DEF Matches
    <3>2. args[j].type # "bool" /\ i + 1 >= Argc
      BY <1>1, <3>1
    <3>3. p = Len(argv)
      BY <1>1, <2>2, <3>2, ParseFacts DEF Argc
    <3>4. QED
      BY <2>2, <3>2, <3>3 DEF Excused
  <2>3. QED
    BY <2>1, <2>2
<1>4. QED
  BY <1>1, <1>2, <1>3, ParseFacts, LoopStep

(* The last option has been compared with the token. *)
LEMMA OptionsDoneStep == ASSUME IInv, OptionsDone PROVE IInv'
<1>1. /\ pc = "option" /\ pc' = "token" /\ j > Len(args) /\ j' = j /\ i' = i + 1
      /\ UNCHANGED << options, argv, args >>
  BY DEF OptionsDone
<1>2. i' \in i .. Argc /\ pc' # "parsed" /\ pc' # "option"
  BY <1>1, ParseFacts DEF Argc, IInv, Typed
<1>3. ASSUME NEW k \in 2 .. Len(args), NEW p \in 1 .. Len(argv), Past(k, p)' PROVE Past(k, p)
  BY <1>1, <1>3, ParseFacts DEF Past
<1>4. QED
  BY <1>1, <1>2, <1>3, ParseFacts, LoopStep

(* parse returns, or ends the program with a message. *)
LEMMA ParseReturnsStep == ASSUME IInv, ParseReturns PROVE IInv'
<1>1. /\ pc = "token" /\ pc' = "parsed" /\ i >= Argc /\ ~Missing /\ j' = j /\ i' = i
      /\ UNCHANGED << options, argv, args >>
  BY DEF ParseReturns
<1>2. i' \in i .. Argc /\ pc' # "option"
  BY <1>1, ParseFacts
<1>3. ASSUME NEW k \in 2 .. Len(args), NEW p \in 1 .. Len(argv), Past(k, p)' PROVE Past(k, p)
  BY <1>1, <1>3 DEF Past
<1>4. QED
  BY <1>1, <1>2, <1>3, ParseFacts, LoopStep

-----------------------------------------------------------------------------
(* The steps that give an option its value. *)

\* The next token, or the same one: p is where the value is found.
LEMMA TakeStep ==
  ASSUME IInv, pc = "option", pc' = "option", j <= Len(args), Matches(j), NEW p, Take(p),
         UNCHANGED << options, argv >>, j' = j + 1, i' = p, p \in 1 .. Len(argv),
         p = IF args[j].type = "bool" THEN i ELSE i + 1
  PROVE  IInv'
<1>1. /\ pc \notin Gone /\ Len(args) = Len(options) + 1 /\ Len(args) \in Nat
      /\ Len(argv) \in Nat /\ i \in Nat /\ i \in 1 .. Len(argv) /\ j \in Nat /\ j >= 2
      /\ args \in Seq(Arg) /\ \A k \in Opts : args[k] \in Arg
  BY ParseFacts DEF IInv, Typed
<1>2. j \in Opts /\ p \in Int /\ ~args[j].parsed /\ Names(args[j], argv[i])
  BY <1>1 DEF Opts, Matches
<1> DEFINE a == [args[j] EXCEPT !.value = p, !.parsed = TRUE]
<1>3. /\ a \in Arg /\ a.large = args[j].large /\ a.short = args[j].short
      /\ a.required = args[j].required /\ a.type = args[j].type
      /\ a.no_default = args[j].no_default /\ a.value = p /\ a.parsed = TRUE
  BY <1>1, <1>2 DEF Arg
<1>4. args' = [args EXCEPT ![j] = a]
  BY <1>1, <1>2, LenProperties DEF Take, Opts
<1> HIDE DEF a
<1>5. /\ args' \in Seq(Arg) /\ Len(args') = Len(args) /\ args'[j] = a
      /\ \A k \in Opts : k # j => args'[k] = args[k]
  BY <1>1, <1>2, <1>3, <1>4, ExceptSeq DEF Opts
<1>6. Typed'
  BY <1>1, <1>5 DEF IInv, Typed, Argc
<1>7. Rows'
  <2>1. \A k \in Opts : args'[k].large = args[k].large /\ args'[k].required = args[k].required
    BY <1>3, <1>5
  <2>2. 1 \in Opts /\ \A k \in 2 .. Len(args) : k \in Opts
    BY <1>1 DEF Opts
  <2>3. QED
    BY <1>1, <1>5, <2>1, <2>2 DEF IInv, Rows, IsOption, Gone
<1>8. FreesWhatItOwns'
  <2>1. p # NoValue
    BY <1>1 DEF NoValue
  <2>2. QED
    BY <1>3, <1>5, <2>1 DEF IInv, FreesWhatItOwns, FreesValueOf, Opts
<1>9. Placed'
  <2>1. At(a) = i /\ Names(a, argv[i])
    BY <1>1, <1>2, <1>3 DEF At, Names
  <2>2. \A v \in 1 .. i : v \in 1 .. p
    BY <1>1
  <2>3. p \in 1 .. p
    BY <1>1
  <2>4. ASSUME NEW k \in Opts, args'[k].parsed
        PROVE  /\ args'[k].value \in 1 .. p /\ args'[k].value \in 1 .. Len(argv)
               /\ At(args'[k]) \in 1 .. Len(argv) /\ Names(args'[k], argv[At(args'[k])])
    <3>1. CASE k = j
      BY <1>1, <1>3, <1>5, <2>1, <2>3, <3>1
    <3>2. CASE k # j
      BY <1>5, <2>2, <2>4, <3>2 DEF IInv, Placed
    <3>3. QED
      BY <3>1, <3>2
  <2>5. QED
    BY <1>5, <2>4 DEF Placed, Opts, At, Names
<1>10. \A k \in Opts : TakesValue(k)' <=> TakesValue(k) \/ (k = j /\ args[j].type # "bool")
  BY <1>2, <1>3, <1>5 DEF TakesValue
<1>11. Unshared'
  <2>1. ASSUME NEW k \in Opts, NEW l \in Opts, TakesValue(k), TakesValue(l)',
               args'[k].value = args'[l].value, k # j, l = j
        PROVE  FALSE
    <3>1. args[j].type # "bool" /\ args'[l].value = i + 1
      BY <1>1, <1>2, <1>3, <1>5, <1>10, <2>1 DEF TakesValue
    <3>2. args'[k].value \in 1 .. i
      BY <1>5, <2>1 DEF IInv, Placed, TakesValue
    <3>3. QED
      BY <1>1, <2>1, <3>1, <3>2
  <2>2. ASSUME NEW k \in Opts, NEW l \in Opts, TakesValue(k)', TakesValue(l)',
               args'[k].value = args'[l].value
        PROVE  k = l
    <3>1. CASE k # j /\ l # j
      BY <1>5, <1>10, <2>2, <3>1 DEF IInv, Unshared
    <3>2. CASE k # j /\ l = j
      BY <1>10, <2>1, <2>2, <3>2
    <3>3. CASE k = j /\ l # j
      BY <1>10, <2>1, <2>2, <3>3
    <3>4. QED
      BY <3>1, <3>2, <3>3
  <2>3. QED
    BY <1>5, <2>2 DEF Unshared, Opts
<1>12. \A k \in 2 .. Len(args) : k \in Opts
  BY <1>1 DEF Opts
<1>13. NoneMissed'
  <2>1. ASSUME NEW k \in 2 .. Len(args), NEW n \in 1 .. Len(argv), Past(k, n)', ~args'[k].parsed,
               Names(args'[k], argv[n])
        PROVE  Excused(k, n)'
    <3>1. k # j /\ args'[k] = args[k] /\ k \in Opts
      BY <1>3, <1>5, <1>12, <2>1
    <3>2. CASE Past(k, n)
      <4>1. Excused(k, n)
        BY <2>1, <3>1, <3>2 DEF IInv, NoneMissed
      <4>2. \A l \in Opts : TakesValue(l) => TakesValue(l)' /\ args'[l].value = args[l].value
        BY <1>2, <1>5, <1>10 DEF TakesValue
      <4>3. \A l \in k + 1 .. Len(args) : l \in Opts
        BY <1>1 DEF Opts
      <4>4. \A l \in 2 .. k - 1 : l \in Opts
        BY <1>1 DEF Opts
      <4>5. QED
        BY <1>5, <3>1, <4>1, <4>2, <4>3, <4>4 DEF Excused
    <3>3. CASE ~Past(k, n)
      <4>1. args[j].type # "bool" /\ p = i + 1 /\ (n = i \/ n = i + 1)
        BY <1>1, <2>1, <3>1, <3>3 DEF Past
      <4>2. args'[j].parsed /\ args'[j].type # "bool"
        BY <1>3, <1>5, <4>1
      <4>3. args'[j].value = i + 1
        BY <1>3, <1>5, <4>1
      <4>4. (n = i /\ j \in 2 .. k - 1) \/ (n = i + 1 /\ j \in k + 1 .. Len(args))
        BY <1>1, <2>1, <3>1, <3>3, <4>1 DEF Past
      <4>5. CASE n = i /\ j \in 2 .. k - 1
        <5>1. \E l \in 2 .. k - 1 : TakesValue(l)' /\ args'[l].value = n + 1
          BY <4>2, <4>3, <4>5 DEF TakesValue
        <5>2. QED
          BY <5>1 DEF Excused
      <4>6. CASE n = i + 1 /\ j \in k + 1 .. Len(args)
        <5>1. \E l \in k + 1 .. Len(args') : TakesValue(l)' /\ args'[l].value = n
          BY <1>5, <4>2, <4>3, <4>6 DEF TakesValue
        <5>2. QED
          BY <5>1 DEF Excused
      <4>7. QED
        BY <4>4, <4>5, <4>6
    <3>4. QED
      BY <3>2, <3>3
  <2>2. QED
    BY <1>5, <2>1 DEF NoneMissed, Names
<1>14. Complete'
  BY DEF Complete
<1>15. QED
  BY <1>6, <1>7, <1>8, <1>9, <1>11, <1>13, <1>14 DEF IInv

(* An option without a value is found. *)
LEMMA OptionFlagStep == ASSUME IInv, OptionFlag PROVE IInv'
<1>1. /\ pc = "option" /\ pc' = "option" /\ j <= Len(args) /\ Matches(j) /\ args[j].type = "bool"
      /\ Take(i) /\ j' = j + 1 /\ i' = i /\ UNCHANGED << options, argv >>
  BY DEF OptionFlag
<1>2. i \in 1 .. Len(argv)
  BY <1>1 DEF IInv, Typed
<1>3. QED
  BY <1>1, <1>2, TakeStep

(* An option with a value is found, and the token behind it is skipped. *)
LEMMA OptionValueStep == ASSUME IInv, OptionValue PROVE IInv'
<1>1. /\ pc = "option" /\ pc' = "option" /\ j <= Len(args) /\ Matches(j) /\ args[j].type # "bool"
      /\ Take(i + 1) /\ j' = j + 1 /\ i' = i + 1 /\ i + 1 < Argc /\ UNCHANGED << options, argv >>
  BY DEF OptionValue
<1>2. i + 1 \in 1 .. Len(argv)
  BY <1>1, ParseFacts DEF Argc
<1>3. QED
  BY <1>1, <1>2, TakeStep

(* The end of the program, or of the parser. *)
LEMMA ExitStep == ASSUME IInv, NEW s \in Gone, Exit(s) PROVE IInv'
<1>1. pc' = s /\ args' = << >> /\ UNCHANGED << options, argv, i, j >>
  BY DEF Exit
<1>2. args' \in Seq(Arg) /\ Len(args') = 0
  BY <1>1, EmptySeq
<1>3. Typed' /\ Rows'
  BY <1>1, <1>2 DEF IInv, Typed, Rows, Gone, Argc
<1>4. FreesWhatItOwns' /\ Placed' /\ Unshared' /\ NoneMissed' /\ Complete'
  BY <1>1, <1>2 DEF FreesWhatItOwns, Placed, Unshared, Opts, NoneMissed, Complete, Gone
<1>5. QED
  BY <1>3, <1>4 DEF IInv

-----------------------------------------------------------------------------
(* The theorems. *)

(* Every step preserves the invariant. *)
LEMMA NextIInv == ASSUME IInv, [Next]_vars PROVE IInv'
<1>1. CASE Parse
  <2>1. TokenHelp => Exit("helped")
    BY DEF TokenHelp
  <2>2. ParseFails => Exit("failed")
    BY DEF ParseFails
  <2>3. QED
    BY <1>1, <2>1, <2>2, ExitStep, TokenNextStep, OptionFlagStep, OptionValueStep, OptionPassStep,
       OptionsDoneStep, ParseReturnsStep DEF Parse, Gone
<1>2. CASE Free
  BY <1>2, ExitStep DEF Free, Gone
<1>3. CASE UNCHANGED vars
  <2>1. \A k, p : Excused(k, p)' <=> Excused(k, p)
    BY <1>3 DEF vars, Excused, TakesValue
  <2>2. \A k, p : Past(k, p)' <=> Past(k, p)
    BY <1>3 DEF vars, Past
  <2>3. NoneMissed'
    BY <1>3, <2>1, <2>2 DEF vars, IInv, NoneMissed, Names
  <2>4. QED
    BY <1>3, <2>3 DEF vars, IInv, Typed, Argc, Rows, IsOption, FreesWhatItOwns, FreesValueOf, Opts,
                      Placed, Names, At, Unshared, TakesValue, Complete, Missing
<1>4. QED
  BY <1>1, <1>2, <1>3, AddArgStep, ParseStartStep DEF Next

(* IInv is an invariant. *)
LEMMA Invariance == Spec => []IInv
BY InitIInv, NextIInv, PTL DEF Spec

(* cargs_free frees exactly the values that were allocated, whatever the
   options are and whatever they are given. *)
THEOREM ValuesOwned == Spec => []FreesWhatItOwns
<1>1. IInv => FreesWhatItOwns
  BY DEF IInv
<1>2. QED
  BY <1>1, Invariance, PTL

(* Every value stands behind a name of its option, and is nobody else's. *)
THEOREM ValuesPlaced == Spec => []ValueFollowsName
<1>1. IInv => ValueFollowsName
  BY DEF IInv, ValueFollowsName, Placed, Unshared, At
<1>2. QED
  BY <1>1, Invariance, PTL

(* The name of an option that was not found, as the code makes names, is passed
   over only at the end, with no value behind it, as the value of an option
   registered later, or next to a value that an option registered earlier took. *)
THEOREM NamesSeen == Spec => []NothingMissed
<1>1. ASSUME IInv PROVE NothingMissed
  <2>1. ASSUME pc = "parsed", NEW k \in 2 .. Len(args), NEW p \in 1 .. Len(argv), ~args[k].parsed,
               Names(args[k], argv[p])
        PROVE  Excused(k, p)
    <3>1. p < i
      BY <1>1, <2>1, TypeFacts DEF IInv, Complete, Argc
    <3>2. QED
      BY <1>1, <2>1, <3>1 DEF IInv, NoneMissed, Past
  <2>2. QED
    BY <2>1 DEF NothingMissed, Excused
<1>2. QED
  BY <1>1, Invariance, PTL

\* get_arg goes by the first option of a name: no two have the same, or --help.
NamesDistinct ==
  \A p \in Programs : \A k \in DOMAIN p.options :
    /\ p.options[k].name # HelpName
    /\ \A l \in DOMAIN p.options : p.options[k].name = p.options[l].name => k = l

(* If parse returns, get_arg finds a value for every required option that was
   registered with two dashes, provided that the options have different names. *)
THEOREM RequiredFound == ASSUME NamesDistinct PROVE Spec => []RequiredHaveValues
<1>1. ASSUME IInv PROVE RequiredHaveValues
  <2>1. ASSUME pc = "parsed", NEW k \in DOMAIN options, options[k].required,
               options[k].name.dash = 2, NEW d \in {0, 2}
        PROVE  Get([options[k].name EXCEPT !.dash = d]) # NoValue
    <3> DEFINE name == [options[k].name EXCEPT !.dash = d]
               named == {m \in 1 .. Len(args) : /\ name.dash # 1
                                                /\ args[m].large = [name EXCEPT !.dash = 2]}
    <3>1. /\ Len(args) \in Nat /\ options \in Seq(Option) /\ DOMAIN options = 1 .. Len(options)
          /\ Len(options) \in Nat
      BY <1>1, TypeFacts, LenProperties DEF IInv
    <3>2. /\ Len(args) = Len(options) + 1 /\ args[1].large = HelpName
          /\ \A m \in 2 .. Len(args) : IsOption(m)
      BY <1>1, <2>1 DEF IInv, Rows, Gone
    <3>3. options[k].name \in Token
      <4>1. options[k] \in Option
        BY <2>1, <3>1, ElementOfSeq
      <4>2. QED
        BY <4>1 DEF Option
    <3>4. name.dash = d /\ [name EXCEPT !.dash = 2] = options[k].name
      BY <2>1, <3>3 DEF Token
    <3>5. /\ options[k].name # HelpName
          /\ \A l \in DOMAIN options : options[k].name = options[l].name => k = l
      BY <1>1 DEF IInv, Typed, NamesDistinct
    <3> HIDE DEF name
    <3>6. k + 1 \in 2 .. Len(args) /\ (k + 1) - 1 = k
      BY <3>1, <3>2
    <3>7. args[k + 1].large = options[k].name /\ args[k + 1].required
      BY <2>1, <3>2, <3>6 DEF IsOption
    <3>8. ASSUME NEW m \in 1 .. Len(args), args[m].large = options[k].name PROVE m = k + 1
      <4>1. m # 1
        BY <3>2, <3>5, <3>8
      <4>2. m \in 2 .. Len(args) /\ m - 1 \in DOMAIN options
        BY <3>1, <3>2, <4>1
      <4>3. options[m - 1].name = options[k].name
        BY <3>2, <3>8, <4>2 DEF IsOption
      <4>4. k = m - 1
        BY <3>5, <4>2, <4>3
      <4>5. QED
        BY <4>2, <4>4
    <3>9. named = {k + 1}
      <4>1. k + 1 \in 1 .. Len(args)
        BY <3>1, <3>6
      <4>2. name.dash # 1
        BY <3>4
      <4>3. QED
        BY <3>4, <3>7, <3>8, <4>1, <4>2
    <3>10. Get(name) = args[k + 1].value
      <4>1. (CHOOSE m \in named : \A l \in named : m <= l) = k + 1
        BY <3>1, <3>6, <3>9
      <4>2. named # {}
        BY <3>9
      <4>3. QED
        BY <4>1, <4>2 DEF Get
    <3>11. args[k + 1].parsed
      <4>1. k + 1 \in 1 .. Len(args)
        BY <3>1, <3>6
      <4>2. QED
        BY <1>1, <2>1, <3>7, <4>1 DEF IInv, Complete, Missing
    <3>12. args[k + 1].value # NoValue
      <4>1. k + 1 \in Opts
        BY <3>1, <3>6 DEF Opts
      <4>2. QED
        BY <1>1, <3>11, <4>1 DEF IInv, FreesWhatItOwns, FreesValueOf
    <3>13. QED
      BY <3>10, <3>12 DEF name
  <2>2. QED
    BY <2>1 DEF RequiredHaveValues
<1>2. QED
  BY <1>1, Invariance, PTL

=============================================================================
