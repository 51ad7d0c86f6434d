------------------------------- MODULE Cargs -------------------------------
(***************************************************************************)
(* cargs.c: a program registers options with add_arg, hands argv to parse, *)
(* and looks values up.  parse compares every token of argv with every     *)
(* option in the order they were registered; an option with a value takes  *)
(* the next token, and the comparison then goes on from that token.        *)
(*                                                                         *)
(* Tokens and names are strings cut at their dashes: --max-size is [dash   *)
(* |-> 2, parts |-> << "max", "size" >>].  A value is the place in argv of *)
(* the token it was made from; conversions by atoi, atof and strcpy are    *)
(* left out.  args[1] is the option --help, parsed_args[0] in the code.    *)
(***************************************************************************)
EXTENDS Integers, Sequences

CONSTANTS
  Programs,    (* the programs, each a record of                           *)
               (*   options: the sequence of options it registers          *)
               (*   argv: what it may be started with, without argv[0]     *)
  Letter(_),   (* the first letter of a part of a name                     *)
  NoName       (* the short name of an option that has none                *)

Types == {"int", "float", "string", "bool"}

NoValue == -1   \* value is NULL
Default == 0    \* value holds the default given to add_arg

Token == [dash : 0 .. 2, parts : Seq(STRING)]

\* The arguments of add_arg, and whether the malloc of the short name may fail.
Option == [name : Token, required : BOOLEAN, type : Types, default : BOOLEAN,
           malloc_fails : BOOLEAN]

ASSUME ProgramsAssumption ==
  /\ \A p \in Programs : p.options \in Seq(Option) /\ p.argv \subseteq Seq(Token)
  /\ NoName \notin Token

VARIABLES
  options,(* the options that the program registers                        *)
  argv,   (* what it was started with: argv[i] is the code's argv[i]       *)
  args,   (* parsed_args: the options registered so far                    *)
  pc,     (* where it is: registering, in one of the loops of parse, done  *)
  i, j    (* the loop variables of parse                                   *)

vars == << options, argv, args, pc, i, j >>

Argc == Len(argv) + 1

\* The option --help, registered by cargs_init.
HelpName == [dash |-> 2, parts |-> << "help" >>]

\* cargs_compute_short_name: a dash and the first letter of every word.
ShortName(name) ==
  IF name.dash = 2 /\ name.parts # << >>
    THEN [dash |-> 1, parts |-> [k \in DOMAIN name.parts |-> Letter(name.parts[k])]]
    ELSE NoName

\* What an option becomes in add_arg; a short name is optional.
Registered(o) ==
  {[large |-> o.name, short |-> s, required |-> o.required, type |-> o.type,
    parsed |-> FALSE, no_default |-> ~o.default,
    value |-> IF o.default THEN Default ELSE NoValue] :
      s \in {ShortName(o.name)} \cup (IF o.malloc_fails THEN {NoName} ELSE {})}

Help == [name |-> HelpName, required |-> FALSE, type |-> "bool", default |-> FALSE,
         malloc_fails |-> FALSE]

Init ==
  /\ \E p \in Programs : options = p.options /\ argv \in p.argv
  /\ \E a \in Registered(Help) : args = << a >>
  /\ pc = "add" /\ i = 1 /\ j = 2

AddArg ==
  /\ pc = "add" /\ Len(args) <= Len(options)
  /\ \E a \in Registered(options[Len(args)]) : args' = Append(args, a)
  /\ UNCHANGED << options, argv, pc, i, j >>

-----------------------------------------------------------------------------
(* cargs_parse. *)

ParseStart ==
  /\ pc = "add" /\ Len(args) = Len(options) + 1
  /\ pc' = "token" /\ UNCHANGED << options, argv, args, i, j >>

AsksForHelp(t) == t \in {HelpName, [dash |-> 1, parts |-> << "h" >>]}

\* The parser is freed before the program exits.
Exit(status) == pc' = status /\ args' = << >> /\ UNCHANGED << options, argv, i, j >>

\* The outer loop: a token that asks for help, or a token to compare.
TokenHelp == pc = "token" /\ i < Argc /\ AsksForHelp(argv[i]) /\ Exit("helped")

\* Mutant of TokenNext: the comparison starts one option late.
TokenNextLate ==
  /\ pc = "token" /\ i < Argc /\ ~AsksForHelp(argv[i])
  /\ pc' = "option" /\ j' = 3 /\ UNCHANGED << options, argv, args, i >>

TokenNext ==
  /\ pc = "token" /\ i < Argc /\ ~AsksForHelp(argv[i])
  /\ pc' = "option" /\ j' = 2 /\ UNCHANGED << options, argv, args, i >>

\* The names of an option are those that the code makes: cargs/README.md has the
\* first letter alone for a short name.
Names(a, t) == t = a.large \/ (a.short # NoName /\ t = a.short)

\* The option compared matches; one that is parsed already is passed over.
Matches(k) == ~args[k].parsed /\ Names(args[k], argv[i])

\* The option takes the token at p for its value.
Take(p) == args' = [args EXCEPT ![j].value = p, ![j].parsed = TRUE]

\* Mutant of OptionFlag: a flag is set without being marked as parsed.
OptionFlagUnmarked ==
  /\ pc = "option" /\ j <= Len(args) /\ Matches(j) /\ args[j].type = "bool"
  /\ args' = [args EXCEPT ![j].value = i]
  /\ j' = j + 1 /\ UNCHANGED << options, argv, pc, i >>

OptionFlag ==
  /\ pc = "option" /\ j <= Len(args) /\ Matches(j) /\ args[j].type = "bool"
  /\ Take(i) /\ j' = j + 1 /\ UNCHANGED << options, argv, pc, i >>

\* Mutant of OptionValue: the token taken is not skipped.
OptionValueUnskipped ==
  /\ pc = "option" /\ j <= Len(args) /\ Matches(j) /\ args[j].type # "bool"
  /\ i + 1 < Argc
  /\ Take(i + 1) /\ j' = j + 1 /\ UNCHANGED << options, argv, pc, i >>

\* An option with a value takes the next token, and the comparison of the
\* options behind it goes on with that token.
OptionValue ==
  /\ pc = "option" /\ j <= Len(args) /\ Matches(j) /\ args[j].type # "bool"
  /\ i + 1 < Argc
  /\ Take(i + 1) /\ i' = i + 1 /\ j' = j + 1 /\ UNCHANGED << options, argv, pc >>

\* No match, or an option at the end of argv that has no value.
OptionPass ==
  /\ pc = "option" /\ j <= Len(args)
  /\ ~Matches(j) \/ (args[j].type # "bool" /\ i + 1 >= Argc)
  /\ j' = j + 1 /\ UNCHANGED << options, argv, args, pc, i >>

OptionsDone ==
  /\ pc = "option" /\ j > Len(args)
  /\ pc' = "token" /\ i' = i + 1 /\ UNCHANGED << options, argv, args, j >>

\* Mutant of Missing: the loop ends one option early.
MissingButLast ==
  \E k \in 1 .. Len(args) - 1 : args[k].required /\ ~args[k].parsed

\* The loop over the required options.
Missing == \E k \in 1 .. Len(args) : args[k].required /\ ~args[k].parsed

ParseFails == pc = "token" /\ i >= Argc /\ Missing /\ Exit("failed")

ParseReturns ==
  /\ pc = "token" /\ i >= Argc /\ ~Missing
  /\ pc' = "parsed" /\ UNCHANGED << options, argv, args, i, j >>

-----------------------------------------------------------------------------
(* cargs_get_arg and cargs_free. *)

\* A name may be asked for with or without its dashes; one more dash is no name.
Get(name) ==
  LET named == {k \in 1 .. Len(args) : /\ name.dash # 1
                                       /\ args[k].large = [name EXCEPT !.dash = 2]}
  IN  IF named = {} THEN NoValue
      ELSE args[CHOOSE k \in named : \A l \in named : k <= l].value

\* The options whose values free frees.
FreesValueOf(k) == ~(args[k].no_default /\ ~args[k].parsed)

Free == pc = "parsed" /\ Exit("freed")

Parse == \/ TokenHelp \/ TokenNext \/ OptionFlag \/ OptionValue \/ OptionPass \/ OptionsDone
         \/ ParseFails \/ ParseReturns

Next == AddArg \/ ParseStart \/ Parse \/ Free

Spec == Init /\ [][Next]_vars

-----------------------------------------------------------------------------
(* Correctness. *)

Carg == [large : Token, short : Token \cup {NoName}, required : BOOLEAN, type : Types,
         parsed : BOOLEAN, no_default : BOOLEAN, value : Int]

TypeOK ==
  /\ options \in Seq(Option) /\ argv \in Seq(Token) /\ args \in Seq(Carg)
  /\ pc \in {"add", "token", "option", "parsed", "helped", "failed", "freed"}
  /\ i \in 1 .. Argc /\ j \in Nat \ {0, 1}

Opts == 1 .. Len(args)
TakesValue(k) == args[k].parsed /\ args[k].type # "bool"

(* cargs_free decides by two bits of metadata which values it frees: those
   bits tell, at every step of parse, exactly which values were allocated. *)
FreesWhatItOwns == \A k \in Opts : FreesValueOf(k) <=> args[k].value # NoValue

(* The value of an option that was found on the command line is the token
   right behind one of its names; a flag is set at one of its names.  No token
   is the value of two options. *)
ValueFollowsName ==
  \A k \in Opts : args[k].parsed =>
    LET at == IF args[k].type = "bool" THEN args[k].value ELSE args[k].value - 1 IN
    /\ args[k].value \in 1 .. Len(argv) /\ at \in 1 .. Len(argv)
    /\ Names(args[k], argv[at])
    /\ \A l \in Opts : (TakesValue(k) /\ TakesValue(l) /\ args[k].value = args[l].value) => k = l

(* When parse returns, the name of an option that was not found is nowhere in
   argv but where parse ignores it: at the end, with no value behind it; as
   the value of an option registered later; or shared with an option that was
   registered earlier and took the value behind it.  Nothing is said of the
   names of cargs/README.md:81-83 that are not those of cargs.c:150-160: the -n
   of an option --num-runs is a token like any other, its short name is -nr. *)
NothingMissed ==
  pc = "parsed" =>
    \A k \in 2 .. Len(args), p \in 1 .. Len(argv) :
      (~args[k].parsed /\ Names(args[k], argv[p])) =>
        \/ p = Len(argv) /\ args[k].type # "bool"
        \/ \E l \in k + 1 .. Len(args) : TakesValue(l) /\ args[l].value = p
        \/ \E l \in 2 .. k - 1 : TakesValue(l) /\ args[l].value = p + 1

(* When parse returns, get_arg finds a value for every required option that was
   registered with its two dashes, asked for with or without them.  cargs.h:47
   and cargs/README.md:31-38 have names without dashes: cargs.c registers them
   as they are and adds the dashes when it looks them up, so that get_arg answers
   NULL.  The tests register theirs with the dashes (cargs_unittest.h:20-23). *)
RequiredHaveValues ==
  pc = "parsed" =>
    \A k \in DOMAIN options : (options[k].required /\ options[k].name.dash = 2) =>
      \A d \in {0, 2} : Get([options[k].name EXCEPT !.dash = d]) # NoValue

(* cargs/README.md says that `-h example.com` gives the option host its value:
   the program ends with its help only if no option goes by the token that
   asked for it. *)
HelpOnlyIfUnclaimed ==
  pc = "helped" => \A k \in DOMAIN options :
                     argv[i] \notin {options[k].name, ShortName(options[k].name)}

=============================================================================
