------------------------------ MODULE MCCargs ------------------------------
(***************************************************************************)
(* The programs that use Cargs: two options with the same short name and a *)
(* flag, of which one option is required; and the example of the README.   *)
(***************************************************************************)
EXTENDS Cargs

CONSTANT MaxArgs  (* bound on the tokens on the command line *)

Long(part)  == [dash |-> 2, parts |-> << part >>]
Short(part) == [dash |-> 1, parts |-> << part >>]
Plain(part) == [dash |-> 0, parts |-> << part >>]

FirstLetter(part) ==
  CASE part = "help" -> "h" [] part = "host" -> "h" [] part = "port" -> "p"
    [] part = "path" -> "p" [] part = "verbose" -> "v" [] part = "runs" -> "r"
    [] part = "num" -> "n" [] OTHER -> part

Is(name, type, required, default) ==
  [name |-> name, type |-> type, required |-> required, default |-> default,
   malloc_fails |-> FALSE]
Unnamed(option) == [option EXCEPT !.malloc_fails = TRUE]

UpTo(tokens) == UNION {[1 .. n -> tokens] : n \in 0 .. MaxArgs}

NumRuns == [dash |-> 2, parts |-> << "num", "runs" >>]

\* Options that share a short name, around a flag; -nr is short for --num-runs.
Shared ==
  [options |-> << Is(Long("port"), "int", FALSE, TRUE), Is(NumRuns, "int", FALSE, FALSE),
                  Is(Long("verbose"), "bool", FALSE, FALSE), Is(Long("path"), "string", TRUE, FALSE) >>,
   argv |-> UpTo({Long("port"), Short("p"), Short("v"), Long("path"), Short("n"),
                  [dash |-> 1, parts |-> << "n", "r" >>], Long("help"), Plain("7")})]

\* Flags only, two of which share a short name.
Flags ==
  [options |-> << Unnamed(Is(Long("verbose"), "bool", TRUE, TRUE)), Is(Plain("v"), "bool", FALSE, FALSE),
                  Unnamed(Is(Long("v"), "bool", FALSE, FALSE)) >>,
   argv |-> UpTo({Short("v"), Long("verbose"), Long("v"), Plain("v"), Short("h")})]

\* The example of cargs/README.md, with the prefixes that the code needs.
Readme ==
  [options |-> << Is(Long("port"), "int", FALSE, TRUE), Is(Long("host"), "string", FALSE, TRUE),
                  Is(Long("verbose"), "bool", FALSE, TRUE) >>,
   argv |-> {<< Short("p"), Plain("3000"), Short("h"), Plain("example.com"), Short("v") >>}
              \cup UpTo({Long("port"), Long("host"), Long("verbose"), Plain("3000")})]

Used    == {Shared, Flags}
Example == {Readme}

=============================================================================
