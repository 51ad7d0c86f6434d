------------------------------ MODULE MCLogger ------------------------------
(***************************************************************************)
(* Two threads and three loggers: a thread-safe one on a file that is      *)
(* appended to and prints stack traces; one on a file that is truncated,   *)
(* without a mutex, that leaves out DEBUG; a thread-safe one on stdout.    *)
(***************************************************************************)
EXTENDS Logger, TLC

CONSTANTS t1, t2, safe, plain, console, log, scratch

Arguments ==
  (safe    :> [stream |-> log, modes |-> "a", thread_safe |-> TRUE,
               min_level |-> 2, flags |-> { "trace" }])
  @@ (plain :> [stream |-> scratch, modes |-> "w", thread_safe |-> FALSE,
               min_level |-> 1, flags |-> { "level" }])
  @@ (console :> [stream |-> Stdout, modes |-> "w", thread_safe |-> TRUE,
               min_level |-> 3, flags |-> { }])

CallsOf == (t1 :> 2) @@ (t2 :> 1)

=============================================================================
