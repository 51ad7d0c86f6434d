------------------------------- MODULE Logger -------------------------------
(***************************************************************************)
(* clogger.h and clogger.c: threads of one program that write lines        *)
(* through shared loggers.  A line is written by several fprintf, one for  *)
(* each part that the flags ask for; stdio makes each of them atomic, and  *)
(* the mutex of a thread-safe logger makes a line of them.  Each fprintf   *)
(* is a step of its own, and so are taking the mutex and releasing it.     *)
(*                                                                         *)
(* What callers must see to is part of Close: a logger is closed when no   *)
(* thread is in a call on it (the program joins its threads first), for    *)
(* close frees the mutex and the struct that such a call goes on to use.   *)
(***************************************************************************)
EXTENDS Integers, Sequences

CONSTANTS Threads,   \* the threads of the program
          Loggers,   \* the loggers it may open
          Options,   \* per logger: the arguments of its clogger_init
          Stdout,    \* the stream of a logger without a file name
          Null,
          Free,      \* a mutex that nobody holds
          CallLevels,  \* bound: the levels that are logged with
          MayFail,     \* bound: the streams that writes may fail to
          MaxCalls,  \* bound: calls of each thread
          MaxOpens   \* bound: calls of clogger_init

Levels  == 0 .. 3    \* DEBUG, INFO, WARNING, ERROR
ERROR   == 3
Streams == { Options[l].stream : l \in Loggers } \cup { Stdout }

\* A line is known by its call; what is written are its parts.
Lines   == [thread : Threads, number : Nat, logger : Loggers, level : Levels]
PartNames == { "time", "level", "file", "func", "line", "gap", "message",
               "unavailable", "heading", "frame" }
Entries == [line : Lines, part : PartNames]
Calls   == [line : Lines, at : { "lock", "print", "unlock" }, todo : Seq(PartNames)]

ASSUME LoggerAssumption ==
  /\ CallLevels \subseteq Levels
  /\ MaxCalls \in [Threads -> Nat] /\ MaxOpens \in Nat
  /\ Null \notin Streams \cup Threads
  /\ Null \notin Calls
  /\ Free \notin Threads \cup { Null }
  /\ \A l \in Loggers : /\ Options[l].thread_safe \in BOOLEAN
                        /\ Options[l].min_level \in Levels
                        /\ Options[l].modes \in { "w", "a" }
  /\ \A l, m \in Loggers : \* two FILEs on one file are not modelled
       l # m /\ Options[l].stream = Options[m].stream
         => Options[l].stream = Stdout

VARIABLES fp,      \* fp[l]: the stream of an open logger, else Null
          mutex,   \* mutex[l]: Null, Free, or the thread that holds it
          open,    \* the streams that are open
          buffer,  \* buffer[s]: what stdio has not yet written
          disk,    \* disk[s]: what has been written
          failed,  \* the streams that a write to has failed
          call,    \* call[t]: the clogger_log that t is in, or Null
          calls,   \* calls[t]: how many it has made
          due,     \* due[s][t]: the calls of t for s that have returned
          opens    \* how often clogger_init has been called

vars    == << fp, mutex, open, buffer, disk, failed, call, calls, due, opens >>
streams == << buffer, disk, failed >>
loggers == << fp, mutex, open, opens >>

Init == /\ fp     = [l \in Loggers |-> Null]
        /\ mutex  = [l \in Loggers |-> Null]
        /\ open   = { Stdout }
        /\ buffer = [s \in Streams |-> << >>]
        /\ disk   = [s \in Streams |-> << >>]
        /\ failed = {}
        /\ call   = [t \in Threads |-> Null]
        /\ calls  = [t \in Threads |-> 0]
        /\ due    = [s \in Streams |-> [t \in Threads |-> << >>]]
        /\ opens  = 0

-----------------------------------------------------------------------------
(* clogger_init and clogger_close *)

Truncates(l) == Options[l].stream # Stdout /\ Options[l].modes = "w"

\* fopen: "w" truncates the file, and with it what the file has to hold.
Fopen(l) ==
  LET s == Options[l].stream
  IN  IF Truncates(l)
      THEN /\ disk' = [disk EXCEPT ![s] = << >>]
           /\ due'  = [due EXCEPT ![s] = [t \in Threads |-> << >>]]
      ELSE UNCHANGED << disk, due >>

\* fclose: what is in the buffer is written.
Fclose(s) == /\ disk'   = [disk EXCEPT ![s] = @ \o buffer[s]]
             /\ buffer' = [buffer EXCEPT ![s] = << >>]

CanInit(l) == fp[l] = Null /\ opens < MaxOpens /\ opens' = opens + 1

InitOpens(l) ==
  /\ CanInit(l)
  /\ Fopen(l)
  /\ fp'    = [fp EXCEPT ![l] = Options[l].stream]
  /\ mutex' = [mutex EXCEPT ![l] = IF Options[l].thread_safe
                                   THEN Free ELSE Null]
  /\ open'  = IF Options[l].stream = Stdout THEN open
              ELSE open \cup { Options[l].stream }
  /\ UNCHANGED << buffer, failed, call, calls >>

\* malloc of the struct or fopen fails.
InitFails(l) ==
  CanInit(l) /\ UNCHANGED << fp, mutex, open, streams, call, calls, due >>

\* Mutant of InitNoMutex: the file stays open.
InitNoMutexLeaks(l) ==
  /\ CanInit(l)
  /\ Options[l].thread_safe
  /\ Fopen(l)
  /\ open' = open \cup { Options[l].stream }
  /\ UNCHANGED << fp, mutex, buffer, failed, call, calls >>

\* The mutex cannot be made: the stream is closed again, even stdout.  (To
\* close stdout twice is undefined; a program that does is not followed.)
InitNoMutex(l) ==
  /\ CanInit(l)
  /\ Options[l].thread_safe
  /\ Options[l].stream = Stdout => Stdout \in open
  /\ IF Truncates(l) THEN Fopen(l) /\ UNCHANGED buffer
     ELSE Fclose(Options[l].stream) /\ UNCHANGED due
  /\ open' = open \ { Options[l].stream }
  /\ UNCHANGED << fp, mutex, failed, call, calls >>

\* The program's part: to close a logger when nobody is in a call on it.
InCall(l) == { t \in Threads : call[t] # Null /\ call[t].line.logger = l }

\* stdout is left open.
Close(l) ==
  /\ fp[l] # Null
  /\ InCall(l) = {}
  /\ mutex' = [mutex EXCEPT ![l] = Null]
  /\ fp'    = [fp EXCEPT ![l] = Null]
  /\ open'  = IF fp[l] = Stdout THEN open ELSE open \ { fp[l] }
  /\ IF fp[l] = Stdout THEN UNCHANGED << buffer, disk >> ELSE Fclose(fp[l])
  /\ UNCHANGED << failed, call, calls, due, opens >>

-----------------------------------------------------------------------------
(* clogger_log *)

\* What clogger_print_stacktrace prints, without symbols or with them.
Traces == { << "unavailable" >>, << "heading", "frame" >> }

\* The fprintf of one line, in their order.
Parts(l, level, trace) ==
  LET flags   == Options[l].flags
      Part(f) == IF f \in flags THEN << f >> ELSE << >>
      gap     == IF flags \cap { "level", "file", "func", "line" } # {}
                 THEN << "gap" >> ELSE << >>
  IN  Part("time") \o Part("level") \o Part("file") \o Part("func")
        \o Part("line") \o gap \o << "message" >>
        \o (IF level = ERROR /\ "trace" \in flags THEN trace ELSE << >>)

Wanted(line) == Options[line.logger].min_level <= line.level

Returned(line, s, t) ==
  due' = [due EXCEPT ![s][t] = Append(@, line)]

\* A call whose level is too low returns at once, without the mutex.
Log(t, l, level) ==
  LET line == [thread |-> t, number |-> calls[t], logger |-> l,
               level |-> level]
  IN  /\ call[t] = Null
      /\ fp[l] # Null
      /\ calls[t] < MaxCalls[t]
      /\ calls' = [calls EXCEPT ![t] = @ + 1]
      /\ IF Options[l].min_level <= level
         THEN /\ \E trace \in Traces :
                   call' = [call EXCEPT ![t] =
                              [line |-> line, at |-> "lock",
                               todo |-> Parts(l, level, trace)]]
              /\ UNCHANGED due
         ELSE Returned(line, fp[l], t) /\ UNCHANGED call
      /\ UNCHANGED << loggers, streams >>

At(t, place) == call[t] # Null /\ call[t].at = place

\* Mutant of Lock: the mutex is not waited for.
LockTries(t) ==
  /\ At(t, "lock")
  /\ call' = [call EXCEPT ![t].at = "print"]
  /\ UNCHANGED << loggers, streams, calls, due >>

Lock(t) ==
  /\ At(t, "lock")
  /\ LET l == call[t].line.logger
     IN  /\ mutex[l] \in { Null, Free }
         /\ mutex' = IF mutex[l] = Null THEN mutex
                     ELSE [mutex EXCEPT ![l] = t]
  /\ call' = [call EXCEPT ![t].at = "print"]
  /\ UNCHANGED << fp, open, opens, streams, calls, due >>

\* One fprintf.  What is printed to a stream that has been closed is lost.
Fprintf(t) ==
  /\ At(t, "print")
  /\ call[t].todo # << >>
  /\ LET s == fp[call[t].line.logger]
     IN  buffer' = IF s \in open
                   THEN [buffer EXCEPT ![s] =
                           Append(@, [line |-> call[t].line,
                                      part |-> Head(call[t].todo)])]
                   ELSE buffer
  /\ call' = [call EXCEPT ![t].todo = Tail(@)]
  /\ UNCHANGED << loggers, disk, failed, calls, due >>

\* A write that fails, of which the macro takes no notice: of what is in the
\* buffer some of the beginning may reach the disk, and the rest is lost.
WriteFails(s) ==
  /\ s \in open \cap MayFail
  /\ failed' = failed \cup { s }
  /\ \E n \in 0 .. Len(buffer[s]) :
       disk' = [disk EXCEPT ![s] = @ \o SubSeq(buffer[s], 1, n)]
  /\ buffer' = [buffer EXCEPT ![s] = << >>]

FprintfFails(t) ==
  /\ At(t, "print")
  /\ call[t].todo # << >>
  /\ WriteFails(fp[call[t].line.logger])
  /\ call' = [call EXCEPT ![t].todo = Tail(@)]
  /\ UNCHANGED << loggers, calls, due >>

\* Mutant of Flush: there is no fflush.
FlushNothing(t) ==
  /\ At(t, "print")
  /\ call[t].todo = << >>
  /\ call' = [call EXCEPT ![t].at = "unlock"]
  /\ UNCHANGED << loggers, streams, calls, due >>

\* fflush, of whatever any thread has printed to the stream.
Flush(t) ==
  /\ At(t, "print")
  /\ call[t].todo = << >>
  /\ LET s == fp[call[t].line.logger]
     IN  /\ disk'   = [disk EXCEPT ![s] = @ \o buffer[s]]
         /\ buffer' = [buffer EXCEPT ![s] = << >>]
  /\ call' = [call EXCEPT ![t].at = "unlock"]
  /\ UNCHANGED << loggers, failed, calls, due >>

FlushFails(t) ==
  /\ At(t, "print")
  /\ call[t].todo = << >>
  /\ WriteFails(fp[call[t].line.logger])
  /\ call' = [call EXCEPT ![t].at = "unlock"]
  /\ UNCHANGED << loggers, calls, due >>

\* Mutant of Unlock: a line of level ERROR returns early.
UnlockUnlessError(t) ==
  /\ At(t, "unlock")
  /\ LET l == call[t].line.logger
     IN  /\ mutex' = IF mutex[l] = Null \/ call[t].line.level = ERROR
                     THEN mutex ELSE [mutex EXCEPT ![l] = Free]
         /\ Returned(call[t].line, fp[l], t)
  /\ call' = [call EXCEPT ![t] = Null]
  /\ UNCHANGED << fp, open, opens, streams, calls >>

\* The mutex is released, and the call returns.
Unlock(t) ==
  /\ At(t, "unlock")
  /\ LET l == call[t].line.logger
     IN  /\ mutex' = IF mutex[l] = Null THEN mutex
                     ELSE [mutex EXCEPT ![l] = Free]
         /\ Returned(call[t].line, fp[l], t)
  /\ call' = [call EXCEPT ![t] = Null]
  /\ UNCHANGED << fp, open, opens, streams, calls >>

Fails(t)   == FprintfFails(t) \/ FlushFails(t)
Proceed(t) == Lock(t) \/ Fprintf(t) \/ Flush(t) \/ Fails(t) \/ Unlock(t)

Next == \/ \E l \in Loggers : InitOpens(l) \/ InitFails(l) \/ InitNoMutex(l)
                              \/ Close(l)
        \/ \E t \in Threads, l \in Loggers, level \in CallLevels :
             Log(t, l, level)
        \/ \E t \in Threads : Proceed(t)

Spec == Init /\ [][Next]_vars

\* A thread that is in a call and not blocked goes on.
FairSpec == Spec /\ \A t \in Threads : WF_vars(Proceed(t))

-----------------------------------------------------------------------------
(* Properties *)

\* Every variable has its range; a logger has a mutex exactly while it is
\* open and was asked to be thread-safe (clogger.c:19, 40), and is open while
\* a call uses it.
TypeOK ==
  /\ fp \in [Loggers -> Streams \cup { Null }]
  /\ mutex \in [Loggers -> Threads \cup { Free, Null }]
  /\ open \subseteq Streams
  /\ buffer \in [Streams -> Seq(Entries)]
  /\ disk \in [Streams -> Seq(Entries)]
  /\ failed \subseteq Streams
  /\ call \in [Threads -> Calls \cup { Null }]
  /\ calls \in [Threads -> Nat]
  /\ due \in [Streams -> [Threads -> Seq(Lines)]]
  /\ opens \in 0 .. MaxOpens
  /\ \A t \in Threads : calls[t] <= MaxCalls[t]
  /\ \A l \in Loggers :
       /\ fp[l] \in { Null, Options[l].stream }
       /\ mutex[l] # Null <=> fp[l] # Null /\ Options[l].thread_safe
  /\ \A t \in Threads : call[t] # Null => fp[call[t].line.logger] # Null

Text(s) == disk[s] \o buffer[s]
Alone(l) == \A m \in Loggers \ { l } : Options[m].stream # Options[l].stream

\* The parts of a line stand together: no other thread's output comes in
\* between, in a thread-safe logger that has its stream to itself, also when
\* writes fail (clogger/README.md:190, clogger.h:85-118).
LinesWhole ==
  \A l \in Loggers :
    Options[l].thread_safe /\ Alone(l) =>
      LET text == Text(Options[l].stream)
      IN  \A i, j \in DOMAIN text :
            i < j /\ text[i].line = text[j].line =>
              \A k \in i .. j : text[k].line = text[i].line

\* The streams that hold what is printed to them: no write has failed, and no
\* failed clogger_init has closed stdout.
Reliable == Streams \ (failed \cup ({ Stdout } \ open))

\* The elements of seq that are in S, in their order: SelectSeq, as a function
\* on the lengths of its beginnings.
Selected(seq, S) ==
  LET upTo[n \in 0 .. Len(seq)] ==
        IF n = 0 THEN << >>
        ELSE IF seq[n] \in S THEN Append(upTo[n - 1], seq[n]) ELSE upTo[n - 1]
  IN  upTo[Len(seq)]

Messages(t) == { e \in Entries : e.line.thread = t /\ e.part = "message" }

\* Once a call has returned its message is on disk, so that a program that
\* dies loses none, thread-safe logger or not: each thread's messages of a
\* level that is logged, no others, each once, in the order of its calls
\* (clogger.h:84, 117; clogger/README.md:133).  A stream with a failed write
\* is left out: the call returns all the same, and its message may be lost.
ReturnedIsOnDisk ==
  \A s \in Reliable, t \in Threads :
    LET mine == Selected(disk[s], { e \in Messages(t) :
                                      call[t] # Null => e.line # call[t].line })
    IN  [i \in DOMAIN mine |-> mine[i].line]
          = Selected(due[s][t], { line \in Lines : Wanted(line) })

\* A file is open exactly while a logger owns it: no way out of clogger_init
\* or clogger_close leaks a descriptor or closes another logger's file
\* (clogger.c:22, 29, 45).
OpenFilesOwned ==
  open \ { Stdout } = { fp[l] : l \in Loggers } \ { Stdout, Null }

\* A thread that has taken the mutex of a logger releases it, whatever the
\* line consists of (clogger.h:118; clogger.c:60-63 returns early, but only
\* to the macro).
LockIsReleased ==
  \A t \in Threads : (\E l \in Loggers : mutex[l] = t)
                      ~> (\A l \in Loggers : mutex[l] # t)

=============================================================================
