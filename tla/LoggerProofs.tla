---------------------------- MODULE LoggerProofs ----------------------------
(***************************************************************************)
(* Proofs about Logger, for any threads, loggers and options and any       *)
(* bounds on calls: its type invariant, that files are owned by loggers,   *)
(* that the mutex makes whole lines of what several fprintf write, and     *)
(* that the messages of the calls that have returned are on disk.          *)
(***************************************************************************)
EXTENDS Logger, SequenceTheorems, WellFoundedInduction, TLAPS

-----------------------------------------------------------------------------
(* The inductive invariant. *)

Printing(t) == call[t] # Null /\ call[t].at \in { "print", "unlock" }

\* Between the lock and the unlock a thread holds the mutex of its logger.
Exclusive ==
  \A t \in Threads : Printing(t) /\ Options[call[t].line.logger].thread_safe
    => mutex[call[t].line.logger] = t

\* A call is known by its thread and a number that is not used again.
Fresh ==
  /\ \A t \in Threads : call[t] # Null =>
       call[t].line.thread = t /\ call[t].line.number < calls[t]
  /\ \A s \in Streams : \A i \in DOMAIN Text(s) :
       Text(s)[i].line.number < calls[Text(s)[i].line.thread]

\* A thread that waits for the mutex has printed nothing of its line.
Unprinted ==
  \A t \in Threads, s \in Streams : At(t, "lock") =>
    \A i \in DOMAIN Text(s) : Text(s)[i].line # call[t].line

Guarded(l) == Options[l].thread_safe /\ Alone(l)

\* What follows the first part of a line that is being printed is that line.
LastLine ==
  \A t \in Threads, l \in Loggers :
    Printing(t) /\ call[t].line.logger = l /\ Guarded(l) =>
      LET text == Text(Options[l].stream)
      IN  \A i, j \in DOMAIN text :
            i < j /\ text[i].line = call[t].line => text[j].line = call[t].line

IInv == /\ TypeOK /\ OpenFilesOwned /\ Exclusive
        /\ Fresh /\ Unprinted /\ LastLine /\ LinesWhole

-----------------------------------------------------------------------------
(* Texts. *)

\* new is what is left of old when some of its beginning or of its end is cut
\* off.
Rest(new, old) ==
  /\ new \in Seq(Entries) /\ old \in Seq(Entries)
  /\ \E d \in 0 .. Len(old) :
       /\ Len(new) <= Len(old) - d
       /\ \A i \in 1 .. Len(new) : new[i] = old[i + d]

(* Flushing leaves a text as it is, a truncation cuts off what was on disk,
   and a write that fails the end of the buffer: each way the text is the rest
   of what it was. *)
LEMMA CatRest ==
  ASSUME NEW d \in Seq(Entries), NEW b \in Seq(Entries)
  PROVE  /\ Rest(d \o b, d \o b)
         /\ Rest((d \o b) \o << >>, d \o b)
         /\ Rest(<< >> \o b, d \o b)
        /\ \A n \in 0 .. Len(b) : Rest((d \o SubSeq(b, 1, n)) \o << >>, d \o b)
<1>1. Rest(d \o b, d \o b)
  <2>1. d \o b \in Seq(Entries)
    OBVIOUS
  <2>2. Len(d \o b) \in Nat /\ 0 \in 0 .. Len(d \o b)
    BY <2>1
  <2>3. \A i \in 1 .. Len(d \o b) : i + 0 = i
    OBVIOUS
  <2>4. QED
    BY <2>1, <2>2, <2>3 DEF Rest
<1>2. (d \o b) \o << >> = d \o b
  OBVIOUS
<1>3. Rest(<< >> \o b, d \o b)
  <2>1. << >> \o b = b /\ d \o b \in Seq(Entries)
    OBVIOUS
  <2>2. /\ Len(d \o b) = Len(d) + Len(b)
        /\ \A i \in 1 .. Len(b) : (d \o b)[i + Len(d)] = b[i]
    OBVIOUS
  <2>3. Len(d) \in 0 .. Len(d \o b) /\ Len(b) = Len(d \o b) - Len(d)
    BY <2>2
  <2>4. QED
    BY <2>1, <2>2, <2>3 DEF Rest
<1>4. ASSUME NEW n \in 0 .. Len(b)
      PROVE  Rest((d \o SubSeq(b, 1, n)) \o << >>, d \o b)
  <2> DEFINE p == SubSeq(b, 1, n)
  <2>1. /\ p \in Seq(Entries) /\ Len(p) = n
        /\ \A i \in 1 .. n : p[i] = b[i]
    OBVIOUS
  <2> HIDE DEF p
  <2>2. (d \o p) \o << >> = d \o p /\ d \o p \in Seq(Entries)
    BY <2>1
  <2>3. /\ d \o b \in Seq(Entries)
        /\ Len(d \o p) = Len(d) + n /\ Len(d \o b) = Len(d) + Len(b)
        /\ n <= Len(b) /\ Len(d) \in Nat /\ Len(b) \in Nat
    BY <2>1
  <2>4. \A i \in 1 .. Len(d \o p) : (d \o p)[i] = (d \o b)[i + 0]
    BY <2>1, <2>3
  <2>5. 0 \in 0 .. Len(d \o b) /\ Len(d \o p) <= Len(d \o b) - 0
    BY <2>3
  <2>6. Rest(d \o p, d \o b)
    BY <2>2, <2>3, <2>4, <2>5 DEF Rest
  <2>7. QED
    BY <2>2, <2>6 DEF p
<1>5. QED
  BY <1>1, <1>2, <1>3, <1>4

(* One fprintf makes its text longer by one. *)
LEMMA CatAppend ==
  ASSUME NEW d \in Seq(Entries), NEW b \in Seq(Entries), NEW e \in Entries
  PROVE  d \o Append(b, e) = Append(d \o b, e)
OBVIOUS

-----------------------------------------------------------------------------
(* Type correctness. *)

(* Short sequences. *)
LEMMA Short ==
  ASSUME NEW S
  PROVE  /\ << >> \in Seq(S)
         /\ \A x \in S : << x >> \in Seq(S)
         /\ \A x, y \in S : << x, y >> \in Seq(S)
         /\ \A p, q \in Seq(S) : p \o q \in Seq(S)
OBVIOUS

(* The parts of a line are a sequence of names. *)
LEMMA PartsAreNames ==
  ASSUME NEW l, NEW level, NEW trace \in Traces
  PROVE  Parts(l, level, trace) \in Seq(PartNames)
<1>1. trace \in Seq(PartNames)
  <2>1. /\ << "unavailable" >> \in Seq(PartNames)
        /\ << "heading", "frame" >> \in Seq(PartNames)
    BY Short DEF PartNames
  <2>2. QED
    BY <2>1 DEF Traces
<1> DEFINE flags   == Options[l].flags
           Part(f) == IF f \in flags THEN << f >> ELSE << >>
           gap     == IF flags \cap { "level", "file", "func", "line" } # {}
                      THEN << "gap" >> ELSE << >>
           last    == IF level = ERROR /\ "trace" \in flags
                      THEN trace ELSE << >>
<1>2. \A f \in PartNames : Part(f) \in Seq(PartNames)
  BY Short
<1>3. gap \in Seq(PartNames) /\ last \in Seq(PartNames)
  BY <1>1, Short DEF PartNames
<1>4. /\ Part("time") \in Seq(PartNames) /\ Part("level") \in Seq(PartNames)
      /\ Part("file") \in Seq(PartNames) /\ Part("func") \in Seq(PartNames)
      /\ Part("line") \in Seq(PartNames)
  BY <1>2 DEF PartNames
<1>5. Parts(l, level, trace) = Part("time") \o Part("level") \o Part("file")
        \o Part("func") \o Part("line") \o gap \o << "message" >> \o last
  BY DEF Parts
<1>6. << "message" >> \in Seq(PartNames)
  BY Short DEF PartNames
<1> HIDE DEF Part, gap, last
<1>7. QED
  BY <1>3, <1>4, <1>5, <1>6

(* A logger is known by its stream, which is the one that its fp points to. *)
LEMMA OwnStream ==
  ASSUME TypeOK, NEW l \in Loggers
  PROVE  /\ Options[l].stream \in Streams /\ Options[l].stream # Null
         /\ fp[l] # Null => fp[l] = Options[l].stream /\ fp[l] \in Streams
BY LoggerAssumption DEF TypeOK, Streams

(* A call in progress is on an open logger, whose stream it prints to. *)
LEMMA CallUses ==
  ASSUME TypeOK, NEW t \in Threads, call[t] # Null
  PROVE  /\ call[t] \in Calls /\ call[t].line \in Lines
         /\ call[t].line.logger \in Loggers
         /\ fp[call[t].line.logger] \in Streams
         /\ fp[call[t].line.logger] = Options[call[t].line.logger].stream
<1>1. call[t] \in Calls
  BY DEF TypeOK
<1>2. call[t].line \in Lines
  BY <1>1 DEF Calls
<1>3. call[t].line.logger \in Loggers
  BY <1>2 DEF Lines
<1>4. QED
  BY <1>1, <1>2, <1>3, OwnStream DEF TypeOK

(* Initially every variable has its range. *)
LEMMA TypeInit == Init => TypeOK
BY LoggerAssumption DEF Init, TypeOK, Streams, Calls

(* The steps of clogger_init and clogger_close keep it. *)
LEMMA TypeInitClose ==
  ASSUME TypeOK, NEW l \in Loggers,
         InitOpens(l) \/ InitFails(l) \/ InitNoMutex(l) \/ Close(l)
  PROVE  TypeOK'
<1> DEFINE s == Options[l].stream
<1>0. s \in Streams /\ s # Null /\ (fp[l] # Null => fp[l] = s)
  BY OwnStream
<1>a. /\ << >> \in Seq(Entries)
      /\ [t \in Threads |-> << >>] \in [Threads -> Seq(Lines)]
      /\ \A r \in Streams : disk[r] \o buffer[r] \in Seq(Entries)
  BY DEF TypeOK
<1>1. CASE InitFails(l)
  <2>1. opens' \in 0 .. MaxOpens
    BY <1>1, LoggerAssumption DEF InitFails, CanInit, TypeOK
  <2>2. QED
    BY <1>1, <2>1 DEF InitFails, streams, TypeOK
<1>2. CASE InitOpens(l)
  <2>1. disk' \in [Streams -> Seq(Entries)]
        /\ due' \in [Streams -> [Threads -> Seq(Lines)]]
    BY <1>2, <1>0, <1>a DEF InitOpens, Fopen, TypeOK
  <2>2. /\ fp' \in [Loggers -> Streams \cup { Null }]
        /\ mutex' \in [Loggers -> Threads \cup { Free, Null }]
        /\ open' \subseteq Streams
    BY <1>2, <1>0 DEF InitOpens, TypeOK
  <2>3. \A m \in Loggers :
          /\ fp'[m] \in { Null, Options[m].stream }
          /\ mutex'[m] # Null <=> fp'[m] # Null /\ Options[m].thread_safe
    BY <1>2, <1>0, LoggerAssumption DEF InitOpens, TypeOK
  <2>4. \A t \in Threads : call[t] # Null => fp'[call[t].line.logger] # Null
    BY <1>2, <1>0, CallUses DEF InitOpens, TypeOK
  <2>5. opens' \in 0 .. MaxOpens
    BY <1>2, LoggerAssumption DEF InitOpens, CanInit, TypeOK
  <2>6. QED
    BY <1>2, <2>1, <2>2, <2>3, <2>4, <2>5 DEF InitOpens, TypeOK
<1>3. CASE InitNoMutex(l)
  <2>1. /\ disk' \in [Streams -> Seq(Entries)]
        /\ buffer' \in [Streams -> Seq(Entries)]
        /\ due' \in [Streams -> [Threads -> Seq(Lines)]]
    BY <1>3, <1>0, <1>a DEF InitNoMutex, Fopen, Fclose, TypeOK
  <2>2. open' \subseteq Streams
    BY <1>3 DEF InitNoMutex, TypeOK
  <2>3. opens' \in 0 .. MaxOpens
    BY <1>3, LoggerAssumption DEF InitNoMutex, CanInit, TypeOK
  <2>4. QED
    BY <1>3, <2>1, <2>2, <2>3 DEF InitNoMutex, TypeOK
<1>4. CASE Close(l)
  <2>1. /\ disk' \in [Streams -> Seq(Entries)]
        /\ buffer' \in [Streams -> Seq(Entries)]
    <3>1. CASE fp[l] = Stdout
      BY <1>4, <3>1 DEF Close, TypeOK, streams
    <3>2. CASE fp[l] # Stdout
      <4>1. fp[l] \in Streams
        BY <1>4, <1>0 DEF Close
      <4>2. /\ disk' = [disk EXCEPT ![fp[l]] = disk[fp[l]] \o buffer[fp[l]]]
            /\ buffer' = [buffer EXCEPT ![fp[l]] = << >>]
        BY <1>4, <3>2 DEF Close, Fclose
      <4>3. QED
        BY <4>1, <4>2, <1>a DEF TypeOK
    <3>3. QED
      BY <3>1, <3>2
  <2>2. /\ fp' \in [Loggers -> Streams \cup { Null }]
        /\ mutex' \in [Loggers -> Threads \cup { Free, Null }]
        /\ open' \subseteq Streams
    BY <1>4 DEF Close, TypeOK
  <2>3. \A m \in Loggers :
          /\ fp'[m] \in { Null, Options[m].stream }
          /\ mutex'[m] # Null <=> fp'[m] # Null /\ Options[m].thread_safe
    BY <1>4 DEF Close, TypeOK
  <2>4. \A t \in Threads : call[t] # Null => fp'[call[t].line.logger] # Null
    BY <1>4, CallUses DEF Close, InCall, TypeOK
  <2>5. QED
    BY <1>4, <2>1, <2>2, <2>3, <2>4 DEF Close, TypeOK
<1>5. QED
  BY <1>1, <1>2, <1>3, <1>4

(* The steps of clogger_log keep it. *)
LEMMA TypeLog ==
  ASSUME TypeOK, NEW t \in Threads, NEW l \in Loggers, NEW level \in CallLevels,
         Log(t, l, level)
  PROVE  TypeOK'
<1> DEFINE line == [thread |-> t, number |-> calls[t], logger |-> l,
                    level |-> level]
<1>1. line \in Lines
  BY LoggerAssumption DEF TypeOK, Lines
<1>2. fp[l] \in Streams /\ fp[l] # Null
  BY OwnStream DEF Log
<1>3. calls' \in [Threads -> Nat] /\ \A u \in Threads : calls'[u] <= MaxCalls[u]
  <2>1. calls' = [calls EXCEPT ![t] = @ + 1] /\ calls[t] < MaxCalls[t]
    BY DEF Log
  <2>2. calls \in [Threads -> Nat] /\ MaxCalls \in [Threads -> Nat]
        /\ \A u \in Threads : calls[u] <= MaxCalls[u]
    BY LoggerAssumption DEF TypeOK
  <2>3. calls' \in [Threads -> Nat]
    BY <2>1, <2>2
  <2>4. ASSUME NEW u \in Threads
        PROVE  calls'[u] <= MaxCalls[u]
    <3>1. calls'[u] = IF u = t THEN calls[t] + 1 ELSE calls[u]
      BY <2>1, <2>2
    <3>2. QED
      BY <3>1, <2>1, <2>2
  <2>5. QED
    BY <2>3, <2>4
<1>4. CASE Options[l].min_level <= level
  <2>1. PICK trace \in Traces :
          call' = [call EXCEPT ![t] =
                     [line |-> line, at |-> "lock",
                      todo |-> Parts(l, level, trace)]]
    BY <1>4 DEF Log
  <2> DEFINE c == [line |-> line, at |-> "lock", todo |-> Parts(l, level, trace)]
  <2>2. c \in Calls /\ c.line.logger = l
    BY <1>1, PartsAreNames DEF Calls
  <2> HIDE DEF c
  <2>3. call' \in [Threads -> Calls \cup { Null }]
    BY <2>1, <2>2 DEF TypeOK, c
  <2>4. \A u \in Threads : call'[u] # Null => fp[call'[u].line.logger] # Null
    BY <2>1, <2>2, <1>2 DEF TypeOK, c
  <2>5. QED
    BY <1>3, <1>4, <2>3, <2>4 DEF Log, TypeOK, loggers, streams
<1>5. CASE ~(Options[l].min_level <= level)
  <2>1. due' = [due EXCEPT ![fp[l]][t] = Append(@, line)]
    BY <1>5 DEF Log, Returned
  <2>2. due' \in [Streams -> [Threads -> Seq(Lines)]]
    BY <2>1, <1>1, <1>2 DEF TypeOK
  <2>3. QED
    BY <1>3, <1>5, <2>2 DEF Log, TypeOK, loggers, streams
<1>6. QED
  BY <1>4, <1>5

(* A print or a flush that fails: the call goes on as if it had not, and the
   stream is known not to hold what is printed. *)
LEMMA FailsIs ==
  ASSUME TypeOK, NEW t \in Threads, Fails(t)
  PROVE  /\ At(t, "print") /\ call[t] # Null
         /\ UNCHANGED << loggers, calls, due >>
         /\ fp[call[t].line.logger] \in Streams
         /\ failed' = failed \cup { fp[call[t].line.logger] }
         /\ \A r \in Streams \ { fp[call[t].line.logger] } :
              disk'[r] = disk[r] /\ buffer'[r] = buffer[r]
         /\ buffer' = [buffer EXCEPT ![fp[call[t].line.logger]] = << >>]
         /\ \E n \in 0 .. Len(buffer[fp[call[t].line.logger]]) :
              disk' = [disk EXCEPT ![fp[call[t].line.logger]] =
                         @ \o SubSeq(buffer[fp[call[t].line.logger]], 1, n)]
         /\ disk' \in [Streams -> Seq(Entries)]
         /\ buffer' \in [Streams -> Seq(Entries)]
         /\ call'[t] \in Calls /\ call'[t] # Null /\ call'[t].line = call[t].line
         /\ \A u \in Threads : u # t => call'[u] = call[u]
         /\ call' \in [Threads -> Calls \cup { Null }]
         /\ \/ /\ call[t].todo # << >> /\ call'[t].at = "print"
               /\ call'[t].todo = Tail(call[t].todo)
            \/ call'[t].todo = << >> /\ call'[t].at = "unlock"
<1> DEFINE c == call[t]
           s == fp[call[t].line.logger]
<1>1. c # Null /\ At(t, "print") /\ UNCHANGED << loggers, calls, due >>
      /\ WriteFails(s)
  BY DEF Fails, FprintfFails, FlushFails, At
<1>2. s \in Streams /\ c \in Calls
  BY <1>1, CallUses
<1>3. PICK n \in 0 .. Len(buffer[s]) :
        disk' = [disk EXCEPT ![s] = @ \o SubSeq(buffer[s], 1, n)]
  BY <1>1 DEF WriteFails
<1>4. disk[s] \o SubSeq(buffer[s], 1, n) \in Seq(Entries)
  BY <1>2 DEF TypeOK
<1>5. /\ failed' = failed \cup { s } /\ buffer' = [buffer EXCEPT ![s] = << >>]
  BY <1>1 DEF WriteFails
<1>6. /\ disk' \in [Streams -> Seq(Entries)]
      /\ buffer' \in [Streams -> Seq(Entries)]
      /\ \A r \in Streams \ { s } : disk'[r] = disk[r] /\ buffer'[r] = buffer[r]
  <2>1. << >> \in Seq(Entries)
    OBVIOUS
  <2>2. QED
    BY <1>2, <1>3, <1>4, <1>5, <2>1 DEF TypeOK
<1>7. /\ call'[t] \in Calls /\ call'[t] # Null /\ call'[t].line = c.line
      /\ \/ /\ c.todo # << >> /\ call'[t].at = "print"
            /\ call'[t].todo = Tail(c.todo)
         \/ call'[t].todo = << >> /\ call'[t].at = "unlock"
  <2>1. CASE FprintfFails(t)
    <3>1. call'[t] = [c EXCEPT !.todo = Tail(@)] /\ c.todo # << >> /\ c.at = "print"
      BY <2>1 DEF FprintfFails, At, TypeOK
    <3>2. Tail(c.todo) \in Seq(PartNames)
      BY <1>2, <3>1 DEF Calls
    <3>3. /\ call'[t] \in Calls /\ call'[t].line = c.line
          /\ call'[t].at = "print" /\ call'[t].todo = Tail(c.todo)
      BY <1>2, <3>1, <3>2 DEF Calls
    <3>4. QED
      BY <3>1, <3>3, LoggerAssumption
  <2>2. CASE FlushFails(t)
    <3>1. call'[t] = [c EXCEPT !.at = "unlock"] /\ c.todo = << >>
      BY <2>2 DEF FlushFails, TypeOK
    <3>2. QED
      BY <1>2, <3>1, LoggerAssumption DEF Calls
  <2>3. QED
    BY <2>1, <2>2 DEF Fails
<1>8. /\ \A u \in Threads : u # t => call'[u] = call[u]
      /\ call' \in [Threads -> Calls \cup { Null }]
  <2>1. DOMAIN call' = Threads /\ \A u \in Threads : u # t => call'[u] = call[u]
    BY DEF Fails, FprintfFails, FlushFails, TypeOK
  <2>2. call' = [u \in Threads |-> call'[u]]
    BY DEF Fails, FprintfFails, FlushFails, TypeOK
  <2>3. QED
    BY <1>7, <2>1, <2>2 DEF TypeOK
<1>9. QED
  BY <1>1, <1>2, <1>3, <1>5, <1>6, <1>7, <1>8

(* So do the steps of a call in progress. *)
LEMMA TypeProceed ==
  ASSUME TypeOK, NEW t \in Threads, Proceed(t)
  PROVE  TypeOK'
<1> DEFINE c == call[t]  l == call[t].line.logger  s == fp[l]
<1>0. c # Null
  BY DEF Proceed, Lock, Fprintf, Flush, Fails, FprintfFails, FlushFails, Unlock, At
<1>1. /\ c \in Calls /\ c.line \in Lines /\ l \in Loggers
      /\ s \in Streams /\ s # Null
  BY <1>0, CallUses, LoggerAssumption
<1>2. /\ << >> \in Seq(Entries)
      /\ \A r \in Streams : disk[r] \o buffer[r] \in Seq(Entries)
  BY DEF TypeOK
<1>3. CASE Lock(t)
  <2>1. /\ mutex' \in [Loggers -> Threads \cup { Free, Null }]
        /\ \A m \in Loggers : mutex'[m] # Null <=> mutex[m] # Null
    BY <1>3, <1>1, LoggerAssumption DEF Lock, TypeOK
  <2>2. /\ call' \in [Threads -> Calls \cup { Null }]
        /\ \A u \in Threads : call'[u] # Null =>
             call[u] # Null /\ call'[u].line = call[u].line
    BY <1>3, <1>0, <1>1 DEF Lock, TypeOK, Calls
  <2>3. QED
    BY <1>3, <2>1, <2>2 DEF Lock, TypeOK, streams
<1>4. CASE Fprintf(t)
  <2> DEFINE e == [line |-> c.line, part |-> Head(c.todo)]
  <2>1. e \in Entries /\ Tail(c.todo) \in Seq(PartNames)
    BY <1>4, <1>1 DEF Fprintf, Calls, Entries
  <2>2. buffer' = IF s \in open THEN [buffer EXCEPT ![s] = Append(@, e)]
                  ELSE buffer
    BY <1>4 DEF Fprintf
  <2> HIDE DEF e
  <2>3. buffer' \in [Streams -> Seq(Entries)]
    BY <2>1, <2>2, <1>1 DEF TypeOK
  <2>4. /\ call' \in [Threads -> Calls \cup { Null }]
        /\ \A u \in Threads : call'[u] # Null =>
             call[u] # Null /\ call'[u].line = call[u].line
    BY <1>4, <1>0, <1>1, <2>1 DEF Fprintf, TypeOK, Calls
  <2>5. QED
    BY <1>4, <2>3, <2>4 DEF Fprintf, TypeOK, loggers
<1>5. CASE Flush(t)
  <2>1. /\ disk' \in [Streams -> Seq(Entries)]
        /\ buffer' \in [Streams -> Seq(Entries)]
    BY <1>5, <1>1, <1>2 DEF Flush, TypeOK
  <2>2. /\ call' \in [Threads -> Calls \cup { Null }]
        /\ \A u \in Threads : call'[u] # Null =>
             call[u] # Null /\ call'[u].line = call[u].line
    BY <1>5, <1>0, <1>1 DEF Flush, TypeOK, Calls
  <2>3. QED
    BY <1>5, <2>1, <2>2 DEF Flush, TypeOK, loggers
<1>6. CASE Unlock(t)
  <2>1. /\ mutex' \in [Loggers -> Threads \cup { Free, Null }]
        /\ \A m \in Loggers : mutex'[m] # Null <=> mutex[m] # Null
    BY <1>6, <1>1, LoggerAssumption DEF Unlock, TypeOK
  <2>2. due' \in [Streams -> [Threads -> Seq(Lines)]]
    BY <1>6, <1>1 DEF Unlock, Returned, TypeOK
  <2>3. /\ call' \in [Threads -> Calls \cup { Null }]
        /\ \A u \in Threads : call'[u] # Null =>
             call[u] # Null /\ call'[u].line = call[u].line
    BY <1>6 DEF Unlock, TypeOK
  <2>4. QED
    BY <1>6, <2>1, <2>2, <2>3 DEF Unlock, TypeOK, streams
<1>7. CASE Fails(t)
  <2>1. /\ disk' \in [Streams -> Seq(Entries)]
        /\ buffer' \in [Streams -> Seq(Entries)]
        /\ failed' = failed \cup { s }
        /\ UNCHANGED << loggers, calls, due >>
    BY <1>7, FailsIs
  <2>2. /\ call' \in [Threads -> Calls \cup { Null }]
        /\ call'[t].line = call[t].line
        /\ \A u \in Threads : u # t => call'[u] = call[u]
    BY <1>7, FailsIs
  <2>3. \A u \in Threads : call'[u] # Null =>
          call[u] # Null /\ call'[u].line = call[u].line
    BY <1>0, <2>2
  <2>4. failed' \subseteq Streams
    BY <1>1, <2>1 DEF TypeOK
  <2>5. QED
    BY <2>1, <2>2, <2>3, <2>4 DEF TypeOK, loggers
<1>8. QED
  BY <1>3, <1>4, <1>5, <1>6, <1>7 DEF Proceed

(* Every step keeps every variable in its range. *)
LEMMA TypeStep == TypeOK /\ [Next]_vars => TypeOK'
<1> SUFFICES ASSUME TypeOK, [Next]_vars
             PROVE  TypeOK'
  OBVIOUS
<1>1. CASE UNCHANGED vars
  BY <1>1 DEF vars, TypeOK
<1>2. CASE Next
  BY <1>2, TypeInitClose, TypeLog, TypeProceed DEF Next
<1>3. QED
  BY <1>1, <1>2

(* Every variable of the loggers, of the streams and of the calls in progress
   keeps its range; a mutex exists exactly while its logger is open. *)
THEOREM TypeCorrect == Spec => []TypeOK
<1>1. QED
  BY TypeInit, TypeStep, PTL DEF Spec

-----------------------------------------------------------------------------
(* Files and their owners. *)

(* No step leaks a file or closes one that another logger owns. *)
LEMMA OwnedStep ==
  ASSUME TypeOK, OpenFilesOwned, [Next]_vars
  PROVE  OpenFilesOwned'
<1>1. ASSUME NEW l \in Loggers, InitOpens(l)
      PROVE  OpenFilesOwned'
  BY <1>1, OwnStream DEF InitOpens, CanInit, OpenFilesOwned, TypeOK
<1>2. ASSUME NEW l \in Loggers, InitNoMutex(l)
      PROVE  OpenFilesOwned'
  <2>1. fp[l] = Null /\ fp' = fp /\ open' = open \ { Options[l].stream }
    BY <1>2 DEF InitNoMutex, CanInit
  <2>2. \A m \in Loggers : fp[m] = Options[l].stream => fp[m] \in { Stdout, Null }
    BY <2>1, OwnStream, LoggerAssumption
  <2>3. QED
    BY <2>1, <2>2 DEF OpenFilesOwned
<1>3. ASSUME NEW l \in Loggers, Close(l)
      PROVE  OpenFilesOwned'
  <2>1. /\ fp[l] # Null /\ fp' = [fp EXCEPT ![l] = Null]
        /\ open' = IF fp[l] = Stdout THEN open ELSE open \ { fp[l] }
    BY <1>3 DEF Close
  <2>2. \A m \in Loggers : fp[m] = fp[l] /\ m # l => fp[m] = Stdout
    BY <2>1, OwnStream, LoggerAssumption
  <2>3. \A m \in Loggers : fp'[m] = IF m = l THEN Null ELSE fp[m]
    BY <2>1 DEF TypeOK
  <2>4. QED
    BY <2>1, <2>2, <2>3 DEF OpenFilesOwned
<1>4. ASSUME UNCHANGED << fp, open >>
      PROVE  OpenFilesOwned'
  BY <1>4 DEF OpenFilesOwned
<1>5. QED
  BY <1>1, <1>2, <1>3, <1>4
  DEF Next, vars, loggers, InitFails, Log, Proceed, Lock, Fprintf, Flush, Fails,
      FprintfFails, FlushFails, Unlock

(* A file is open exactly while a logger owns it. *)
THEOREM FilesOwned == Spec => []OpenFilesOwned
<1>1. Init => OpenFilesOwned
  BY DEF Init, OpenFilesOwned
<1>2. TypeOK /\ OpenFilesOwned /\ [Next]_vars => OpenFilesOwned'
  BY OwnedStep
<1>3. QED
  BY <1>1, <1>2, TypeCorrect, PTL DEF Spec

-----------------------------------------------------------------------------
(* What a step does to a call, to the mutexes and to a text. *)

(* A call in progress begins with a new number and keeps its line. *)
LEMMA CallStep ==
  ASSUME TypeOK, [Next]_vars, NEW t \in Threads
  PROVE  /\ calls[t] <= calls'[t]
         /\ call'[t] # Null =>
              \/ /\ call[t] # Null /\ call'[t].line = call[t].line
                 /\ call'[t].at = "lock" => call[t].at = "lock"
                 /\ Printing(t)' => Printing(t) \/ Lock(t)
              \/ /\ call[t] = Null /\ call'[t].at = "lock"
                 /\ call'[t].line.thread = t /\ call'[t].line.number = calls[t]
                 /\ calls'[t] = calls[t] + 1
                 /\ UNCHANGED streams
<1>0. calls[t] \in Nat /\ call[t] \in Calls \cup { Null }
  BY DEF TypeOK
<1>1. CASE call' = call /\ calls' = calls
  BY <1>1, <1>0 DEF Printing
<1>2. ASSUME NEW u \in Threads, NEW l \in Loggers, NEW level \in CallLevels,
             Log(u, l, level)
      PROVE  /\ calls[t] <= calls'[t]
             /\ call'[t] # Null =>
                  \/ call'[t] = call[t]
                  \/ /\ call[t] = Null /\ call'[t].at = "lock"
                     /\ call'[t].line.thread = t
                     /\ call'[t].line.number = calls[t]
                     /\ calls'[t] = calls[t] + 1
                     /\ UNCHANGED streams
  <2>1. calls' = [calls EXCEPT ![u] = @ + 1] /\ call[u] = Null
        /\ UNCHANGED streams
    BY <1>2 DEF Log, streams
  <2>2. calls[t] <= calls'[t] /\ (u = t => calls'[t] = calls[t] + 1)
    BY <2>1, <1>0 DEF TypeOK
  <2>3. \/ call' = call
        \/ \E trace \in Traces :
             call' = [call EXCEPT ![u] =
                        [line |-> [thread |-> u, number |-> calls[u],
                                   logger |-> l, level |-> level],
                         at |-> "lock", todo |-> Parts(l, level, trace)]]
    BY <1>2 DEF Log
  <2>4. QED
    BY <2>1, <2>2, <2>3 DEF TypeOK
<1>3. ASSUME NEW u \in Threads, Proceed(u)
      PROVE  /\ calls' = calls
             /\ call'[t] # Null =>
                  /\ call[t] # Null /\ call'[t].line = call[t].line
                  /\ call'[t].at = "lock" => call[t].at = "lock"
                  /\ Printing(t)' => Printing(t) \/ Lock(t)
  <2>1. call[u] \in Calls
    BY <1>3, CallUses
    DEF Proceed, Lock, Fprintf, Flush, Fails, FprintfFails, FlushFails, Unlock, At
  <2>2. CASE Lock(u)
    BY <2>1, <2>2, <1>0 DEF Lock, Printing, At, TypeOK, Calls
  <2>3. CASE Fprintf(u)
    BY <2>1, <2>3, <1>0 DEF Fprintf, Printing, At, TypeOK, Calls
  <2>4. CASE Flush(u)
    BY <2>1, <2>4, <1>0 DEF Flush, Printing, At, TypeOK, Calls
  <2>5. CASE Unlock(u)
    BY <2>1, <2>5, <1>0 DEF Unlock, Printing, At, TypeOK
  <2>6. CASE Fails(u)
    BY <2>6, FailsIs DEF Printing, At
  <2>7. QED
    BY <1>3, <2>2, <2>3, <2>4, <2>5, <2>6 DEF Proceed
<1>4. \/ call' = call /\ calls' = calls
      \/ \E u \in Threads, l \in Loggers, level \in CallLevels : Log(u, l, level)
      \/ \E u \in Threads : Proceed(u)
  BY DEF Next, vars, InitOpens, InitFails, InitNoMutex, Close
<1>5. QED
  BY <1>0, <1>1, <1>2, <1>3, <1>4 DEF Printing

(* A text loses some of its beginning or of its end at most, unless a thread
   prints to its stream. *)
LEMMA TextStep ==
  ASSUME TypeOK, [Next]_vars, NEW s \in Streams
  PROVE  \/ Rest(Text(s)', Text(s))
         \/ \E t \in Threads :
              /\ At(t, "print") /\ fp[call[t].line.logger] = s
              /\ \E e \in Entries : /\ e.line = call[t].line
                                    /\ Text(s)' = Append(Text(s), e)
<1>0. disk[s] \in Seq(Entries) /\ buffer[s] \in Seq(Entries)
  BY DEF TypeOK
<1>1. CASE UNCHANGED streams
  BY <1>0, <1>1, CatRest DEF streams, Text
<1>2. ASSUME NEW r \in Streams, Fclose(r)
      PROVE  Rest(Text(s)', Text(s))
  BY <1>0, <1>2, CatRest DEF Fclose, Text, TypeOK
<1>3. ASSUME NEW l \in Loggers, Fopen(l), buffer' = buffer
      PROVE  Rest(Text(s)', Text(s))
  <2>1. disk'[s] = disk[s] \/ disk'[s] = << >>
    BY <1>3 DEF Fopen, TypeOK
  <2>2. QED
    BY <1>0, <1>3, <2>1, CatRest DEF Text
<1>4. ASSUME NEW t \in Threads, Flush(t)
      PROVE  Rest(Text(s)', Text(s))
  <2>1. fp[call[t].line.logger] \in Streams
    BY <1>4, CallUses DEF Flush, At
  <2>2. Fclose(fp[call[t].line.logger])
    BY <1>4 DEF Flush, Fclose
  <2>3. QED
    BY <2>1, <2>2, <1>2
<1>5. ASSUME NEW t \in Threads, Fprintf(t)
      PROVE  \/ Rest(Text(s)', Text(s))
             \/ /\ At(t, "print") /\ fp[call[t].line.logger] = s
                /\ \E e \in Entries : /\ e.line = call[t].line
                                      /\ Text(s)' = Append(Text(s), e)
  <2> DEFINE e == [line |-> call[t].line, part |-> Head(call[t].todo)]
  <2>1. call[t] \in Calls /\ call[t].todo # << >> /\ At(t, "print")
    BY <1>5, CallUses DEF Fprintf, At
  <2>2. e \in Entries /\ e.line = call[t].line
    BY <2>1 DEF Calls, Entries
  <2>3. /\ disk' = disk
        /\ \/ buffer' = buffer
           \/ buffer' = [buffer EXCEPT ![fp[call[t].line.logger]] = Append(@, e)]
    BY <1>5 DEF Fprintf
  <2> HIDE DEF e
  <2>4. CASE buffer'[s] = buffer[s]
    BY <1>0, <2>3, <2>4, CatRest DEF Text
  <2>5. CASE fp[call[t].line.logger] = s /\ buffer'[s] = Append(buffer[s], e)
    <3>1. Text(s)' = Append(Text(s), e)
      <4>1. disk[s] \o Append(buffer[s], e) = Append(disk[s] \o buffer[s], e)
        BY <1>0, <2>2, CatAppend
      <4>2. disk'[s] = disk[s]
        BY <2>3
      <4>3. QED
        BY <4>1, <4>2, <2>5 DEF Text
    <3>2. QED
      BY <2>1, <2>2, <2>5, <3>1
  <2>6. QED
    BY <2>3, <2>4, <2>5 DEF TypeOK
<1>6. ASSUME NEW l \in Loggers, Close(l)
      PROVE  UNCHANGED streams \/ \E r \in Streams : Fclose(r)
  BY <1>6, OwnStream DEF Close, streams
<1>9. ASSUME NEW t \in Threads, Fails(t)
      PROVE  Rest(Text(s)', Text(s))
  <2> DEFINE r == fp[call[t].line.logger]
  <2>1. CASE s # r
    <3>1. disk'[s] = disk[s] /\ buffer'[s] = buffer[s]
      BY <1>9, <2>1, FailsIs
    <3>2. QED
      BY <1>0, <3>1, CatRest DEF Text
  <2>2. CASE s = r
    <3>1. PICK n \in 0 .. Len(buffer[s]) :
            disk' = [disk EXCEPT ![s] = @ \o SubSeq(buffer[s], 1, n)]
      BY <1>9, <2>2, FailsIs
    <3>a. buffer' = [buffer EXCEPT ![s] = << >>]
      BY <1>9, <2>2, FailsIs
    <3>2. buffer'[s] = << >> /\ disk'[s] = disk[s] \o SubSeq(buffer[s], 1, n)
      BY <3>1, <3>a DEF TypeOK
    <3>3. Text(s)' = (disk[s] \o SubSeq(buffer[s], 1, n)) \o << >>
      BY <3>2 DEF Text
    <3>4. QED
      BY <1>0, <3>3, CatRest DEF Text
  <2>3. QED
    BY <2>1, <2>2
<1>7. ASSUME NEW l \in Loggers, InitNoMutex(l)
      PROVE  (Fopen(l) /\ buffer' = buffer) \/ \E r \in Streams : Fclose(r)
  BY <1>7, OwnStream DEF InitNoMutex
<1>8. QED
  BY <1>1, <1>2, <1>3, <1>4, <1>5, <1>6, <1>7, <1>9
  DEF Next, vars, streams, InitOpens, InitFails, Log, Proceed, Lock, Unlock

-----------------------------------------------------------------------------
(* Whole lines. *)

(* Nobody but the holder of the mutex is between the lock and the unlock. *)
LEMMA ExclusiveStep ==
  ASSUME TypeOK, Exclusive, [Next]_vars
  PROVE  Exclusive'
<1> SUFFICES ASSUME NEW t \in Threads, Printing(t)',
                    Options[call'[t].line.logger].thread_safe
             PROVE  mutex'[call'[t].line.logger] = t
  BY DEF Exclusive
<1> DEFINE l == call[t].line.logger
<1>1. /\ call[t] # Null /\ call'[t].line = call[t].line
      /\ Printing(t) \/ Lock(t)
  BY CallStep DEF Printing
<1>2. l \in Loggers /\ mutex[l] # Null
  BY <1>1, CallUses DEF TypeOK
<1>3. CASE Lock(t)
  BY <1>1, <1>2, <1>3 DEF Lock, TypeOK
<1>4. CASE Printing(t)
  <2>1. mutex[l] = t
    BY <1>1, <1>4 DEF Exclusive
  <2>2. ASSUME NEW u \in Threads, Lock(u)
        PROVE  mutex'[l] = t
    <3>1. call[u].line.logger = l => FALSE
      BY <1>2, <2>1, <2>2, LoggerAssumption DEF Lock
    <3>2. QED
      BY <2>1, <2>2, <3>1, <1>2 DEF Lock, TypeOK
  <2>3. ASSUME NEW u \in Threads, Unlock(u)
        PROVE  mutex'[l] = t
    <3>1. call[u].line.logger = l => u = t
      BY <1>1, <2>1, <2>3 DEF Unlock, At, Exclusive, Printing
    <3>2. u # t
      BY <2>3 DEF Unlock, Printing, TypeOK
    <3>3. QED
      BY <2>1, <2>3, <3>1, <3>2, <1>2 DEF Unlock, TypeOK
  <2>4. ASSUME NEW m \in Loggers, InitOpens(m) \/ Close(m)
        PROVE  mutex'[l] = t
    <3>1. m # l
      BY <2>4, <1>1, CallUses, LoggerAssumption
      DEF InitOpens, CanInit, Close, InCall, TypeOK
    <3>2. QED
      BY <2>1, <2>4, <3>1, <1>2 DEF InitOpens, Close, TypeOK
  <2>5. ASSUME UNCHANGED mutex
        PROVE  mutex'[l] = t
    BY <2>1, <2>5
  <2>6. mutex'[l] = t
    BY <2>2, <2>3, <2>4, <2>5
    DEF Next, vars, loggers, InitFails, InitNoMutex, Log, Proceed, Fprintf, Flush,
        Fails, FprintfFails, FlushFails
  <2>7. QED
    BY <1>1, <2>6
<1>5. QED
  BY <1>1, <1>3, <1>4

(* The lines of a text after a step: they were there, or are being printed. *)
LEMMA LinesAfter ==
  ASSUME TypeOK, [Next]_vars, NEW s \in Streams, NEW i \in DOMAIN Text(s)'
  PROVE  /\ Text(s)'[i].line \in Lines
         /\ \/ \E j \in DOMAIN Text(s) : Text(s)'[i].line = Text(s)[j].line
            \/ \E t \in Threads : /\ At(t, "print")
                                  /\ Text(s)'[i].line = call[t].line
<1>0. Text(s) \in Seq(Entries)
  BY DEF TypeOK, Text
<1>1. CASE Rest(Text(s)', Text(s))
  <2>1. /\ Text(s)' \in Seq(Entries)
        /\ \E d \in 0 .. Len(Text(s)) :
             /\ Len(Text(s)') <= Len(Text(s)) - d
             /\ \A k \in 1 .. Len(Text(s)') : Text(s)'[k] = Text(s)[k + d]
    BY <1>1 DEF Rest
  <2>2. i \in 1 .. Len(Text(s)') /\ Text(s)'[i] \in Entries
    BY <2>1
  <2>3. \E j \in 1 .. Len(Text(s)) : Text(s)'[i] = Text(s)[j]
    BY <2>1, <2>2, <1>0
  <2>4. QED
    BY <2>2, <2>3, <1>0 DEF Entries
<1>2. CASE \E t \in Threads, e \in Entries :
             At(t, "print") /\ e.line = call[t].line /\ Text(s)' = Append(Text(s), e)
  <2>1. PICK t \in Threads, e \in Entries :
          At(t, "print") /\ e.line = call[t].line /\ Text(s)' = Append(Text(s), e)
    BY <1>2
  <2>2. i \in 1 .. Len(Text(s)) + 1
        /\ Text(s)'[i] = IF i <= Len(Text(s)) THEN Text(s)[i] ELSE e
    BY <1>0, <2>1
  <2>3. CASE i <= Len(Text(s))
    <3>1. i \in DOMAIN Text(s) /\ Text(s)'[i] = Text(s)[i]
      BY <1>0, <2>2, <2>3
    <3>2. Text(s)[i] \in Entries
      BY <1>0, <3>1
    <3>3. QED
      BY <3>1, <3>2 DEF Entries
  <2>4. CASE ~(i <= Len(Text(s)))
    BY <2>1, <2>2, <2>4 DEF Entries
  <2>5. QED
    BY <2>3, <2>4
<1>3. QED
  BY <1>1, <1>2, TextStep

(* No number is used for two lines of a thread. *)
LEMMA FreshStep ==
  ASSUME TypeOK, Fresh, [Next]_vars
  PROVE  Fresh'
<1>0. \A t \in Threads : calls[t] \in Nat /\ calls'[t] \in Nat
                         /\ calls[t] <= calls'[t]
  BY CallStep, TypeStep DEF TypeOK
<1>1. ASSUME NEW t \in Threads, call'[t] # Null
      PROVE  call'[t].line.thread = t /\ call'[t].line.number < calls'[t]
  <2>1. CASE call[t] # Null /\ call'[t].line = call[t].line
    <3>1. call[t].line.number \in Nat
      BY <2>1, CallUses DEF Lines
    <3>2. QED
      BY <1>0, <2>1, <3>1 DEF Fresh
  <2>2. QED
    BY <1>0, <1>1, <2>1, CallStep
<1>2. ASSUME NEW s \in Streams, NEW i \in DOMAIN Text(s)'
      PROVE  Text(s)'[i].line.number < calls'[Text(s)'[i].line.thread]
  <2> DEFINE line == Text(s)'[i].line
  <2>1. line \in Lines
    BY LinesAfter
  <2>2. line.thread \in Threads /\ line.number \in Nat
    BY <2>1 DEF Lines
  <2>3. line.number < calls[line.thread]
    <3>1. ASSUME NEW j \in DOMAIN Text(s), line = Text(s)[j].line
          PROVE  line.number < calls[line.thread]
      BY <3>1 DEF Fresh
    <3>2. ASSUME NEW t \in Threads, At(t, "print"), line = call[t].line
          PROVE  line.number < calls[line.thread]
      BY <3>2 DEF Fresh, At
    <3>3. QED
      BY <3>1, <3>2, LinesAfter
  <2>4. QED
    BY <1>0, <2>2, <2>3
<1>3. QED
  BY <1>1, <1>2 DEF Fresh

(* A line begins to appear only after the lock. *)
LEMMA UnprintedStep ==
  ASSUME TypeOK, Fresh, Unprinted, [Next]_vars
  PROVE  Unprinted'
<1> SUFFICES ASSUME NEW t \in Threads, NEW s \in Streams,
                    call'[t] # Null, call'[t].at = "lock",
                    NEW i \in DOMAIN Text(s)'
             PROVE  Text(s)'[i].line # call'[t].line
  BY DEF Unprinted, At
<1>1. CASE call[t] # Null /\ call'[t].line = call[t].line /\ call[t].at = "lock"
  <2>1. \A j \in DOMAIN Text(s) : Text(s)[j].line # call'[t].line
    BY <1>1 DEF Unprinted, At
  <2>2. \A u \in Threads : At(u, "print") => call[u].line # call'[t].line
    <3>1. \A u \in Threads : At(u, "print") => u # t /\ call[u].line.thread = u
      BY <1>1 DEF At, Fresh
    <3>2. call'[t].line.thread = t
      BY <1>1 DEF Fresh
    <3>3. QED
      BY <3>1, <3>2
  <2>3. QED
    BY <2>1, <2>2, LinesAfter
<1>2. CASE /\ call'[t].line.thread = t /\ call'[t].line.number = calls[t]
           /\ UNCHANGED streams
  <2>1. Text(s)' = Text(s)
    BY <1>2 DEF Text, streams
  <2>2. Text(s)[i].line.number < calls[Text(s)[i].line.thread]
    BY <2>1 DEF Fresh
  <2>3. calls[t] \in Nat
    BY DEF TypeOK
  <2>4. QED
    BY <1>2, <2>1, <2>2, <2>3
<1>3. QED
  BY <1>1, <1>2, CallStep

(* Two guarded loggers do not share a stream, and only the thread that holds
   the mutex prints to the stream of a guarded one. *)
LEMMA PrintsItsOwn ==
  ASSUME TypeOK, NEW t \in Threads, call[t] # Null,
         NEW l \in Loggers, Guarded(l),
         fp[call[t].line.logger] = Options[l].stream
  PROVE  call[t].line.logger = l
BY CallUses DEF Guarded, Alone

(* What follows the first part of a line in progress remains that line. *)
LEMMA LastLineStep ==
  ASSUME TypeOK, Exclusive, Unprinted, LastLine, [Next]_vars
  PROVE  LastLine'
<1> SUFFICES ASSUME NEW t \in Threads, NEW l \in Loggers,
                    Printing(t)', call'[t].line.logger = l, Guarded(l),
                    NEW i \in DOMAIN Text(Options[l].stream)',
                    NEW j \in DOMAIN Text(Options[l].stream)',
                    i < j,
                    Text(Options[l].stream)'[i].line = call'[t].line
             PROVE  Text(Options[l].stream)'[j].line = call'[t].line
  BY DEF LastLine, Guarded, Alone
<1> DEFINE line == call[t].line
           s    == Options[l].stream
<1>1. /\ call[t] # Null /\ call'[t].line = line
      /\ Printing(t) \/ Lock(t)
  BY CallStep DEF Printing
<1>2. s \in Streams /\ fp[l] = s /\ line.logger = l
  BY <1>1, CallUses
<1>3. i \in DOMAIN Text(s)' /\ j \in DOMAIN Text(s)' /\ Text(s)'[i].line = line
  BY <1>1
<1>4. SUFFICES Text(s)'[j].line = line
  BY <1>1
<1>5. Text(s) \in Seq(Entries)
  BY <1>2 DEF TypeOK, Text
<1> HIDE DEF line, s
<1>6. CASE Rest(Text(s)', Text(s))
  <2>1. PICK d \in 0 .. Len(Text(s)) :
          /\ Len(Text(s)') <= Len(Text(s)) - d
          /\ \A k \in 1 .. Len(Text(s)') : Text(s)'[k] = Text(s)[k + d]
    BY <1>6 DEF Rest
  <2>2. Text(s)' \in Seq(Entries)
    BY <1>6 DEF Rest
  <2>a. /\ i \in 1 .. Len(Text(s)') /\ j \in 1 .. Len(Text(s)')
        /\ Len(Text(s)) \in Nat /\ DOMAIN Text(s) = 1 .. Len(Text(s))
    BY <1>3, <1>5, <2>2
  <2>3. /\ i + d \in DOMAIN Text(s) /\ j + d \in DOMAIN Text(s)
        /\ i + d < j + d
        /\ Text(s)[i + d] = Text(s)'[i] /\ Text(s)[j + d] = Text(s)'[j]
    BY <2>1, <2>a
  <2>4. CASE Printing(t)
    BY <1>2, <1>3, <2>3, <2>4 DEF LastLine, line, s
  <2>5. CASE Lock(t)
    <3>1. At(t, "lock")
      BY <2>5 DEF Lock
    <3>2. Text(s)[i + d].line # line
      BY <1>2, <2>3, <3>1 DEF Unprinted, line
    <3>3. QED
      BY <1>3, <2>3, <3>2
  <2>6. QED
    BY <1>1, <2>4, <2>5
<1>7. ASSUME NEW u \in Threads, At(u, "print"), fp[call[u].line.logger] = s,
             NEW e \in Entries, e.line = call[u].line,
             Text(s)' = Append(Text(s), e)
      PROVE  Text(s)'[j].line = line
  <2>1. call[u].line.logger = l
    BY <1>2, <1>7, PrintsItsOwn DEF At, s
  <2>2. mutex[l] = u
    BY <1>2, <1>7, <2>1 DEF Exclusive, Printing, At, Guarded
  <2>3. u = t
    <3>1. CASE Printing(t)
      BY <1>2, <2>2, <3>1 DEF Exclusive, Guarded, line
    <3>2. CASE Lock(t)
      BY <2>2, <3>2, LoggerAssumption DEF Lock, line
    <3>3. QED
      BY <1>1, <3>1, <3>2
  <2>4. Printing(t)
    BY <1>7, <2>3 DEF Printing, At
  <2>5. /\ j \in 1 .. Len(Text(s)) + 1 /\ i \in 1 .. Len(Text(s)) + 1
        /\ \A k \in 1 .. Len(Text(s)) + 1 :
             Text(s)'[k] = IF k <= Len(Text(s)) THEN Text(s)[k] ELSE e
    BY <1>3, <1>5, <1>7
  <2>6. CASE j <= Len(Text(s))
    <3>1. /\ i \in DOMAIN Text(s) /\ j \in DOMAIN Text(s)
          /\ Text(s)'[i] = Text(s)[i] /\ Text(s)'[j] = Text(s)[j]
      BY <1>5, <2>5, <2>6
    <3>2. QED
      BY <1>2, <1>3, <2>4, <3>1 DEF LastLine, line, s
  <2>7. CASE ~(j <= Len(Text(s)))
    BY <1>7, <2>3, <2>5, <2>7 DEF line
  <2>8. QED
    BY <2>6, <2>7
<1>8. QED
  BY <1>2, <1>6, <1>7, TextStep

(* The lines on the stream of a guarded logger remain whole. *)
LEMMA WholeStep ==
  ASSUME TypeOK, LastLine, LinesWhole, [Next]_vars
  PROVE  LinesWhole'
<1> SUFFICES ASSUME NEW l \in Loggers, Guarded(l),
                    NEW i \in DOMAIN Text(Options[l].stream)',
                    NEW j \in DOMAIN Text(Options[l].stream)',
                    i < j,
                    Text(Options[l].stream)'[i].line
                      = Text(Options[l].stream)'[j].line,
                    NEW k \in i .. j
             PROVE  Text(Options[l].stream)'[k].line
                      = Text(Options[l].stream)'[i].line
  BY DEF LinesWhole, Guarded, Alone
<1> DEFINE s == Options[l].stream
<1>1. s \in Streams
  BY OwnStream
<1>2. /\ i \in DOMAIN Text(s)' /\ j \in DOMAIN Text(s)'
      /\ Text(s)'[i].line = Text(s)'[j].line
  OBVIOUS
<1>3. SUFFICES Text(s)'[k].line = Text(s)'[i].line
  OBVIOUS
<1>4. Text(s) \in Seq(Entries)
  BY <1>1 DEF TypeOK, Text
<1>5. \A a, b \in DOMAIN Text(s) :
        a < b /\ Text(s)[a].line = Text(s)[b].line
          => \A c \in a .. b : Text(s)[c].line = Text(s)[a].line
  BY DEF LinesWhole, Guarded
<1> HIDE DEF s
<1>6. CASE Rest(Text(s)', Text(s))
  <2>1. PICK d \in 0 .. Len(Text(s)) :
          /\ Len(Text(s)') <= Len(Text(s)) - d
          /\ \A n \in 1 .. Len(Text(s)') : Text(s)'[n] = Text(s)[n + d]
    BY <1>6 DEF Rest
  <2>2. Text(s)' \in Seq(Entries)
    BY <1>6 DEF Rest
  <2>a. /\ i \in 1 .. Len(Text(s)') /\ j \in 1 .. Len(Text(s)')
        /\ k \in 1 .. Len(Text(s)') /\ i <= k /\ k <= j
        /\ Len(Text(s)) \in Nat /\ DOMAIN Text(s) = 1 .. Len(Text(s))
    BY <1>2, <1>4, <2>2
  <2>b. /\ i + d \in 1 .. Len(Text(s)) /\ j + d \in 1 .. Len(Text(s))
        /\ i + d < j + d /\ k + d \in (i + d) .. (j + d)
    BY <2>1, <2>a
  <2>3. /\ Text(s)[i + d] = Text(s)'[i] /\ Text(s)[j + d] = Text(s)'[j]
        /\ Text(s)[k + d] = Text(s)'[k]
    BY <2>1, <2>a
  <2>4. Text(s)[i + d].line = Text(s)[j + d].line
    BY <1>2, <2>3
  <2>5. \A c \in (i + d) .. (j + d) : Text(s)[c].line = Text(s)[i + d].line
    BY <1>5, <2>4, <2>a, <2>b
  <2>6. QED
    BY <2>3, <2>5, <2>b
<1>7. ASSUME NEW t \in Threads, At(t, "print"), fp[call[t].line.logger] = s,
             NEW e \in Entries, e.line = call[t].line,
             Text(s)' = Append(Text(s), e)
      PROVE  Text(s)'[k].line = Text(s)'[i].line
  <2>1. call[t].line.logger = l /\ Printing(t)
    BY <1>7, PrintsItsOwn DEF At, Printing, s
  <2>2. \A a, b \in DOMAIN Text(s) :
          a < b /\ Text(s)[a].line = e.line => Text(s)[b].line = e.line
    BY <1>7, <2>1 DEF LastLine, s
  <2>3. /\ j \in 1 .. Len(Text(s)) + 1 /\ i \in 1 .. Len(Text(s)) + 1
        /\ \A n \in 1 .. Len(Text(s)) + 1 :
             Text(s)'[n] = IF n <= Len(Text(s)) THEN Text(s)[n] ELSE e
    BY <1>2, <1>4, <1>7
  <2>4. CASE j <= Len(Text(s))
    <3>1. /\ i \in DOMAIN Text(s) /\ j \in DOMAIN Text(s)
          /\ Text(s)'[i] = Text(s)[i] /\ Text(s)'[j] = Text(s)[j]
          /\ Text(s)'[k] = Text(s)[k]
      BY <1>4, <2>3, <2>4
    <3>2. QED
      BY <1>2, <1>5, <3>1
  <2>5. CASE ~(j <= Len(Text(s)))
    <3>1. /\ i \in DOMAIN Text(s) /\ Text(s)'[i] = Text(s)[i]
          /\ Text(s)'[j] = e
      BY <1>4, <2>3, <2>5
    <3>2. Text(s)[i].line = e.line
      BY <1>2, <3>1
    <3>3. CASE k \in DOMAIN Text(s) /\ Text(s)'[k] = Text(s)[k]
      <4>1. k = i \/ i < k
        BY <2>3
      <4>2. i < k => Text(s)[k].line = e.line
        BY <2>2, <3>1, <3>2, <3>3
      <4>3. QED
        BY <3>1, <3>2, <3>3, <4>1, <4>2
    <3>4. CASE Text(s)'[k] = e
      BY <3>1, <3>2, <3>4
    <3>5. QED
      BY <1>4, <2>3, <3>3, <3>4
  <2>6. QED
    BY <2>4, <2>5
<1>8. QED
  BY <1>1, <1>6, <1>7, TextStep

(* Exclusive, Fresh, Unprinted, LastLine and the properties they support are
   inductive together. *)
THEOREM LoggerInvariance == Spec => []IInv
<1>1. Init => IInv
  <2> SUFFICES ASSUME Init
               PROVE  IInv
    OBVIOUS
  <2>1. TypeOK /\ OpenFilesOwned
    BY TypeInit DEF Init, OpenFilesOwned
  <2>2. \A t \in Threads : call[t] = Null
    BY DEF Init
  <2>3. \A s \in Streams : DOMAIN Text(s) = {}
    BY DEF Init, Text
  <2>4. Exclusive /\ LastLine
    BY <2>2 DEF Exclusive, LastLine, Printing
  <2>5. Fresh /\ Unprinted
    BY <2>2, <2>3 DEF Fresh, Unprinted, At
  <2>6. LinesWhole
    BY <2>1, <2>3, OwnStream DEF LinesWhole
  <2>7. QED
    BY <2>1, <2>4, <2>5, <2>6 DEF IInv
<1>2. IInv /\ [Next]_vars => IInv'
  <2> SUFFICES ASSUME IInv, [Next]_vars
               PROVE  IInv'
    OBVIOUS
  <2>1. TypeOK' /\ OpenFilesOwned'
    BY TypeStep, OwnedStep DEF IInv
  <2>2. Exclusive' /\ Fresh' /\ Unprinted'
    BY ExclusiveStep, FreshStep, UnprintedStep DEF IInv
  <2>3. LastLine' /\ LinesWhole'
    BY LastLineStep, WholeStep DEF IInv
  <2>4. QED
    BY <2>1, <2>2, <2>3 DEF IInv
<1>3. QED
  BY <1>1, <1>2, PTL DEF Spec

(* Whatever the number of threads and however their calls interleave, what a
   thread-safe logger writes to a stream of its own consists of whole lines
   (clogger/README.md:190). *)
THEOREM WholeLines == Spec => []LinesWhole
<1>1. IInv => LinesWhole
  BY DEF IInv
<1>2. QED
  BY <1>1, LoggerInvariance, PTL

(* No two threads are between the lock and the unlock of the same logger. *)
THEOREM MutualExclusion == Spec => []Exclusive
<1>1. IInv => Exclusive
  BY DEF IInv
<1>2. QED
  BY <1>1, LoggerInvariance, PTL

-----------------------------------------------------------------------------
(* Selected, by induction on the length of a sequence. *)

(* Induction, on the set of numbers for which a claim holds. *)
LEMMA Induction ==
  ASSUME NEW S, 0 \in S, \A n \in Nat : n \in S => n + 1 \in S
  PROVE  \A n \in Nat : n \in S
<1> SUFFICES ASSUME Nat \ S # {} PROVE FALSE
  OBVIOUS
<1>1. PICK n \in Nat \ S : \A m \in Nat \ S : ~ (<< m, n >> \in OpToRel(<, Nat))
  BY NatLessThanWellFounded, WFMin, Zenon
<1>2. \A m \in Nat \ S : ~ (m < n)
  BY <1>1 DEF OpToRel
<1>3. n - 1 \in Nat /\ n - 1 \in S
  BY <1>2
<1>4. n \in S
  BY <1>3
<1>5. QED
  BY <1>1, <1>4

(* A sequence that is not empty ends with an element. *)
LEMMA EndsWith ==
  ASSUME NEW A, NEW n \in Nat, NEW q \in Seq(A), Len(q) = n + 1
  PROVE  \E r \in Seq(A), e \in A : q = Append(r, e) /\ Len(r) = n
<1> DEFINE r == SubSeq(q, 1, n)
<1>1. q[n + 1] \in A /\ r \in Seq(A) /\ Len(r) = n
  OBVIOUS
<1>2. q = Append(r, q[n + 1])
  OBVIOUS
<1>3. QED
  BY <1>1, <1>2

\* u is what Selected computes on its way through q.
Selects(u, q, S) ==
  u = [n \in 0 .. Len(q) |->
         IF n = 0 THEN << >>
         ELSE IF q[n] \in S THEN Append(u[n - 1], q[n]) ELSE u[n - 1]]

(* There is one such function, for the empty sequence and for a longer one. *)
LEMMA SelectsExists ==
  ASSUME NEW A, NEW S
  PROVE  \A q \in Seq(A) : \E u : Selects(u, q, S)
<1> DEFINE Claim == {n \in Nat : \A q \in Seq(A) : Len(q) = n => \E u : Selects(u, q, S)}
<1>1. 0 \in Claim
  <2>1. ASSUME NEW q \in Seq(A), Len(q) = 0 PROVE \E u : Selects(u, q, S)
    <3>1. Selects([n \in 0 .. 0 |-> << >>], q, S)
      BY <2>1 DEF Selects
    <3>2. QED
      BY <3>1
  <2>2. QED
    BY <2>1
<1>2. ASSUME NEW n \in Nat, n \in Claim PROVE n + 1 \in Claim
  <2>1. ASSUME NEW q \in Seq(A), Len(q) = n + 1 PROVE \E u : Selects(u, q, S)
    <3>1. PICK r \in Seq(A), e \in A : q = Append(r, e) /\ Len(r) = n
      BY <2>1, EndsWith
    <3>2. PICK u : Selects(u, r, S)
      BY <1>2, <3>1
    <3>3. \A k \in 1 .. n : q[k] = r[k]
      BY <3>1
    <3> DEFINE v == [k \in 0 .. n + 1 |->
                       IF k <= n THEN u[k]
                       ELSE IF q[k] \in S THEN Append(u[n], q[k]) ELSE u[n]]
    <3>4. \A k \in 0 .. n : v[k] = u[k]
      OBVIOUS
    <3>5. \A k \in 0 .. n :
            u[k] = IF k = 0 THEN << >>
                   ELSE IF r[k] \in S THEN Append(u[k - 1], r[k]) ELSE u[k - 1]
      BY <3>1, <3>2 DEF Selects
    <3>6. \A k \in 0 .. n + 1 :
            v[k] = IF k = 0 THEN << >>
                   ELSE IF q[k] \in S THEN Append(v[k - 1], q[k]) ELSE v[k - 1]
      <4>1. ASSUME NEW k \in 1 .. n
            PROVE  v[k] = IF q[k] \in S THEN Append(v[k - 1], q[k]) ELSE v[k - 1]
        <5>1. v[k] = u[k] /\ v[k - 1] = u[k - 1] /\ q[k] = r[k] /\ k # 0 /\ k \in 0 .. n
          BY <3>3, <3>4
        <5> HIDE DEF v
        <5>2. QED
          BY <3>5, <5>1
      <4>2. v[n + 1] = IF q[n + 1] \in S THEN Append(v[n], q[n + 1]) ELSE v[n]
        OBVIOUS
      <4>3. v[0] = << >>
        BY <3>5
      <4> HIDE DEF v
      <4>4. \A k \in 0 .. n + 1 : k = 0 \/ k \in 1 .. n \/ k = n + 1
        OBVIOUS
      <4>5. (n + 1) - 1 = n /\ n + 1 # 0
        OBVIOUS
      <4>6. ASSUME NEW k \in 0 .. n + 1
            PROVE  v[k] = IF k = 0 THEN << >>
                          ELSE IF q[k] \in S THEN Append(v[k - 1], q[k]) ELSE v[k - 1]
        <5>1. CASE k = 0
          BY <4>3, <5>1
        <5>2. CASE k \in 1 .. n
          BY <4>1, <5>2
        <5>3. CASE k = n + 1
          BY <4>2, <4>5, <5>3
        <5>4. QED
          BY <4>4, <5>1, <5>2, <5>3
      <4>7. QED
        BY <4>6
    <3>7. Selects(v, q, S)
      <4> DEFINE w == [k \in 0 .. n + 1 |-> IF k = 0 THEN << >>
                         ELSE IF q[k] \in S THEN Append(v[k - 1], q[k]) ELSE v[k - 1]]
      <4>1. DOMAIN v = 0 .. n + 1 /\ v = [k \in DOMAIN v |-> v[k]]
        OBVIOUS
      <4> HIDE DEF v
      <4>2. v = w
        BY <3>6, <4>1
      <4>3. QED
        BY <2>1, <4>2 DEF Selects
    <3>8. QED
      BY <3>7
  <2>2. QED
    BY <1>2, <2>1
<1>3. \A n \in Nat : n \in Claim
  <2> HIDE DEF Claim
  <2>1. QED
    BY <1>1, <1>2, Induction
<1>4. QED
  BY <1>3

(* Any two such functions agree as long as their sequences do. *)
LEMMA SelectsAgree ==
  ASSUME NEW A, NEW S, NEW q \in Seq(A), NEW r \in Seq(A), NEW u, NEW v,
         Selects(u, q, S), Selects(v, r, S), Len(r) <= Len(q),
         \A k \in 1 .. Len(r) : q[k] = r[k]
  PROVE  u[Len(r)] = v[Len(r)]
<1> DEFINE Claim == {n \in Nat : n <= Len(r) => u[n] = v[n]}
<1>1. \A n \in 0 .. Len(q) :
        u[n] = IF n = 0 THEN << >>
               ELSE IF q[n] \in S THEN Append(u[n - 1], q[n]) ELSE u[n - 1]
  BY DEF Selects
<1>2. \A n \in 0 .. Len(r) :
        v[n] = IF n = 0 THEN << >>
               ELSE IF r[n] \in S THEN Append(v[n - 1], r[n]) ELSE v[n - 1]
  BY DEF Selects
<1>3. 0 \in Claim
  BY <1>1, <1>2
<1>4. ASSUME NEW n \in Nat, n \in Claim PROVE n + 1 \in Claim
  <2> SUFFICES ASSUME n + 1 <= Len(r) PROVE u[n + 1] = v[n + 1]
    OBVIOUS
  <2>1. u[n] = v[n] /\ q[n + 1] = r[n + 1] /\ (n + 1) - 1 = n
    BY <1>4
  <2>2. /\ u[n + 1] = IF q[n + 1] \in S THEN Append(u[n], q[n + 1]) ELSE u[n]
        /\ v[n + 1] = IF r[n + 1] \in S THEN Append(v[n], r[n + 1]) ELSE v[n]
    BY <1>1, <1>2, <2>1
  <2>3. QED
    BY <2>1, <2>2
<1>5. \A n \in Nat : n \in Claim
  <2> HIDE DEF Claim
  <2>1. QED
    BY <1>3, <1>4, Induction
<1>6. QED
  BY <1>5

(* Selected, of the empty sequence and of a longer one. *)
LEMMA SelectedIs ==
  ASSUME NEW A, NEW S, NEW q \in Seq(A)
  PROVE  \E u : Selects(u, q, S) /\ Selected(q, S) = u[Len(q)]
<1> DEFINE u == CHOOSE u : Selects(u, q, S)
<1>1. Selects(u, q, S)
  BY SelectsExists
<1>2. Selected(q, S) = u[Len(q)]
  BY DEF Selected, Selects
<1>3. QED
  BY <1>1, <1>2

(* Nothing is selected from an empty sequence. *)
LEMMA SelectedNone ==
  ASSUME NEW S
  PROVE  Selected(<< >>, S) = << >>
<1>1. << >> \in Seq({}) /\ Len(<< >>) = 0
  OBVIOUS
<1>2. PICK u : Selects(u, << >>, S) /\ Selected(<< >>, S) = u[Len(<< >>)]
  BY <1>1, SelectedIs
<1>3. u[0] = << >>
  BY <1>1, <1>2 DEF Selects
<1>4. QED
  BY <1>1, <1>2, <1>3

(* What is selected when one element is appended. *)
LEMMA SelectedAppend ==
  ASSUME NEW A, NEW S, NEW q \in Seq(A), NEW e \in A
  PROVE  Selected(Append(q, e), S) =
           IF e \in S THEN Append(Selected(q, S), e) ELSE Selected(q, S)
<1> DEFINE p == Append(q, e)
           n == Len(q)
<1>1. p \in Seq(A) /\ Len(p) = n + 1 /\ n \in Nat /\ p[n + 1] = e
      /\ \A k \in 1 .. n : p[k] = q[k]
  OBVIOUS
<1> HIDE DEF p
<1>2. PICK u : Selects(u, p, S) /\ Selected(p, S) = u[Len(p)]
  BY SelectedIs, <1>1
<1>3. PICK v : Selects(v, q, S) /\ Selected(q, S) = v[Len(q)]
  BY SelectedIs
<1>4. u[n] = v[n]
  BY <1>1, <1>2, <1>3, SelectsAgree
<1>5. u[n + 1] = IF p[n + 1] \in S THEN Append(u[(n + 1) - 1], p[n + 1]) ELSE u[(n + 1) - 1]
  <2>1. \A k \in 0 .. Len(p) :
          u[k] = IF k = 0 THEN << >>
                 ELSE IF p[k] \in S THEN Append(u[k - 1], p[k]) ELSE u[k - 1]
    BY <1>2 DEF Selects
  <2>2. n + 1 \in 0 .. Len(p) /\ n + 1 # 0
    BY <1>1
  <2>3. QED
    BY <2>1, <2>2
<1>6. (n + 1) - 1 = n
  BY <1>1
<1>7. Selected(p, S) = IF e \in S THEN Append(u[n], e) ELSE u[n]
  BY <1>1, <1>2, <1>5, <1>6
<1>8. QED
  BY <1>3, <1>4, <1>7 DEF p

(* A claim that holds of the empty sequence and is kept by Append holds of  *)
(* all: Q is the set of the sequences it holds of.                          *)
LEMMA SeqInduction ==
  ASSUME NEW A, NEW Q, << >> \in Q,
         \A q \in Seq(A), e \in A : q \in Q => Append(q, e) \in Q
  PROVE  Seq(A) \subseteq Q
<1> DEFINE Claim == {n \in Nat : \A q \in Seq(A) : Len(q) = n => q \in Q}
<1>1. 0 \in Claim
  <2>1. \A q \in Seq(A) : Len(q) = 0 => q = << >>
    OBVIOUS
  <2>2. QED
    BY <2>1
<1>2. ASSUME NEW n \in Nat, n \in Claim PROVE n + 1 \in Claim
  <2>1. ASSUME NEW q \in Seq(A), Len(q) = n + 1 PROVE q \in Q
    <3>1. PICK r \in Seq(A), e \in A : q = Append(r, e) /\ Len(r) = n
      BY <2>1, EndsWith
    <3>2. r \in Q
      BY <1>2, <3>1
    <3>3. QED
      BY <3>1, <3>2
  <2>2. QED
    BY <2>1
<1>3. \A n \in Nat : n \in Claim
  <2> HIDE DEF Claim
  <2>1. QED
    BY <1>1, <1>2, Induction
<1>4. ASSUME NEW q \in Seq(A) PROVE q \in Q
  <2>1. Len(q) \in Nat
    OBVIOUS
  <2>2. QED
    BY <1>3, <2>1
<1>5. QED
  BY <1>4

(* What is selected are elements of the sequence that are in S. *)
LEMMA SelectedIn ==
  ASSUME NEW A, NEW S
  PROVE  \A q \in Seq(A) : Selected(q, S) \in Seq(A \cap S)
<1> DEFINE Q == {q \in Seq(A) : Selected(q, S) \in Seq(A \cap S)}
<1>1. << >> \in Q
  <2>1. << >> \in Seq(A) /\ << >> \in Seq(A \cap S) /\ Selected(<< >>, S) = << >>
    BY SelectedNone
  <2>2. QED
    BY <2>1
<1>2. ASSUME NEW q \in Seq(A), NEW e \in A, q \in Q PROVE Append(q, e) \in Q
  <2>1. Selected(Append(q, e), S) = IF e \in S THEN Append(Selected(q, S), e)
                                    ELSE Selected(q, S)
    BY SelectedAppend
  <2>2. Append(q, e) \in Seq(A)
    OBVIOUS
  <2>3. CASE e \in S
    <3> DEFINE d == Selected(q, S)
    <3>1. d \in Seq(A \cap S) /\ e \in A \cap S
      BY <1>2, <2>3
    <3> HIDE DEF d
    <3>2. Append(d, e) \in Seq(A \cap S)
      BY <3>1
    <3>3. QED
      BY <2>1, <2>2, <2>3, <3>2 DEF d
  <2>4. CASE e \notin S
    BY <1>2, <2>1, <2>2, <2>4
  <2>5. QED
    BY <2>3, <2>4
<1>3. Seq(A) \subseteq Q
  <2> HIDE DEF Q
  <2>1. QED
    BY <1>1, <1>2, SeqInduction
<1>4. QED
  BY <1>3

(* Append and \o associate, and the empty sequence is neutral. *)
LEMMA Cats ==
  ASSUME NEW A, NEW d \in Seq(A), NEW b \in Seq(A), NEW e \in A
  PROVE  /\ d \o Append(b, e) = Append(d \o b, e)
         /\ d \o b \in Seq(A)
         /\ d \o << >> = d
         /\ << >> \o d = d
OBVIOUS

(* Selection distributes over concatenation. *)
LEMMA SelectedCat ==
  ASSUME NEW A, NEW S, NEW d \in Seq(A)
  PROVE  \A b \in Seq(A) : Selected(d \o b, S) = Selected(d, S) \o Selected(b, S)
<1> DEFINE Q == {b \in Seq(A) : Selected(d \o b, S) = Selected(d, S) \o Selected(b, S)}
<1>0. Selected(d, S) \in Seq(A)
  <2>1. Selected(d, S) \in Seq(A \cap S)
    BY SelectedIn
  <2>2. QED
    BY <2>1
<1>1. << >> \in Q
  <2>1. Selected(<< >>, S) = << >>
    BY SelectedNone
  <2>2. d \o << >> = d /\ Selected(d, S) \o << >> = Selected(d, S)
    BY <1>0
  <2>3. << >> \in Seq(A)
    OBVIOUS
  <2>4. QED
    BY <2>1, <2>2, <2>3
<1>2. ASSUME NEW b \in Seq(A), NEW e \in A, b \in Q PROVE Append(b, e) \in Q
  <2>1. /\ d \o Append(b, e) = Append(d \o b, e)
        /\ d \o b \in Seq(A) /\ Append(b, e) \in Seq(A)
    BY Cats
  <2>2. /\ Selected(Append(d \o b, e), S) =
             IF e \in S THEN Append(Selected(d \o b, S), e) ELSE Selected(d \o b, S)
        /\ Selected(Append(b, e), S) =
             IF e \in S THEN Append(Selected(b, S), e) ELSE Selected(b, S)
    <3> DEFINE c == d \o b
    <3>1. c \in Seq(A)
      BY <2>1
    <3> HIDE DEF c
    <3>2. Selected(Append(c, e), S) =
            IF e \in S THEN Append(Selected(c, S), e) ELSE Selected(c, S)
      BY <3>1, SelectedAppend
    <3>3. Selected(Append(b, e), S) =
            IF e \in S THEN Append(Selected(b, S), e) ELSE Selected(b, S)
      BY SelectedAppend
    <3>4. QED
      BY <3>2, <3>3 DEF c
  <2>3. Selected(d \o b, S) = Selected(d, S) \o Selected(b, S)
    BY <1>2
  <2>4. Selected(b, S) \in Seq(A)
    <3>1. Selected(b, S) \in Seq(A \cap S)
      BY SelectedIn
    <3>2. QED
      BY <3>1
  <2>5. Selected(d, S) \o Append(Selected(b, S), e)
          = Append(Selected(d, S) \o Selected(b, S), e)
    BY <1>0, <2>4, Cats
  <2>6. QED
    BY <2>1, <2>2, <2>3, <2>5
<1>3. Seq(A) \subseteq Q
  <2> HIDE DEF Q
  <2>1. QED
    BY <1>1, <1>2, SeqInduction
<1>4. QED
  BY <1>3

(* To select again from what was selected, of fewer, is to select those. *)
LEMMA SelectedTwice ==
  ASSUME NEW A, NEW S, NEW T, T \subseteq S
  PROVE  \A q \in Seq(A) : Selected(q, T) = Selected(Selected(q, S), T)
<1> DEFINE Q == {q \in Seq(A) : Selected(q, T) = Selected(Selected(q, S), T)}
<1>1. << >> \in Q
  <2>1. << >> \in Seq(A) /\ << >> \in Seq(A \cap S) /\ Selected(<< >>, S) = << >>
    BY SelectedNone
  <2>2. QED
    BY <2>1
<1>2. ASSUME NEW q \in Seq(A), NEW e \in A, q \in Q PROVE Append(q, e) \in Q
  <2> DEFINE d == Selected(q, S)
  <2>1. d \in Seq(A)
    <3>1. d \in Seq(A \cap S)
      BY SelectedIn
    <3>2. QED
      BY <3>1
  <2>2. /\ Selected(Append(q, e), S) = IF e \in S THEN Append(d, e) ELSE d
        /\ Selected(Append(q, e), T) = IF e \in T THEN Append(Selected(q, T), e)
                                       ELSE Selected(q, T)
    BY SelectedAppend
  <2>3. Selected(q, T) = Selected(d, T)
    BY <1>2
  <2> HIDE DEF d
  <2>4. Selected(Append(d, e), T) = IF e \in T THEN Append(Selected(d, T), e)
                                    ELSE Selected(d, T)
    BY <2>1, SelectedAppend
  <2>5. Selected(Append(q, e), T) = Selected(Selected(Append(q, e), S), T)
    <3>1. CASE e \in S
      BY <2>2, <2>3, <2>4, <3>1
    <3>2. CASE e \notin S
      BY <2>2, <2>3, <3>2
    <3>3. QED
      BY <3>1, <3>2
  <2>6. Append(q, e) \in Seq(A)
    OBVIOUS
  <2>7. QED
    BY <2>5, <2>6
<1>3. Seq(A) \subseteq Q
  <2> HIDE DEF Q
  <2>1. QED
    BY <1>1, <1>2, SeqInduction
<1>4. QED
  BY <1>3

(* Nothing is left out of a sequence of which all elements are selected. *)
LEMMA SelectedAll ==
  ASSUME NEW A, NEW S, A \subseteq S
  PROVE  \A q \in Seq(A) : Selected(q, S) = q
<1> DEFINE Q == {q \in Seq(A) : Selected(q, S) = q}
<1>1. << >> \in Q
  <2>1. << >> \in Seq(A) /\ << >> \in Seq(A \cap S) /\ Selected(<< >>, S) = << >>
    BY SelectedNone
  <2>2. QED
    BY <2>1
<1>2. ASSUME NEW q \in Seq(A), NEW e \in A, q \in Q PROVE Append(q, e) \in Q
  <2>1. Selected(Append(q, e), S) = Append(Selected(q, S), e)
    BY SelectedAppend
  <2>2. QED
    BY <1>2, <2>1
<1>3. Seq(A) \subseteq Q
  <2> HIDE DEF Q
  <2>1. QED
    BY <1>1, <1>2, SeqInduction
<1>4. QED
  BY <1>3

-----------------------------------------------------------------------------
(* What has returned is on disk. *)

\* The call c has still to print its message.
Owes(c) == \E i \in DOMAIN c.todo : c.todo[i] = "message"

\* A call that is logged prints its message once, after it has waited.
Ready(c) ==
  /\ Wanted(c.line)
  /\ c.at = "lock" => Owes(c)
  /\ c.at = "unlock" => c.todo = << >>
  /\ \A i, j \in DOMAIN c.todo :
       c.todo[i] = "message" /\ c.todo[j] = "message" => i = j
CallsReady == \A t \in Threads : call[t] # Null => Ready(call[t])

\* The calls that have returned came before the one in progress.
DueEarlier ==
  \A s \in Streams, t \in Threads : \A i \in DOMAIN due[s][t] :
    /\ due[s][t][i].number < calls[t]
    /\ call[t] # Null => due[s][t][i].number < call[t].line.number

(* The parts of a line have one message among them. *)
LEMMA MessageOnce ==
  ASSUME NEW l, NEW level, NEW trace \in Traces,
         NEW c, c.todo = Parts(l, level, trace)
  PROVE  /\ Owes(c)
         /\ \A i, j \in DOMAIN c.todo :
              c.todo[i] = "message" /\ c.todo[j] = "message" => i = j
<1> DEFINE Others == PartNames \ { "message" }
<1>1. /\ << >> \in Seq(Others)
      /\ \A x \in Others : << x >> \in Seq(Others)
      /\ << "unavailable" >> \in Seq(Others)
      /\ << "heading", "frame" >> \in Seq(Others)
      /\ { "time", "level", "file", "func", "line", "gap" } \subseteq Others
  BY Short DEF PartNames
<1> HIDE DEF Others
<1>2. \A p, q \in Seq(Others) : p \o q \in Seq(Others)
  BY Short
<1>3. \E a, z \in Seq(Others) : c.todo = (a \o << "message" >>) \o z
  <2> DEFINE flags   == Options[l].flags
             Part(f) == IF f \in flags THEN << f >> ELSE << >>
             gap     == IF flags \cap { "level", "file", "func", "line" } # {}
                        THEN << "gap" >> ELSE << >>
             z       == IF level = ERROR /\ "trace" \in flags THEN trace ELSE << >>
  <2>1. \A f \in { "time", "level", "file", "func", "line" } : Part(f) \in Seq(Others)
    BY <1>1
  <2>2. gap \in Seq(Others) /\ z \in Seq(Others)
    BY <1>1 DEF Traces
  <2>3. c.todo = (Part("time") \o Part("level") \o Part("file") \o Part("func")
                   \o Part("line") \o gap \o << "message" >>) \o z
    BY DEF Parts
  <2> HIDE DEF gap, z, Part
  <2>4. Part("time") \o Part("level") \o Part("file") \o Part("func")
          \o Part("line") \o gap \in Seq(Others)
    BY <1>2, <2>1, <2>2
  <2>5. QED
    BY <2>2, <2>3, <2>4
<1>4. PICK a \in Seq(Others), z \in Seq(Others) : c.todo = (a \o << "message" >>) \o z
  BY <1>3
<1>5. /\ DOMAIN c.todo = 1 .. Len(a) + 1 + Len(z)
      /\ Len(a) \in Nat /\ Len(z) \in Nat
      /\ c.todo[Len(a) + 1] = "message"
      /\ \A i \in 1 .. Len(a) : c.todo[i] = a[i]
      /\ \A i \in 1 .. Len(z) : c.todo[Len(a) + 1 + i] = z[i]
  <2>1. "message" \in PartNames /\ Others \subseteq PartNames
    BY DEF PartNames, Others
  <2>2. /\ a \in Seq(PartNames) /\ z \in Seq(PartNames)
        /\ << "message" >> \in Seq(PartNames)
    BY <2>1
  <2>3. QED
    BY <1>4, <2>2
<1>6. \A i \in DOMAIN c.todo : i # Len(a) + 1 => c.todo[i] \in Others
  <2>1. ASSUME NEW i \in DOMAIN c.todo, i # Len(a) + 1
        PROVE  c.todo[i] \in Others
    <3>1. CASE i \in 1 .. Len(a)
      BY <1>5, <3>1
    <3>2. CASE i - (Len(a) + 1) \in 1 .. Len(z)
      <4> DEFINE k == i - (Len(a) + 1)
      <4>1. k \in 1 .. Len(z) /\ Len(a) + 1 + k = i
        BY <1>5, <3>2
      <4> HIDE DEF k
      <4>2. c.todo[i] = z[k] /\ z[k] \in Others
        BY <1>5, <4>1
      <4>3. QED
        BY <4>2
    <3>3. i \in 1 .. Len(a) \/ i - (Len(a) + 1) \in 1 .. Len(z)
      BY <1>5, <2>1
    <3>4. QED
      BY <3>1, <3>2, <3>3
  <2>2. QED
    BY <2>1
<1>7. Len(a) + 1 \in DOMAIN c.todo
  BY <1>5
<1>8. QED
  BY <1>5, <1>6, <1>7 DEF Owes, Others

(* A call keeps its message until it prints it. *)
LEMMA ReadyStep ==
  ASSUME TypeOK, CallsReady, [Next]_vars
  PROVE  CallsReady'
<1>1. ASSUME NEW u \in Threads, NEW l \in Loggers, NEW level \in CallLevels,
             Log(u, l, level)
      PROVE  CallsReady'
  <2>1. CASE call' = call
    BY <2>1 DEF CallsReady
  <2>2. ASSUME NEW trace \in Traces, Options[l].min_level <= level,
               call' = [call EXCEPT ![u] =
                          [line |-> [thread |-> u, number |-> calls[u],
                                     logger |-> l, level |-> level],
                           at |-> "lock", todo |-> Parts(l, level, trace)]]
        PROVE  CallsReady'
    <3> DEFINE c == [line |-> [thread |-> u, number |-> calls[u],
                               logger |-> l, level |-> level],
                     at |-> "lock", todo |-> Parts(l, level, trace)]
    <3>1. c.todo = Parts(l, level, trace)
      OBVIOUS
    <3>2. Wanted(c.line) /\ c.at = "lock"
      BY <2>2 DEF Wanted
    <3>3. call'[u] = c /\ \A t \in Threads : t # u => call'[t] = call[t]
      BY <2>2 DEF TypeOK
    <3> HIDE DEF c
    <3>4. Ready(c)
      BY <3>1, <3>2, MessageOnce DEF Ready
    <3>5. QED
      BY <3>3, <3>4 DEF CallsReady
  <2>3. QED
    BY <1>1, <2>1, <2>2 DEF Log
<1>2. ASSUME NEW u \in Threads, Proceed(u)
      PROVE  CallsReady'
  <2> DEFINE c == call[u]
  <2>1. c # Null /\ c \in Calls /\ Ready(c)
    BY <1>2, CallUses
    DEF Proceed, Lock, Fprintf, Flush, Fails, FprintfFails, FlushFails, Unlock, At,
        CallsReady
  <2>2. \A t \in Threads : t # u => call'[t] = call[t]
    BY <1>2 DEF Proceed, Lock, Fprintf, Flush, Fails, FprintfFails, FlushFails,
                Unlock, TypeOK
  <2>3. SUFFICES call'[u] # Null => Ready(call'[u])
    BY <2>2 DEF CallsReady
  <2>4. CASE Lock(u)
    <3>1. call'[u] = [c EXCEPT !.at = "print"]
      BY <2>4 DEF Lock, TypeOK
    <3>2. QED
      BY <2>1, <3>1 DEF Ready, Calls
  <2>5. ASSUME c.at = "print", c.todo # << >>, call'[u].line = c.line,
               call'[u].at = "print", call'[u].todo = Tail(c.todo)
        PROVE  Ready(call'[u])
    <3>1. c.todo # << >> /\ c.todo \in Seq(PartNames)
      BY <2>1, <2>5 DEF Calls
    <3>2. /\ DOMAIN Tail(c.todo) = 1 .. Len(c.todo) - 1
          /\ \A i \in DOMAIN Tail(c.todo) : /\ Tail(c.todo)[i] = c.todo[i + 1]
                                            /\ i \in Int
                                            /\ i + 1 \in DOMAIN c.todo
      BY <3>1
    <3>4. ASSUME NEW i \in DOMAIN Tail(c.todo), NEW j \in DOMAIN Tail(c.todo),
                 Tail(c.todo)[i] = "message", Tail(c.todo)[j] = "message"
          PROVE  i = j
      <4>1. i + 1 = j + 1
        BY <2>1, <3>2, <3>4 DEF Ready
      <4>2. QED
        BY <3>2, <4>1
    <3>5. QED
      BY <2>1, <2>5, <3>4 DEF Ready
  <2>a. CASE Fprintf(u)
    <3>1. call'[u] = [c EXCEPT !.todo = Tail(@)] /\ c.at = "print" /\ c.todo # << >>
      BY <2>1, <2>a DEF Fprintf, TypeOK, At
    <3>2. call'[u].line = c.line /\ call'[u].at = "print" /\ call'[u].todo = Tail(c.todo)
      BY <2>1, <3>1 DEF Calls
    <3>3. QED
      BY <2>5, <3>1, <3>2
  <2>6. ASSUME call'[u].line = c.line, call'[u].at = "unlock", call'[u].todo = << >>
        PROVE  Ready(call'[u])
    BY <2>1, <2>6 DEF Ready
  <2>b. CASE Flush(u)
    <3>1. call'[u] = [c EXCEPT !.at = "unlock"] /\ c.todo = << >>
      BY <2>b DEF Flush, TypeOK
    <3>2. QED
      BY <2>1, <2>6, <3>1 DEF Calls
  <2>c. CASE Fails(u)
    BY <2>5, <2>6, <2>c, FailsIs DEF At
  <2>7. CASE Unlock(u)
    BY <2>7 DEF Unlock, TypeOK
  <2>8. QED
    BY <1>2, <2>4, <2>a, <2>b, <2>c, <2>7 DEF Proceed
<1>3. CASE call' = call
  BY <1>3 DEF CallsReady
<1>4. QED
  BY <1>1, <1>2, <1>3
  DEF Next, vars, InitOpens, InitFails, InitNoMutex, Close

(* The calls that have returned were earlier. *)
LEMMA EarlierStep ==
  ASSUME TypeOK, Fresh, DueEarlier, [Next]_vars
  PROVE  DueEarlier'
<1>0. \A s \in Streams, t \in Threads : due[s][t] \in Seq(Lines)
  BY DEF TypeOK
<1>a. \A t \in Threads : calls[t] \in Nat /\ calls'[t] \in Nat
  BY TypeStep DEF TypeOK
<1>1. ASSUME NEW t \in Threads, NEW s \in Streams
      PROVE  \/ due'[s][t] = due[s][t] /\ call'[t] = call[t] /\ calls'[t] = calls[t]
             \/ due'[s][t] = << >> /\ call'[t] = call[t] /\ calls'[t] = calls[t]
             \/ /\ due'[s][t] = due[s][t] /\ calls'[t] = calls[t]
                /\ call'[t] # Null => call[t] # Null /\ call'[t].line = call[t].line
             \/ /\ call[t] = Null /\ calls'[t] = calls[t] + 1
                /\ due'[s][t] = due[s][t]
                /\ call'[t] # Null => call'[t].line.number = calls[t]
             \/ /\ call[t] = Null /\ calls'[t] = calls[t] + 1 /\ call'[t] = Null
                /\ \E x \in Lines : x.number = calls[t] /\ due'[s][t] = Append(due[s][t], x)
             \/ /\ call[t] # Null /\ call'[t] = Null /\ calls'[t] = calls[t]
                /\ due'[s][t] = Append(due[s][t], call[t].line)
                /\ call[t].line \in Lines
  <2>1. ASSUME NEW u \in Threads, NEW l \in Loggers, NEW level \in CallLevels,
               Log(u, l, level)
        PROVE  \/ due'[s][t] = due[s][t] /\ call'[t] = call[t] /\ calls'[t] = calls[t]
               \/ /\ call[t] = Null /\ calls'[t] = calls[t] + 1
                  /\ due'[s][t] = due[s][t]
                  /\ call'[t] # Null => call'[t].line.number = calls[t]
               \/ /\ call[t] = Null /\ calls'[t] = calls[t] + 1 /\ call'[t] = Null
                  /\ \E x \in Lines : x.number = calls[t] /\ due'[s][t] = Append(due[s][t], x)
    <3> DEFINE x == [thread |-> u, number |-> calls[u], logger |-> l, level |-> level]
    <3>1. calls' = [calls EXCEPT ![u] = @ + 1] /\ call[u] = Null
      BY <2>1 DEF Log
    <3>2. x \in Lines /\ x.number = calls[u] /\ fp[l] \in Streams
      BY <2>1, <1>a, OwnStream, LoggerAssumption DEF Lines, Log
    <3>3. \/ /\ due' = due
             /\ \E trace \in Traces :
                  call' = [call EXCEPT ![u] = [line |-> x, at |-> "lock",
                                               todo |-> Parts(l, level, trace)]]
          \/ Returned(x, fp[l], u) /\ call' = call
      BY <2>1 DEF Log
    <3> HIDE DEF x
    <3>4. CASE due' = due /\ \E trace \in Traces :
                  call' = [call EXCEPT ![u] = [line |-> x, at |-> "lock",
                                               todo |-> Parts(l, level, trace)]]
      <4>1. due' = due
        BY <3>4
      <4>2. PICK trace \in Traces :
                  call' = [call EXCEPT ![u] = [line |-> x, at |-> "lock",
                                               todo |-> Parts(l, level, trace)]]
        BY <3>4
      <4>3. CASE t = u
        BY <3>1, <3>2, <4>1, <4>2, <4>3 DEF TypeOK
      <4>4. CASE t # u
        BY <3>1, <4>1, <4>2, <4>4 DEF TypeOK
      <4>5. QED
        BY <4>3, <4>4
    <3>5. CASE Returned(x, fp[l], u) /\ call' = call
      BY <3>1, <3>2, <3>5 DEF TypeOK, Returned
    <3>6. QED
      BY <3>3, <3>4, <3>5
  <2>2. ASSUME NEW u \in Threads, Proceed(u)
        PROVE  \/ due'[s][t] = due[s][t] /\ call'[t] = call[t] /\ calls'[t] = calls[t]
               \/ /\ due'[s][t] = due[s][t] /\ calls'[t] = calls[t]
                  /\ call'[t] # Null => call[t] # Null /\ call'[t].line = call[t].line
               \/ /\ call[t] # Null /\ call'[t] = Null /\ calls'[t] = calls[t]
                  /\ due'[s][t] = Append(due[s][t], call[t].line)
                  /\ call[t].line \in Lines
    <3>1. call[u] # Null
      BY <2>2 DEF Proceed, Lock, Fprintf, Flush, Fails, FprintfFails, FlushFails,
                  Unlock, At
    <3>2. call[u] \in Calls /\ call[u].line \in Lines
          /\ fp[call[u].line.logger] \in Streams
      BY <3>1, CallUses
    <3>3. CASE Lock(u) \/ Fprintf(u) \/ Flush(u) \/ Fails(u)
      <4>1. due' = due /\ calls' = calls
        BY <3>3 DEF Lock, Fprintf, Flush, Fails, FprintfFails, FlushFails
      <4>2. CASE t = u
        <5>1. call'[t] # Null => call'[t].line = call[t].line
          BY <3>1, <4>2, CallStep
        <5>2. QED
          BY <3>1, <4>1, <4>2, <5>1
      <4>3. CASE t # u
        <5>1. call'[t] = call[t]
          BY <3>3, <4>3 DEF Lock, Fprintf, Flush, Fails, FprintfFails, FlushFails,
                            TypeOK
        <5>2. QED
          BY <4>1, <5>1
      <4>4. QED
        BY <4>2, <4>3
    <3>4. CASE Unlock(u)
      BY <3>1, <3>2, <3>4 DEF Unlock, TypeOK, Returned
    <3>5. QED
      BY <2>2, <3>3, <3>4 DEF Proceed
  <2>3. CASE call' = call /\ calls' = calls /\ due' = due
    BY <2>3
  <2>4. ASSUME NEW l \in Loggers, Fopen(l), call' = call, calls' = calls
        PROVE  \/ due'[s][t] = due[s][t] /\ call'[t] = call[t] /\ calls'[t] = calls[t]
               \/ due'[s][t] = << >> /\ call'[t] = call[t] /\ calls'[t] = calls[t]
    <3>1. \/ due' = due
          \/ due' = [due EXCEPT ![Options[l].stream] = [v \in Threads |-> << >>]]
      BY <2>4 DEF Fopen
    <3>2. CASE due' = due
      BY <2>4, <3>2
    <3>3. CASE due' = [due EXCEPT ![Options[l].stream] = [v \in Threads |-> << >>]]
      <4>1. due'[s] = due[s] \/ due'[s] = [v \in Threads |-> << >>]
        BY <3>3, OwnStream DEF TypeOK
      <4>2. QED
        BY <2>4, <4>1
    <3>4. QED
      BY <3>1, <3>2, <3>3
  <2>5. \/ \E u \in Threads, l \in Loggers, level \in CallLevels : Log(u, l, level)
        \/ \E u \in Threads : Proceed(u)
        \/ call' = call /\ calls' = calls /\ due' = due
        \/ \E l \in Loggers : Fopen(l) /\ call' = call /\ calls' = calls
    BY DEF Next, vars, InitOpens, InitFails, InitNoMutex, Close
  <2>6. QED
    BY <2>1, <2>2, <2>3, <2>4, <2>5
<1>2. ASSUME NEW t \in Threads, NEW s \in Streams, NEW i \in DOMAIN due'[s][t]
      PROVE  /\ due'[s][t][i].number < calls'[t]
             /\ call'[t] # Null => due'[s][t][i].number < call'[t].line.number
  <2>0. \A k \in DOMAIN due[s][t] : /\ due[s][t][k].number < calls[t]
                                    /\ due[s][t][k].number \in Nat
                                    /\ call[t] # Null =>
                                         due[s][t][k].number < call[t].line.number
    <3>1. ASSUME NEW k \in DOMAIN due[s][t]
          PROVE  due[s][t][k].number \in Nat
      <4>1. due[s][t][k] \in Lines
        BY <1>0, <3>1
      <4>2. QED
        BY <4>1 DEF Lines
    <3>2. QED
      BY <3>1 DEF DueEarlier
  <2>1. CASE due'[s][t] = due[s][t]
    <3>1. call'[t] # Null /\ call[t] = Null => call'[t].line.number = calls[t]
      BY <1>1, <2>1
    <3>2. calls[t] <= calls'[t] /\ (call'[t] # Null /\ call[t] # Null =>
                                    call'[t].line = call[t].line)
      BY CallStep
    <3>3. QED
      BY <2>0, <2>1, <3>1, <3>2, <1>a
  <2>2. CASE due'[s][t] = << >>
    BY <2>2
  <2>3. ASSUME NEW x \in Lines, x.number < calls'[t], call'[t] = Null,
               calls[t] <= calls'[t], due'[s][t] = Append(due[s][t], x)
        PROVE  due'[s][t][i].number < calls'[t]
    <3>1. \/ i \in DOMAIN due[s][t] /\ due'[s][t][i] = due[s][t][i]
          \/ due'[s][t][i] = x
      BY <1>0, <2>3
    <3>2. QED
      BY <2>0, <2>3, <3>1, <1>a
  <2>4. call[t] # Null => call[t].line.number < calls[t]
    BY DEF Fresh
  <2>5. \/ due'[s][t] = due[s][t]
        \/ due'[s][t] = << >>
        \/ /\ call'[t] = Null
           /\ \E x \in Lines : /\ x.number < calls'[t] /\ calls[t] <= calls'[t]
                               /\ due'[s][t] = Append(due[s][t], x)
    BY <1>1, <1>a, <2>4
  <2>6. QED
    BY <2>1, <2>2, <2>3, <2>5
<1>3. QED
  BY <1>2 DEF DueEarlier

LinesOf(d)   == [i \in DOMAIN d |-> d[i].line]
MessageOf(c) == [line |-> c.line, part |-> "message"]
WantedLines  == { line \in Lines : Wanted(line) }

\* c is a call for the stream s that has printed its message; f is fp.
Said(c, f, s) == c # Null /\ f[c.line.logger] = s /\ ~Owes(c)

\* D and B are the disk and the buffer of the stream s, U the calls for it that
\* have returned, c the call in progress, of the thread t: the messages of t on
\* disk are those of its calls, and the one that c has printed is either in the
\* buffer or on disk.
Keeps(D, B, U, t, c, f, s) ==
  LET d == Selected(D, Messages(t))
      b == Selected(B, Messages(t))
      w == Selected(U, WantedLines)
  IN  \/ ~Said(c, f, s) /\ LinesOf(d) = w /\ b = << >>
      \/ Said(c, f, s) /\ c.at = "print" /\ LinesOf(d) = w /\ b = << MessageOf(c) >>
      \/ Said(c, f, s) /\ LinesOf(d) = Append(w, c.line) /\ b = << >>

Durable == \A s \in Reliable, t \in Threads :
             Keeps(disk[s], buffer[s], due[s][t], t, call[t], fp, s)

(* The lines of a longer text. *)
LEMMA LinesLonger ==
  ASSUME NEW d \in Seq(Entries), NEW e \in Entries
  PROVE  LinesOf(Append(d, e)) = Append(LinesOf(d), e.line)
<1>1. /\ DOMAIN Append(d, e) = 1 .. Len(d) + 1
      /\ \A i \in 1 .. Len(d) : Append(d, e)[i] = d[i]
      /\ Append(d, e)[Len(d) + 1] = e
      /\ DOMAIN d = 1 .. Len(d) /\ Len(d) \in Nat
  OBVIOUS
<1>2. LinesOf(d) \in Seq(Lines) /\ Len(LinesOf(d)) = Len(d)
  <2>1. \A i \in 1 .. Len(d) : d[i].line \in Lines
    <3>1. \A i \in 1 .. Len(d) : d[i] \in Entries
      OBVIOUS
    <3>2. \A x \in Entries : x.line \in Lines
      BY DEF Entries
    <3>3. QED
      BY <3>1, <3>2
  <2>2. QED
    BY <1>1, <2>1 DEF LinesOf
<1>3. e.line \in Lines
  BY DEF Entries
<1>4. /\ Append(LinesOf(d), e.line) \in Seq(Lines)
      /\ Len(Append(LinesOf(d), e.line)) = Len(d) + 1
      /\ \A i \in 1 .. Len(d) : Append(LinesOf(d), e.line)[i] = LinesOf(d)[i]
      /\ Append(LinesOf(d), e.line)[Len(d) + 1] = e.line
  <2> DEFINE r == LinesOf(d)
  <2>1. r \in Seq(Lines) /\ Len(r) = Len(d)
    BY <1>2
  <2> HIDE DEF r
  <2>2. Append(r, e.line) \in Seq(Lines) /\ Len(Append(r, e.line)) = Len(d) + 1
        /\ (\A i \in 1 .. Len(d) : Append(r, e.line)[i] = r[i])
        /\ Append(r, e.line)[Len(d) + 1] = e.line
    BY <1>3, <2>1
  <2>3. QED
    BY <2>2 DEF r
<1>5. LinesOf(Append(d, e)) = [i \in 1 .. Len(d) + 1 |-> Append(d, e)[i].line]
  BY <1>1 DEF LinesOf
<1>6. \A i \in 1 .. Len(d) + 1 : Append(d, e)[i].line = Append(LinesOf(d), e.line)[i]
  <2>1. \A i \in 1 .. Len(d) : LinesOf(d)[i] = d[i].line
    BY <1>1 DEF LinesOf
  <2>2. \A i \in 1 .. Len(d) + 1 : i \in 1 .. Len(d) \/ i = Len(d) + 1
    BY <1>1
  <2>3. QED
    BY <1>1, <1>4, <2>1, <2>2
<1>7. Append(LinesOf(d), e.line)
        = [i \in 1 .. Len(d) + 1 |-> Append(LinesOf(d), e.line)[i]]
  BY <1>4
<1>8. QED
  BY <1>5, <1>6, <1>7

(* What is selected are entries. *)
LEMMA MessagesIn ==
  ASSUME NEW D \in Seq(Entries), NEW t
  PROVE  Selected(D, Messages(t)) \in Seq(Entries)
<1>1. Selected(D, Messages(t)) \in Seq(Entries \cap Messages(t))
  BY SelectedIn
<1>2. QED
  BY <1>1

(* To write the buffer to disk keeps what is on disk, and adds the message. *)
LEMMA KeepsFlushed ==
  ASSUME NEW D \in Seq(Entries), NEW B \in Seq(Entries), NEW U, NEW t, NEW c,
         NEW f, NEW s, c # Null => c \in Calls, Keeps(D, B, U, t, c, f, s)
  PROVE  /\ Keeps(D \o B, << >>, U, t, c, f, s)
         /\ Said(c, f, s) =>
              LinesOf(Selected(D \o B, Messages(t)))
                = Append(Selected(U, WantedLines), c.line)
<1> DEFINE d == Selected(D, Messages(t))
           b == Selected(B, Messages(t))
           w == Selected(U, WantedLines)
           e == MessageOf(c)
<1>1. d \in Seq(Entries) /\ b \in Seq(Entries)
  BY MessagesIn
<1>2. Selected(D \o B, Messages(t)) = d \o b /\ Selected(<< >>, Messages(t)) = << >>
  BY SelectedCat, SelectedNone
<1>3. \/ ~Said(c, f, s) /\ LinesOf(d) = w /\ b = << >>
      \/ Said(c, f, s) /\ LinesOf(d) = w /\ b = << e >>
      \/ Said(c, f, s) /\ LinesOf(d) = Append(w, c.line) /\ b = << >>
  BY DEF Keeps
<1>4. c # Null => e \in Entries /\ e.line = c.line
  BY DEF Entries, PartNames, MessageOf, Calls
<1>5. Said(c, f, s) => c # Null
  BY DEF Said
<1> HIDE DEF d, b, w, e
<1>6. \/ ~Said(c, f, s) /\ LinesOf(d \o b) = w
      \/ Said(c, f, s) /\ LinesOf(d \o b) = Append(w, c.line)
  <2>1. CASE b = << >>
    <3>1. d \o b = d
      BY <1>1, <2>1
    <3>2. CASE ~Said(c, f, s)
      BY <1>3, <3>1, <3>2
    <3>3. CASE Said(c, f, s) /\ LinesOf(d) = Append(w, c.line)
      BY <3>1, <3>3
    <3>4. b # << e >>
      BY <2>1
    <3>5. QED
      BY <1>3, <3>2, <3>3, <3>4
  <2>2. CASE Said(c, f, s) /\ LinesOf(d) = w /\ b = << e >>
    <3>1. e \in Entries /\ e.line = c.line
      BY <1>4, <1>5, <2>2
    <3>2. d \o b = Append(d, e)
      BY <1>1, <2>2, <3>1
    <3>3. QED
      BY <1>1, <2>2, <3>1, <3>2, LinesLonger
  <2>3. QED
    BY <1>3, <2>1, <2>2
<1>7. QED
  BY <1>2, <1>6 DEF Keeps, d, b, w

(* A text that is cut off has nothing to keep, unless a call prints to it. *)
LEMMA KeepsTruncated ==
  ASSUME NEW D, NEW B, NEW U, NEW t, NEW c, NEW f, NEW s,
         ~Said(c, f, s), Keeps(D, B, U, t, c, f, s)
  PROVE  Keeps(<< >>, B, << >>, t, c, f, s)
<1>1. Selected(<< >>, Messages(t)) = << >> /\ Selected(<< >>, WantedLines) = << >>
  BY SelectedNone
<1>2. LinesOf(<< >>) = << >>
  BY DEF LinesOf
<1>3. QED
  BY <1>1, <1>2 DEF Keeps

(* Calls that have printed no message to a stream do not matter to it. *)
LEMMA KeepsOther ==
  ASSUME NEW D, NEW B, NEW U, NEW t, NEW c, NEW f, NEW s, NEW c2, NEW f2,
         ~Said(c, f, s), ~Said(c2, f2, s), Keeps(D, B, U, t, c, f, s)
  PROVE  Keeps(D, B, U, t, c2, f2, s)
BY DEF Keeps

(* Nor do the parts that are no messages of the thread. *)
LEMMA KeepsPart ==
  ASSUME NEW D, NEW B \in Seq(Entries), NEW U, NEW t, NEW c, NEW f, NEW s,
         NEW e \in Entries, e \notin Messages(t), Keeps(D, B, U, t, c, f, s)
  PROVE  Keeps(D, Append(B, e), U, t, c, f, s)
<1>1. Selected(Append(B, e), Messages(t)) = Selected(B, Messages(t))
  BY SelectedAppend
<1>2. QED
  BY <1>1 DEF Keeps

(* A part of a call's own line: its message goes to the buffer, once. *)
LEMMA KeepsPrinted ==
  ASSUME NEW D, NEW B \in Seq(Entries), NEW U, NEW t \in Threads, NEW c \in Calls,
         NEW f, NEW s, NEW c2, NEW e,
         Keeps(D, B, U, t, c, f, s), Ready(c), c # Null, c2 # Null,
         c.at = "print", c.todo # << >>, f[c.line.logger] = s, c.line.thread = t,
         c2.line = c.line, c2.at = c.at, c2.todo = Tail(c.todo),
         e = [line |-> c.line, part |-> Head(c.todo)]
  PROVE  Keeps(D, Append(B, e), U, t, c2, f, s)
<1>1. /\ c.todo \in Seq(PartNames) /\ c.line \in Lines
      /\ DOMAIN c.todo = 1 .. Len(c.todo) /\ Len(c.todo) \in Nat \ { 0 }
      /\ Head(c.todo) = c.todo[1] /\ Head(c.todo) \in PartNames
      /\ DOMAIN c2.todo = 1 .. Len(c.todo) - 1
      /\ \A i \in 1 .. Len(c.todo) - 1 : c2.todo[i] = c.todo[i + 1]
  BY DEF Calls
<1>2. e \in Entries
  BY <1>1 DEF Entries
<1>3. CASE Head(c.todo) # "message"
  <2>1. Owes(c) => Owes(c2)
    <3>1. ASSUME NEW i \in DOMAIN c.todo, c.todo[i] = "message" PROVE Owes(c2)
      <4>1. i # 1
        BY <1>1, <1>3, <3>1
      <4>2. i - 1 \in DOMAIN c2.todo /\ c2.todo[i - 1] = c.todo[i]
        <5> DEFINE k == i - 1
        <5>1. k \in 1 .. Len(c.todo) - 1 /\ k + 1 = i
          BY <1>1, <4>1
        <5> HIDE DEF k
        <5>2. k \in DOMAIN c2.todo /\ c2.todo[k] = c.todo[k + 1]
          BY <1>1, <5>1
        <5>3. QED
          BY <5>1, <5>2 DEF k
      <4>3. QED
        BY <3>1, <4>2 DEF Owes
    <3>2. QED
      BY <3>1 DEF Owes
  <2>2. Owes(c2) => Owes(c)
    <3>1. \A i \in 1 .. Len(c.todo) - 1 : i + 1 \in DOMAIN c.todo
      BY <1>1
    <3>2. QED
      BY <1>1, <3>1 DEF Owes
  <2>3. e \notin Messages(t)
    BY <1>3 DEF Messages
  <2>4. Keeps(D, Append(B, e), U, t, c, f, s)
    BY <1>2, <2>3, KeepsPart
  <2>5. Said(c2, f, s) <=> Said(c, f, s)
    BY <2>1, <2>2 DEF Said
  <2>6. QED
    BY <2>4, <2>5 DEF Keeps, MessageOf
<1>4. CASE Head(c.todo) = "message"
  <2>1. Owes(c) /\ ~Said(c, f, s)
    BY <1>1, <1>4 DEF Owes, Said
  <2>2. ~Owes(c2)
    <3>1. ASSUME NEW i \in 1 .. Len(c.todo) - 1, c2.todo[i] = "message" PROVE FALSE
      <4>1. i + 1 \in DOMAIN c.todo /\ 1 \in DOMAIN c.todo /\ i + 1 # 1
        BY <1>1
      <4>2. c.todo[i + 1] = "message" /\ c.todo[1] = "message"
        BY <1>1, <1>4, <3>1
      <4>3. QED
        BY <4>1, <4>2 DEF Ready
    <3>2. QED
      BY <1>1, <3>1 DEF Owes
  <2>3. Said(c2, f, s)
    BY <2>2 DEF Said
  <2>4. e \in Messages(t) /\ e = MessageOf(c2)
    BY <1>2, <1>4 DEF Messages, MessageOf
  <2>5. Selected(Append(B, e), Messages(t)) = Append(Selected(B, Messages(t)), e)
    BY <1>2, <2>4, SelectedAppend
  <2>6. Selected(B, Messages(t)) = << >>
        /\ LinesOf(Selected(D, Messages(t))) = Selected(U, WantedLines)
    BY <2>1 DEF Keeps
  <2>7. Append(<< >>, e) = << e >>
    OBVIOUS
  <2>8. QED
    BY <2>3, <2>4, <2>5, <2>6, <2>7 DEF Keeps
<1>5. QED
  BY <1>3, <1>4

(* A call returns: its message, which is on disk, is due from now on. *)
LEMMA KeepsReturned ==
  ASSUME NEW D, NEW B, NEW U \in Seq(Lines), NEW t, NEW c, NEW f, NEW s,
         c.line \in Lines, Wanted(c.line), c.at = "unlock",
         Said(c, f, s), Keeps(D, B, U, t, c, f, s)
  PROVE  Keeps(D, B, Append(U, c.line), t, Null, f, s)
<1>1. c.line \in WantedLines
  BY DEF WantedLines
<1>2. Selected(Append(U, c.line), WantedLines) = Append(Selected(U, WantedLines), c.line)
  BY <1>1, SelectedAppend
<1>3. ~Said(Null, f, s)
  BY DEF Said
<1>4. QED
  BY <1>2, <1>3 DEF Keeps

(* So does a call that is not logged. *)
LEMMA KeepsIgnored ==
  ASSUME NEW D, NEW B, NEW U \in Seq(Lines), NEW t, NEW c, NEW f, NEW s,
         NEW line \in Lines, ~Wanted(line), Keeps(D, B, U, t, c, f, s)
  PROVE  Keeps(D, B, Append(U, line), t, c, f, s)
<1>1. line \notin WantedLines
  BY DEF WantedLines
<1>2. Selected(Append(U, line), WantedLines) = Selected(U, WantedLines)
  BY <1>1, SelectedAppend
<1>3. QED
  BY <1>2 DEF Keeps

(* stdout is not opened again once it has been closed, and what a failed write
   has lost stays lost. *)
LEMMA ReliableStep ==
  ASSUME TypeOK, [Next]_vars
  PROVE  Reliable' \subseteq Reliable
<1>1. Stdout \in open' => Stdout \in open
  <2>1. ASSUME NEW l \in Loggers, InitOpens(l) \/ InitNoMutex(l) \/ Close(l)
        PROVE  Stdout \in open' => Stdout \in open
    BY <2>1 DEF InitOpens, InitNoMutex, Close
  <2>2. CASE open' = open
    BY <2>2
  <2>3. QED
    BY <2>1, <2>2 DEF Next, vars, loggers, InitFails, Log, Proceed, Lock, Fprintf,
                      Flush, Fails, FprintfFails, FlushFails, Unlock
<1>2. failed \subseteq failed'
  <2>1. CASE \E t \in Threads : Fails(t)
    BY <2>1, FailsIs
  <2>2. CASE failed' = failed
    BY <2>2
  <2>3. QED
    BY <2>1, <2>2 DEF Next, vars, streams, InitOpens, InitFails, InitNoMutex, Close,
                      Log, Proceed, Lock, Fprintf, Flush, Unlock
<1>3. QED
  BY <1>1, <1>2 DEF Reliable, Streams

(* A stream that can be relied on is open while a call prints to it. *)
LEMMA PrintsToOpen ==
  ASSUME TypeOK, OpenFilesOwned, NEW u \in Threads, call[u] # Null,
         fp[call[u].line.logger] \in Reliable
  PROVE  fp[call[u].line.logger] \in open
<1>1. call[u].line.logger \in Loggers /\ fp[call[u].line.logger] \in Streams
      /\ fp[call[u].line.logger] # Null
  BY CallUses, LoggerAssumption
<1>2. QED
  BY <1>1 DEF Reliable, OpenFilesOwned

(* No call prints to the file of a logger that is closed. *)
LEMMA ClosedUnused ==
  ASSUME TypeOK, NEW l \in Loggers, fp[l] = Null, Options[l].stream # Stdout,
         NEW t \in Threads
  PROVE  ~Said(call[t], fp, Options[l].stream)
<1>1. call[t] # Null => /\ call[t].line.logger \in Loggers
                        /\ fp[call[t].line.logger] # Null
                        /\ fp[call[t].line.logger] = Options[call[t].line.logger].stream
  BY CallUses, LoggerAssumption
<1>2. QED
  BY <1>1, LoggerAssumption DEF Said

(* Opening and closing loggers keeps what is on disk. *)
LEMMA DurableInitClose ==
  ASSUME TypeOK, Durable, NEW l \in Loggers,
         InitOpens(l) \/ InitNoMutex(l) \/ Close(l),
         NEW s \in Reliable, Reliable' \subseteq Reliable, s \in Reliable',
         NEW t \in Threads
  PROVE  Keeps(disk'[s], buffer'[s], due'[s][t], t, call'[t], fp', s)
<1> DEFINE o == Options[l].stream
<1>0. /\ disk[s] \in Seq(Entries) /\ buffer[s] \in Seq(Entries) /\ s \in Streams
      /\ o \in Streams /\ (fp[l] # Null => fp[l] = o)
  BY OwnStream DEF TypeOK, Reliable
<1>1. Keeps(disk[s], buffer[s], due[s][t], t, call[t], fp, s)
  BY DEF Durable
<1>2. call[t] # Null => call[t] \in Calls /\ call[t].line.logger \in Loggers
                        /\ fp[call[t].line.logger] # Null
  BY CallUses, LoggerAssumption
<1>3. call' = call
  BY DEF InitOpens, InitNoMutex, Close
<1>4. call[t] # Null => fp'[call[t].line.logger] = fp[call[t].line.logger]
  <2>1. CASE InitOpens(l)
    BY <1>2, <2>1 DEF InitOpens, CanInit, TypeOK
  <2>2. CASE InitNoMutex(l)
    BY <2>2 DEF InitNoMutex
  <2>3. CASE Close(l)
    BY <1>2, <2>3 DEF Close, InCall, TypeOK
  <2>4. QED
    BY <2>1, <2>2, <2>3
<1>5. SUFFICES Keeps(disk'[s], buffer'[s], due'[s][t], t, call[t], fp, s)
  <2>1. Said(call[t], fp', s) <=> Said(call[t], fp, s)
    BY <1>4 DEF Said
  <2>2. QED
    BY <1>3, <2>1 DEF Keeps
<1>6. CASE disk'[s] = disk[s] /\ buffer'[s] = buffer[s] /\ due'[s] = due[s]
  BY <1>1, <1>6
<1>7. CASE disk'[s] = disk[s] \o buffer[s] /\ buffer'[s] = << >> /\ due'[s] = due[s]
  BY <1>0, <1>1, <1>2, <1>7, KeepsFlushed
<1>8. CASE /\ disk'[s] = << >> /\ buffer'[s] = buffer[s]
           /\ due'[s] = [v \in Threads |-> << >>] /\ ~Said(call[t], fp, s)
  BY <1>1, <1>8, KeepsTruncated
<1>9. \/ disk'[s] = disk[s] /\ buffer'[s] = buffer[s] /\ due'[s] = due[s]
      \/ disk'[s] = disk[s] \o buffer[s] /\ buffer'[s] = << >> /\ due'[s] = due[s]
      \/ /\ disk'[s] = << >> /\ buffer'[s] = buffer[s]
         /\ due'[s] = [v \in Threads |-> << >>] /\ ~Said(call[t], fp, s)
  <2>1. ASSUME Fopen(l), UNCHANGED buffer, fp[l] = Null
        PROVE  \/ disk'[s] = disk[s] /\ buffer'[s] = buffer[s] /\ due'[s] = due[s]
               \/ /\ disk'[s] = << >> /\ buffer'[s] = buffer[s]
                  /\ due'[s] = [v \in Threads |-> << >>] /\ ~Said(call[t], fp, s)
    <3>1. CASE ~Truncates(l)
      BY <2>1, <3>1 DEF Fopen
    <3>2. CASE Truncates(l)
      <4>1. /\ disk' = [disk EXCEPT ![o] = << >>]
            /\ due'  = [due EXCEPT ![o] = [v \in Threads |-> << >>]]
        BY <2>1, <3>2 DEF Fopen
      <4>2. ~Said(call[t], fp, o)
        BY <2>1, <3>2, ClosedUnused DEF Truncates
      <4>3. QED
        BY <1>0, <2>1, <4>1, <4>2 DEF TypeOK
    <3>3. QED
      BY <3>1, <3>2
  <2>2. ASSUME NEW p \in Streams, Fclose(p), UNCHANGED due
        PROVE  \/ disk'[s] = disk[s] /\ buffer'[s] = buffer[s] /\ due'[s] = due[s]
               \/ disk'[s] = disk[s] \o buffer[s] /\ buffer'[s] = << >> /\ due'[s] = due[s]
    BY <1>0, <2>2 DEF Fclose, TypeOK
  <2>3. CASE InitOpens(l)
    BY <2>1, <2>3 DEF InitOpens, CanInit
  <2>4. CASE InitNoMutex(l)
    BY <1>0, <2>1, <2>2, <2>4 DEF InitNoMutex, CanInit
  <2>5. CASE Close(l)
    BY <1>0, <2>2, <2>5 DEF Close, streams
  <2>6. QED
    BY <2>3, <2>4, <2>5
<1>10. QED
  BY <1>6, <1>7, <1>8, <1>9

(* To begin a call does not print. *)
LEMMA DurableLog ==
  ASSUME TypeOK, CallsReady, Durable,
         NEW u \in Threads, NEW l \in Loggers, NEW level \in CallLevels,
         Log(u, l, level), CallsReady',
         NEW s \in Reliable, NEW t \in Threads
  PROVE  Keeps(disk'[s], buffer'[s], due'[s][t], t, call'[t], fp', s)
<1> DEFINE x == [thread |-> u, number |-> calls[u], logger |-> l, level |-> level]
<1>1. Keeps(disk[s], buffer[s], due[s][t], t, call[t], fp, s)
  BY DEF Durable
<1>2. /\ x \in Lines /\ fp[l] \in Streams /\ s \in Streams
      /\ due[s][t] \in Seq(Lines)
  <2>1. x \in Lines
    BY LoggerAssumption DEF TypeOK, Lines
  <2>2. QED
    BY <2>1, OwnStream DEF TypeOK, Reliable, Log
<1>3. call[u] = Null /\ fp' = fp /\ disk' = disk /\ buffer' = buffer
  BY DEF Log, loggers, streams
<1>4. x.logger = l /\ x.level = level
  OBVIOUS
<1>5. \/ /\ due' = due
         /\ \E trace \in Traces :
              call' = [call EXCEPT ![u] = [line |-> x, at |-> "lock",
                                           todo |-> Parts(l, level, trace)]]
      \/ Returned(x, fp[l], u) /\ call' = call /\ ~(Options[l].min_level <= level)
  BY DEF Log
<1> HIDE DEF x
<1>6. CASE Returned(x, fp[l], u) /\ call' = call /\ ~(Options[l].min_level <= level)
  <2>1. ~Wanted(x)
    BY <1>4, <1>6 DEF Wanted
  <2>2. due'[s][t] = due[s][t] \/ due'[s][t] = Append(due[s][t], x)
    BY <1>2, <1>6 DEF Returned, TypeOK
  <2>3. Keeps(disk[s], buffer[s], Append(due[s][t], x), t, call[t], fp, s)
    BY <1>1, <1>2, <2>1, KeepsIgnored
  <2>4. QED
    BY <1>1, <1>3, <1>6, <2>2, <2>3
<1>7. CASE /\ due' = due
           /\ \E trace \in Traces :
                call' = [call EXCEPT ![u] = [line |-> x, at |-> "lock",
                                             todo |-> Parts(l, level, trace)]]
  <2>1. CASE t = u
    <3>1. call'[t] # Null => call'[t].at = "lock" /\ Owes(call'[t])
      BY <1>7, <2>1 DEF TypeOK, CallsReady, Ready
    <3>2. ~Said(call[t], fp, s) /\ ~Said(call'[t], fp, s)
      BY <1>3, <2>1, <3>1 DEF Said
    <3>3. QED
      BY <1>1, <1>3, <1>7, <3>2, KeepsOther
  <2>2. CASE t # u
    <3>1. call'[t] = call[t]
      BY <1>7, <2>2 DEF TypeOK
    <3>2. QED
      BY <1>1, <1>3, <1>7, <3>1
  <2>3. QED
    BY <2>1, <2>2
<1>8. QED
  BY <1>5, <1>6, <1>7

(* Every part of a call keeps what is on disk, and a flush brings the message
   of the call there before the call returns. *)
LEMMA DurableProceed ==
  ASSUME TypeOK, OpenFilesOwned, Fresh, CallsReady, Durable,
         NEW u \in Threads, Proceed(u),
         NEW s \in Reliable, s \in Reliable', NEW t \in Threads
  PROVE  Keeps(disk'[s], buffer'[s], due'[s][t], t, call'[t], fp', s)
<1> DEFINE c == call[u]
           p == fp[call[u].line.logger]
<1>0. c # Null
  BY DEF Proceed, Lock, Fprintf, Flush, Fails, FprintfFails, FlushFails, Unlock, At
<1>1. Keeps(disk[s], buffer[s], due[s][t], t, call[t], fp, s)
  BY DEF Durable
<1>2. /\ c \in Calls /\ c.line \in Lines /\ c.line.logger \in Loggers
      /\ p \in Streams /\ Ready(c) /\ c.line.thread = u
  BY <1>0, CallUses DEF CallsReady, Fresh
<1>3. /\ s \in Streams /\ due[s][t] \in Seq(Lines)
      /\ disk[s] \in Seq(Entries) /\ buffer[s] \in Seq(Entries)
      /\ call[t] # Null => call[t] \in Calls
  BY DEF TypeOK, Reliable
<1>4. fp' = fp /\ (t # u => call'[t] = call[t])
  BY DEF Proceed, Lock, Fprintf, Flush, Fails, FprintfFails, FlushFails, Unlock,
         loggers, TypeOK
<1>5. p # s => ~Said(c, fp, s)
  BY DEF Said
<1>6. CASE Lock(u)
  <2>1. disk' = disk /\ buffer' = buffer /\ due' = due
    BY <1>6 DEF Lock, streams
  <2>2. CASE t = u
    <3>1. call'[u] = [c EXCEPT !.at = "print"] /\ c.at = "lock"
      BY <1>6 DEF Lock, TypeOK, At
    <3>2. call'[u].todo = c.todo /\ Owes(c)
      BY <1>2, <3>1 DEF Calls, Ready
    <3>3. ~Said(c, fp, s) /\ ~Said(call'[u], fp, s)
      BY <3>2 DEF Said, Owes
    <3>4. QED
      BY <1>1, <1>4, <2>1, <2>2, <3>3, KeepsOther
  <2>3. QED
    BY <1>1, <1>4, <2>1, <2>2
<1>7. CASE Fprintf(u)
  <2> DEFINE e == [line |-> c.line, part |-> Head(c.todo)]
  <2>1. /\ disk' = disk /\ due' = due /\ c.at = "print" /\ c.todo # << >>
        /\ buffer' = IF p \in open THEN [buffer EXCEPT ![p] = Append(@, e)] ELSE buffer
        /\ call'[u] = [c EXCEPT !.todo = Tail(@)]
    BY <1>7 DEF Fprintf, At, TypeOK
  <2>2. call'[u] # Null /\ call'[u].line = c.line /\ call'[u].at = c.at
        /\ call'[u].todo = Tail(c.todo)
    <3>1. call'[u].line = c.line /\ call'[u].at = c.at /\ call'[u].todo = Tail(c.todo)
      BY <1>2, <2>1 DEF Calls
    <3>2. call'[u] \in Calls
      <4>1. Tail(c.todo) \in Seq(PartNames)
        BY <1>2, <2>1 DEF Calls
      <4>2. QED
        BY <1>2, <2>1, <4>1 DEF Calls
    <3>3. QED
      BY <3>1, <3>2, LoggerAssumption
  <2>3. e \in Entries /\ e.line = c.line
    <3>1. Head(c.todo) \in PartNames
      BY <1>2, <2>1 DEF Calls
    <3>2. QED
      BY <1>2, <3>1 DEF Entries
  <2>4. CASE p # s
    <3>1. buffer'[s] = buffer[s]
      BY <1>2, <1>3, <2>1, <2>4 DEF TypeOK
    <3>2. CASE t = u
      <4>1. ~Said(call'[u], fp, s)
        BY <2>2, <2>4 DEF Said
      <4>2. QED
        BY <1>1, <1>4, <1>5, <2>1, <2>4, <3>1, <3>2, <4>1, KeepsOther
    <3>3. QED
      BY <1>1, <1>4, <2>1, <3>1, <3>2
  <2>5. CASE p = s
    <3>1. buffer'[s] = Append(buffer[s], e)
      <4>1. p \in open
        BY <1>0, <2>5, PrintsToOpen
      <4>2. QED
        BY <1>2, <2>1, <2>5, <4>1 DEF TypeOK
    <3> HIDE DEF e
    <3>2. CASE t = u
      <4> DEFINE c2 == call'[u]
      <4>1. /\ c2 # Null /\ c2.line = c.line /\ c2.at = c.at
            /\ c2.todo = Tail(c.todo)
        BY <2>2
      <4>2. e = [line |-> c.line, part |-> Head(c.todo)]
        BY DEF e
      <4>3. Keeps(disk[s], buffer[s], due[s][t], t, c, fp, s) /\ c.line.thread = t
        BY <1>1, <1>2, <3>2
      <4> HIDE DEF c2
      <4>4. Keeps(disk[s], Append(buffer[s], e), due[s][t], t, c2, fp, s)
        BY <1>0, <1>2, <1>3, <2>1, <2>5, <4>1, <4>2, <4>3, KeepsPrinted
      <4>5. QED
        BY <1>4, <2>1, <3>1, <3>2, <4>4 DEF c2
    <3>3. CASE t # u
      <4>1. e \notin Messages(t)
        BY <1>2, <2>3, <3>3 DEF Messages
      <4>2. Keeps(disk[s], Append(buffer[s], e), due[s][t], t, call[t], fp, s)
        BY <1>1, <1>3, <2>3, <4>1, KeepsPart
      <4>3. QED
        BY <1>4, <2>1, <3>1, <3>3, <4>2
    <3>4. QED
      BY <3>2, <3>3
  <2>6. QED
    BY <2>4, <2>5
<1>8. CASE Flush(u)
  <2>1. /\ due' = due /\ c.at = "print" /\ c.todo = << >>
        /\ disk' = [disk EXCEPT ![p] = @ \o buffer[p]]
        /\ buffer' = [buffer EXCEPT ![p] = << >>]
        /\ call'[u] = [c EXCEPT !.at = "unlock"]
    BY <1>8 DEF Flush, At, TypeOK
  <2>2. call'[u].line = c.line /\ call'[u].todo = << >> /\ call'[u] # Null
    <3>1. call'[u].line = c.line /\ call'[u].todo = << >> /\ call'[u] \in Calls
      BY <1>2, <2>1 DEF Calls
    <3>2. QED
      BY <3>1, LoggerAssumption
  <2>3. ~Owes(c) /\ ~Owes(call'[u])
    BY <2>1, <2>2 DEF Owes
  <2>4. CASE p # s
    <3>1. buffer'[s] = buffer[s] /\ disk'[s] = disk[s]
      BY <1>2, <1>3, <2>1, <2>4 DEF TypeOK
    <3>2. CASE t = u
      <4>1. ~Said(call'[u], fp, s)
        BY <2>2, <2>4 DEF Said
      <4>2. QED
        BY <1>1, <1>4, <1>5, <2>1, <2>4, <3>1, <3>2, <4>1, KeepsOther
    <3>3. QED
      BY <1>1, <1>4, <2>1, <3>1, <3>2
  <2>5. CASE p = s
    <3>1. buffer'[s] = << >> /\ disk'[s] = disk[s] \o buffer[s]
      BY <1>2, <2>1, <2>5 DEF TypeOK
    <3>2. /\ Keeps(disk'[s], << >>, due[s][t], t, call[t], fp, s)
          /\ Said(call[t], fp, s) =>
               LinesOf(Selected(disk'[s], Messages(t)))
                 = Append(Selected(due[s][t], WantedLines), call[t].line)
      BY <1>1, <1>3, <3>1, KeepsFlushed
    <3>3. CASE t = u
      <4>1. Said(c, fp, s) /\ Said(call'[u], fp, s)
        BY <1>0, <2>2, <2>3, <2>5 DEF Said
      <4>2. Selected(<< >>, Messages(t)) = << >>
        BY SelectedNone
      <4>3. QED
        BY <1>4, <2>1, <2>2, <3>1, <3>2, <3>3, <4>1, <4>2 DEF Keeps
    <3>4. QED
      BY <1>4, <2>1, <3>1, <3>2, <3>3
  <2>6. QED
    BY <2>4, <2>5
<1>9. CASE Unlock(u)
  <2>1. /\ disk' = disk /\ buffer' = buffer /\ c.at = "unlock"
        /\ Returned(c.line, p, u) /\ call'[u] = Null
    BY <1>9 DEF Unlock, streams, At, TypeOK
  <2>2. ~Owes(c)
    BY <1>2, <2>1 DEF Ready, Owes
  <2>3. CASE t = u /\ p = s
    <3>1. due'[s][t] = Append(due[s][t], c.line)
      BY <1>2, <2>1, <2>3 DEF Returned, TypeOK
    <3>2. Said(c, fp, s) /\ Wanted(c.line)
      BY <1>0, <1>2, <2>2, <2>3 DEF Said, Ready
    <3>3. Keeps(disk[s], buffer[s], Append(due[s][t], c.line), t, Null, fp, s)
      BY <1>1, <1>2, <1>3, <2>1, <2>3, <3>2, KeepsReturned
    <3>4. QED
      BY <1>4, <2>1, <2>3, <3>1, <3>3
  <2>4. CASE t # u
    <3>1. due'[s][t] = due[s][t]
      BY <1>2, <1>3, <2>1, <2>4 DEF Returned, TypeOK
    <3>2. QED
      BY <1>1, <1>4, <2>1, <2>4, <3>1
  <2>5. CASE t = u /\ p # s
    <3>1. due'[s][t] = due[s][t]
      BY <1>2, <1>3, <2>1, <2>5 DEF Returned, TypeOK
    <3>2. ~Said(Null, fp, s)
      BY DEF Said
    <3>3. QED
      BY <1>1, <1>4, <1>5, <2>1, <2>5, <3>1, <3>2, KeepsOther
  <2>6. QED
    BY <2>3, <2>4, <2>5
<1>10. CASE Fails(u)
  <2>a. failed' = failed \cup { p }
    BY <1>10, FailsIs
  <2>b. s \notin failed'
    BY DEF Reliable
  <2>1. p # s
    BY <2>a, <2>b
  <2>2. disk'[s] = disk[s] /\ buffer'[s] = buffer[s] /\ due' = due
        /\ call'[u].line = c.line
    BY <1>3, <1>10, <2>1, FailsIs
  <2>3. CASE t = u
    <3>1. ~Said(call'[u], fp, s)
      BY <2>1, <2>2 DEF Said
    <3>2. QED
      BY <1>1, <1>4, <1>5, <2>1, <2>2, <2>3, <3>1, KeepsOther
  <2>4. CASE t # u
    BY <1>1, <1>4, <2>2, <2>4
  <2>5. QED
    BY <2>3, <2>4
<1>11. QED
  BY <1>6, <1>7, <1>8, <1>9, <1>10 DEF Proceed

(* Every step keeps the messages of returned calls on disk. *)
LEMMA DurableStep ==
  ASSUME TypeOK, OpenFilesOwned, Fresh, CallsReady, Durable, [Next]_vars
  PROVE  Durable'
<1>0. Reliable' \subseteq Reliable /\ CallsReady'
  BY ReliableStep, ReadyStep
<1>1. ASSUME NEW s \in Reliable', NEW t \in Threads
      PROVE  Keeps(disk'[s], buffer'[s], due'[s][t], t, call'[t], fp', s)
  <2>1. s \in Reliable
    BY <1>0, <1>1
  <2>2. CASE \E l \in Loggers : InitOpens(l) \/ InitNoMutex(l) \/ Close(l)
    BY <1>0, <1>1, <2>1, <2>2, DurableInitClose
  <2>3. CASE \E u \in Threads, l \in Loggers, level \in CallLevels : Log(u, l, level)
    BY <1>0, <2>1, <2>3, DurableLog
  <2>4. CASE \E u \in Threads : Proceed(u)
    BY <1>1, <2>1, <2>4, DurableProceed
  <2>5. CASE UNCHANGED << disk, buffer, due, call, fp >>
    BY <2>1, <2>5 DEF Durable
  <2>6. QED
    BY <2>2, <2>3, <2>4, <2>5 DEF Next, vars, InitFails, streams
<1>2. QED
  BY <1>1 DEF Durable

(* What the invariant says of the messages on disk. *)
LEMMA DurableMeans ==
  ASSUME TypeOK, DueEarlier, Durable
  PROVE  ReturnedIsOnDisk
<1> SUFFICES ASSUME NEW s \in Reliable, NEW t \in Threads
             PROVE  LinesOf(Selected(disk[s], { e \in Messages(t) :
                                    call[t] # Null => e.line # call[t].line }))
                      = Selected(due[s][t], WantedLines)
  BY DEF ReturnedIsOnDisk, LinesOf, WantedLines
<1> DEFINE M == Messages(t)
           N == { e \in Messages(t) : call[t] # Null => e.line # call[t].line }
           d == Selected(disk[s], M)
           w == Selected(due[s][t], WantedLines)
           mine == Selected(disk[s], N)
<1>1. /\ disk[s] \in Seq(Entries) /\ due[s][t] \in Seq(Lines)
      /\ call[t] # Null => call[t].line \in Lines
  BY CallUses DEF TypeOK, Reliable
<1>2. d \in Seq(Entries \cap M) /\ w \in Seq(Lines \cap WantedLines)
  BY <1>1, SelectedIn
<1>3. N \subseteq M /\ mine = Selected(d, N)
  BY <1>1, SelectedTwice
<1>4. \/ LinesOf(d) = w
      \/ call[t] # Null /\ LinesOf(d) = Append(w, call[t].line)
  BY DEF Durable, Keeps, Said
<1>5. \A i \in DOMAIN w : call[t] # Null => w[i] # call[t].line
  <2> DEFINE R == { due[s][t][i] : i \in DOMAIN due[s][t] }
  <2>1. due[s][t] \in Seq(R)
    BY <1>1
  <2>2. \A x \in R : call[t] # Null => x # call[t].line
    <3>1. \A x \in R : x \in Lines /\ (call[t] # Null => x.number < call[t].line.number)
      BY <1>1 DEF DueEarlier, Reliable
    <3>2. call[t] # Null => call[t].line.number \in Nat
      BY <1>1 DEF Lines
    <3>3. QED
      BY <3>1, <3>2
  <2> HIDE DEF R
  <2>3. w \in Seq(R \cap WantedLines)
    BY <2>1, SelectedIn
  <2> HIDE DEF w
  <2>4. \A i \in DOMAIN w : w[i] \in R
    BY <2>3
  <2>5. QED
    BY <2>2, <2>4
<1> HIDE DEF M, N, d, w, mine
<1>6. \A e \in M : e \in N <=> (call[t] # Null => e.line # call[t].line)
  BY DEF M, N
<1>7. ASSUME NEW r \in Seq(Entries \cap M), LinesOf(r) = w
      PROVE  Selected(r, N) = r
  <2>1. \A i \in DOMAIN r : r[i] \in Entries \cap M /\ i \in DOMAIN w /\ r[i].line = w[i]
    BY <1>7 DEF LinesOf
  <2>2. \A i \in DOMAIN r : r[i] \in N
    BY <1>5, <1>6, <2>1
  <2>3. r \in Seq(N)
    BY <2>2
  <2>4. QED
    BY <2>3, SelectedAll
<1>8. CASE LinesOf(d) = w
  <2>1. mine = d
    BY <1>2, <1>3, <1>7, <1>8
  <2>2. QED
    BY <1>8, <2>1 DEF mine, N, w
<1>9. CASE call[t] # Null /\ LinesOf(d) = Append(w, call[t].line)
  <2> DEFINE x == call[t].line
             A == Entries \cap M
             n == Len(w)
  <2>1. /\ w \in Seq(Lines) /\ n \in Nat /\ x \in Lines /\ d \in Seq(A)
    BY <1>1, <1>2, <1>9
  <2> HIDE DEF x, A
  <2>2. Len(d) = n + 1
    <3>1. DOMAIN d = DOMAIN Append(w, x)
      BY <1>9 DEF LinesOf, x
    <3>2. DOMAIN Append(w, x) = 1 .. n + 1 /\ DOMAIN d = 1 .. Len(d) /\ Len(d) \in Nat
      BY <2>1
    <3>3. QED
      BY <2>1, <3>1, <3>2
  <2>3. PICK r \in Seq(A), e \in A : d = Append(r, e) /\ Len(r) = n
    BY <2>1, <2>2, EndsWith
  <2>4. r \in Seq(Entries) /\ e \in Entries /\ e \in M
    BY <2>3 DEF A
  <2>5. LinesOf(d) = Append(LinesOf(r), e.line)
    BY <2>3, <2>4, LinesLonger
  <2>6. LinesOf(r) \in Seq(Lines) /\ Len(LinesOf(r)) = n /\ e.line \in Lines
    <3>1. \A y \in Entries : y.line \in Lines
      BY DEF Entries
    <3>2. \A i \in 1 .. n : r[i] \in Entries
      BY <2>3, <2>4
    <3>3. LinesOf(r) = [i \in 1 .. n |-> r[i].line]
      BY <2>3, <2>4 DEF LinesOf
    <3>4. QED
      BY <2>1, <2>4, <3>1, <3>2, <3>3
  <2>7. LinesOf(r) = w /\ e.line = x
    <3> DEFINE a == LinesOf(r)
               z == e.line
    <3>1. Append(a, z) = Append(w, x) /\ a \in Seq(Lines) /\ Len(a) = n /\ z \in Lines
      BY <1>9, <2>5, <2>6 DEF x
    <3> HIDE DEF a, z
    <3>2. \A q \in Seq(Lines), y \in Lines :
            /\ \A i \in 1 .. Len(q) : Append(q, y)[i] = q[i]
            /\ Append(q, y)[Len(q) + 1] = y
      OBVIOUS
    <3>3. /\ \A i \in 1 .. n : Append(a, z)[i] = a[i] /\ Append(w, x)[i] = w[i]
          /\ Append(a, z)[n + 1] = z /\ Append(w, x)[n + 1] = x
      BY <2>1, <3>1, <3>2
    <3>4. a = w
      BY <2>1, <3>1, <3>3
    <3>5. QED
      BY <3>1, <3>3, <3>4 DEF a, z
  <2>8. e \notin N
    BY <1>6, <1>9, <2>4, <2>7 DEF x
  <2>9. mine = r
    <3>1. Selected(Append(r, e), N) = Selected(r, N)
      BY <2>3, <2>8, SelectedAppend
    <3>2. Selected(r, N) = r
      BY <1>7, <2>3, <2>7 DEF A
    <3>3. QED
      BY <1>3, <2>3, <3>1, <3>2
  <2>10. QED
    BY <2>7, <2>9 DEF mine, N, w
<1>10. QED
  BY <1>4, <1>8, <1>9

(* Whatever the threads do, and however the buffer is flushed: the invariant
   with what it needs. *)
LEMMA DurableInit == Init => CallsReady /\ DueEarlier /\ Durable
<1> SUFFICES ASSUME Init PROVE CallsReady /\ DueEarlier /\ Durable
  OBVIOUS
<1>1. \A t \in Threads : call[t] = Null
  BY DEF Init
<1>2. \A s \in Streams : disk[s] = << >> /\ buffer[s] = << >>
                          /\ \A t \in Threads : due[s][t] = << >>
  BY DEF Init
<1>3. CallsReady /\ DueEarlier
  BY <1>1, <1>2 DEF CallsReady, DueEarlier
<1>4. \A S : Selected(<< >>, S) = << >>
  BY SelectedNone
<1>5. LinesOf(<< >>) = << >>
  BY DEF LinesOf
<1>6. Durable
  BY <1>1, <1>2, <1>4, <1>5 DEF Durable, Keeps, Said, Reliable
<1>7. QED
  BY <1>3, <1>6

(* Once a call has returned its message is on disk: for any number of threads,
   loggers and streams, thread-safe or not, each thread's messages of a level
   that is logged are on disk, each once, in the order of its calls, whatever
   the other threads print, flush, open and close (clogger.h:84, 117). *)
THEOREM ReturnedDurable == Spec => []ReturnedIsOnDisk
<1> DEFINE Inv == TypeOK /\ OpenFilesOwned /\ Fresh /\ CallsReady /\ DueEarlier /\ Durable
<1>1. Init /\ IInv => Inv
  BY DurableInit DEF IInv
<1>2. IInv /\ IInv' /\ Inv /\ [Next]_vars => Inv'
  <2> SUFFICES ASSUME IInv, IInv', Inv, [Next]_vars PROVE Inv'
    OBVIOUS
  <2>1. TypeOK' /\ OpenFilesOwned' /\ Fresh'
    BY DEF IInv
  <2>2. CallsReady' /\ DueEarlier' /\ Durable'
    BY ReadyStep, EarlierStep, DurableStep
  <2>3. QED
    BY <2>1, <2>2
<1>3. Inv => ReturnedIsOnDisk
  BY DurableMeans
<1>4. QED
  BY <1>1, <1>2, <1>3, LoggerInvariance, PTL DEF Spec

=============================================================================
