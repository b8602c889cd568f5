---------------------------- MODULE BatchExecute ----------------------------
(***************************************************************************)
(* batch.Execute of internal/batch/batch.go: one goroutine per item, a     *)
(* semaphore that lets `concurrency' of them run, a buffered channel to a  *)
(* single printer goroutine, and a caller that waits for all of them.      *)
(***************************************************************************)
EXTENDS Integers, FiniteSets, Sequences

CONSTANTS N,      \* len(work)
          Asked   \* the concurrency parameters considered

ASSUME BatchAssumption == N \in Nat /\ Asked \subseteq Int

Items    == 1 .. N
Outcomes == {"ok", "error"}

VARIABLES
  asked,    \* the concurrency parameter
  main,     \* where Execute is; spawned is how many goroutines it has started
  spawned,
  pc,       \* where each item's goroutine is
  sem,      \* tokens in the semaphore channel
  lines,    \* the items whose lines are in the channel
  closed,   \* the channel is closed
  printed,  \* the items whose lines the printer has written
  printer,  \* "range" over the channel, or "done"
  outcome,  \* what item.Run returned
  results

vars == <<asked, main, spawned, pc, sem, lines, closed, printed, printer, outcome, results>>

Places == {"none", "acquire", "run", "send", "store", "release", "exit", "done"}

\* Mutant: zero and negative values are taken as they are.
ClampAbove(c) == IF c > 20 THEN 20 ELSE c

\* Mutant: there is no upper bound but the number of items.
ClampToWork(c) == N

\* The capacity of the semaphore.
Clamp(c) ==
  LET positive == IF c <= 0 THEN 5 ELSE c
      bounded  == IF positive > 20 THEN 20 ELSE positive
  IN  IF N > 0 /\ bounded > N THEN N ELSE bounded

\* Mutant: the channel of the lines takes what can run at once.
LinesCapLimit == Clamp(asked)

\* The buffer of the lines channel.
LinesCap == N

Init ==
  /\ asked \in Asked
  /\ main = "spawn" /\ spawned = 0
  /\ pc = [i \in Items |-> "none"]
  /\ sem = 0 /\ lines = <<>> /\ closed = FALSE
  /\ printed = <<>> /\ printer = "range"
  /\ outcome = [i \in Items |-> "none"]
  /\ results = [i \in Items |-> "none"]

-----------------------------------------------------------------------------
(* The goroutine of an item *)

Go(i, from, to) == pc[i] = from /\ pc' = [pc EXCEPT ![i] = to]

\* Mutant: the goroutine does not wait for a token.
AcquireAlways(i) ==
  /\ Go(i, "acquire", "run")
  /\ sem' = sem + 1
  /\ UNCHANGED <<asked, main, spawned, lines, closed, printed, printer, outcome, results>>

Acquire(i) ==
  /\ Go(i, "acquire", "run")
  /\ sem < Clamp(asked)
  /\ sem' = sem + 1
  /\ UNCHANGED <<asked, main, spawned, lines, closed, printed, printer, outcome, results>>

Run(i) ==
  /\ Go(i, "run", "send")
  /\ \E o \in Outcomes : outcome' = [outcome EXCEPT ![i] = o]
  /\ UNCHANGED <<asked, main, spawned, sem, lines, closed, printed, printer, results>>

\* Blocks while the buffer is full; a send on the closed channel would panic.
Send(i) ==
  /\ Go(i, "send", "store")
  /\ Len(lines) < LinesCap
  /\ lines' = Append(lines, i)
  /\ UNCHANGED <<asked, main, spawned, sem, closed, printed, printer, outcome, results>>

Store(i) ==
  /\ Go(i, "store", "release")
  /\ results' = [results EXCEPT ![i] = outcome[i]]
  /\ UNCHANGED <<asked, main, spawned, sem, lines, closed, printed, printer, outcome>>

Release(i) ==
  /\ Go(i, "release", "exit")
  /\ sem' = sem - 1
  /\ UNCHANGED <<asked, main, spawned, lines, closed, printed, printer, outcome, results>>

\* wg.Done is the first defer, so that it runs last.
Exit(i) ==
  /\ Go(i, "exit", "done")
  /\ UNCHANGED <<asked, main, spawned, sem, lines, closed, printed, printer, outcome, results>>

-----------------------------------------------------------------------------
(* The printer *)

PrintLine ==
  /\ printer = "range" /\ lines # <<>>
  /\ printed' = Append(printed, Head(lines))
  /\ lines' = Tail(lines)
  /\ UNCHANGED <<asked, main, spawned, pc, sem, closed, printer, outcome, results>>

PrinterEnds ==
  /\ printer = "range" /\ lines = <<>> /\ closed
  /\ printer' = "done"
  /\ UNCHANGED <<asked, main, spawned, pc, sem, lines, closed, printed, outcome, results>>

-----------------------------------------------------------------------------
(* Execute itself *)

Spawn ==
  /\ main = "spawn" /\ spawned < N
  /\ spawned' = spawned + 1
  /\ pc' = [pc EXCEPT ![spawned'] = "acquire"]
  /\ UNCHANGED <<asked, main, sem, lines, closed, printed, printer, outcome, results>>

\* Mutant: the counter of the wait group is lowered before the result is stored.
AllSent == \A i \in Items : pc[i] \in {"store", "release", "exit", "done"}

\* Mutant: the wait group counts the goroutines that have started to run.
NoneRunning == \A i \in Items : pc[i] \in {"acquire", "exit", "done"}

\* wg.Wait
AllDone == \A i \in Items : pc[i] = "done"

Close ==
  /\ main = "spawn" /\ spawned = N
  /\ AllDone
  /\ closed' = TRUE
  /\ main' = "drain"
  /\ UNCHANGED <<asked, spawned, pc, sem, lines, printed, printer, outcome, results>>

Return ==
  /\ main = "drain" /\ printer = "done"
  /\ main' = "returned"
  /\ UNCHANGED <<asked, spawned, pc, sem, lines, closed, printed, printer, outcome, results>>

-----------------------------------------------------------------------------
Worker(i) == Acquire(i) \/ Run(i) \/ Send(i) \/ Store(i) \/ Release(i) \/ Exit(i)
Execute   == Spawn \/ Close \/ Return
Printer   == PrintLine \/ PrinterEnds

Next == Execute \/ Printer \/ \E i \in Items : Worker(i)

\* Goroutines run on, item.Run returns, and a send or an acquire that can be
\* served again and again is served in the end: channels are first come, first
\* served.
FairSpec ==
  /\ Init /\ [][Next]_vars
  /\ WF_vars(Execute) /\ WF_vars(Printer)
  /\ \A i \in Items : SF_vars(Worker(i))

-----------------------------------------------------------------------------
(* Properties *)

InRun == {i \in Items : pc[i] \in {"run", "send", "store", "release"}}

TypeOK ==
  /\ asked \in Asked
  /\ main \in {"spawn", "drain", "returned"} /\ spawned \in 0 .. N
  /\ pc \in [Items -> Places]
  /\ sem \in 0 .. Clamp(asked) /\ sem = Cardinality(InRun)
  /\ lines \in Seq(Items) /\ printed \in Seq(Items)
  /\ closed \in BOOLEAN /\ printer \in {"range", "done"}
  /\ outcome \in [Items -> Outcomes \cup {"none"}]
  /\ results \in [Items -> Outcomes \cup {"none"}]

\* No more items run at once than the caller asked for.
Bounded == asked > 0 => Cardinality(InRun) <= asked

\* No goroutine is left that could send once the channel is closed: the send
\* would panic.
NoSendOnClosed == closed => \A i \in Items : pc[i] \notin {"none", "acquire", "run", "send"}

\* A goroutine holding a token never waits for the printer, however slow it is.
SendNeverBlocks == \A i \in Items : pc[i] = "send" => Len(lines) < LinesCap

\* Once Execute returns, its caller sees every item's own result, and every
\* item's line is written, once: the goroutines' writes are over.
ReturnsAll ==
  main = "returned" =>
    /\ \A i \in Items : results[i] \in Outcomes /\ results[i] = outcome[i]
    /\ Len(printed) = N /\ {printed[k] : k \in DOMAIN printed} = Items

\* Execute returns, whatever concurrency it is given.
Terminates == <>(main = "returned")
=============================================================================
