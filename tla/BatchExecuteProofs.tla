------------------------- MODULE BatchExecuteProofs -------------------------
(***************************************************************************)
(* batch.Execute for any number of items and any concurrency: the bound,   *)
(* no send on the closed channel, no goroutine that waits for the printer, *)
(* and complete results.                                                   *)
(***************************************************************************)
EXTENDS BatchExecute, FiniteSetTheorems, TLAPS

After == {"store", "release", "exit", "done"}
Sent  == {i \in Items : pc[i] \in After}
ItemsOf(s) == {s[k] : k \in DOMAIN s}

Typed ==
  /\ asked \in Asked
  /\ main \in {"spawn", "drain", "returned"} /\ spawned \in 0 .. N
  /\ pc \in [Items -> Places]
  /\ lines \in Seq(Items) /\ printed \in Seq(Items)
  /\ closed \in BOOLEAN /\ printer \in {"range", "done"}
  /\ outcome \in [Items -> Outcomes \cup {"none"}]
  /\ results \in [Items -> Outcomes \cup {"none"}]

\* The items that are not spawned are nowhere.
Spawning == \A i \in Items : i > spawned => pc[i] = "none"

\* The tokens are those of the items that run.
Tokens == sem = Cardinality(InRun) /\ sem <= Clamp(asked)

\* Every item that has sent its line has it in the channel or written.
Told ==
  /\ Len(printed) + Len(lines) = Cardinality(Sent)
  /\ ItemsOf(printed) \cup ItemsOf(lines) = Sent

\* The channel is closed, the printer ends and Execute returns in this order.
Closing ==
  /\ closed <=> main # "spawn"
  /\ closed => AllDone
  /\ printer = "done" => closed /\ lines = <<>>
  /\ main = "returned" => printer = "done"

Stored ==
  \A i \in Items :
    /\ pc[i] \in {"send"} \cup After => outcome[i] \in Outcomes
    /\ pc[i] \in {"release", "exit", "done"} => results[i] = outcome[i]

IInv == Typed /\ Spawning /\ Tokens /\ Told /\ Closing /\ Stored

-----------------------------------------------------------------------------
\* The sets that are counted.

LEMMA ItemsFinite ==
  /\ IsFiniteSet(Items) /\ Cardinality(Items) = N
  /\ \A S \in SUBSET Items : IsFiniteSet(S) /\ Cardinality(S) \in 0 .. N
<1>1. IsFiniteSet(Items) /\ Cardinality(Items) = N
  BY FS_Interval, BatchAssumption DEF Items
<1>2. ASSUME NEW S \in SUBSET Items
      PROVE  IsFiniteSet(S) /\ Cardinality(S) \in 0 .. N
  <2>1. IsFiniteSet(S) /\ Cardinality(S) <= N
    BY <1>1, FS_Subset
  <2> QED BY <2>1, FS_CardinalityType, BatchAssumption
<1> QED BY <1>1, <1>2

LEMMA Counting ==
  ASSUME NEW S \in SUBSET Items, NEW i \in Items
  PROVE  /\ i \notin S => Cardinality(S \cup {i}) = Cardinality(S) + 1 /\ Cardinality(S) < N
         /\ i \in S => Cardinality(S \ {i}) = Cardinality(S) - 1
<1>1. IsFiniteSet(S) /\ S \cup {i} \in SUBSET Items
  BY ItemsFinite
<1>2. Cardinality(S) \in 0 .. N /\ Cardinality(S \cup {i}) \in 0 .. N
  BY <1>1, ItemsFinite
<1>3. i \notin S => Cardinality(S \cup {i}) = Cardinality(S) + 1
  BY <1>1, FS_AddElement
<1>4. i \in S => Cardinality(S \ {i}) = Cardinality(S) - 1
  BY <1>1, FS_RemoveElement
<1> QED BY <1>2, <1>3, <1>4, BatchAssumption

LEMMA ClampBound ==
  ASSUME NEW c \in Int
  PROVE  Clamp(c) \in Nat /\ (c > 0 => Clamp(c) <= c)
  BY BatchAssumption DEF Clamp

\* A goroutine moves: its item alone changes its place in the two sets.
LEMMA Moving ==
  ASSUME Typed, NEW i \in Items, NEW from, NEW to \in Places, pc[i] = from,
         pc' = [pc EXCEPT ![i] = to]
  PROVE  /\ pc' \in [Items -> Places] /\ pc'[i] = to
         /\ \A j \in Items : j # i => pc'[j] = pc[j]
         /\ InRun' = IF to \in {"run", "send", "store", "release"} THEN InRun \cup {i}
                     ELSE InRun \ {i}
         /\ Sent' = IF to \in After THEN Sent \cup {i} ELSE Sent \ {i}
<1>1. /\ pc' \in [Items -> Places] /\ pc'[i] = to
      /\ \A j \in Items : j # i => pc'[j] = pc[j]
  BY DEF Typed
<1> QED BY <1>1 DEF InRun, Sent

-----------------------------------------------------------------------------

LEMMA Starting == Init => IInv
<1> SUFFICES ASSUME Init PROVE IInv
  OBVIOUS
<1>1. Typed /\ Spawning /\ Closing /\ Stored
  <2>1. Typed
    <3>1. lines \in Seq(Items) /\ printed \in Seq(Items)
      BY DEF Init
    <3>2. pc \in [Items -> Places] /\ spawned \in 0 .. N
      BY BatchAssumption DEF Init, Places
    <3>3. /\ outcome \in [Items -> Outcomes \cup {"none"}]
          /\ results \in [Items -> Outcomes \cup {"none"}]
      BY DEF Init
    <3>4. closed \in BOOLEAN
      BY DEF Init
    <3> QED BY <3>1, <3>2, <3>3, <3>4 DEF Init, Typed
  <2>2. Spawning
    BY DEF Init, Spawning
  <2>3. Closing
    BY DEF Init, Closing
  <2>4. Stored
    BY DEF Init, Stored, After
  <2> QED BY <2>1, <2>2, <2>3, <2>4
<1>2. InRun = {} /\ Sent = {}
  BY DEF Init, InRun, Sent, After
<1>3. Tokens
  BY <1>2, FS_EmptySet, ClampBound, BatchAssumption DEF Init, Tokens
<1>4. Told
  <2>1. ItemsOf(printed) = {} /\ ItemsOf(lines) = {} /\ Len(printed) = 0 /\ Len(lines) = 0
    BY DEF Init, ItemsOf
  <2> QED BY <1>2, <2>1, FS_EmptySet DEF Told
<1> QED BY <1>1, <1>3, <1>4 DEF IInv

\* Whoever is not done keeps the channel open.
LEMMA StillOpen ==
  ASSUME IInv, NEW i \in Items, pc[i] # "done"
  PROVE  ~ closed /\ main = "spawn" /\ printer = "range"
  BY DEF IInv, Closing, AllDone, Typed

LEMMA AcquireStep ==
  ASSUME IInv, NEW i \in Items, Acquire(i)
  PROVE  IInv'
<1> USE DEF Acquire, Go
<1>1. /\ pc' \in [Items -> Places] /\ pc'[i] = "run"
      /\ \A j \in Items : j # i => pc'[j] = pc[j]
      /\ InRun' = InRun \cup {i} /\ Sent' = Sent \ {i}
  BY Moving DEF IInv, Places, After
<1>2. i \notin InRun /\ i \notin Sent /\ InRun \in SUBSET Items
  BY DEF InRun, Sent, After
<1>3. Typed'
  BY <1>1 DEF IInv, Typed
<1>4. Spawning' /\ Stored'
  BY <1>1 DEF IInv, Spawning, Stored, After
<1>5. Tokens'
  <2>1. Cardinality(InRun') = Cardinality(InRun) + 1 /\ Cardinality(InRun) \in Nat
    BY <1>1, <1>2, Counting, ItemsFinite
  <2>2. Clamp(asked) \in Nat /\ Clamp(asked)' = Clamp(asked)
    BY ClampBound, BatchAssumption DEF IInv, Typed, Clamp
  <2> QED BY <2>1, <2>2 DEF IInv, Tokens
<1>6. Told'
  <2>1. Sent' = Sent
    BY <1>1, <1>2
  <2> QED BY <2>1 DEF IInv, Told, ItemsOf
<1>7. Closing'
  BY StillOpen DEF IInv, Closing
<1> QED BY <1>3, <1>4, <1>5, <1>6, <1>7 DEF IInv

LEMMA RunStep ==
  ASSUME IInv, NEW i \in Items, Run(i)
  PROVE  IInv'
<1> USE DEF Run, Go
<1>1. /\ pc' \in [Items -> Places] /\ pc'[i] = "send"
      /\ \A j \in Items : j # i => pc'[j] = pc[j]
      /\ InRun' = InRun \cup {i} /\ Sent' = Sent \ {i}
  BY Moving DEF IInv, Places, After
<1>2. InRun' = InRun /\ Sent' = Sent
  BY <1>1 DEF InRun, Sent, After
<1>3. PICK o \in Outcomes : outcome' = [outcome EXCEPT ![i] = o]
  OBVIOUS
<1>4. /\ outcome' \in [Items -> Outcomes \cup {"none"}] /\ outcome'[i] = o
      /\ \A j \in Items : j # i => outcome'[j] = outcome[j]
  BY <1>3 DEF IInv, Typed
<1>5. Typed' /\ Spawning'
  BY <1>1, <1>4 DEF IInv, Typed, Spawning
<1>6. Stored'
  BY <1>1, <1>4 DEF IInv, Stored, After
<1>7. Tokens' /\ Told'
  BY <1>2 DEF IInv, Tokens, Told, ItemsOf, Clamp
<1>8. Closing'
  BY StillOpen DEF IInv, Closing
<1> QED BY <1>5, <1>6, <1>7, <1>8 DEF IInv

LEMMA SendStep ==
  ASSUME IInv, NEW i \in Items, Send(i)
  PROVE  IInv'
<1> USE DEF Send, Go
<1>1. /\ pc' \in [Items -> Places] /\ pc'[i] = "store"
      /\ \A j \in Items : j # i => pc'[j] = pc[j]
      /\ InRun' = InRun \cup {i} /\ Sent' = Sent \cup {i}
  BY Moving DEF IInv, Places, After
<1>2. InRun' = InRun /\ i \notin Sent /\ Sent \in SUBSET Items
  BY <1>1 DEF InRun, Sent, After
<1>3. /\ lines \in Seq(Items) /\ lines' = Append(lines, i) /\ lines' \in Seq(Items)
      /\ Len(lines') = Len(lines) + 1
      /\ ItemsOf(lines') = ItemsOf(lines) \cup {i}
  <2>1. lines \in Seq(Items) /\ lines' = Append(lines, i) /\ lines' \in Seq(Items)
    BY DEF IInv, Typed
  <2>2. /\ Len(lines') = Len(lines) + 1 /\ DOMAIN lines' = 1 .. Len(lines) + 1
        /\ DOMAIN lines = 1 .. Len(lines) /\ Len(lines) \in Nat
        /\ \A k \in 1 .. Len(lines) : lines'[k] = lines[k]
        /\ lines'[Len(lines) + 1] = i
    BY <2>1
  <2>3. ItemsOf(lines') = ItemsOf(lines) \cup {i}
    BY <2>2 DEF ItemsOf
  <2> QED BY <2>1, <2>2, <2>3
<1>4. Typed' /\ Spawning'
  BY <1>1, <1>3 DEF IInv, Typed, Spawning
<1>5. Stored'
  BY <1>1 DEF IInv, Stored, After
<1>6. Tokens'
  BY <1>2 DEF IInv, Tokens, Clamp
<1>7. Told'
  <2>1. Cardinality(Sent') = Cardinality(Sent) + 1 /\ Cardinality(Sent) \in Nat
    BY <1>1, <1>2, Counting, ItemsFinite
  <2>2. Len(printed) \in Nat /\ Len(lines) \in Nat /\ ItemsOf(printed)' = ItemsOf(printed)
    BY DEF IInv, Typed, ItemsOf
  <2>3. Len(printed)' + Len(lines)' = Len(printed) + Len(lines) + 1
    BY <1>3, <2>2
  <2>4. ItemsOf(printed)' \cup ItemsOf(lines)' = (ItemsOf(printed) \cup ItemsOf(lines)) \cup {i}
    BY <1>3, <2>2 DEF ItemsOf
  <2> QED BY <1>1, <2>1, <2>3, <2>4 DEF IInv, Told
<1>8. Closing'
  BY StillOpen DEF IInv, Closing
<1> QED BY <1>4, <1>5, <1>6, <1>7, <1>8 DEF IInv

LEMMA StoreStep ==
  ASSUME IInv, NEW i \in Items, Store(i)
  PROVE  IInv'
<1> USE DEF Store, Go
<1>1. /\ pc' \in [Items -> Places] /\ pc'[i] = "release"
      /\ \A j \in Items : j # i => pc'[j] = pc[j]
      /\ InRun' = InRun \cup {i} /\ Sent' = Sent \cup {i}
  BY Moving DEF IInv, Places, After
<1>2. InRun' = InRun /\ Sent' = Sent
  BY <1>1 DEF InRun, Sent, After
<1>3. /\ results' \in [Items -> Outcomes \cup {"none"}] /\ results'[i] = outcome[i]
      /\ \A j \in Items : j # i => results'[j] = results[j]
  BY DEF IInv, Typed
<1>4. Typed' /\ Spawning'
  BY <1>1, <1>3 DEF IInv, Typed, Spawning
<1>5. Stored'
  BY <1>1, <1>3 DEF IInv, Stored, After
<1>6. Tokens' /\ Told'
  BY <1>2 DEF IInv, Tokens, Told, ItemsOf, Clamp
<1>7. Closing'
  BY StillOpen DEF IInv, Closing
<1> QED BY <1>4, <1>5, <1>6, <1>7 DEF IInv

LEMMA ReleaseStep ==
  ASSUME IInv, NEW i \in Items, Release(i)
  PROVE  IInv'
<1> USE DEF Release, Go
<1>1. /\ pc' \in [Items -> Places] /\ pc'[i] = "exit"
      /\ \A j \in Items : j # i => pc'[j] = pc[j]
      /\ InRun' = InRun \ {i} /\ Sent' = Sent \cup {i}
  BY Moving DEF IInv, Places, After
<1>2. i \in InRun /\ Sent' = Sent /\ InRun \in SUBSET Items
  BY <1>1 DEF InRun, Sent, After
<1>3. Typed' /\ Spawning'
  BY <1>1 DEF IInv, Typed, Spawning
<1>4. Stored'
  BY <1>1 DEF IInv, Stored, After
<1>5. Tokens'
  <2>1. Cardinality(InRun') = Cardinality(InRun) - 1 /\ Cardinality(InRun) \in Nat
    BY <1>1, <1>2, Counting, ItemsFinite
  <2>2. Clamp(asked) \in Nat /\ Clamp(asked)' = Clamp(asked)
    BY ClampBound, BatchAssumption DEF IInv, Typed, Clamp
  <2> QED BY <2>1, <2>2 DEF IInv, Tokens
<1>6. Told'
  BY <1>2 DEF IInv, Told, ItemsOf
<1>7. Closing'
  BY StillOpen DEF IInv, Closing
<1> QED BY <1>3, <1>4, <1>5, <1>6, <1>7 DEF IInv

LEMMA ExitStep ==
  ASSUME IInv, NEW i \in Items, Exit(i)
  PROVE  IInv'
<1> USE DEF Exit, Go
<1>1. /\ pc' \in [Items -> Places] /\ pc'[i] = "done"
      /\ \A j \in Items : j # i => pc'[j] = pc[j]
      /\ InRun' = InRun \ {i} /\ Sent' = Sent \cup {i}
  BY Moving DEF IInv, Places, After
<1>2. InRun' = InRun /\ Sent' = Sent
  BY <1>1 DEF InRun, Sent, After
<1>3. Typed' /\ Spawning'
  BY <1>1 DEF IInv, Typed, Spawning
<1>4. Stored'
  BY <1>1 DEF IInv, Stored, After
<1>5. Tokens' /\ Told'
  BY <1>2 DEF IInv, Tokens, Told, ItemsOf, Clamp
<1>6. Closing'
  BY StillOpen DEF IInv, Closing
<1> QED BY <1>3, <1>4, <1>5, <1>6 DEF IInv

LEMMA PrintStep ==
  ASSUME IInv, PrintLine
  PROVE  IInv'
<1> USE DEF PrintLine
<1>1. /\ lines \in Seq(Items) /\ printed \in Seq(Items)
      /\ lines # <<>> /\ lines' = Tail(lines) /\ printed' = Append(printed, Head(lines))
  BY DEF IInv, Typed
<1>2. /\ Len(lines) \in Nat \ {0} /\ DOMAIN lines = 1 .. Len(lines) /\ Head(lines) = lines[1]
      /\ lines' \in Seq(Items) /\ Len(lines') = Len(lines) - 1
      /\ DOMAIN lines' = 1 .. Len(lines) - 1
      /\ \A k \in 1 .. Len(lines) - 1 : lines'[k] = lines[k + 1]
  BY <1>1
<1>3. /\ Len(printed) \in Nat /\ DOMAIN printed = 1 .. Len(printed) /\ lines[1] \in Items
      /\ printed' \in Seq(Items) /\ Len(printed') = Len(printed) + 1
      /\ DOMAIN printed' = 1 .. Len(printed) + 1
      /\ \A k \in 1 .. Len(printed) : printed'[k] = printed[k]
      /\ printed'[Len(printed) + 1] = lines[1]
  BY <1>1, <1>2
<1>4. InRun' = InRun /\ Sent' = Sent
  BY DEF InRun, Sent
<1>5. Typed' /\ Spawning' /\ Stored'
  BY <1>2, <1>3 DEF IInv, Typed, Spawning, Stored
<1>6. Tokens'
  BY <1>4 DEF IInv, Tokens, Clamp
<1>7. Told'
  <2>1. ItemsOf(lines) = {lines[1]} \cup ItemsOf(lines')
    <3>1. ASSUME NEW k \in 1 .. Len(lines), k # 1
          PROVE  k - 1 \in 1 .. Len(lines) - 1 /\ lines[k] = lines'[k - 1]
      <4>1. k - 1 \in 1 .. Len(lines) - 1 /\ (k - 1) + 1 = k
        BY <1>2, <3>1
      <4>2. lines'[k - 1] = lines[(k - 1) + 1]
        BY <1>2, <4>1
      <4> QED BY <4>1, <4>2
    <3>2. \A k \in 1 .. Len(lines) - 1 : k + 1 \in 1 .. Len(lines) /\ lines[k + 1] = lines'[k]
      BY <1>2
    <3>3. 1 \in 1 .. Len(lines)
      BY <1>2
    <3>4. ASSUME NEW k \in 1 .. Len(lines)
          PROVE  lines[k] \in {lines[1]} \cup ItemsOf(lines')
      <4>1. CASE k = 1
        BY <4>1
      <4>2. CASE k # 1
        BY <1>2, <3>1, <4>2 DEF ItemsOf
      <4> QED BY <4>1, <4>2
    <3>5. {lines[1]} \cup ItemsOf(lines') \subseteq ItemsOf(lines)
      BY <1>2, <3>2, <3>3 DEF ItemsOf
    <3>6. ItemsOf(lines) \subseteq {lines[1]} \cup ItemsOf(lines')
      BY <1>2, <3>4 DEF ItemsOf
    <3> QED BY <3>5, <3>6
  <2>2. ItemsOf(printed') = ItemsOf(printed) \cup {lines[1]}
    BY <1>3 DEF ItemsOf
  <2>3. Len(printed') + Len(lines') = Len(printed) + Len(lines)
    BY <1>2, <1>3
  <2>4. ItemsOf(printed') \cup ItemsOf(lines') = ItemsOf(printed) \cup ItemsOf(lines)
    BY <2>1, <2>2
  <2> QED BY <1>4, <2>3, <2>4 DEF IInv, Told, ItemsOf
<1>8. Closing'
  BY DEF IInv, Closing, AllDone
<1> QED BY <1>5, <1>6, <1>7, <1>8 DEF IInv

\* Steps that move no line, no token and no goroutine.
LEMMA Quiet ==
  ASSUME IInv, UNCHANGED <<asked, pc, sem, lines, printed, outcome, results>>
  PROVE  Tokens' /\ Told' /\ Stored'
<1>1. InRun' = InRun /\ Sent' = Sent
  BY DEF InRun, Sent
<1>2. Tokens'
  BY <1>1 DEF IInv, Tokens, Clamp
<1>3. Told' /\ Stored'
  BY <1>1 DEF IInv, Told, ItemsOf, Stored
<1> QED BY <1>2, <1>3

LEMMA PrinterEndsStep ==
  ASSUME IInv, PrinterEnds
  PROVE  IInv'
<1>1. Tokens' /\ Told' /\ Stored'
  BY Quiet DEF PrinterEnds
<1>2. Typed' /\ Spawning' /\ Closing'
  BY DEF PrinterEnds, IInv, Typed, Spawning, Closing, AllDone
<1> QED BY <1>1, <1>2 DEF IInv

LEMMA SpawnStep ==
  ASSUME IInv, Spawn
  PROVE  IInv'
<1> USE DEF Spawn
<1>0. /\ spawned \in Nat /\ spawned' = spawned + 1 /\ spawned' \in 0 .. N /\ spawned' \in Items
      /\ pc' = [pc EXCEPT ![spawned'] = "acquire"]
  BY BatchAssumption DEF IInv, Typed, Items
<1> DEFINE i == spawned'
<1>a. pc[i] = "none"
  BY <1>0 DEF IInv, Spawning
<1>1. /\ pc' \in [Items -> Places] /\ pc'[i] = "acquire"
      /\ \A j \in Items : j # i => pc'[j] = pc[j]
  BY <1>0 DEF IInv, Typed, Places
<1>2. InRun' = InRun /\ Sent' = Sent
  BY <1>0, <1>1, <1>a DEF InRun, Sent, After
<1>3. Typed'
  BY <1>0, <1>1 DEF IInv, Typed
<1>4. Spawning'
  BY <1>0, <1>1 DEF IInv, Spawning, Items
<1>5. Stored'
  BY <1>0, <1>1 DEF IInv, Stored, After
<1>6. Tokens' /\ Told'
  BY <1>2 DEF IInv, Tokens, Told, ItemsOf, Clamp
<1>7. Closing'
  BY DEF IInv, Closing
<1> QED BY <1>3, <1>4, <1>5, <1>6, <1>7 DEF IInv

LEMMA CloseStep ==
  ASSUME IInv, Close
  PROVE  IInv'
<1>1. Tokens' /\ Told' /\ Stored'
  BY Quiet DEF Close
<1>2. Typed' /\ Spawning' /\ Closing'
  BY DEF Close, IInv, Typed, Spawning, Closing, AllDone
<1> QED BY <1>1, <1>2 DEF IInv

LEMMA ReturnStep ==
  ASSUME IInv, Return
  PROVE  IInv'
<1>1. Tokens' /\ Told' /\ Stored'
  BY Quiet DEF Return
<1>2. Typed' /\ Spawning' /\ Closing'
  BY DEF Return, IInv, Typed, Spawning, Closing, AllDone
<1> QED BY <1>1, <1>2 DEF IInv

LEMMA Inductive == IInv /\ [Next]_vars => IInv'
<1> SUFFICES ASSUME IInv, [Next]_vars PROVE IInv'
  OBVIOUS
<1>1. CASE Execute
  BY <1>1, SpawnStep, CloseStep, ReturnStep DEF Execute
<1>2. CASE Printer
  BY <1>2, PrintStep, PrinterEndsStep DEF Printer
<1>3. ASSUME NEW i \in Items, Worker(i)
      PROVE  IInv'
  BY <1>3, AcquireStep, RunStep, SendStep, StoreStep, ReleaseStep, ExitStep DEF Worker
<1>4. CASE UNCHANGED vars
  <2>1. Tokens' /\ Told' /\ Stored'
    BY <1>4, Quiet DEF vars
  <2>2. Typed' /\ Spawning' /\ Closing'
    BY <1>4 DEF vars, IInv, Typed, Spawning, Closing, AllDone
  <2> QED BY <2>1, <2>2 DEF IInv
<1> QED BY <1>1, <1>2, <1>3, <1>4 DEF Next

LEMMA Invariance == FairSpec => []IInv
  BY Starting, Inductive, PTL DEF FairSpec

-----------------------------------------------------------------------------

\* The counters, channels and results keep their types, and the semaphore holds
\* as many tokens as items run, whatever concurrency is asked for.
THEOREM BatchTypeCorrect == FairSpec => []TypeOK
<1>1. IInv => TypeOK
  <2> SUFFICES ASSUME IInv PROVE TypeOK
    OBVIOUS
  <2>1. Cardinality(InRun) \in Nat
    BY ItemsFinite DEF InRun
  <2>2. Clamp(asked) \in Nat
    BY ClampBound, BatchAssumption DEF IInv, Typed
  <2>3. sem \in 0 .. Clamp(asked)
    BY <2>1, <2>2 DEF IInv, Tokens
  <2> QED BY <2>3 DEF IInv, Typed, Tokens, TypeOK
<1> QED BY <1>1, Invariance, PTL

\* No more items run at once than the caller of Execute asked for.
THEOREM ConcurrencyIsBounded == FairSpec => []Bounded
<1>1. IInv => Bounded
  <2> SUFFICES ASSUME IInv, asked > 0 PROVE Cardinality(InRun) <= asked
    BY DEF Bounded
  <2>1. asked \in Int /\ Clamp(asked) \in Nat /\ Clamp(asked) <= asked
    BY ClampBound, BatchAssumption DEF IInv, Typed
  <2>2. Cardinality(InRun) \in Nat
    BY ItemsFinite DEF InRun
  <2> QED BY <2>1, <2>2 DEF IInv, Tokens
<1> QED BY <1>1, Invariance, PTL

\* The channel of the lines is closed when nobody is left that could send on it.
THEOREM NothingSentOnClosed == FairSpec => []NoSendOnClosed
<1>1. IInv => NoSendOnClosed
  BY DEF IInv, Closing, AllDone, NoSendOnClosed
<1> QED BY <1>1, Invariance, PTL

\* The buffer of the channel has a place for the line of every item that runs.
THEOREM SendsNeverBlock == FairSpec => []SendNeverBlocks
<1>1. IInv => SendNeverBlocks
  <2> SUFFICES ASSUME IInv, NEW i \in Items, pc[i] = "send"
               PROVE  Len(lines) < LinesCap
    BY DEF SendNeverBlocks
  <2>1. Cardinality(Sent) < N
    BY Counting DEF Sent, After
  <2>2. Len(lines) \in Nat /\ Len(printed) \in Nat /\ Cardinality(Sent) \in Nat
    BY ItemsFinite DEF IInv, Typed, Sent
  <2> QED BY <2>1, <2>2, BatchAssumption DEF IInv, Told, LinesCap
<1> QED BY <1>1, Invariance, PTL

\* Execute returns the result of every item, with every line written once.
THEOREM ResultsAreComplete == FairSpec => []ReturnsAll
<1>1. IInv => ReturnsAll
  <2> SUFFICES ASSUME IInv, main = "returned"
               PROVE  /\ \A i \in Items : results[i] \in Outcomes /\ results[i] = outcome[i]
                      /\ Len(printed) = N /\ {printed[k] : k \in DOMAIN printed} = Items
    BY DEF ReturnsAll
  <2>1. AllDone /\ lines = <<>>
    BY DEF IInv, Closing
  <2>2. Sent = Items
    BY <2>1 DEF AllDone, Sent, After
  <2>3. \A i \in Items : results[i] \in Outcomes /\ results[i] = outcome[i]
    BY <2>1 DEF IInv, Stored, AllDone, After
  <2>4. Len(lines) = 0 /\ ItemsOf(lines) = {} /\ Len(printed) \in Nat
    BY <2>1 DEF ItemsOf, IInv, Typed
  <2>5. Len(printed) = N /\ ItemsOf(printed) = Items
    BY <2>2, <2>4, ItemsFinite DEF IInv, Told
  <2> QED BY <2>3, <2>5 DEF ItemsOf
<1> QED BY <1>1, Invariance, PTL

=============================================================================
