------------------------ MODULE TwapExecutionProofs -------------------------
(***************************************************************************)
(* Theorems about TwapExecution, for any number of goroutines and every    *)
(* order size, chunk size and exit ratio.                                  *)
(***************************************************************************)
EXTENDS TwapExecution, FiniteSetTheorems, TLAPS

USE SizeAssumption

-----------------------------------------------------------------------------
(***************************************************************************)
(* Chunks: where the loop of executeTwapOrder stands tells how much of the *)
(* order has been placed.                                                  *)
(***************************************************************************)
ChunksOK(t) ==
    LET n == t.total \div MaxOrderSize
    IN  /\ t.pc = "chunk" => ~t.aborted /\ t.i < n /\ t.sent = t.i * MaxOrderSize
        /\ t.pc = "sleep" => ~t.aborted /\ t.i < n /\ t.sent = (t.i + 1) * MaxOrderSize
        /\ t.pc = "last" => ~t.aborted /\ t.sent = n * MaxOrderSize
        /\ t.pc = "defer" => t.sent <= t.total /\ (~t.aborted => t.sent = t.total)
        /\ t.pc = "free" => t.sent = 0

Chunks == \A i \in Twaps : ChunksOK(twap[i])

\* Without sliced entries, the flag is set while an exit runs, and one runs.
Exclusive ==
    ~sliced =>
        \A i, j \in Twaps :
            twap[i].pc # "free" => exiting /\ (twap[j].pc # "free" => i = j)

IInv == TypeOK /\ Chunks /\ FlagHasOwner /\ Exclusive

LEMMA DivMod ==
  ASSUME NEW n \in Nat
  PROVE  /\ n \div MaxOrderSize \in Nat
         /\ (n \div MaxOrderSize) * MaxOrderSize <= n
  OBVIOUS

\* Whole chunks never add up to more than the order.
LEMMA ChunkBound ==
  ASSUME NEW t \in TwapType, NEW k \in Nat, k <= t.total \div MaxOrderSize
  PROVE  k * MaxOrderSize <= t.total
<1>1. t.total \in Nat /\ MaxOrderSize \in Nat \ {0}
  BY DEF TwapType
<1>2. PICK n \in Nat : n = t.total \div MaxOrderSize /\ n * MaxOrderSize <= t.total
  BY <1>1, DivMod
<1>3. k * MaxOrderSize <= n * MaxOrderSize
  BY <1>1, <1>2
<1>4. k * MaxOrderSize \in Nat /\ n * MaxOrderSize \in Nat
  BY <1>1, <1>2
<1> QED
  BY <1>1, <1>2, <1>3, <1>4

LEMMA FreeType == Free \in TwapType
  BY DEF Free, TwapType, Labels, Kinds, Sides

LEMMA InitInv == Init => IInv
<1> SUFFICES ASSUME Init PROVE IInv
  OBVIOUS
<1>1. TypeOK
  <2>1. twapEnabled \in BOOLEAN /\ ctxDone \in BOOLEAN /\ exiting \in BOOLEAN
    BY DEF Init
  <2>2. size \in Int /\ twap \in [Twaps -> TwapType]
    BY FreeType DEF Init
  <2>3. sliced \in BOOLEAN
    BY DEF Init
  <2> QED
    BY <2>1, <2>2, <2>3, Zenon DEF TypeOK
<1>2. Chunks /\ FlagHasOwner /\ Exclusive
  BY DEF Init, Chunks, ChunksOK, FlagHasOwner, Exclusive, Free
<1> QED
  BY <1>1, <1>2 DEF IInv

\* What replacing the locals of one goroutine leaves to be shown.
LEMMA Replace ==
  ASSUME IInv, NEW i \in Twaps, NEW new \in TwapType, ChunksOK(new),
         twap' = [twap EXCEPT ![i] = new]
  PROVE  /\ twap' \in [Twaps -> TwapType]
         /\ Chunks'
         /\ \A j \in Twaps : twap'[j] = IF j = i THEN new ELSE twap[j]
<1>1. twap \in [Twaps -> TwapType]
  BY DEF IInv, TypeOK
<1>2. \A j \in Twaps : twap'[j] = IF j = i THEN new ELSE twap[j]
  BY <1>1
<1>3. Chunks'
  BY <1>2 DEF IInv, Chunks, ChunksOK
<1> QED
  BY <1>1, <1>2, <1>3

\* A goroutine that goes on keeps the flag's owner, and starts nothing.
LEMMA GoOn ==
  ASSUME IInv, NEW i \in Twaps, NEW new \in TwapType, ChunksOK(new),
         twap' = [twap EXCEPT ![i] = new],
         twap[i].pc # "free", new.pc # "free", new.kind = twap[i].kind,
         size' \in Int, UNCHANGED <<twapEnabled, ctxDone, exiting, sliced>>
  PROVE  IInv'
<1>1. /\ twap' \in [Twaps -> TwapType] /\ Chunks'
      /\ \A j \in Twaps : twap'[j] = IF j = i THEN new ELSE twap[j]
  BY Replace
<1>2. TypeOK'
  BY <1>1 DEF IInv, TypeOK
<1>3. FlagHasOwner'
  BY <1>1 DEF IInv, FlagHasOwner, Running
<1>4. Exclusive'
  BY <1>1 DEF IInv, Exclusive
<1> QED
  BY <1>1, <1>2, <1>3, <1>4 DEF IInv

LEMMA AbortStep ==
  ASSUME IInv, NEW i \in Twaps, Abort(i), twap[i].pc \in {"chunk", "last"},
         UNCHANGED <<twapEnabled, ctxDone, exiting, sliced>>
  PROVE  IInv'
<1> DEFINE t == twap[i]
           new == [t EXCEPT !.pc = "defer", !.aborted = TRUE]
<1>1. t \in TwapType /\ t.i \in Nat /\ t.total \in Nat /\ MaxOrderSize \in Nat \ {0}
  BY DEF IInv, TypeOK, TwapType
<1>2. new \in TwapType /\ new.pc = "defer" /\ new.aborted /\ new.sent = t.sent
      /\ new.total = t.total /\ new.kind = t.kind
  BY <1>1 DEF TwapType, Labels
<1>3. t.sent <= t.total
  <2>1. ChunksOK(t)
    BY DEF IInv, Chunks
  <2>2. t.total \div MaxOrderSize \in Nat
    BY <1>1, DivMod
  <2>3. CASE t.pc = "chunk"
    BY <1>1, <2>1, <2>2, <2>3, ChunkBound DEF ChunksOK
  <2>4. CASE t.pc = "last"
    BY <1>1, <2>1, <2>2, <2>4, ChunkBound DEF ChunksOK
  <2> QED
    BY <2>3, <2>4
<1>4. ChunksOK(new)
  BY <1>2, <1>3 DEF ChunksOK
<1>5. twap' = [twap EXCEPT ![i] = new] /\ size' = size /\ size \in Int
  BY DEF Abort, IInv, TypeOK
<1> HIDE DEF new
<1> QED
  BY <1>2, <1>4, <1>5, GoOn

LEMMA PlacedType ==
  ASSUME IInv, NEW i \in Twaps, NEW amount \in Nat, NEW label \in Labels,
         Placed(i, amount, label)
  PROVE  \E new \in TwapType :
           /\ twap' = [twap EXCEPT ![i] = new]
           /\ new.pc = label /\ new.kind = twap[i].kind /\ new.total = twap[i].total
           /\ new.i = twap[i].i /\ new.aborted = twap[i].aborted
           /\ new.sent = twap[i].sent + amount
           /\ size' \in Int
<1> DEFINE new == [twap[i] EXCEPT !.pc = label, !.sent = @ + amount]
<1>1. twap[i] \in TwapType /\ size \in Int
  BY DEF IInv, TypeOK
<1>2. twap[i].sent + amount \in Nat
  BY <1>1 DEF TwapType
<1>3. new \in TwapType
  BY <1>1, <1>2 DEF TwapType
<1>4. new.pc = label /\ new.kind = twap[i].kind /\ new.total = twap[i].total
      /\ new.i = twap[i].i /\ new.sent = twap[i].sent + amount
  BY <1>1 DEF TwapType
<1>5. new.aborted = twap[i].aborted
  BY <1>1, Zenon DEF TwapType
<1>6. twap' = [twap EXCEPT ![i] = new]
  BY DEF Placed
<1>7. size' \in Int
  BY <1>1 DEF Placed, Signed
<1> HIDE DEF new
<1> QED
  BY <1>3, <1>4, <1>5, <1>6, <1>7

LEMMA ChunkStep == ASSUME IInv, NEW i \in Twaps, Chunk(i) PROVE IInv'
<1>1. twap[i] \in TwapType /\ ChunksOK(twap[i]) /\ MaxOrderSize \in Nat
  BY DEF IInv, TypeOK, Chunks
<1>2. CASE Abort(i)
  BY <1>2, AbortStep DEF Chunk
<1>3. CASE Placed(i, MaxOrderSize, "sleep")
  <2>1. PICK new \in TwapType :
           /\ twap' = [twap EXCEPT ![i] = new]
           /\ new.pc = "sleep" /\ new.kind = twap[i].kind /\ new.total = twap[i].total
           /\ new.i = twap[i].i /\ new.aborted = twap[i].aborted
           /\ new.sent = twap[i].sent + MaxOrderSize
           /\ size' \in Int
    BY <1>1, <1>3, PlacedType DEF Labels
  <2>2. twap[i].sent = twap[i].i * MaxOrderSize /\ twap[i].i \in Nat
    BY <1>1 DEF Chunk, ChunksOK, TwapType
  <2>3. new.sent = (new.i + 1) * MaxOrderSize
    BY <1>1, <2>1, <2>2
  <2>4. ChunksOK(new)
    BY <1>1, <2>1, <2>3 DEF Chunk, ChunksOK
  <2> QED
    BY <2>1, <2>4, GoOn DEF Chunk
<1> QED
  BY <1>2, <1>3 DEF Chunk

LEMMA SleepStep == ASSUME IInv, NEW i \in Twaps, Sleep(i) PROVE IInv'
<1> DEFINE t == twap[i]
           new == [t EXCEPT !.pc = After(i, t.i + 1), !.i = @ + 1]
<1>1. t \in TwapType /\ ChunksOK(t) /\ t.i \in Nat /\ t.total \div MaxOrderSize \in Nat
  BY DivMod DEF IInv, TypeOK, Chunks, TwapType
<1>2. t.i + 1 <= t.total \div MaxOrderSize /\ ~t.aborted /\ t.sent = (t.i + 1) * MaxOrderSize
  BY <1>1 DEF Sleep, ChunksOK
<1>3. /\ new.pc = (IF t.i + 1 < t.total \div MaxOrderSize THEN "chunk" ELSE "last")
      /\ new.i = t.i + 1 /\ new.total = t.total /\ new.sent = t.sent
      /\ new.aborted = t.aborted /\ new.kind = t.kind /\ new \in TwapType
  <2>1. After(i, t.i + 1) = (IF t.i + 1 < t.total \div MaxOrderSize THEN "chunk" ELSE "last")
    BY DEF After, NumOrders
  <2>2. After(i, t.i + 1) \in Labels /\ t.i + 1 \in Nat
    BY <1>1, <2>1 DEF Labels
  <2>3. new \in TwapType
    BY <1>1, <2>2 DEF TwapType
  <2>4. new.pc = After(i, t.i + 1) /\ new.i = t.i + 1 /\ new.total = t.total
        /\ new.sent = t.sent /\ new.kind = t.kind
    BY <1>1 DEF TwapType
  <2>5. new.aborted = t.aborted
    BY <1>1, Zenon DEF TwapType
  <2> QED
    BY <2>1, <2>3, <2>4, <2>5
<1>4. twap' = [twap EXCEPT ![i] = new] /\ size' = size /\ size \in Int
  BY DEF Sleep, IInv, TypeOK
<1> HIDE DEF new
<1>5. ChunksOK(new)
  BY <1>1, <1>2, <1>3 DEF ChunksOK
<1> QED
  BY <1>3, <1>4, <1>5, GoOn DEF Sleep

LEMMA LastChunkStep == ASSUME IInv, NEW i \in Twaps, LastChunk(i) PROVE IInv'
<1> DEFINE t == twap[i]
           k == t.total \div MaxOrderSize
<1>1. t \in TwapType /\ ChunksOK(t) /\ t.total \in Nat /\ t.sent \in Nat /\ size \in Int
  BY DEF IInv, TypeOK, Chunks, TwapType
<1>2. k \in Nat /\ k * MaxOrderSize <= t.total /\ k * MaxOrderSize \in Nat
  BY <1>1, DivMod
<1>3. ~t.aborted /\ t.sent = k * MaxOrderSize
  BY <1>1 DEF LastChunk, ChunksOK
<1>4. LastOrderSize(i) = t.total - t.sent /\ LastOrderSize(i) \in Nat
  BY <1>1, <1>2, <1>3 DEF LastOrderSize, NumOrders
<1>5. CASE LastOrderSize(i) = 0
  <2> DEFINE new == [t EXCEPT !.pc = "defer"]
  <2>1. new \in TwapType /\ new.pc = "defer" /\ new.sent = t.sent /\ new.total = t.total
        /\ new.kind = t.kind
    BY <1>1 DEF TwapType, Labels
  <2>2. t.sent = t.total
    BY <1>1, <1>4, <1>5
  <2>3. ChunksOK(new)
    BY <1>1, <2>1, <2>2 DEF ChunksOK
  <2>4. twap' = [twap EXCEPT ![i] = new] /\ size' = size
    BY <1>5 DEF LastChunk
  <2> HIDE DEF new
  <2> QED
    BY <1>1, <2>1, <2>3, <2>4, GoOn DEF LastChunk
<1>6. CASE LastOrderSize(i) # 0 /\ Placed(i, LastOrderSize(i), "defer")
  <2>1. PICK new \in TwapType :
           /\ twap' = [twap EXCEPT ![i] = new]
           /\ new.pc = "defer" /\ new.kind = twap[i].kind /\ new.total = twap[i].total
           /\ new.i = twap[i].i /\ new.aborted = twap[i].aborted
           /\ new.sent = twap[i].sent + LastOrderSize(i)
           /\ size' \in Int
    BY <1>4, <1>6, PlacedType DEF Labels
  <2>2. new.sent = new.total
    BY <1>1, <1>4, <2>1
  <2>3. ChunksOK(new)
    BY <1>1, <2>1, <2>2 DEF ChunksOK
  <2> QED
    BY <2>1, <2>3, GoOn DEF LastChunk
<1>7. CASE LastOrderSize(i) # 0 /\ Abort(i)
  BY <1>7, AbortStep DEF LastChunk
<1> QED
  BY <1>5, <1>6, <1>7 DEF LastChunk

LEMMA DeferStep == ASSUME IInv, NEW i \in Twaps, Defer(i) PROVE IInv'
<1>1. twap' = [twap EXCEPT ![i] = Free] /\ ChunksOK(Free) /\ Free.pc = "free"
  BY DEF Defer, Free, ChunksOK
<1>2. /\ twap' \in [Twaps -> TwapType] /\ Chunks'
      /\ \A j \in Twaps : twap'[j] = IF j = i THEN Free ELSE twap[j]
  BY <1>1, FreeType, Replace
<1>3. TypeOK'
  BY <1>2 DEF Defer, IInv, TypeOK
<1>4. FlagHasOwner'
  BY DEF Defer, FlagHasOwner
<1>5. Exclusive'
  BY <1>1, <1>2 DEF Defer, IInv, Exclusive
<1> QED
  BY <1>2, <1>3, <1>4, <1>5 DEF IInv

\* A goroutine that starts has the whole of its order before it.
LEMMA SpawnType ==
  ASSUME IInv, NEW i \in Twaps, NEW kind \in Kinds, NEW side \in Sides, NEW amount \in Nat,
         Spawn(i, kind, side, amount)
  PROVE  \E new \in TwapType :
           /\ twap' = [twap EXCEPT ![i] = new]
           /\ new.pc # "free" /\ new.kind = kind /\ ChunksOK(new)
<1> DEFINE n == amount \div MaxOrderSize
           label == IF n > 0 THEN "chunk" ELSE "last"
           new == [Free EXCEPT !.pc = label, !.kind = kind, !.side = side, !.total = amount]
<1>1. n \in Nat /\ label \in Labels
  BY DivMod DEF Labels
<1>2. new \in TwapType
  BY <1>1, FreeType DEF TwapType
<1>3. new.pc = label /\ new.kind = kind /\ new.total = amount /\ new.i = 0 /\ new.sent = 0
      /\ ~new.aborted
  BY DEF Free
<1>4. twap' = [twap EXCEPT ![i] = new]
  BY DEF Spawn
<1> HIDE DEF new
<1>5. ChunksOK(new)
  BY <1>1, <1>3 DEF ChunksOK
<1> QED
  BY <1>2, <1>3, <1>4, <1>5

LEMMA SignalStep == ASSUME IInv, NEW side \in Sides, Signal(side) PROVE IInv'
<1>1. size \in Int /\ size + Signed(side, OrderAmount) \in Int
  BY DEF IInv, TypeOK, Signed
<1>2. CASE twapEnabled /\ OrderAmount > MaxOrderSize
  <2>1. PICK i \in Twaps : Spawn(i, "entry", side, OrderAmount)
    BY <1>2 DEF Signal
  <2>2. PICK new \in TwapType : /\ twap' = [twap EXCEPT ![i] = new]
                                /\ new.pc # "free" /\ new.kind = "entry" /\ ChunksOK(new)
    BY <2>1, SpawnType DEF Kinds
  <2>3. /\ twap' \in [Twaps -> TwapType] /\ Chunks'
        /\ \A j \in Twaps : twap'[j] = IF j = i THEN new ELSE twap[j]
    BY <2>2, Replace
  <2>4. TypeOK'
    BY <1>1, <1>2, <2>3 DEF Signal, IInv, TypeOK
  <2>5. FlagHasOwner'
    BY <2>1, <2>3 DEF Signal, Spawn, IInv, FlagHasOwner, Running
  <2>6. Exclusive'
    BY <1>2 DEF Signal, Exclusive
  <2> QED
    BY <2>3, <2>4, <2>5, <2>6 DEF IInv
<1>3. CASE ~(twapEnabled /\ OrderAmount > MaxOrderSize)
  <2>1. size' \in Int /\ UNCHANGED <<twap, twapEnabled, ctxDone, exiting, sliced>>
    BY <1>1, <1>3 DEF Signal
  <2> QED
    BY <2>1 DEF IInv, TypeOK, Chunks, ChunksOK, FlagHasOwner, Running, Exclusive
<1> QED
  BY <1>2, <1>3

LEMMA TriggerStep == ASSUME IInv, TriggerPartialExit PROVE IInv'
<1> DEFINE side == IF size < 0 THEN "buy" ELSE "sell"
<1>1. ExitSize \in Nat
  BY DEF IInv, TypeOK, ExitSize, Magnitude
<1>2. PICK i \in Twaps : Spawn(i, "exit", side, ExitSize)
  BY DEF TriggerPartialExit
<1>3. PICK new \in TwapType : /\ twap' = [twap EXCEPT ![i] = new]
                              /\ new.pc # "free" /\ new.kind = "exit" /\ ChunksOK(new)
  BY <1>1, <1>2, SpawnType DEF Kinds, Sides
<1>4. /\ twap' \in [Twaps -> TwapType] /\ Chunks'
      /\ \A j \in Twaps : twap'[j] = IF j = i THEN new ELSE twap[j]
  BY <1>3, Replace
<1>5. TypeOK'
  BY <1>4 DEF TriggerPartialExit, IInv, TypeOK
<1>6. FlagHasOwner'
  BY <1>3, <1>4 DEF FlagHasOwner, Running
<1>7. ~exiting /\ exiting' /\ sliced' = sliced
  BY DEF TriggerPartialExit, MayTrigger
<1>8. Exclusive'
  BY <1>4, <1>7 DEF IInv, Exclusive
<1> QED
  BY <1>4, <1>5, <1>6, <1>8 DEF IInv

LEMMA StepInv == ASSUME IInv, [Next]_vars PROVE IInv'
<1>1. ASSUME NEW i \in Twaps, TwapStep(i) PROVE IInv'
  BY <1>1, ChunkStep, SleepStep, LastChunkStep, DeferStep DEF TwapStep
<1>2. CASE SetTwapEnabled
  BY <1>2, Zenon DEF SetTwapEnabled, IInv, TypeOK, Chunks, ChunksOK, FlagHasOwner, Running, Exclusive
<1>3. CASE Cancel
  BY <1>3 DEF Cancel, IInv, TypeOK, Chunks, ChunksOK, FlagHasOwner, Running, Exclusive
<1>4. CASE UNCHANGED vars
  BY <1>4 DEF vars, IInv, TypeOK, Chunks, ChunksOK, FlagHasOwner, Running, Exclusive
<1> QED
  BY <1>1, <1>2, <1>3, <1>4, SignalStep, TriggerStep DEF Next

LEMMA Inductive == Spec => []IInv
<1>1. Init => IInv
  BY InitInv
<1>2. IInv /\ [Next]_vars => IInv'
  BY StepInv
<1> QED
  BY <1>1, <1>2, PTL DEF Spec

-----------------------------------------------------------------------------
(***************************************************************************)
(* The theorems.                                                           *)
(***************************************************************************)
\* The partial-exit flag is set only while a goroutine is there that will clear
\* it, whichever way out of executeTwapOrder it takes.
THEOREM FlagOwnership == Spec => []FlagHasOwner
<1>1. IInv => FlagHasOwner
  BY DEF IInv
<1> QED
  BY <1>1, Inductive, PTL

\* CheckAndTriggerPartialExit starts no second exit as long as no entry has
\* been sliced.
THEOREM SingleExit == Spec => []AtMostOneExitWithoutEntryTwap
<1>1. IInv => AtMostOneExitWithoutEntryTwap
  <2> SUFFICES ASSUME IInv, ~sliced PROVE Cardinality(Running("exit")) <= 1
    BY DEF AtMostOneExitWithoutEntryTwap, AtMostOneExit
  <2>1. CASE Running("exit") = {}
    BY <2>1, FS_EmptySet
  <2>2. CASE Running("exit") # {}
    <3>1. PICK i \in Twaps : i \in Running("exit")
      BY <2>2 DEF Running
    <3>2. Running("exit") = {i}
      BY <3>1 DEF IInv, Exclusive, Running
    <3>3. Cardinality({i}) = 1
      BY FS_Singleton
    <3> QED
      BY <3>2, <3>3
  <2> QED
    BY <2>1, <2>2
<1> QED
  BY <1>1, Inductive, PTL

\* What one order of executeTwapOrder may be: a whole chunk or the remainder.
LEMMA RemainderBound ==
  ASSUME NEW n \in Nat
  PROVE  /\ n - (n \div MaxOrderSize) * MaxOrderSize \in Nat
         /\ n - (n \div MaxOrderSize) * MaxOrderSize < MaxOrderSize
  OBVIOUS

LEMMA MagnitudeType == ASSUME NEW n \in Int PROVE Magnitude(n) \in Int
  BY DEF Magnitude

LEMMA SignedMagnitude ==
  ASSUME NEW side, NEW amount \in Nat
  PROVE  Magnitude(Signed(side, amount)) = amount
  BY DEF Magnitude, Signed

LEMMA PlacedSize ==
  ASSUME IInv, NEW i \in Twaps, NEW amount \in Nat, NEW label, Placed(i, amount, label)
  PROVE  Magnitude(size' - size) = amount
<1>1. size \in Int /\ Signed(twap[i].side, amount) \in Int
  BY DEF IInv, TypeOK, Signed
<1>2. size' - size = Signed(twap[i].side, amount)
  BY <1>1 DEF Placed
<1> QED
  BY <1>2, SignedMagnitude

LEMMA StillSize == ASSUME IInv, UNCHANGED size PROVE Magnitude(size' - size) <= MaxOrderSize
<1>1. size' - size = 0
  BY DEF IInv, TypeOK
<1> QED
  BY <1>1 DEF Magnitude

LEMMA OrderSize ==
  ASSUME IInv, Next
  PROVE  Magnitude(size' - size) > MaxOrderSize => ~twapEnabled /\ UNCHANGED twap
<1> SUFFICES Magnitude(size' - size) <= MaxOrderSize \/ (~twapEnabled /\ UNCHANGED twap)
  <2>1. size' \in Int /\ size \in Int
    <3>1. IInv'
      BY StepInv
    <3> QED
      BY <3>1 DEF IInv, TypeOK
  <2>2. Magnitude(size' - size) \in Int
    <3>1. size' - size \in Int
      BY <2>1
    <3> QED
      BY <3>1, MagnitudeType
  <2> QED
    BY <2>2
<1>1. CASE UNCHANGED size
  BY <1>1, StillSize
<1>2. ASSUME NEW i \in Twaps, Chunk(i) PROVE Magnitude(size' - size) <= MaxOrderSize
  <2>1. CASE Placed(i, MaxOrderSize, "sleep")
    <3>1. Magnitude(size' - size) = MaxOrderSize
      BY <2>1, PlacedSize
    <3> QED
      BY <3>1
  <2>2. CASE Abort(i)
    BY <2>2, StillSize DEF Abort
  <2> QED
    BY <1>2, <2>1, <2>2 DEF Chunk
<1>3. ASSUME NEW i \in Twaps, LastChunk(i) PROVE Magnitude(size' - size) <= MaxOrderSize
  <2>1. twap[i].total \in Nat
    BY DEF IInv, TypeOK, TwapType
  <2>2. LastOrderSize(i) \in Nat /\ LastOrderSize(i) < MaxOrderSize
    BY <2>1, RemainderBound DEF LastOrderSize, NumOrders
  <2>3. CASE Placed(i, LastOrderSize(i), "defer")
    <3>1. Magnitude(size' - size) = LastOrderSize(i)
      BY <2>2, <2>3, PlacedSize
    <3> QED
      BY <2>2, <3>1
  <2>4. CASE UNCHANGED size
    BY <2>4, StillSize
  <2> QED
    BY <1>3, <2>3, <2>4 DEF LastChunk, Abort
<1>4. ASSUME NEW side \in Sides, Signal(side)
      PROVE  Magnitude(size' - size) <= MaxOrderSize \/ (~twapEnabled /\ UNCHANGED twap)
  <2>1. CASE twapEnabled /\ OrderAmount > MaxOrderSize
    BY <1>4, <2>1, StillSize DEF Signal
  <2>2. CASE ~(twapEnabled /\ OrderAmount > MaxOrderSize)
    <3>1. size' = size + Signed(side, OrderAmount) /\ UNCHANGED twap
      BY <1>4, <2>2 DEF Signal
    <3>2. size \in Int /\ Signed(side, OrderAmount) \in Int
      BY DEF IInv, TypeOK, Signed
    <3>3. size' - size = Signed(side, OrderAmount)
      BY <3>1, <3>2
    <3>4. Magnitude(size' - size) = OrderAmount
      BY <3>3, SignedMagnitude
    <3> QED
      BY <2>2, <3>1, <3>4
  <2> QED
    BY <2>1, <2>2
<1> QED
  BY <1>1, <1>2, <1>3, <1>4 DEF Next, TwapStep, Sleep, Defer, TriggerPartialExit,
     SetTwapEnabled, Cancel

LEMMA NeverMore ==
  ASSUME NEW t \in TwapType, ChunksOK(t)
  PROVE  t.sent <= t.total /\ (t.pc = "defer" /\ ~t.aborted => t.sent = t.total)
<1>1. t.pc \in Labels /\ t.i \in Nat /\ t.total \in Nat /\ t.sent \in Nat
  BY DEF TwapType
<1>2. t.total \div MaxOrderSize \in Nat
  BY <1>1, DivMod
<1>3. CASE t.pc = "chunk"
  BY <1>1, <1>2, <1>3, ChunkBound DEF ChunksOK
<1>4. CASE t.pc = "sleep"
  <2>1. t.i + 1 \in Nat /\ t.i + 1 <= t.total \div MaxOrderSize
        /\ t.sent = (t.i + 1) * MaxOrderSize
    BY <1>1, <1>2, <1>4 DEF ChunksOK
  <2> QED
    BY <1>1, <1>4, <2>1, ChunkBound
<1>5. CASE t.pc = "last"
  BY <1>1, <1>2, <1>5, ChunkBound DEF ChunksOK
<1>6. CASE t.pc \in {"defer", "free"}
  BY <1>1, <1>6 DEF ChunksOK
<1> QED
  BY <1>1, <1>3, <1>4, <1>5, <1>6 DEF Labels

\* While slicing is enabled the bot places no order beyond the limit, and
\* executeTwapOrder places its whole order, never more, unless an error or the
\* context cuts it short.
THEOREM WholeAmount == Spec => WholeAmountPlaced
<1> DEFINE Step ==
      /\ Magnitude(size' - size) > MaxOrderSize => ~twapEnabled /\ UNCHANGED twap
      /\ \A i \in Twaps :
            /\ twap'[i].sent <= twap'[i].total
            /\ twap'[i].pc = "defer" /\ ~twap'[i].aborted => twap'[i].sent = twap'[i].total
<1>1. ASSUME IInv, IInv', [Next]_vars PROVE [Step]_vars
  <2>1. CASE UNCHANGED vars
    BY <2>1
  <2>2. CASE Next
    <3>1. Magnitude(size' - size) > MaxOrderSize => ~twapEnabled /\ UNCHANGED twap
      BY <1>1, <2>2, OrderSize
    <3>2. ASSUME NEW i \in Twaps
          PROVE  /\ twap'[i].sent <= twap'[i].total
                 /\ twap'[i].pc = "defer" /\ ~twap'[i].aborted
                      => twap'[i].sent = twap'[i].total
      <4>1. twap'[i] \in TwapType /\ ChunksOK(twap'[i])
        BY <1>1 DEF IInv, TypeOK, Chunks
      <4> QED
        BY <4>1, NeverMore
    <3> QED
      BY <3>1, <3>2
  <2> QED
    BY <1>1, <2>1, <2>2
<1> QED
  BY <1>1, Inductive, PTL DEF Spec, WholeAmountPlaced
=============================================================================
