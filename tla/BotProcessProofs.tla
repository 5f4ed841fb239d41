-------------------------- MODULE BotProcessProofs --------------------------
(***************************************************************************)
(* Theorems about the live process, for any number of dial attempts and    *)
(* connections, and whatever orders the monitor works on.                  *)
(***************************************************************************)
EXTENDS BotProcess, ArithmeticProofs

USE RetriesAssumption, ConnectionsAssumption

-----------------------------------------------------------------------------
(***************************************************************************)
(* Only the reader of the current connection reads, connections yet to     *)
(* come have none, and none reads while Connect dials.  A Connect that     *)
(* still dials has attempts left.                                          *)
(***************************************************************************)
ReadersOK ==
    /\ \A g \in Connections : g > conn => reader[g] = "none"
    /\ \A g \in Connections : reader[g] = "reading" => g = conn /\ pc # "dial"

AttemptsLeft == pc = "dial" => retries < MaxRetries

FeedInv == TypeOK /\ ReadersOK /\ AttemptsLeft

LEMMA InitFeed == Init => FeedInv
<1> SUFFICES ASSUME Init PROVE FeedInv
  OBVIOUS
<1>1. reader \in [Connections -> {"none", "reading", "ended"}]
  BY DEF Init
<1>2. ReadersOK
  BY DEF Init, ReadersOK, Connections
<1>3. retries \in 0..MaxRetries /\ conn \in 0..MaxConnections /\ AttemptsLeft
  BY DEF Init, AttemptsLeft
<1>4. pc \in Place /\ sigs \in 0..1 /\ reconnect \in 0..1 /\ interrupt \in 0..1
  BY DEF Init, Place
<1> QED
  BY <1>1, <1>2, <1>3, <1>4 DEF Init, FeedInv, TypeOK

LEMMA ReadersImplyOne == FeedInv => OneReader
  BY DEF FeedInv, ReadersOK, OneReader

\* The steps of Connect up to close(c.ready).
LEMMA ConnectKeeps == FeedInv /\ ConnectSteps => FeedInv'
<1> SUFFICES ASSUME FeedInv, ConnectSteps PROVE FeedInv'
  OBVIOUS
<1> USE DEF FeedInv, AttemptsLeft, TypeOK, ReadersOK, Place, Connections, process, socket, channels
<1>1. CASE DialFails
  BY <1>1 DEF DialFails, At
<1>2. CASE DialSucceeds
  <2>1. conn + 1 \in Connections /\ conn' = conn + 1
    BY <1>2 DEF DialSucceeds
  <2>2. reader' = [reader EXCEPT ![conn + 1] = "reading"] /\ pc' = "subscribeBook"
    BY <1>2 DEF DialSucceeds
  <2>3. \A g \in Connections : reader[g] # "reading"
    BY <1>2 DEF DialSucceeds, At
  <2>4. TypeOK'
    BY <1>2, <2>1 DEF DialSucceeds
  <2>5. ReadersOK'
    BY <2>1, <2>2, <2>3
  <2> QED
    BY <2>2, <2>4, <2>5
<1>3. CASE SubscribeBook \/ SubscribeTrades
  BY <1>3 DEF SubscribeBook, SubscribeTrades, Subscribe
<1>4. CASE SubscribeFails
  BY <1>4 DEF SubscribeFails
<1>5. CASE CloseReady
  BY <1>5 DEF CloseReady, At
<1>6. CASE SendSigterm
  BY <1>6 DEF SendSigterm, At
<1> QED
  BY <1>1, <1>2, <1>3, <1>4, <1>5, <1>6 DEF ConnectSteps, Dial

\* The steps of its loop: a reconnection needs done to be closed.
LEMMA LoopKeeps == FeedInv /\ LoopSteps => FeedInv'
<1> SUFFICES ASSUME FeedInv, LoopSteps PROVE FeedInv'
  OBVIOUS
<1> USE DEF FeedInv, AttemptsLeft, TypeOK, ReadersOK, Place, Connections, process, socket, channels
<1>1. CASE LoopReconnects
  <2>1. \A g \in Connections : reader[g] # "reading"
    BY <1>1 DEF LoopReconnects, Done
  <2> QED
    BY <1>1, <2>1 DEF LoopReconnects
<1>2. CASE LoopEnds \/ LoopCloses \/ LoopCancelled
  BY <1>2 DEF LoopEnds, LoopCloses, LoopCancelled
<1>3. CASE PingFails
  BY <1>3 DEF PingFails, At
<1>4. CASE LoopInterrupted
  BY <1>4 DEF LoopInterrupted
<1> QED
  BY <1>1, <1>2, <1>3, <1>4 DEF LoopSteps

\* The readers, main, the network and the signals.
LEMMA OthersKeep ==
  ASSUME FeedInv,
         \/ MainSteps \/ Lose \/ Terminate \/ Interrupt
         \/ \E g \in Connections : Receive(g) \/ ReaderSteps(g)
  PROVE  FeedInv'
<1> USE DEF FeedInv, AttemptsLeft, TypeOK, ReadersOK, Place, Connections, process, socket, channels
<1>1. CASE MainSteps
  <2>1. CASE MainReady
    BY <2>1 DEF MainReady
  <2>2. CASE MainSignal
    BY <2>2 DEF MainSignal
  <2>3. CASE MainReturns
    BY <2>3 DEF MainReturns
  <2> QED
    BY <1>1, <2>1, <2>2, <2>3 DEF MainSteps
<1>2. CASE Lose
  BY <1>2 DEF Lose
<1>3. CASE Terminate \/ Interrupt
  BY <1>3 DEF Terminate, Interrupt
<1>4. ASSUME NEW g \in Connections, Receive(g) PROVE FeedInv'
  BY <1>4 DEF Receive
<1>5. ASSUME NEW g \in Connections, ReaderSteps(g) PROVE FeedInv'
  <2>1. reader' = [reader EXCEPT ![g] = "ended"] /\ conn' = conn /\ pc' = pc
    BY <1>5 DEF ReaderSteps, ReaderAsks, ReaderEnds
  <2>2. reconnect' \in 0..1 /\ UNCHANGED <<main, sigs, cancelled, retries, link,
                                            interrupt, ready, fed>>
    BY <1>5 DEF ReaderSteps, ReaderAsks, ReaderEnds
  <2>3. reader[g] = "reading"
    BY <1>5 DEF ReaderSteps, ReaderAsks, ReaderEnds, Reading
  <2> QED
    BY <2>1, <2>2, <2>3
<1> QED
  BY <1>1, <1>2, <1>3, <1>4, <1>5

LEMMA NextKeeps == FeedInv /\ [Next]_vars => FeedInv'
<1> SUFFICES ASSUME FeedInv, [Next]_vars PROVE FeedInv'
  OBVIOUS
<1>1. CASE UNCHANGED vars
  BY <1>1 DEF vars, FeedInv, AttemptsLeft, TypeOK, ReadersOK
<1>2. CASE ConnectSteps
  BY <1>2, ConnectKeeps
<1>3. CASE LoopSteps
  BY <1>3, LoopKeeps
<1>4. CASE ~UNCHANGED vars /\ ~ConnectSteps /\ ~LoopSteps
  BY <1>4, OthersKeep DEF Next
<1> QED
  BY <1>1, <1>2, <1>3, <1>4

-----------------------------------------------------------------------------
(***************************************************************************)
(* At most one goroutine reads from the feed, in the client alone and in   *)
(* the process it is part of.                                              *)
(***************************************************************************)
\* OneReader for the client, whatever main, the network and signals do.
THEOREM ClientOneReader == Spec => []OneReader
<1>1. Spec => []FeedInv
  BY InitFeed, NextKeeps, PTL DEF Spec
<1> QED
  BY <1>1, ReadersImplyOne, PTL

\* OneReader for the process: a step of the order monitor or of the exchange
\* leaves the client alone.
THEOREM ProcessOneReader == BotSpec => []OneReader
<1>1. BotInit => Init
  BY DEF BotInit
<1>2. [BotNext]_allVars => [Next]_vars
  BY DEF BotNext, allVars
<1>3. BotSpec => []FeedInv
  BY <1>1, <1>2, InitFeed, NextKeeps, PTL DEF BotSpec
<1> QED
  BY <1>3, ReadersImplyOne, PTL
-----------------------------------------------------------------------------
(***************************************************************************)
(* The order monitor.  An order asks for what it stands for; while one is  *)
(* being replaced, so does the amount the monitor is about to place again. *)
(***************************************************************************)
OrderRec == [origin : Origins, amount : Nat, filled : Nat, open : BOOLEAN]
Listed == [order : Nat, pending : Nat]

MonitorType ==
    /\ orders \in Seq(OrderRec)
    /\ \A o \in 1..Len(orders) : orders[o].filled <= orders[o].amount
    /\ monitor \in [pc : {"tick", "order", "replace", "follow"}, list : Seq(Listed), order : Nat]
    /\ \A i \in 1..Len(monitor.list) : monitor.list[i].order \in 1..Len(orders)
    /\ monitor.pc # "tick" => monitor.list # <<>>
    /\ monitor.pc = "follow" => monitor.order \in 1..Len(orders)
    /\ drift \in [Origins -> Int]

Replacing(origin) ==
    IF monitor.pc = "replace" /\ orders[Head(monitor.list).order].origin = origin
    THEN Head(monitor.list).pending ELSE 0

Asked(origin) == SumFunctionOnSet(Exposure, Family(origin))

Accounted == \A origin \in Origins :
    Asked(origin) + Replacing(origin) <= Wanted[origin] + drift[origin]

MInv == MonitorType /\ Accounted

LEMMA HeadTail ==
  ASSUME NEW S, NEW s \in Seq(S), s # <<>>
  PROVE  /\ Head(s) \in S /\ Head(s) = s[1] /\ Len(s) \in Nat \ {0}
         /\ Tail(s) \in Seq(S) /\ Len(Tail(s)) = Len(s) - 1
         /\ \A i \in 1..Len(Tail(s)) : i + 1 \in 1..Len(s) /\ Tail(s)[i] = s[i + 1]
OBVIOUS

LEMMA FamilyFacts ==
  ASSUME MonitorType
  PROVE  /\ \A o \in 1..Len(orders) :
              /\ orders[o].origin \in Origins /\ orders[o].amount \in Nat /\ orders[o].filled \in Nat
              /\ Exposure[o] = (IF orders[o].open THEN orders[o].amount ELSE orders[o].filled)
              /\ Exposure[o] \in Nat
         /\ \A origin : /\ IsFiniteSet(Family(origin))
                        /\ Family(origin) \subseteq 1..Len(orders)
                        /\ Asked(origin) \in Int
<1>1. \A o \in 1..Len(orders) : orders[o] \in OrderRec
  BY DEF MonitorType
<1>2. \A o \in 1..Len(orders) :
        /\ orders[o].origin \in Origins /\ orders[o].amount \in Nat /\ orders[o].filled \in Nat
        /\ Exposure[o] = (IF orders[o].open THEN orders[o].amount ELSE orders[o].filled)
        /\ Exposure[o] \in Nat
  BY <1>1 DEF OrderRec, Exposure
<1>3. ASSUME NEW origin PROVE /\ IsFiniteSet(Family(origin))
                              /\ Family(origin) \subseteq 1..Len(orders)
                              /\ Asked(origin) \in Int
  <2>1. Len(orders) \in Nat
    BY DEF MonitorType
  <2>2. Family(origin) \subseteq 1..Len(orders)
    BY DEF Family
  <2>3. IsFiniteSet(Family(origin))
    <3>1. IsFiniteSet(1..Len(orders))
      BY <2>1, FS_Interval
    <3> QED
      BY <2>2, <3>1, FS_Subset
  <2>4. \A o \in Family(origin) : Exposure[o] \in Int
    BY <1>2, <2>2
  <2>5. SumFunctionOnSet(Exposure, Family(origin)) \in Int
    BY <2>3, <2>4, SumType
  <2> QED
    BY <2>2, <2>3, <2>5 DEF Asked
<1> QED
  BY <1>2, <1>3

\* A step that changes what one order stands for, and no order's origin.
LEMMA ExposureStep ==
  ASSUME MonitorType, MonitorType', NEW x \in 1..Len(orders), NEW d \in Int,
         Len(orders') = Len(orders),
         \A o \in 1..Len(orders) : orders'[o].origin = orders[o].origin,
         \A o \in 1..Len(orders) \ {x} : orders'[o] = orders[o],
         Exposure'[x] = Exposure[x] + d
  PROVE  \A origin \in Origins :
            Asked(origin)' = Asked(origin) + (IF origin = orders[x].origin THEN d ELSE 0)
<1> SUFFICES ASSUME NEW origin \in Origins
             PROVE  Asked(origin)' = Asked(origin) + (IF origin = orders[x].origin THEN d ELSE 0)
  OBVIOUS
<1>1. PICK F, f, g : F = Family(origin) /\ f = Exposure /\ g = Exposure'
  OBVIOUS
<1>2. Family(origin)' = F
  BY <1>1 DEF Family
<1>3. IsFiniteSet(F) /\ F \subseteq 1..Len(orders)
  BY <1>1, FamilyFacts
<1>4. \A o \in 1..Len(orders) : f[o] \in Int
  BY <1>1, FamilyFacts
<1>5. \A o \in 1..Len(orders) : g[o] \in Int
  <2>1. \A o \in 1..Len(orders') : orders'[o] \in OrderRec
    BY DEF MonitorType
  <2> QED
    BY <1>1, <2>1 DEF OrderRec, Exposure
<1>6. \A o \in 1..Len(orders) \ {x} : g[o] = f[o]
  BY <1>1 DEF Exposure
<1>7. g[x] = f[x] + d /\ (x \in F <=> origin = orders[x].origin)
  BY <1>1 DEF Family
<1>8. Asked(origin)' = SumFunctionOnSet(g, F) /\ Asked(origin) = SumFunctionOnSet(f, F)
  BY <1>1, <1>2 DEF Asked
<1>9. \A o \in F : f[o] \in Int /\ g[o] \in Int
  BY <1>3, <1>4, <1>5
<1>10. SumFunctionOnSet(f, F) \in Int
  BY <1>3, <1>9, SumType
<1>11. CASE x \in F
  <2>1. SumFunctionOnSet(g, F) = SumFunctionOnSet(f, F) + g[x] - f[x]
    <3> SUFFICES ASSUME NEW y \in F, y = x
                 PROVE  SumFunctionOnSet(g, F) = SumFunctionOnSet(f, F) + g[y] - f[y]
      BY <1>11
    <3>1. IsFiniteSet(F) /\ \A o \in F : f[o] \in Int /\ g[o] \in Int
      BY <1>3, <1>9
    <3>2. \A o \in F \ {y} : g[o] = f[o]
      BY <1>3, <1>6
    <3> QED
      BY ONLY <3>1, <3>2, SumUpdate
  <2> QED
    BY <1>4, <1>7, <1>8, <1>10, <1>11, <2>1
<1>12. CASE x \notin F
  <2>1. \A o \in F : f[o] \in Int /\ f[o] = g[o]
    BY <1>3, <1>6, <1>9, <1>12
  <2>2. SumFunctionOnSet(f, F) = SumFunctionOnSet(g, F)
    BY <1>3, <2>1, SumSame
  <2> QED
    BY <1>7, <1>8, <1>10, <1>12, <2>2
<1> QED
  BY <1>11, <1>12

\* A new order of some origin.
LEMMA ExposureAppend ==
  ASSUME MonitorType, MonitorType', NEW origin \in Origins, NEW amount \in Nat,
         orders' = Append(orders, NewOrder(origin, amount))
  PROVE  \A other \in Origins :
            Asked(other)' = Asked(other) + (IF other = origin THEN amount ELSE 0)
<1> SUFFICES ASSUME NEW other \in Origins
             PROVE  Asked(other)' = Asked(other) + (IF other = origin THEN amount ELSE 0)
  OBVIOUS
<1>1. PICK n, F, f, g : /\ n = Len(orders) + 1 /\ F = Family(other)
                        /\ f = Exposure /\ g = Exposure'
  OBVIOUS
<1>2. /\ Len(orders) \in Nat /\ Len(orders') = n /\ n \notin 1..Len(orders)
      /\ 1..n = (1..Len(orders)) \cup {n}
      /\ \A o \in 1..Len(orders) : orders'[o] = orders[o]
      /\ orders'[n] = [origin |-> origin, amount |-> amount, filled |-> 0, open |-> TRUE]
  BY <1>1 DEF MonitorType, NewOrder
<1>3. IsFiniteSet(F) /\ F \subseteq 1..Len(orders) /\ n \notin F
  BY <1>1, <1>2, FamilyFacts
<1>4. Family(other)' = IF other = origin THEN F \cup {n} ELSE F
  BY <1>1, <1>2 DEF Family
<1>5. \A o \in F : f[o] \in Int /\ f[o] = g[o]
  <2>1. \A o \in 1..Len(orders) : f[o] \in Int
    BY <1>1, FamilyFacts
  <2> QED
    BY <1>1, <1>2, <1>3, <2>1 DEF Exposure
<1>6. g[n] = amount
  BY <1>1, <1>2 DEF Exposure
<1>7. /\ Asked(other)' = SumFunctionOnSet(g, IF other = origin THEN F \cup {n} ELSE F)
      /\ Asked(other) = SumFunctionOnSet(f, F)
  BY <1>1, <1>4 DEF Asked
<1>8. SumFunctionOnSet(f, F) = SumFunctionOnSet(g, F)
  BY <1>3, <1>5, SumSame
<1>9. SumFunctionOnSet(f, F) \in Int
  BY <1>3, <1>5, SumType
<1>10. CASE other = origin
  <2>1. \A o \in F \cup {n} : g[o] \in Int
    BY <1>5, <1>6
  <2>2. SumFunctionOnSet(g, F \cup {n}) = g[n] + SumFunctionOnSet(g, F)
    BY <1>3, <2>1, SumAdd
  <2> QED
    BY <1>6, <1>7, <1>8, <1>9, <1>10, <2>2
<1>11. CASE other # origin
  BY <1>7, <1>8, <1>9, <1>11
<1> QED
  BY <1>10, <1>11

\* The exchange and the callers change orders one at a time, and none of them
\* asks for more.
LEMMA ChangeStep ==
  ASSUME MInv, NEW x \in 1..Len(orders), NEW rec \in OrderRec,
         rec.origin = orders[x].origin, rec.amount = orders[x].amount,
         rec.filled <= rec.amount,
         rec.filled >= orders[x].filled,
         orders[x].open,
         orders' = [orders EXCEPT ![x] = rec],
         \/ rec.open
         \/ rec.filled \in {orders[x].filled, orders[x].amount}
  PROVE  /\ orders' \in Seq(OrderRec)
         /\ Len(orders') = Len(orders)
         /\ \A o \in 1..Len(orders) : orders'[o].origin = orders[o].origin
         /\ \A o \in 1..Len(orders) \ {x} : orders'[o] = orders[o]
         /\ \A o \in 1..Len(orders) : orders'[o].filled <= orders'[o].amount
         /\ Exposure'[x] = Exposure[x] + (IF rec.open THEN 0 ELSE rec.filled - orders[x].amount)
         /\ orders'[x] = rec
<1>1. orders \in Seq(OrderRec)
  BY DEF MInv, MonitorType
<1>2. /\ orders' \in Seq(OrderRec) /\ Len(orders') = Len(orders) /\ orders'[x] = rec
      /\ \A o \in 1..Len(orders) \ {x} : orders'[o] = orders[o]
  BY <1>1
<1>3. Exposure[x] = orders[x].amount /\ orders[x].amount \in Nat /\ rec.filled \in Nat
  BY FamilyFacts DEF MInv, OrderRec
<1>4. Exposure'[x] = IF rec.open THEN rec.amount ELSE rec.filled
  BY <1>2 DEF Exposure
<1>5. Exposure'[x] = Exposure[x] + (IF rec.open THEN 0 ELSE rec.filled - orders[x].amount)
  BY <1>3, <1>4
<1> QED
  BY <1>2, <1>5 DEF MInv, MonitorType

LEMMA AmountsType ==
  MonitorType => \A origin \in Origins : Wanted[origin] \in Nat /\ drift[origin] \in Int
<1>1. \A origin \in Origins : Wanted[origin] \in Nat
  BY WantedAssumption DEF Origins
<1> QED
  BY <1>1 DEF MonitorType

LEMMA AskedType == MonitorType => \A origin \in Origins : Asked(origin) \in Int
  BY FamilyFacts

LEMMA AskedTypeNext == MonitorType' => \A origin \in Origins : Asked(origin)' \in Int
<1>1. MonitorType' => (\A origin \in Origins : Asked(origin) \in Int)'
  BY AskedType, PTL
<1> QED
  BY <1>1

LEMMA ReplacingType ==
  ASSUME MonitorType
  PROVE  /\ \A origin \in Origins : Replacing(origin) \in Nat
         /\ monitor.pc # "tick" =>
              /\ Len(monitor.list) \in Nat \ {0} /\ Head(monitor.list) = monitor.list[1]
              /\ Head(monitor.list).order \in 1..Len(orders)
              /\ Head(monitor.list).pending \in Nat
<1>1. CASE monitor.pc = "tick"
  BY <1>1 DEF Replacing
<1>2. CASE monitor.pc # "tick"
  <2>1. monitor.list \in Seq(Listed) /\ monitor.list # <<>>
    BY <1>2 DEF MonitorType
  <2>2. /\ Head(monitor.list) \in Listed /\ Head(monitor.list) = monitor.list[1]
        /\ Len(monitor.list) \in Nat \ {0}
    BY <2>1, HeadTail
  <2>3. Head(monitor.list).order \in 1..Len(orders)
    BY <2>2 DEF MonitorType
  <2> QED
    BY <2>2, <2>3 DEF Listed, Replacing
<1> QED
  BY <1>1, <1>2

LEMMA ReplacingNat == MonitorType => \A origin \in Origins : Replacing(origin) \in Nat
  BY ReplacingType

LEMMA ReplacingNatNext == MonitorType' => \A origin \in Origins : Replacing(origin)' \in Nat
<1>1. MonitorType' => (\A origin \in Origins : Replacing(origin) \in Nat)'
  BY ReplacingNat, PTL
<1> QED
  BY <1>1

LEMMA WaitingType ==
  /\ Waiting \in [pc : {"tick", "order", "replace", "follow"}, list : Seq(Listed), order : Nat]
  /\ Waiting.pc = "tick" /\ Len(Waiting.list) = 0
  BY DEF Waiting

\* The monitor goes on with the rest of its list; orders are never forgotten.
LEMMA ForwardType ==
  ASSUME MonitorType, monitor.pc # "tick", Forward,
         Len(orders) \in Nat, Len(orders') \in Nat, Len(orders') >= Len(orders)
  PROVE  /\ monitor' \in [pc : {"tick", "order", "replace", "follow"}, list : Seq(Listed), order : Nat]
         /\ \A i \in 1..Len(monitor'.list) : monitor'.list[i].order \in 1..Len(orders')
         /\ monitor'.pc \in {"tick", "order"}
         /\ monitor'.pc # "tick" => monitor'.list # <<>>
<1>1. CASE Len(monitor.list) = 1
  <2>1. monitor' = Waiting
    BY <1>1 DEF Forward
  <2> QED
    BY <2>1, WaitingType
<1>2. CASE Len(monitor.list) # 1
  <2>1. monitor' = [pc |-> "order", list |-> Tail(monitor.list), order |-> 0]
    BY <1>2 DEF Forward
  <2>2. monitor.list \in Seq(Listed) /\ monitor.list # <<>>
    BY DEF MonitorType
  <2>3. /\ Tail(monitor.list) \in Seq(Listed) /\ Len(Tail(monitor.list)) = Len(monitor.list) - 1
        /\ Len(monitor.list) \in Nat \ {0}
        /\ \A i \in 1..Len(Tail(monitor.list)) :
              i + 1 \in 1..Len(monitor.list) /\ Tail(monitor.list)[i] = monitor.list[i + 1]
    BY <2>2, HeadTail
  <2>4. Tail(monitor.list) # <<>>
    <3>1. Len(Tail(monitor.list)) # Len(<<>>)
      BY <1>2, <2>3
    <3> QED
      BY <3>1
  <2>5. \A i \in 1..Len(Tail(monitor.list)) : Tail(monitor.list)[i].order \in 1..Len(orders)
    BY <2>3 DEF MonitorType
  <2>6. 1..Len(orders) \subseteq 1..Len(orders')
    OBVIOUS
  <2> QED
    BY <2>1, <2>3, <2>4, <2>5, <2>6
<1> QED
  BY <1>1, <1>2

\* A step after which no order and no replacement asks for more.
LEMMA AccountedStep ==
  ASSUME MInv, MonitorType', drift' = drift,
         \A origin \in Origins : /\ Asked(origin)' <= Asked(origin)
                                 /\ Replacing(origin)' <= Replacing(origin)
  PROVE  Accounted'
<1>1. ASSUME NEW origin \in Origins
      PROVE  Asked(origin)' + Replacing(origin)' <= Wanted[origin] + drift[origin]
  <2>1. Asked(origin) \in Int /\ Asked(origin)' \in Int
    BY AskedType, AskedTypeNext DEF MInv
  <2>2. Replacing(origin) \in Nat /\ Replacing(origin)' \in Nat
    BY ReplacingNat, ReplacingNatNext DEF MInv
  <2>3. Asked(origin) + Replacing(origin) <= Wanted[origin] + drift[origin]
    BY DEF MInv, Accounted
  <2>4. Wanted[origin] \in Nat /\ drift[origin] \in Int
    BY AmountsType DEF MInv
  <2> QED
    BY <2>1, <2>2, <2>3, <2>4
<1> QED
  BY <1>1 DEF Accounted

\* While the monitor does not turn to another order, what it is replacing stays.
LEMMA ReplacingStays ==
  ASSUME MonitorType, monitor' = monitor,
         \A o \in 1..Len(orders) : orders'[o].origin = orders[o].origin
  PROVE  \A origin \in Origins : Replacing(origin)' = Replacing(origin)
<1>1. CASE monitor.pc = "replace"
  <2>1. Head(monitor.list).order \in 1..Len(orders)
    BY <1>1, ReplacingType
  <2> QED
    BY <2>1 DEF Replacing
<1>2. CASE monitor.pc # "replace"
  BY <1>2 DEF Replacing
<1> QED
  BY <1>1, <1>2

LEMMA NothingReplaced ==
  ASSUME MonitorType, monitor'.pc # "replace"
  PROVE  \A origin \in Origins : Replacing(origin)' = 0 /\ Replacing(origin) >= 0
BY ReplacingType DEF Replacing

\* The list and the steps that leave the orders alone.
LEMMA ListKeeps ==
  ASSUME MInv, List
  PROVE  MInv'
<1>1. /\ Len(orders) \in Nat /\ IsFiniteSet(OpenOrders) /\ OpenOrders \subseteq 1..Len(orders)
      /\ Cardinality(OpenOrders) \in Nat \ {0}
  <2>1. Len(orders) \in Nat /\ OpenOrders \subseteq 1..Len(orders)
    BY DEF MInv, MonitorType, OpenOrders
  <2>2. IsFiniteSet(1..Len(orders))
    BY <2>1, FS_Interval
  <2>3. IsFiniteSet(OpenOrders)
    BY <2>1, <2>2, FS_Subset
  <2>4. Cardinality(OpenOrders) \in Nat /\ Cardinality(OpenOrders) # 0
    BY <2>3, FS_CardinalityType, FS_EmptySet DEF List
  <2> QED
    BY <2>1, <2>3, <2>4
<1>2. PICK open \in SetToSeqs(OpenOrders) :
        monitor' = [pc |-> "order", order |-> 0,
                    list |-> [i \in 1..Len(open) |->
                                [order |-> open[i], pending |-> Pending(open[i])]]]
  BY DEF List
<1>3. PICK n \in Nat \ {0} : n = Cardinality(OpenOrders)
  BY <1>1
<1>4. open \in [1..n -> OpenOrders]
  BY <1>3 DEF SetToSeqs
<1>5. Len(open) = n
  BY <1>4
<1>6. \A i \in 1..n : open[i] \in 1..Len(orders) /\ Pending(open[i]) \in Nat
  <2>1. \A o \in 1..Len(orders) : Pending(o) \in Nat
    BY FamilyFacts DEF Pending, MInv, MonitorType
  <2> QED
    BY <1>1, <1>4, <2>1
<1>7. PICK list : list = [i \in 1..n |-> [order |-> open[i], pending |-> Pending(open[i])]]
  OBVIOUS
<1>8. monitor' = [pc |-> "order", order |-> 0, list |-> list]
  BY <1>2, <1>5, <1>7
<1>9. list \in Seq(Listed) /\ Len(list) = n /\ \A i \in 1..n : list[i].order \in 1..Len(orders)
  BY <1>6, <1>7 DEF Listed
<1>10. MonitorType'
  BY <1>8, <1>9 DEF MInv, MonitorType, List
<1>11. \A origin \in Origins : Asked(origin)' = Asked(origin) /\ Asked(origin) \in Int
  BY AskedType DEF List, Asked, Exposure, Family, MInv
<1>12. \A origin \in Origins : Replacing(origin)' <= Replacing(origin)
  BY <1>8, NothingReplaced DEF MInv
<1> QED
  BY <1>10, <1>11, <1>12, AccountedStep DEF MInv, List

LEMMA ForwardKeeps ==
  ASSUME MInv, monitor.pc # "tick", Forward, UNCHANGED <<orders, drift>>
  PROVE  MInv'
<1>1. Len(orders) \in Nat
  BY DEF MInv, MonitorType
<1>2. MonitorType' /\ monitor'.pc # "replace"
  BY <1>1, ForwardType DEF MInv, MonitorType
<1>3. \A origin \in Origins : Asked(origin)' = Asked(origin) /\ Asked(origin) \in Int
  BY AskedType DEF Asked, Exposure, Family, MInv
<1>4. \A origin \in Origins : Replacing(origin)' <= Replacing(origin)
  BY <1>2, NothingReplaced DEF MInv
<1> QED
  BY <1>2, <1>3, <1>4, AccountedStep DEF MInv

\* Orders executed or cancelled, by whoever follows them.
LEMMA ExchangeKeeps ==
  ASSUME MInv, NEW x \in 1..Len(orders), Fill(x) \/ CallerCancels(x)
  PROVE  MInv'
<1>1. PICK rec \in OrderRec :
        /\ rec.origin = orders[x].origin /\ rec.amount = orders[x].amount
        /\ rec.filled <= rec.amount /\ rec.filled >= orders[x].filled
        /\ rec.open \/ rec.filled \in {orders[x].filled, orders[x].amount}
        /\ orders' = [orders EXCEPT ![x] = rec]
  <2>1. orders[x] \in OrderRec /\ orders \in Seq(OrderRec) /\ orders[x].filled <= orders[x].amount
    BY DEF MInv, MonitorType
  <2>2. CASE CallerCancels(x)
    <3> DEFINE rec == [orders[x] EXCEPT !.open = FALSE]
    <3>1. rec \in OrderRec
      BY <2>1 DEF OrderRec
    <3>2. orders' = [orders EXCEPT ![x] = rec]
      BY <2>2 DEF CallerCancels
    <3>3. /\ rec.origin = orders[x].origin /\ rec.amount = orders[x].amount
          /\ rec.filled = orders[x].filled
      BY <2>1 DEF OrderRec
    <3>4. orders[x].filled \in Nat
      BY <2>1 DEF OrderRec
    <3>5. /\ rec.filled <= rec.amount /\ rec.filled >= orders[x].filled
          /\ rec.filled \in {orders[x].filled, orders[x].amount}
      BY <2>1, <3>3, <3>4
    <3> HIDE DEF rec
    <3> QED
      BY <3>1, <3>2, <3>3, <3>5
  <2>3. CASE Fill(x)
    <3>1. PICK q \in 1..Pending(x) :
            orders' = [orders EXCEPT ![x].filled = @ + q, ![x].open = q # Pending(x)]
      BY <2>3 DEF Fill
    <3> DEFINE rec == [orders[x] EXCEPT !.filled = @ + q, !.open = q # Pending(x)]
    <3>2. rec \in OrderRec
      <4>1. orders[x].filled + q \in Nat
        BY <2>1 DEF OrderRec, Pending
      <4> QED
        BY <2>1, <4>1 DEF OrderRec
    <3>3. orders' = [orders EXCEPT ![x] = rec]
      BY <2>1, <3>1 DEF OrderRec
    <3>4. /\ rec.origin = orders[x].origin /\ rec.amount = orders[x].amount
          /\ rec.filled = orders[x].filled + q /\ q # Pending(x) => rec.open
      BY <2>1 DEF OrderRec
    <3>5. /\ orders[x].filled \in Nat /\ orders[x].amount \in Nat /\ q \in Nat
          /\ q <= orders[x].amount - orders[x].filled
          /\ Pending(x) = orders[x].amount - orders[x].filled
      BY <2>1 DEF OrderRec, Pending
    <3>6. /\ rec.filled <= rec.amount /\ rec.filled >= orders[x].filled
          /\ rec.open \/ rec.filled \in {orders[x].filled, orders[x].amount}
      BY <3>4, <3>5
    <3> HIDE DEF rec
    <3> QED
      BY <3>2, <3>3, <3>4, <3>6
  <2> QED
    BY <2>2, <2>3
<1>2. orders[x].open /\ UNCHANGED <<monitor, drift>>
  BY DEF Fill, CallerCancels, OpenOrders
<1>3. /\ orders' \in Seq(OrderRec) /\ Len(orders') = Len(orders)
      /\ \A o \in 1..Len(orders) : orders'[o].origin = orders[o].origin
      /\ \A o \in 1..Len(orders) \ {x} : orders'[o] = orders[o]
      /\ \A o \in 1..Len(orders) : orders'[o].filled <= orders'[o].amount
      /\ Exposure'[x] = Exposure[x] + (IF rec.open THEN 0 ELSE rec.filled - orders[x].amount)
  BY <1>1, <1>2, ChangeStep
<1>4. MonitorType'
  BY <1>2, <1>3 DEF MInv, MonitorType
<1>5. PICK d \in Int : d = (IF rec.open THEN 0 ELSE rec.filled - orders[x].amount) /\ d <= 0
  <2>1. orders[x].amount \in Nat /\ rec.filled \in Nat
    BY FamilyFacts DEF MInv, OrderRec
  <2> QED
    BY <1>1, <2>1
<1>6. \A origin \in Origins :
        Asked(origin)' = Asked(origin) + (IF origin = orders[x].origin THEN d ELSE 0)
  BY <1>3, <1>4, <1>5, ExposureStep DEF MInv
<1>7. \A origin \in Origins : Asked(origin)' <= Asked(origin)
  BY <1>5, <1>6, AskedType DEF MInv
<1>8. \A origin \in Origins : Replacing(origin)' <= Replacing(origin)
  BY <1>2, <1>3, ReplacingStays, ReplacingNat DEF MInv
<1> QED
  BY <1>2, <1>4, <1>7, <1>8, AccountedStep DEF MInv

\* The monitor cancels an order of whose amount q is still open: nothing more is
\* executed of it.
LEMMA ClosingStep ==
  ASSUME MInv, NEW x \in 1..Len(orders), orders[x].open,
         orders' = [orders EXCEPT ![x].open = FALSE]
  PROVE  /\ orders' \in Seq(OrderRec)
         /\ Len(orders') = Len(orders)
         /\ \A o \in 1..Len(orders) : orders'[o].origin = orders[o].origin
         /\ \A o \in 1..Len(orders) \ {x} : orders'[o] = orders[o]
         /\ \A o \in 1..Len(orders) : orders'[o].filled <= orders'[o].amount
         /\ Pending(x) \in Nat /\ Exposure'[x] = Exposure[x] - Pending(x)
<1>1. orders[x] \in OrderRec /\ orders \in Seq(OrderRec) /\ orders[x].filled <= orders[x].amount
  BY DEF MInv, MonitorType
<1> DEFINE rec == [orders[x] EXCEPT !.open = FALSE]
<1>2. rec \in OrderRec
  BY <1>1 DEF OrderRec
<1>3. orders' = [orders EXCEPT ![x] = rec]
  OBVIOUS
<1>4. /\ rec.origin = orders[x].origin /\ rec.amount = orders[x].amount
      /\ rec.filled = orders[x].filled /\ ~rec.open
      /\ orders[x].filled \in Nat /\ orders[x].amount \in Nat
  BY <1>1 DEF OrderRec
<1> HIDE DEF rec
<1>5. /\ rec.filled <= rec.amount /\ rec.filled >= orders[x].filled
      /\ rec.filled \in {orders[x].filled, orders[x].amount}
  BY <1>1, <1>4
<1>6. /\ orders' \in Seq(OrderRec)
      /\ Len(orders') = Len(orders)
      /\ \A o \in 1..Len(orders) : orders'[o].origin = orders[o].origin
      /\ \A o \in 1..Len(orders) \ {x} : orders'[o] = orders[o]
      /\ \A o \in 1..Len(orders) : orders'[o].filled <= orders'[o].amount
      /\ Exposure'[x] = Exposure[x] + (IF rec.open THEN 0 ELSE rec.filled - orders[x].amount)
  BY <1>2, <1>3, <1>4, <1>5, ChangeStep
<1>7. Exposure[x] = orders[x].amount
  BY FamilyFacts DEF MInv
<1> QED
  BY <1>1, <1>4, <1>6, <1>7 DEF Pending

\* An order closed while the monitor goes on with its list.
LEMMA CloseForwardKeeps ==
  ASSUME MInv, monitor.pc # "tick", Forward, UNCHANGED drift,
         NEW x \in 1..Len(orders), orders' = [orders EXCEPT ![x].open = FALSE]
  PROVE  MInv'
<1>1. CASE orders[x].open
  <2>1. /\ orders' \in Seq(OrderRec) /\ Len(orders') = Len(orders)
        /\ \A o \in 1..Len(orders) : orders'[o].origin = orders[o].origin
        /\ \A o \in 1..Len(orders) \ {x} : orders'[o] = orders[o]
        /\ \A o \in 1..Len(orders) : orders'[o].filled <= orders'[o].amount
        /\ Pending(x) \in Nat /\ Exposure'[x] = Exposure[x] - Pending(x)
    BY <1>1, ClosingStep
  <2>2. Len(orders) \in Nat /\ Exposure[x] \in Int
    BY FamilyFacts DEF MInv, MonitorType
  <2>3. MonitorType' /\ monitor'.pc # "replace"
    BY <2>1, <2>2, ForwardType DEF MInv, MonitorType
  <2>4. PICK d \in Int : d <= 0 /\ Exposure'[x] = Exposure[x] + d
    <3>1. -Pending(x) \in Int /\ -Pending(x) <= 0 /\ Exposure'[x] = Exposure[x] + (-Pending(x))
      BY <2>1, <2>2
    <3> QED
      BY <3>1
  <2>5. \A origin \in Origins :
          Asked(origin)' = Asked(origin) + (IF origin = orders[x].origin THEN d ELSE 0)
    BY <2>1, <2>3, <2>4, ExposureStep DEF MInv
  <2>6. \A origin \in Origins : Asked(origin)' <= Asked(origin)
    BY <2>4, <2>5, AskedType DEF MInv
  <2>7. \A origin \in Origins : Replacing(origin)' <= Replacing(origin)
    BY <2>3, NothingReplaced DEF MInv
  <2> QED
    BY <2>3, <2>6, <2>7, AccountedStep DEF MInv
<1>2. CASE ~orders[x].open
  <2>1. orders \in Seq(OrderRec) /\ orders[x] \in OrderRec
    BY DEF MInv, MonitorType
  <2>2. [orders[x] EXCEPT !.open = FALSE] = orders[x]
    BY <1>2, <2>1 DEF OrderRec
  <2>3. orders' = orders
    BY <2>1, <2>2
  <2> QED
    BY <2>3, ForwardKeeps
<1> QED
  BY <1>1, <1>2

LEMMA CancelledKeeps ==
  ASSUME MInv, Cancelled
  PROVE  MInv'
<1>1. PICK x, q : x = Head(monitor.list).order /\ q = Head(monitor.list).pending
  OBVIOUS
<1>2. x \in 1..Len(orders) /\ q \in Nat /\ Head(monitor.list) = monitor.list[1]
  BY <1>1, ReplacingType DEF Cancelled, MInv
<1>3. /\ orders' = [orders EXCEPT ![x].open = FALSE] /\ orders[x].open
      /\ drift' = [drift EXCEPT ![orders[x].origin] = @ + q - Pending(x)]
      /\ monitor' = [monitor EXCEPT !.pc = "replace"] /\ monitor.pc = "order"
  BY <1>1 DEF Cancelled, OpenOrders
<1>4. /\ orders' \in Seq(OrderRec) /\ Len(orders') = Len(orders)
      /\ \A o \in 1..Len(orders) : orders'[o].origin = orders[o].origin
      /\ \A o \in 1..Len(orders) \ {x} : orders'[o] = orders[o]
      /\ \A o \in 1..Len(orders) : orders'[o].filled <= orders'[o].amount
      /\ Pending(x) \in Nat /\ Exposure'[x] = Exposure[x] - Pending(x)
  BY <1>2, <1>3, ClosingStep
<1>5. orders[x].origin \in Origins /\ Exposure[x] \in Int
  BY <1>2, FamilyFacts DEF MInv
<1>6. /\ monitor' \in [pc : {"tick", "order", "replace", "follow"}, list : Seq(Listed), order : Nat]
      /\ monitor'.pc = "replace" /\ monitor'.list = monitor.list
  BY <1>3 DEF MInv, MonitorType
<1>7. MonitorType'
  BY <1>2, <1>3, <1>4, <1>5, <1>6 DEF MInv, MonitorType
<1>8. PICK d \in Int : d = -Pending(x) /\ Exposure'[x] = Exposure[x] + d
  BY <1>4, <1>5
<1>9. \A origin \in Origins :
        Asked(origin)' = Asked(origin) + (IF origin = orders[x].origin THEN d ELSE 0)
  BY <1>2, <1>4, <1>7, <1>8, ExposureStep DEF MInv
<1>10. \A origin \in Origins :
         /\ Replacing(origin)' = (IF origin = orders[x].origin THEN q ELSE 0)
         /\ Replacing(origin) = 0
  <2>1. /\ Head(monitor'.list).order = x /\ Head(monitor'.list).pending = q
        /\ orders'[x].origin = orders[x].origin
    BY ONLY <1>1, <1>2, <1>4, <1>6
  <2> QED
    BY ONLY <1>3, <1>6, <2>1 DEF Replacing
<1>11. ASSUME NEW origin \in Origins
       PROVE  Asked(origin)' + Replacing(origin)' <= Wanted[origin] + drift'[origin]
  <2>1. drift[origin] \in Int /\ Wanted[origin] \in Int /\ Asked(origin) \in Int
    BY AskedType, AmountsType DEF MInv
  <2>2. Asked(origin) <= Wanted[origin] + drift[origin]
    BY <1>10, <2>1 DEF MInv, Accounted
  <2>3. CASE origin = orders[x].origin
    <3>1. drift'[origin] = drift[origin] + q - Pending(x)
      BY <1>3, <1>5, <2>3 DEF MInv, MonitorType
    <3>2. Asked(origin)' = Asked(origin) - Pending(x) /\ Replacing(origin)' = q
      BY <1>4, <1>8, <1>9, <1>10, <2>1, <2>3
    <3> QED
      BY <1>2, <1>4, <2>1, <2>2, <3>1, <3>2
  <2>4. CASE origin # orders[x].origin
    <3>1. drift'[origin] = drift[origin]
      BY <1>3, <1>5, <2>4 DEF MInv, MonitorType
    <3>2. Asked(origin)' = Asked(origin) /\ Replacing(origin)' = 0
      BY <1>9, <1>10, <2>1, <2>4
    <3> QED
      BY <2>1, <2>2, <3>1, <3>2
  <2> QED
    BY <2>3, <2>4
<1> QED
  BY <1>7, <1>11 DEF MInv, Accounted

LEMMA ReplaceKeeps ==
  ASSUME MInv, Replace
  PROVE  MInv'
<1>1. PICK x, q, origin : /\ x = Head(monitor.list).order /\ q = Head(monitor.list).pending
                          /\ origin = orders[x].origin
  OBVIOUS
<1>2. monitor.pc = "replace" /\ orders' = Append(orders, NewOrder(origin, q)) /\ UNCHANGED drift
  BY <1>1 DEF Replace
<1>3. x \in 1..Len(orders) /\ q \in Nat
  BY <1>1, <1>2, ReplacingType DEF MInv
<1>4. origin \in Origins
  BY <1>1, <1>3, FamilyFacts DEF MInv
<1>5. PICK n : n = Len(orders) + 1
  OBVIOUS
<1>6. /\ Len(orders) \in Nat /\ Len(orders') = n /\ n \in Nat
      /\ \A o \in 1..Len(orders) : orders'[o] = orders[o]
      /\ orders'[n] = [origin |-> origin, amount |-> q, filled |-> 0, open |-> TRUE]
      /\ 1..n = (1..Len(orders)) \cup {n}
  BY <1>2, <1>5 DEF MInv, MonitorType, NewOrder
<1>7. NewOrder(origin, q) \in OrderRec
  BY <1>3, <1>4 DEF NewOrder, OrderRec
<1>8. orders' \in Seq(OrderRec) /\ \A o \in 1..Len(orders') : orders'[o].filled <= orders'[o].amount
  BY <1>2, <1>3, <1>6, <1>7 DEF MInv, MonitorType
<1>9. /\ monitor' \in [pc : {"tick", "order", "replace", "follow"}, list : Seq(Listed), order : Nat]
      /\ \A i \in 1..Len(monitor'.list) : monitor'.list[i].order \in 1..Len(orders')
      /\ monitor'.pc # "replace"
      /\ monitor'.pc # "tick" => monitor'.list # <<>>
      /\ monitor'.pc = "follow" => monitor'.order \in 1..Len(orders')
  <2>1. CASE monitor' = [monitor EXCEPT !.pc = "follow", !.order = Len(orders) + 1]
    <3>1. /\ monitor' \in [pc : {"tick", "order", "replace", "follow"}, list : Seq(Listed), order : Nat]
          /\ monitor'.pc = "follow" /\ monitor'.order = n /\ monitor'.list = monitor.list
      BY <1>5, <1>6, <2>1 DEF MInv, MonitorType
    <3>2. monitor.list # <<>> /\ \A i \in 1..Len(monitor.list) : monitor.list[i].order \in 1..n
      BY <1>2, <1>6 DEF MInv, MonitorType
    <3> QED
      BY <1>6, <3>1, <3>2
  <2>2. CASE Forward
    BY <1>2, <1>5, <1>6, <2>2, ForwardType DEF MInv
  <2> QED
    BY <2>1, <2>2 DEF Replace
<1>10. MonitorType'
  BY <1>2, <1>8, <1>9 DEF MInv, MonitorType
<1>11. \A other \in Origins :
         Asked(other)' = Asked(other) + (IF other = origin THEN q ELSE 0)
  BY <1>2, <1>3, <1>4, <1>10, ExposureAppend DEF MInv
<1>12. \A other \in Origins : /\ Replacing(other) = (IF other = origin THEN q ELSE 0)
                              /\ Replacing(other)' = 0
  BY <1>1, <1>2, <1>9 DEF Replacing
<1>13. ASSUME NEW other \in Origins
       PROVE  Asked(other)' + Replacing(other)' <= Wanted[other] + drift'[other]
  <2>1. drift[other] \in Int /\ Wanted[other] \in Int /\ Asked(other) \in Int
    BY AskedType, AmountsType DEF MInv
  <2>2. Asked(other) + Replacing(other) <= Wanted[other] + drift[other]
    BY DEF MInv, Accounted
  <2> QED
    BY <1>2, <1>3, <1>11, <1>12, <2>1, <2>2
<1> QED
  BY <1>10, <1>13 DEF MInv, Accounted

LEMMA InitAccounted == InitOrders => MInv
<1> SUFFICES ASSUME InitOrders PROVE MInv
  OBVIOUS
<1>1. PICK n \in Nat : n = Len(Wanted)
  BY WantedAssumption
<1>2. /\ orders = [o \in 1..n |-> NewOrder(o, Wanted[o])] /\ monitor = Waiting
      /\ drift = [o \in 1..n |-> 0] /\ Origins = 1..n
      /\ \A o \in 1..n : Wanted[o] \in Nat
  BY <1>1, WantedAssumption DEF InitOrders, Origins
<1>3. \A o \in 1..n : NewOrder(o, Wanted[o]) \in OrderRec
  BY <1>2 DEF NewOrder, OrderRec
<1>4. orders \in Seq(OrderRec) /\ Len(orders) = n
  BY <1>2, <1>3
<1>5. MonitorType
  BY <1>2, <1>4, WaitingType DEF MonitorType, NewOrder
<1>6. ASSUME NEW origin \in Origins
      PROVE  Asked(origin) + Replacing(origin) <= Wanted[origin] + drift[origin]
  <2>1. Family(origin) = {origin} /\ Exposure[origin] = Wanted[origin]
    BY <1>2, <1>4 DEF Family, Exposure, NewOrder
  <2>2. PICK S : S = {origin}
    OBVIOUS
  <2>3. IsFiniteSet({}) /\ \A o \in {} \cup {origin} : Exposure[o] \in Int
    BY <1>2, <2>1, FS_EmptySet
  <2>4. SumFunctionOnSet(Exposure, {} \cup {origin}) = Exposure[origin] + SumFunctionOnSet(Exposure, {})
    BY <2>3, SumAdd
  <2>5. SumFunctionOnSet(Exposure, {}) = 0 /\ {} \cup {origin} = {origin}
    BY SumEmpty
  <2>6. Asked(origin) = Wanted[origin]
    BY <1>2, <2>1, <2>4, <2>5 DEF Asked
  <2>7. Replacing(origin) = 0
    BY <1>2, WaitingType DEF Replacing
  <2> QED
    BY <1>2, <2>6, <2>7
<1> QED
  BY <1>5, <1>6 DEF MInv, Accounted

\* Every step of the exchange, the callers and the monitor.
LEMMA OrdersNext == MInv /\ [List \/ Monitor \/ Exchange]_ordersVars => MInv'
<1> SUFFICES ASSUME MInv, [List \/ Monitor \/ Exchange]_ordersVars
             PROVE  MInv'
  OBVIOUS
<1>1. CASE List
  BY <1>1, ListKeeps
<1>2. CASE Exchange
  BY <1>2, ExchangeKeeps DEF Exchange
<1>3. CASE Competitive
  BY <1>3, ForwardKeeps DEF Competitive
<1>4. CASE Cancelled
  BY <1>4, CancelledKeeps
<1>5. CASE NotCancelled
  BY <1>5, ForwardKeeps DEF NotCancelled
<1>6. CASE CancelReplyLost
  <2>1. PICK x : x = Head(monitor.list).order
    OBVIOUS
  <2>2. x \in 1..Len(orders) /\ monitor.pc # "tick"
    BY <1>6, <2>1, ReplacingType DEF CancelReplyLost, MInv
  <2>3. orders' = [orders EXCEPT ![x].open = FALSE] /\ Forward /\ UNCHANGED drift
    BY <1>6, <2>1 DEF CancelReplyLost
  <2> QED
    BY <2>2, <2>3, CloseForwardKeeps
<1>7. CASE Replace
  BY <1>7, ReplaceKeeps
<1>8. CASE ReplaceFails
  BY <1>8, ForwardKeeps DEF ReplaceFails
<1>9. CASE FollowFilled
  BY <1>9, ForwardKeeps DEF FollowFilled
<1>10. CASE FollowTimesOut
  <2>1. PICK x : x = monitor.order
    OBVIOUS
  <2>2. x \in 1..Len(orders) /\ monitor.pc # "tick" /\ Forward /\ UNCHANGED drift
    BY <1>10, <2>1 DEF FollowTimesOut, MInv, MonitorType
  <2>3. CASE orders' = [orders EXCEPT ![x].open = FALSE]
    BY <2>2, <2>3, CloseForwardKeeps
  <2>4. CASE UNCHANGED orders
    BY <2>2, <2>4, ForwardKeeps
  <2> QED
    BY <1>10, <2>1, <2>3, <2>4 DEF FollowTimesOut
<1>11. CASE UNCHANGED ordersVars
  <2>1. MonitorType'
    BY <1>11 DEF ordersVars, MInv, MonitorType
  <2>2. Accounted'
    BY <1>11 DEF ordersVars, MInv, Accounted, Asked, Exposure, Family, Replacing
  <2> QED
    BY <2>1, <2>2 DEF MInv
<1> QED
  BY <1>1, <1>2, <1>3, <1>4, <1>5, <1>6, <1>7, <1>8, <1>9, <1>10, <1>11 DEF Monitor

LEMMA AccountedImpliesOnce == MInv => OrderedOnceButForDrift
<1> SUFFICES ASSUME MInv, NEW origin \in Origins
             PROVE  SumFunctionOnSet(Exposure, Family(origin)) <= Wanted[origin] + drift[origin]
  BY DEF OrderedOnceButForDrift
<1>1. Asked(origin) \in Int
  BY AskedType DEF MInv
<1>2. Replacing(origin) \in Nat
  BY ReplacingNat DEF MInv
<1>3. Wanted[origin] \in Nat /\ drift[origin] \in Int
  BY AmountsType DEF MInv
<1>4. Asked(origin) + Replacing(origin) <= Wanted[origin] + drift[origin]
  BY DEF MInv, Accounted
<1>5. Asked(origin) <= Wanted[origin] + drift[origin]
  BY <1>1, <1>2, <1>3, <1>4
<1> QED
  BY <1>5 DEF Asked

\* Whatever the monitor lists, cancels, loses replies of and places again while
\* the exchange executes its orders, an order and its replacements never ask for
\* more than was wanted, but for what was executed between a list and the
\* cancellation that follows it (orderMonitor, cmd/bot/main.go).
THEOREM OrderedOnce == BotSpec => []OrderedOnceButForDrift
<1>1. BotInit => MInv
  BY InitAccounted DEF BotInit
<1>2. MInv /\ [BotNext]_allVars => MInv'
  <2>1. [BotNext]_allVars => [List \/ Monitor \/ Exchange]_ordersVars
    BY DEF BotNext, MonitorTick, allVars, ordersVars
  <2> QED
    BY <2>1, OrdersNext
<1> QED
  BY <1>1, <1>2, AccountedImpliesOnce, PTL DEF BotSpec
=============================================================================
