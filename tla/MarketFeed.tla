----------------------------- MODULE MarketFeed -----------------------------
(***************************************************************************)
(* The order book of the live bot and the goroutines that share it         *)
(* (internal/indicator/orderbook.go, obi.go).  The WebSocket reader applies *)
(* the exchange's differential updates under the write lock; the OBI       *)
(* calculator and the monitors read it under the read lock.  The lock is   *)
(* Go's sync.RWMutex, in which a writer that waits holds back every new    *)
(* reader, also one that holds the read lock already.                      *)
(*                                                                         *)
(* A book is a pair of maps from prices to amounts, and the exchange's own *)
(* book is never crossed.  A critical section is one step, taken when the  *)
(* lock has been obtained; obtaining a lock is a step of its own.          *)
(***************************************************************************)
EXTENDS Integers, Sequences, FiniteSets, Functions

CONSTANTS
    Prices,        \* the prices of the book, positive
    Amounts,       \* the amounts of a level, positive
    Markets,       \* what the exchange's book may be
    Depth,         \* the number of levels the imbalance looks at (8 and 16)
    Capacity,      \* of the calculator's output channel
    MaxUpdates     \* bound: updates the exchange publishes

VARIABLES
    feed,      \* the exchange's books that the reader has not received, oldest first
    known,     \* the exchange's book as of the last update received
    past,      \* the bot's book now, last, and all it has been before
    waiting,   \* the WebSocket reader waits for the write lock
    holds,     \* how many read locks each reader has
    queued,    \* the readers that the waiting writer holds back
    pc, quote, \* the readers' control states and what they have read
    since,     \* the version of the book when the calculator read the best bid
    output     \* the calculator's channel, whose results the signal loop takes

vars == <<feed, known, past, waiting, holds, queued, pc, quote, since, output>>
lock == <<waiting, holds, queued>>
exchange == <<feed, known>>

Readers == {"calculator", "monitor"}

-----------------------------------------------------------------------------
(***************************************************************************)
(* Books.                                                                  *)
(***************************************************************************)
Levels == UNION {[P -> Amounts] : P \in SUBSET Prices}
Books == [bids : Levels, asks : Levels]
Uncrossed(b) == \A p \in DOMAIN b.bids, q \in DOMAIN b.asks : p < q

ASSUME FeedAssumption ==
    /\ Prices \subseteq Nat \ {0} /\ IsFiniteSet(Prices)
    /\ Amounts \subseteq Nat \ {0}
    /\ Markets \subseteq Books /\ \A b \in Markets : Uncrossed(b)
    /\ Depth \in Nat \ {0} /\ Capacity \in Nat \ {0} /\ MaxUpdates \in Nat

NoLevels == [p \in {} |-> 0]
EmptyBook == [bids |-> NoLevels, asks |-> NoLevels]

Highest(P) == CHOOSE p \in P : \A q \in P : q <= p
Lowest(P) == CHOOSE p \in P : \A q \in P : p <= q
BestBid(b) == IF DOMAIN b.bids = {} THEN 0 ELSE Highest(DOMAIN b.bids)
BestAsk(b) == IF DOMAIN b.asks = {} THEN 0 ELSE Lowest(DOMAIN b.asks)

\* The levels of a side that differ between two books; a level that is gone
\* has the amount 0.
Changes(old, new) ==
    LET P == {p \in DOMAIN old \cup DOMAIN new :
                ~(p \in DOMAIN old \cap DOMAIN new /\ old[p] = new[p])}
    IN  [p \in P |-> IF p \in DOMAIN new THEN new[p] ELSE 0]

\* Mutant: a level is never deleted.
MergeForGood(side, changes) ==
    LET kept == {p \in DOMAIN changes : changes[p] # 0}
    IN  [p \in DOMAIN side \cup kept |-> IF p \in kept THEN changes[p] ELSE side[p]]

\* The update of ApplyUpdate on one side.
Merge(side, changes) ==
    LET P == (DOMAIN side \ DOMAIN changes)
               \cup {p \in DOMAIN changes : changes[p] # 0}
    IN  [p \in P |-> IF p \in DOMAIN changes THEN changes[p] ELSE side[p]]

\* CalculateOBI looks at the levels with a positive amount only, and there at the
\* Depth best ones.
Solid(side) == Restrict(side, {p \in DOMAIN side : side[p] > 0})
Total(side, Better(_, _)) ==
    FoldFunctionOnSet(+, 0, side,
        {p \in DOMAIN side : Cardinality({q \in DOMAIN side : Better(q, p)}) < Depth})

\* (bids - asks) / (bids + asks).
Imbalance(s) ==
    LET bids == Total(s.bids, >)
        asks == Total(s.asks, <)
    IN  <<bids - asks, bids + asks>>

\* The best prices and the imbalance.
Quote(b) ==
    LET s == [bids |-> Solid(b.bids), asks |-> Solid(b.asks)]
    IN  [bid |-> BestBid(s), ask |-> BestAsk(s), imbalance |-> Imbalance(s)]

NoQuote == [bid |-> 0, ask |-> 0, imbalance |-> <<0, 0>>]

book == past[Len(past)]

-----------------------------------------------------------------------------
(***************************************************************************)
(* The exchange and the WebSocket reader.                                  *)
(***************************************************************************)
\* The exchange's own book.
remote == IF feed = <<>> THEN known ELSE feed[Len(feed)]

\* The exchange's book changes, and it publishes the change.
Publish ==
    /\ Len(past) + Len(feed) <= MaxUpdates
    /\ \E b \in Markets \ {remote} : feed' = Append(feed, b)
    /\ UNCHANGED <<known, past, lock, pc, quote, since, output>>

\* ApplyUpdate asks for the write lock; from here on no reader gets in.
Lock ==
    /\ feed # <<>> /\ ~waiting
    /\ waiting' = TRUE
    /\ UNCHANGED <<exchange, past, holds, queued, pc, quote, since, output>>

\* It gets the lock when the readers have left, applies the update, and unlocks:
\* the readers it held back have their lock.
ApplyUpdate ==
    /\ waiting
    /\ \A r \in Readers : holds[r] = 0
    /\ past' = Append(past,
          [bids |-> Merge(book.bids, Changes(known.bids, Head(feed).bids)),
           asks |-> Merge(book.asks, Changes(known.asks, Head(feed).asks))])
    /\ known' = Head(feed)
    /\ feed' = Tail(feed)
    /\ waiting' = FALSE
    /\ holds' = [r \in Readers |-> IF r \in queued THEN 1 ELSE 0]
    /\ queued' = {}
    /\ UNCHANGED <<pc, quote, since, output>>

-----------------------------------------------------------------------------
(***************************************************************************)
(* The readers.                                                            *)
(***************************************************************************)
At(r, l) == pc[r] = l /\ r \notin queued
GoTo(r, l) == pc' = [pc EXCEPT ![r] = l]

RLock(r) ==
    /\ IF waiting THEN queued' = queued \cup {r} /\ UNCHANGED holds
       ELSE holds' = [holds EXCEPT ![r] = @ + 1] /\ UNCHANGED queued
    /\ UNCHANGED waiting

RUnlock(r) ==
    /\ holds' = [holds EXCEPT ![r] = @ - 1]
    /\ UNCHANGED <<waiting, queued>>

\* BestBid and BestAsk take the read lock, look at the book, and release it.
LockPrice(r, at, next) == At(r, at) /\ RLock(r) /\ GoTo(r, next) /\ UNCHANGED <<quote, since>>
ReadBid(r) ==
    /\ At(r, "bid")
    /\ quote' = [quote EXCEPT ![r].bid = BestBid(book)]
    /\ since' = IF r = "calculator" THEN Len(past) ELSE since
    /\ RUnlock(r)
    /\ GoTo(r, "lockAsk")

AskRead(r) == quote' = [quote EXCEPT ![r].ask = BestAsk(book)] /\ GoTo(r, "done")

\* Mutant: the lock is not released.
ReadAskKeepsLock(r) == At(r, "ask") /\ AskRead(r) /\ UNCHANGED <<lock, since>>

ReadAsk(r) == At(r, "ask") /\ AskRead(r) /\ RUnlock(r) /\ UNCHANGED since

BestPrices(r) ==
    /\ \/ LockPrice(r, "lockBid", "bid") \/ ReadBid(r)
       \/ LockPrice(r, "lockAsk", "ask") \/ ReadAsk(r)
    /\ UNCHANGED output

\* A round of a reader ends; what it has read goes out of scope.
Forget(r) == GoTo(r, "idle") /\ quote' = [quote EXCEPT ![r] = NoQuote]

\* The order monitor and the position monitor look at the prices only.
MonitorTick == At("monitor", "idle") /\ GoTo("monitor", "lockBid") /\ UNCHANGED quote
MonitorDone == At("monitor", "done") /\ Forget("monitor")

\* Calculate: a read lock around BestBid and BestAsk ...
Calculate ==
    /\ At("calculator", "idle")
    /\ RLock("calculator")
    /\ GoTo("calculator", "lockBid")
    /\ UNCHANGED <<quote, since, output>>
\* ... and no calculation without prices on both sides.
Unlock ==
    /\ At("calculator", "done")
    /\ RUnlock("calculator")
    /\ IF quote["calculator"].bid > 0 /\ quote["calculator"].ask > 0
       THEN GoTo("calculator", "lockObi") /\ UNCHANGED quote
       ELSE Forget("calculator")
    /\ UNCHANGED <<since, output>>
LockObi ==
    /\ At("calculator", "lockObi")
    /\ RLock("calculator")
    /\ GoTo("calculator", "obi")
    /\ UNCHANGED <<quote, since, output>>

\* Mutant: the prices read before stand in any case.
CalculateOBIWithOldPrices ==
    /\ At("calculator", "obi")
    /\ quote' = [quote EXCEPT !["calculator"].imbalance = Quote(book).imbalance]
    /\ RUnlock("calculator")
    /\ GoTo("calculator", "send")
    /\ UNCHANGED <<since, output>>

\* CalculateOBI; where it finds a side empty by now, the prices read before stand.
CalculateOBI ==
    /\ At("calculator", "obi")
    /\ LET q == Quote(book)
       IN  quote' = [quote EXCEPT !["calculator"] =
             IF q.bid > 0 /\ q.ask > 0 THEN q ELSE [@ EXCEPT !.imbalance = <<0, 0>>]]
    /\ RUnlock("calculator")
    /\ GoTo("calculator", "send")
    /\ UNCHANGED <<since, output>>

\* The result is dropped when the channel is full.
Send ==
    /\ At("calculator", "send")
    /\ output' = IF Len(output) < Capacity THEN Append(output, quote["calculator"]) ELSE output
    /\ Forget("calculator")
    /\ UNCHANGED <<lock, since>>

\* The signal loop's goroutine: it hands each result to marketState.setOBI.
Receive ==
    /\ output # <<>>
    /\ output' = Tail(output)
    /\ UNCHANGED <<exchange, past, lock, pc, quote, since>>

Calculator ==
    \/ Calculate \/ Unlock \/ LockObi \/ CalculateOBI \/ Send
    \/ BestPrices("calculator")

Monitor ==
    \/ (MonitorTick \/ MonitorDone) /\ UNCHANGED <<lock, since, output>>
    \/ BestPrices("monitor")

-----------------------------------------------------------------------------
\* The live bot starts from an empty book, whatever the exchange's book is.
Init ==
    /\ known \in Markets
    /\ feed = <<>>
    /\ past = <<EmptyBook>>
    /\ waiting = FALSE
    /\ holds = [r \in Readers |-> 0]
    /\ queued = {}
    /\ pc = [r \in Readers |-> "idle"]
    /\ quote = [r \in Readers |-> NoQuote]
    /\ since = 1
    /\ output = <<>>

Next ==
    \/ Publish \/ Lock \/ ApplyUpdate \/ Receive
    \/ (Calculator \/ Monitor) /\ UNCHANGED <<exchange, past>>

Spec == Init /\ [][Next]_vars

\* The Go scheduler runs a goroutine that can run.  Nothing is assumed of the
\* exchange or of the tickers.
InProgress(r, step) == pc[r] # "idle" /\ step /\ UNCHANGED <<exchange, past>>
Fairness ==
    /\ WF_vars(Lock) /\ WF_vars(ApplyUpdate)
    /\ WF_vars(InProgress("calculator", Calculator))
    /\ WF_vars(InProgress("monitor", Monitor))

FairSpec == Spec /\ Fairness

-----------------------------------------------------------------------------
(***************************************************************************)
(* Properties.                                                             *)
(***************************************************************************)
\* The bot's book shows no level that the exchange's book did not have when it
\* sent the last update: nothing executed or withdrawn is left behind, and the
\* bot's book is never crossed.
BookIsCurrent ==
    \A side \in {"bids", "asks"} : \A p \in DOMAIN book[side] :
        p \in DOMAIN known[side] /\ book[side][p] = known[side][p]

\* A result is one book's, of some moment during its calculation: both prices,
\* and the imbalance too unless it could not be calculated.  Prices of two books
\* could be crossed, or show a spread that never was.
ResultIsOneBook ==
    pc["calculator"] = "send" =>
        \E n \in since..Len(past) :
            LET q == quote["calculator"]
                then == Quote(past[n])
            IN  /\ q.bid = then.bid /\ q.ask = then.ask
                /\ q.imbalance \in {then.imbalance, <<0, 0>>}

\* The calculator asks for the read lock it holds, behind a writer that waits
\* for it to be released.
Stuck == waiting /\ "calculator" \in queued /\ holds["calculator"] > 0

\* Nothing but this nested lock blocks: otherwise an update that was received is
\* applied, a calculation ends, and so does a monitor's look at the book.
OnlyNestedLockBlocks ==
    /\ waiting ~> ~waiting \/ Stuck
    /\ \A r \in Readers : pc[r] # "idle" ~> pc[r] = "idle" \/ Stuck

-----------------------------------------------------------------------------
\* "OrderBook represents a thread-safe order book" (indicator/orderbook.go:22):
\* an update that the reader has received is applied.
UpdatesApplied == waiting ~> ~waiting
=============================================================================
