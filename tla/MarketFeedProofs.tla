--------------------------- MODULE MarketFeedProofs ---------------------------
(***************************************************************************)
(* Theorems about the order book and its readers, for any prices, amounts, *)
(* books of the exchange, depth and channel capacity, and any number of    *)
(* updates.                                                                *)
(***************************************************************************)
EXTENDS MarketFeed, TLAPS

USE FeedAssumption

-----------------------------------------------------------------------------
(***************************************************************************)
(* Books and the updates between them.                                     *)
(***************************************************************************)
LEMMA NoLevelsType == NoLevels \in Levels
<1>1. NoLevels \in [{} -> Amounts]
  BY DEF NoLevels
<1> QED
  BY <1>1 DEF Levels

LEMMA LevelsDomain ==
  ASSUME NEW side \in Levels
  PROVE  DOMAIN side \in SUBSET Prices /\ side \in [DOMAIN side -> Amounts]
BY DEF Levels

\* An update names the levels that differ; a change of 0 deletes one.
LEMMA ChangesType ==
  ASSUME NEW old \in Levels, NEW new \in Levels
  PROVE  /\ DOMAIN Changes(old, new) =
              {p \in DOMAIN old \cup DOMAIN new :
                 ~(p \in DOMAIN old \cap DOMAIN new /\ old[p] = new[p])}
         /\ \A p \in DOMAIN Changes(old, new) :
              Changes(old, new)[p] = IF p \in DOMAIN new THEN new[p] ELSE 0
BY DEF Changes

\* A side of the bot's book is still one after the update, and its levels are
\* those of the new book if they were those of the old one.
LEMMA MergeType ==
  ASSUME NEW side \in Levels, NEW old \in Levels, NEW new \in Levels,
         \A p \in DOMAIN side : p \in DOMAIN old /\ side[p] = old[p]
  PROVE  LET merged == Merge(side, Changes(old, new))
         IN  /\ merged \in Levels
             /\ \A p \in DOMAIN merged : p \in DOMAIN new /\ merged[p] = new[p]
<1> DEFINE ch == Changes(old, new)
           merged == Merge(side, ch)
           P == (DOMAIN side \ DOMAIN ch) \cup {p \in DOMAIN ch : ch[p] # 0}
<1>1. /\ DOMAIN ch = {p \in DOMAIN old \cup DOMAIN new :
                        ~(p \in DOMAIN old \cap DOMAIN new /\ old[p] = new[p])}
      /\ \A p \in DOMAIN ch : ch[p] = IF p \in DOMAIN new THEN new[p] ELSE 0
  BY DEF Changes
<1>2. DOMAIN merged = P /\ \A p \in P : merged[p] = IF p \in DOMAIN ch THEN ch[p] ELSE side[p]
  BY DEF Merge
<1>3. merged = [p \in P |-> merged[p]]
  BY DEF Merge
<1> HIDE DEF ch, merged
<1>4. \A p \in P : p \in DOMAIN new /\ merged[p] = new[p]
  <2> SUFFICES ASSUME NEW p \in P PROVE p \in DOMAIN new /\ merged[p] = new[p]
    OBVIOUS
  <2>1. CASE p \in DOMAIN ch
    BY <1>1, <1>2, <2>1
  <2>2. CASE p \notin DOMAIN ch
    <3>1. p \in DOMAIN side /\ p \in DOMAIN old /\ side[p] = old[p]
      BY <2>2
    <3>2. p \in DOMAIN new /\ old[p] = new[p]
      BY <1>1, <2>2, <3>1
    <3> QED
      BY <1>2, <2>2, <3>1, <3>2
  <2> QED
    BY <2>1, <2>2
<1>5. P \in SUBSET Prices /\ \A p \in P : merged[p] \in Amounts
  BY <1>4, LevelsDomain
<1>6. merged \in [P -> Amounts]
  BY <1>3, <1>5
<1>7. merged \in Levels
  BY <1>5, <1>6 DEF Levels
<1> QED
  BY <1>2, <1>4, <1>7 DEF ch, merged

\* Amounts are positive: the imbalance looks at all levels, and at the best
\* prices that BestBid and BestAsk find.
LEMMA SolidIsAll ==
  ASSUME NEW side \in Levels
  PROVE  Solid(side) = side
<1>1. {p \in DOMAIN side : side[p] > 0} = DOMAIN side
  BY LevelsDomain
<1>2. side = [p \in DOMAIN side |-> side[p]]
  BY LevelsDomain
<1>3. Solid(side) = [p \in DOMAIN side |-> side[p]]
  BY <1>1 DEF Solid, Restrict
<1> QED
  BY <1>2, <1>3

LEMMA QuotePrices ==
  ASSUME NEW b \in Books
  PROVE  Quote(b).bid = BestBid(b) /\ Quote(b).ask = BestAsk(b)
<1>1. b.bids \in Levels /\ b.asks \in Levels
  BY DEF Books
<1>2. Solid(b.bids) = b.bids /\ Solid(b.asks) = b.asks
  BY <1>1, SolidIsAll
<1> QED
  BY <1>2 DEF Quote, BestBid, BestAsk

-----------------------------------------------------------------------------
(***************************************************************************)
(* The book.                                                               *)
(***************************************************************************)
\* The levels of a side are those of the exchange's book, if it has them.
Current(side, now) == \A p \in DOMAIN side : p \in DOMAIN now /\ side[p] = now[p]

BookInv ==
    /\ known \in Books
    /\ feed \in Seq(Books)
    /\ past \in Seq(Books) /\ past # <<>>
    /\ Current(book.bids, known.bids) /\ Current(book.asks, known.asks)

LEMMA BookType == BookInv => Len(past) \in Nat \ {0} /\ book \in Books /\ book.bids \in Levels /\ book.asks \in Levels
<1> SUFFICES ASSUME BookInv PROVE Len(past) \in Nat \ {0} /\ book \in Books
  BY DEF Books
<1> QED
  BY DEF BookInv, book

LEMMA InitBook == Init => BookInv
<1> SUFFICES ASSUME Init PROVE BookInv
  OBVIOUS
<1>1. EmptyBook \in Books
  BY NoLevelsType DEF EmptyBook, Books
<1>2. past = <<EmptyBook>> /\ past \in Seq(Books) /\ past # <<>> /\ book = EmptyBook
  BY <1>1 DEF Init, book
<1>3. Current(book.bids, known.bids) /\ Current(book.asks, known.asks)
  BY <1>2 DEF EmptyBook, NoLevels, Current
<1> QED
  BY <1>2, <1>3 DEF Init, BookInv

\* What an update leaves: one more book, made by Merge.
LEMMA UpdateBook ==
  ASSUME BookInv, feed # <<>>, ApplyUpdate
  PROVE  /\ BookInv'
         /\ Len(past') = Len(past) + 1
         /\ \A n \in 1 .. Len(past) : past'[n] = past[n]
<1> DEFINE now == Head(feed)
           next == [bids |-> Merge(book.bids, Changes(known.bids, now.bids)),
                    asks |-> Merge(book.asks, Changes(known.asks, now.asks))]
<1>1. now \in Books /\ feed' \in Seq(Books) /\ known' = now /\ past' = Append(past, next)
  BY DEF BookInv, ApplyUpdate
<1>2. /\ known.bids \in Levels /\ known.asks \in Levels
      /\ now.bids \in Levels /\ now.asks \in Levels
      /\ book.bids \in Levels /\ book.asks \in Levels
  BY <1>1, BookType DEF BookInv, Books
<1> HIDE DEF now
<1>3. next.bids \in Levels /\ Current(next.bids, now.bids)
  BY <1>2, MergeType DEF BookInv, Current
<1>4. next.asks \in Levels /\ Current(next.asks, now.asks)
  BY <1>2, MergeType DEF BookInv, Current
<1>5. next \in Books
  BY <1>3, <1>4 DEF Books
<1> HIDE DEF next
<1>6. /\ past' \in Seq(Books) /\ past' # <<>> /\ Len(past') = Len(past) + 1
      /\ past'[Len(past')] = next
      /\ \A n \in 1 .. Len(past) : past'[n] = past[n]
  BY <1>1, <1>5, BookType DEF BookInv
<1>7. book' = next
  BY <1>6 DEF book
<1> QED
  BY <1>1, <1>3, <1>4, <1>6, <1>7 DEF BookInv

LEMMA OthersKeepBook ==
  ASSUME BookInv, [Next]_vars, ~ApplyUpdate
  PROVE  BookInv' /\ UNCHANGED past
<1>1. UNCHANGED <<known, past>> /\ feed' \in Seq(Books)
  <2>1. CASE Publish
    BY <2>1 DEF Publish, BookInv
  <2>2. CASE Lock \/ Receive \/ UNCHANGED vars
    BY <2>2 DEF Lock, Receive, exchange, BookInv, vars
  <2>3. CASE (Calculator \/ Monitor) /\ UNCHANGED <<exchange, past>>
    BY <2>3 DEF exchange, BookInv
  <2> QED
    BY <2>1, <2>2, <2>3 DEF Next
<1> QED
  BY <1>1 DEF BookInv, book

-----------------------------------------------------------------------------
(***************************************************************************)
(* The calculator's locks.  A place comes with the number of read locks    *)
(* the calculator has there, once it is no longer held back.               *)
(***************************************************************************)
Places == {"idle", "lockBid", "bid", "lockAsk", "ask", "done", "lockObi", "obi", "send"}

Locks(place) ==
    CASE place \in {"bid", "ask"} -> 2
      [] place \in {"lockBid", "lockAsk", "done", "obi"} -> 1
      [] OTHER -> 0

\* It has one less while it is held back, which happens where it asked for one.
LockInv ==
    /\ pc \in [Readers -> Places]
    /\ holds \in [Readers -> Int]
    /\ queued \subseteq Readers
    /\ waiting => feed # <<>>
    /\ holds["calculator"] = Locks(pc["calculator"])
                               - (IF "calculator" \in queued THEN 1 ELSE 0)
    /\ "calculator" \in queued => pc["calculator"] \in {"lockBid", "bid", "ask", "obi"}

\* What the calculator has read belongs to the book it still has the lock of, or
\* to the one it released last.
Read(bid, ask) == quote["calculator"] = [bid |-> bid, ask |-> ask, imbalance |-> <<0, 0>>]

QuoteInv ==
    /\ DOMAIN quote = Readers
    /\ pc["calculator"] \in {"idle", "lockBid", "bid"} => Read(0, 0)
    /\ pc["calculator"] \in {"lockAsk", "ask"} =>
           since = Len(past) /\ Read(BestBid(book), 0)
    /\ pc["calculator"] = "done" =>
           since = Len(past) /\ Read(BestBid(book), BestAsk(book))
    /\ pc["calculator"] \in {"lockObi", "obi"} =>
           since \in 1 .. Len(past) /\ Read(BestBid(past[since]), BestAsk(past[since]))
    /\ pc["calculator"] = "send" => since \in 1 .. Len(past)
    /\ ResultIsOneBook

IInv == BookInv /\ LockInv /\ QuoteInv

LEMMA InitReaders == Init => LockInv /\ QuoteInv
  BY DEF Init, LockInv, QuoteInv, Read, NoQuote, Readers, Places, Locks, ResultIsOneBook

\* The book changes only when nobody has a lock: at places where the prices, if
\* there are any, are those of an older book.
LEMMA UpdateReaders ==
  ASSUME IInv, ApplyUpdate
  PROVE  IInv'
<1>1. /\ waiting /\ holds["calculator"] = 0
      /\ waiting' = FALSE /\ queued' = {}
      /\ holds' = [r \in Readers |-> IF r \in queued THEN 1 ELSE 0]
      /\ UNCHANGED <<pc, quote, since>>
  BY DEF ApplyUpdate, Readers
<1>2. BookInv' /\ Len(past') = Len(past) + 1 /\ \A n \in 1 .. Len(past) : past'[n] = past[n]
  BY <1>1, UpdateBook DEF IInv, LockInv
<1>3. pc["calculator"] \in {"idle", "lockObi", "send"} \/
        (pc["calculator"] \in {"lockBid", "obi"} /\ "calculator" \in queued)
  BY <1>1 DEF IInv, LockInv, Locks, Places, Readers
<1>4. LockInv'
  BY <1>1, <1>3 DEF IInv, LockInv, Locks, Readers
<1>5. Len(past) \in Nat
  BY BookType DEF IInv
<1>6. QuoteInv'
  BY <1>1, <1>2, <1>3, <1>5 DEF IInv, QuoteInv, Read, ResultIsOneBook
<1> QED
  BY <1>2, <1>4, <1>6 DEF IInv

-----------------------------------------------------------------------------
(***************************************************************************)
(* The calculator's steps.                                                 *)
(***************************************************************************)
LEMMA LocksType ==
  ASSUME NEW place \in Places
  PROVE  Locks(place) \in Int
BY DEF Places, Locks

\* It asks for a lock and goes on to the next place.
LEMMA AskForLock ==
  ASSUME LockInv, NEW here \in Places, NEW there \in {"lockBid", "bid", "ask", "obi"},
         At("calculator", here), RLock("calculator"), GoTo("calculator", there),
         Locks(there) = Locks(here) + 1, UNCHANGED feed
  PROVE  LockInv'
<1>1. /\ "calculator" \notin queued /\ holds["calculator"] = Locks(here)
      /\ Locks(here) \in Int /\ "calculator" \in Readers
  BY LocksType DEF LockInv, At, Readers
<1>2. pc' \in [Readers -> Places] /\ pc'["calculator"] = there
  BY <1>1 DEF LockInv, GoTo, Places
<1>3. CASE waiting
  <2>1. queued' = queued \cup {"calculator"} /\ holds' = holds /\ waiting' = waiting
    BY <1>3 DEF RLock
  <2>2. holds'["calculator"] = Locks(pc'["calculator"]) - 1
    BY <1>1, <1>2, <2>1
  <2> QED
    BY <1>1, <1>2, <2>1, <2>2 DEF LockInv
<1>4. CASE ~waiting
  <2>1. queued' = queued /\ holds' = [holds EXCEPT !["calculator"] = @ + 1] /\ waiting' = waiting
    BY <1>4 DEF RLock
  <2>2. /\ holds' \in [Readers -> Int]
        /\ holds'["calculator"] = Locks(pc'["calculator"]) - 0
    BY <1>1, <1>2, <2>1 DEF LockInv
  <2> QED
    BY <1>1, <1>2, <2>1, <2>2 DEF LockInv
<1> QED
  BY <1>3, <1>4

\* It releases one.
LEMMA ReleaseLock ==
  ASSUME LockInv, NEW here \in Places, NEW there \in Places,
         At("calculator", here), RUnlock("calculator"), GoTo("calculator", there),
         Locks(there) = Locks(here) - 1, UNCHANGED feed
  PROVE  LockInv'
<1>1. /\ "calculator" \notin queued /\ holds["calculator"] = Locks(here)
      /\ Locks(here) \in Int /\ "calculator" \in Readers
  BY LocksType DEF LockInv, At, Readers
<1>2. pc' \in [Readers -> Places] /\ pc'["calculator"] = there
  BY <1>1 DEF LockInv, GoTo
<1>3. queued' = queued /\ holds' = [holds EXCEPT !["calculator"] = @ - 1] /\ waiting' = waiting
  BY DEF RUnlock
<1>4. /\ holds' \in [Readers -> Int]
      /\ holds'["calculator"] = Locks(pc'["calculator"]) - 0
  BY <1>1, <1>2, <1>3 DEF LockInv
<1> QED
  BY <1>1, <1>2, <1>3, <1>4 DEF LockInv

LEMMA CalculatorKeeps ==
  ASSUME IInv, Calculator, UNCHANGED <<exchange, past>>
  PROVE  IInv'
<1>1. BookInv' /\ book' = book /\ feed' = feed /\ past' = past
  BY DEF IInv, BookInv, book, exchange
<1>2. Len(past) \in Nat \ {0} /\ book = past[Len(past)] /\ past \in Seq(Books)
  BY BookType DEF IInv, BookInv, book
<1> HIDE DEF book
<1>3. LockInv /\ QuoteInv
  BY DEF IInv
<1>4. pc \in [Readers -> Places] /\ "calculator" \in Readers
  BY <1>3 DEF LockInv, Readers
<1> USE DEF QuoteInv, Read, ResultIsOneBook
<1>5. CASE Calculate
  <2>1. LockInv'
    BY <1>1, <1>3, <1>5, AskForLock DEF Calculate, Places, Locks
  <2>2. pc["calculator"] = "idle" /\ pc'["calculator"] = "lockBid" /\ UNCHANGED <<quote, since>>
    BY <1>4, <1>5 DEF Calculate, At, GoTo
  <2>3. QuoteInv'
    BY <1>3, <2>2
  <2> QED
    BY <1>1, <2>1, <2>3 DEF IInv
<1>6. CASE LockPrice("calculator", "lockBid", "bid")
  <2>1. LockInv'
    BY <1>1, <1>3, <1>6, AskForLock DEF LockPrice, Places, Locks
  <2>2. pc["calculator"] = "lockBid" /\ pc'["calculator"] = "bid" /\ UNCHANGED <<quote, since>>
    BY <1>4, <1>6 DEF LockPrice, At, GoTo
  <2>3. QuoteInv'
    BY <1>3, <2>2
  <2> QED
    BY <1>1, <2>1, <2>3 DEF IInv
<1>7. CASE ReadBid("calculator")
  <2>1. LockInv'
    BY <1>1, <1>3, <1>7, ReleaseLock DEF ReadBid, Places, Locks
  <2>2. /\ pc["calculator"] = "bid" /\ pc'["calculator"] = "lockAsk" /\ since' = Len(past)
        /\ quote' = [quote EXCEPT !["calculator"].bid = BestBid(book)]
    BY <1>4, <1>7 DEF ReadBid, At, GoTo
  <2>3. QuoteInv'
    BY <1>1, <1>3, <1>4, <2>2
  <2> QED
    BY <1>1, <2>1, <2>3 DEF IInv
<1>8. CASE LockPrice("calculator", "lockAsk", "ask")
  <2>1. LockInv'
    BY <1>1, <1>3, <1>8, AskForLock DEF LockPrice, Places, Locks
  <2>2. pc["calculator"] = "lockAsk" /\ pc'["calculator"] = "ask" /\ UNCHANGED <<quote, since>>
    BY <1>4, <1>8 DEF LockPrice, At, GoTo
  <2>3. QuoteInv'
    BY <1>1, <1>3, <2>2
  <2> QED
    BY <1>1, <2>1, <2>3 DEF IInv
<1>9. CASE ReadAsk("calculator")
  <2>1. LockInv'
    BY <1>1, <1>3, <1>9, ReleaseLock DEF ReadAsk, AskRead, Places, Locks
  <2>2. /\ pc["calculator"] = "ask" /\ pc'["calculator"] = "done" /\ since' = since
        /\ quote' = [quote EXCEPT !["calculator"].ask = BestAsk(book)]
    BY <1>4, <1>9 DEF ReadAsk, AskRead, At, GoTo
  <2>3. QuoteInv'
    BY <1>1, <1>3, <1>4, <2>2
  <2> QED
    BY <1>1, <2>1, <2>3 DEF IInv
<1>10. CASE Unlock
  <2> DEFINE there == IF quote["calculator"].bid > 0 /\ quote["calculator"].ask > 0
                      THEN "lockObi" ELSE "idle"
  <2>1. /\ At("calculator", "done") /\ RUnlock("calculator") /\ GoTo("calculator", there)
        /\ since' = since
        /\ quote' = IF there = "lockObi" THEN quote ELSE [quote EXCEPT !["calculator"] = NoQuote]
    BY <1>10 DEF Unlock, Forget
  <2>2. there \in {"lockObi", "idle"}
    OBVIOUS
  <2> HIDE DEF there
  <2>3. LockInv'
    BY <1>1, <1>3, <2>1, <2>2, ReleaseLock DEF Places, Locks
  <2>4. pc["calculator"] = "done" /\ pc'["calculator"] = there
    BY <1>4, <2>1 DEF At, GoTo
  <2>5. QuoteInv'
    BY <1>1, <1>2, <1>3, <1>4, <2>1, <2>2, <2>4 DEF NoQuote
  <2> QED
    BY <1>1, <2>3, <2>5 DEF IInv
<1>11. CASE LockObi
  <2>1. LockInv'
    BY <1>1, <1>3, <1>11, AskForLock DEF LockObi, Places, Locks
  <2>2. pc["calculator"] = "lockObi" /\ pc'["calculator"] = "obi" /\ UNCHANGED <<quote, since>>
    BY <1>4, <1>11 DEF LockObi, At, GoTo
  <2>3. QuoteInv'
    BY <1>1, <1>3, <2>2
  <2> QED
    BY <1>1, <2>1, <2>3 DEF IInv
<1>12. CASE CalculateOBI
  <2>1. LockInv'
    BY <1>1, <1>3, <1>12, ReleaseLock DEF CalculateOBI, Places, Locks
  <2>2. pc["calculator"] = "obi" /\ pc'["calculator"] = "send" /\ since' = since
    BY <1>4, <1>12 DEF CalculateOBI, At, GoTo
  <2>3. \/ quote' = [quote EXCEPT !["calculator"] = Quote(book)]
        \/ quote' = [quote EXCEPT !["calculator"] = [@ EXCEPT !.imbalance = <<0, 0>>]]
    BY <1>12 DEF CalculateOBI
  <2>4. since \in 1 .. Len(past) /\ Read(BestBid(past[since]), BestAsk(past[since]))
    BY <1>3, <2>2
  <2>5. /\ Quote(past[since]).bid = BestBid(past[since])
        /\ Quote(past[since]).ask = BestAsk(past[since])
    BY <1>2, <2>4, QuotePrices
  <2>6. CASE quote' = [quote EXCEPT !["calculator"] = Quote(book)]
    <3>1. quote'["calculator"] = Quote(past[Len(past)])
      BY <1>2, <1>3, <1>4, <2>6
    <3>2. Len(past) \in since .. Len(past)
      BY <1>2, <2>4
    <3> QED
      BY <1>1, <1>2, <1>3, <2>1, <2>2, <2>4, <2>6, <3>1, <3>2 DEF IInv
  <2>7. CASE quote' = [quote EXCEPT !["calculator"] = [@ EXCEPT !.imbalance = <<0, 0>>]]
    <3>1. /\ quote'["calculator"].bid = BestBid(past[since])
          /\ quote'["calculator"].ask = BestAsk(past[since])
          /\ quote'["calculator"].imbalance = <<0, 0>>
      BY <1>3, <1>4, <2>4, <2>7
    <3>2. since \in since .. Len(past)
      BY <1>2, <2>4
    <3> QED
      BY <1>1, <1>3, <2>1, <2>2, <2>4, <2>5, <2>7, <3>1, <3>2 DEF IInv
  <2> QED
    BY <2>3, <2>6, <2>7
<1>13. CASE Send
  <2>1. /\ pc["calculator"] = "send" /\ pc' = [pc EXCEPT !["calculator"] = "idle"]
        /\ quote' = [quote EXCEPT !["calculator"] = NoQuote]
        /\ UNCHANGED <<waiting, holds, queued>>
        /\ "calculator" \notin queued
    BY <1>13 DEF Send, Forget, At, GoTo, lock
  <2>2. LockInv'
    BY <1>1, <1>3, <1>4, <2>1 DEF LockInv, Locks, Places
  <2>3. QuoteInv'
    BY <1>3, <1>4, <2>1 DEF NoQuote
  <2> QED
    BY <1>1, <2>2, <2>3 DEF IInv
<1> QED
  BY <1>5, <1>6, <1>7, <1>8, <1>9, <1>10, <1>11, <1>12, <1>13 DEF Calculator, BestPrices

-----------------------------------------------------------------------------
\* A monitor's step leaves the calculator's locks and prices alone.
LEMMA MonitorKeeps ==
  ASSUME IInv, Monitor, UNCHANGED <<exchange, past>>
  PROVE  IInv'
<1>1. BookInv' /\ book' = book /\ feed' = feed /\ past' = past
  BY DEF IInv, BookInv, book, exchange
<1>2. LockInv /\ QuoteInv /\ "monitor" \in Readers /\ "calculator" \in Readers
  BY DEF IInv, Readers
<1>3. /\ since' = since /\ waiting' = waiting
      /\ \E place \in Places : pc' = [pc EXCEPT !["monitor"] = place]
      /\ \/ holds' = holds \/ holds' = [holds EXCEPT !["monitor"] = @ + 1]
         \/ holds' = [holds EXCEPT !["monitor"] = @ - 1]
      /\ queued' \in {queued, queued \cup {"monitor"}}
      /\ DOMAIN quote' = DOMAIN quote /\ quote'["calculator"] = quote["calculator"]
  BY <1>2 DEF Monitor, MonitorTick, MonitorDone, Forget, BestPrices, LockPrice, ReadBid, ReadAsk,
              AskRead, GoTo, RLock, RUnlock, lock, Places, QuoteInv
<1>4. pc'["calculator"] = pc["calculator"] /\ holds'["calculator"] = holds["calculator"]
      /\ ("calculator" \in queued' <=> "calculator" \in queued)
  BY <1>2, <1>3 DEF LockInv
<1>5. LockInv'
  BY <1>1, <1>2, <1>3, <1>4 DEF LockInv
<1>6. QuoteInv'
  BY <1>1, <1>2, <1>3, <1>4 DEF QuoteInv, Read, ResultIsOneBook
<1> QED
  BY <1>1, <1>5, <1>6 DEF IInv

LEMMA InitInv == Init => IInv
  BY InitBook, InitReaders DEF IInv

LEMMA NextInv == IInv /\ [Next]_vars => IInv'
<1> SUFFICES ASSUME IInv, [Next]_vars PROVE IInv'
  OBVIOUS
<1>1. CASE ApplyUpdate
  BY <1>1, UpdateReaders
<1>2. CASE (Calculator \/ Monitor) /\ UNCHANGED <<exchange, past>>
  BY <1>2, CalculatorKeeps, MonitorKeeps
<1>3. CASE Publish \/ Lock \/ Receive \/ UNCHANGED vars
  <2>1. CASE ApplyUpdate
    BY <2>1, UpdateReaders
  <2>2. CASE ~ApplyUpdate
    <3>1. BookInv' /\ UNCHANGED <<past, holds, queued, pc, quote, since>>
      BY <1>3, <2>2, OthersKeepBook DEF IInv, Publish, Lock, Receive, vars, lock
    <3>2. waiting' => feed' # <<>>
      <4>1. waiting => feed # <<>>
        BY DEF IInv, LockInv
      <4>2. CASE Publish
        <5>1. PICK b \in Markets : feed' = Append(feed, b)
          BY <4>2 DEF Publish
        <5>2. b \in Books /\ feed \in Seq(Books)
          BY <5>1 DEF IInv, BookInv
        <5> QED
          BY <5>1, <5>2
      <4>3. CASE Lock \/ Receive \/ UNCHANGED vars
        BY <4>1, <4>3 DEF Lock, Receive, vars, lock, exchange
      <4> QED
        BY <1>3, <4>2, <4>3
    <3>3. LockInv'
      BY <3>1, <3>2 DEF IInv, LockInv
    <3>4. QuoteInv'
      BY <3>1 DEF IInv, QuoteInv, Read, ResultIsOneBook, book
    <3> QED
      BY <3>1, <3>3, <3>4 DEF IInv
  <2> QED
    BY <2>1, <2>2
<1> QED
  BY <1>1, <1>2, <1>3 DEF Next

LEMMA Invariance == Spec => []IInv
  BY InitInv, NextInv, PTL DEF Spec

-----------------------------------------------------------------------------
(***************************************************************************)
(* The theorems.                                                           *)
(***************************************************************************)
\* BookIsCurrent: no sequence of updates leaves a level behind that the
\* exchange's book no longer has.
THEOREM BookFollowsExchange == Spec => []BookIsCurrent
<1>1. IInv => BookIsCurrent
  BY DEF IInv, BookInv, BookIsCurrent, Current
<1> QED
  BY Invariance, <1>1, PTL

\* ResultIsOneBook: the locks of Calculate are enough to make each result one
\* book's, although the imbalance is read under another lock than the prices.
THEOREM ResultsAreConsistent == Spec => []ResultIsOneBook
<1>1. IInv => ResultIsOneBook
  BY DEF IInv, QuoteInv
<1> QED
  BY Invariance, <1>1, PTL
=============================================================================
