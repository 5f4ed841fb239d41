-------------------------- MODULE LiveEngineProofs --------------------------
(***************************************************************************)
(* Theorems about LiveEngine, for every set of callers, every set of       *)
(* requests, every bound and every risk limit.                             *)
(*                                                                         *)
(* The inductive invariant IInv adds to the types what the locals of a     *)
(* call say about the order it follows: the order was accepted, no other   *)
(* call follows it, and nothing has been recorded of it yet.  BInv adds    *)
(* where a realized PnL is between its two locked updates, and LInv and    *)
(* RInv the yen each order moves and what a checked order may still cost.  *)
(***************************************************************************)
EXTENDS LiveEngine, ArithmeticProofs

USE CallersAssumption, RequestsAssumption, BoundAssumption, BalanceAssumption, RiskAssumption

-----------------------------------------------------------------------------
(***************************************************************************)
(* Types.                                                                  *)
(***************************************************************************)
\* The locals a label needs are there: a call that follows an order has been
\* given its identifier.
FollowsPlaced ==
    \A c \in Callers :
        call[c].pc \in {"monitor", "book", "record"} => call[c].ord \in 1..placed

LEMMA RequestType == \A r \in Requests : r \in Request
  BY DEF Request

LEMMA IdleType == Idle \in CallType
  BY DEF Idle, CallType, Label, Request, Account, Orders, NoOrder, ZeroYen, Frac

LEMMA AccountOps ==
  ASSUME NEW a \in Account, NEW r, r.side \in {"buy", "sell"}, r.rate \in Nat, NEW q \in Int
  PROVE  /\ Minus(a, Reserved(r, q)) \in Account
         /\ Plus(a, Reserved(r, q)) \in Account
         /\ Plus(a, Gained(r, q)) \in Account
  BY DEF Account, Minus, Plus, Reserved, Gained

LEMMA GotoType ==
  ASSUME TypeOK, NEW c \in Callers, NEW label \in Label, Goto(c, label)
  PROVE  call' \in [Callers -> CallType]
  BY DEF TypeOK, CallType, Goto

LEMMA ReturnType ==
  ASSUME TypeOK, NEW c \in Callers, Return(c)
  PROVE  call' \in [Callers -> CallType]
  BY IdleType DEF TypeOK, Return

LEMMA AcceptType ==
  ASSUME TypeOK, NEW r \in Request, Accept(r)
  PROVE  /\ orders' \in [Orders -> OrderType]
         /\ placed' \in 0..MaxOrders
         /\ placed + 1 \in Orders
         /\ account' \in Account
<1>1. placed + 1 \in Orders /\ placed' \in 0..MaxOrders
  BY DEF TypeOK, Accept, Orders
<1>2. [side |-> r.side, amount |-> r.amount, rate |-> r.rate, filled |-> 0,
       status |-> "open"] \in OrderType
  BY DEF Request, OrderType, Status
<1>3. account' \in Account
  BY AccountOps DEF TypeOK, Accept, Request
<1> QED
  BY <1>1, <1>2, <1>3 DEF TypeOK, Accept

LEMMA TakeOffType ==
  ASSUME TypeOK, NEW o \in Orders, TakeOff(o)
  PROVE  orders' \in [Orders -> OrderType] /\ account' \in Account
<1>1. orders[o] \in OrderType /\ account \in Account
  BY DEF TypeOK
<1>2. CASE orders[o].status = "open"
  <2>1. orders[o].amount - orders[o].filled \in Int /\ orders[o].rate \in Nat
        /\ orders[o].side \in {"buy", "sell"}
    BY <1>1 DEF OrderType
  <2>2. account' \in Account
    BY <1>1, <1>2, <2>1, AccountOps DEF TakeOff
  <2>3. [orders[o] EXCEPT !.status = "cancelled"] \in OrderType
    BY <1>1 DEF OrderType, Status
  <2> QED
    BY <1>2, <2>2, <2>3 DEF TypeOK, TakeOff
<1>3. CASE orders[o].status # "open"
  BY <1>3 DEF TypeOK, TakeOff
<1> QED
  BY <1>2, <1>3

LEMMA SignedAmountType ==
  ASSUME TypeOK, NEW o \in Orders
  PROVE  SignedAmount(o) \in Int \ {0} /\ orders[o].rate \in Nat
<1>1. orders[o] \in OrderType
  BY DEF TypeOK
<1>2. orders[o].amount \in Nat \ {0} /\ orders[o].rate \in Nat
  BY <1>1 DEF OrderType
<1> QED
  BY <1>2 DEF SignedAmount

LEMMA InitType == Init => TypeOK /\ FollowsPlaced
<1> SUFFICES ASSUME Init PROVE TypeOK /\ FollowsPlaced
  OBVIOUS
<1>1. TypeOK
  <2>1. Unplaced \in OrderType
    BY DEF Unplaced, OrderType, Status
  <2>2. Flat \in PositionType /\ ZeroYen \in Frac
    BY DEF Flat, PositionType, ZeroYen, Frac
  <2>3. [jpy |-> InitJpy, btc |-> InitBtc] \in Account
    BY DEF Account
  <2>4. placed \in 0..MaxOrders
    BY DEF Init
  <2>5. [booked |-> 0, cancelled |-> 0] \in [booked : Nat, cancelled : Nat]
    OBVIOUS
  <2> QED
    BY <2>1, <2>2, <2>3, <2>4, <2>5, IdleType DEF Init, TypeOK
<1>2. FollowsPlaced
  BY DEF Init, FollowsPlaced, Idle
<1> QED
  BY <1>1, <1>2

\* Every step keeps the types.
LEMMA TypeStep == TypeOK /\ FollowsPlaced /\ [Next]_vars => TypeOK'
<1> SUFFICES ASSUME TypeOK, FollowsPlaced, [Next]_vars PROVE TypeOK'
  OBVIOUS
<1> USE DEF exchange, books
<1>0. 1..placed \subseteq Orders
  BY DEF TypeOK, Orders
<1>1. ASSUME NEW c \in Callers, Call(c) PROVE TypeOK'
  <2>1. PICK r \in Requests :
          call' = [call EXCEPT ![c] = [Idle EXCEPT !.pc = "drawdown", !.req = r, !.bal = account]]
    BY <1>1 DEF Call
  <2>2. [Idle EXCEPT !.pc = "drawdown", !.req = r, !.bal = account] \in CallType
    BY IdleType, RequestType DEF TypeOK, CallType, Label
  <2> QED
    BY <1>1, <2>1, <2>2 DEF TypeOK, Call
<1>2. ASSUME NEW c \in Callers, CheckDrawdown(c) PROVE TypeOK'
  <2>1. call' \in [Callers -> CallType]
    BY <1>2, GotoType, ReturnType DEF CheckDrawdown, Check, Label
  <2> QED
    BY <1>2, <2>1 DEF TypeOK, CheckDrawdown, Check
<1>3. ASSUME NEW c \in Callers, CheckPosition(c) PROVE TypeOK'
  <2>1. call' \in [Callers -> CallType]
    BY <1>3, GotoType, ReturnType DEF CheckPosition, Check, Label
  <2> QED
    BY <1>3, <2>1 DEF TypeOK, CheckPosition, Check
<1>4. ASSUME NEW c \in Callers, SubmitAccepted(c) PROVE TypeOK'
  <2>1. call[c].req \in Request /\ Accept(call[c].req)
    BY <1>4 DEF TypeOK, CallType, SubmitAccepted
  <2>2. [Idle EXCEPT !.pc = "monitor", !.ord = placed + 1] \in CallType
    BY <2>1, AcceptType, IdleType DEF CallType, Label
  <2>3. call' \in [Callers -> CallType]
    BY <1>4, <2>2 DEF TypeOK, SubmitAccepted
  <2> QED
    BY <1>4, <2>1, <2>3, AcceptType DEF TypeOK, SubmitAccepted
<1>5. ASSUME NEW c \in Callers, SubmitReplyLost(c) PROVE TypeOK'
  <2>1. call[c].req \in Request /\ Accept(call[c].req)
    BY <1>5 DEF TypeOK, CallType, SubmitReplyLost
  <2>2. call' \in [Callers -> CallType]
    BY <1>5, ReturnType DEF SubmitReplyLost
  <2>3. lost' \subseteq Orders
    BY <1>5, <2>1, AcceptType DEF TypeOK, SubmitReplyLost
  <2> QED
    BY <1>5, <2>1, <2>2, <2>3, AcceptType DEF TypeOK, SubmitReplyLost
<1>6. ASSUME NEW c \in Callers, SubmitRefused(c) PROVE TypeOK'
  BY <1>6, ReturnType DEF TypeOK, SubmitRefused
<1>7. ASSUME NEW c \in Callers, PollHit(c) PROVE TypeOK'
  BY <1>7, GotoType DEF TypeOK, PollHit, Label
<1>8. ASSUME NEW c \in Callers, BookTrade(c) PROVE TypeOK'
  <2> DEFINE o == call[c].ord
             t == SignedAmount(o)
  <2>1. o \in Orders
    BY <1>0, <1>8 DEF FollowsPlaced, BookTrade, At
  <2>2. t \in Int \ {0} /\ orders[o].rate \in Nat /\ pos \in PositionType
    BY <2>1, SignedAmountType DEF TypeOK
  <2>3. pos' \in PositionType
    BY <1>8, <2>2, UpdateType DEF BookTrade
  <2>4. RealizedBy(pos, t, orders[o].rate) \in Frac
    BY <2>2, RealizedByType
  <2>5. call' \in [Callers -> CallType]
    <3>1. call' = [call EXCEPT ![c] = [call[c] EXCEPT
                     !.pc = "pnl", !.delta = RealizedBy(pos, t, orders[o].rate)]]
      BY <1>8 DEF TypeOK, BookTrade
    <3>2. [call[c] EXCEPT !.pc = "pnl", !.delta = RealizedBy(pos, t, orders[o].rate)]
            \in CallType
      BY <2>4 DEF TypeOK, CallType, Label
    <3> QED
      BY <3>1, <3>2 DEF TypeOK
  <2>6. rows' \in [Orders -> [booked : Nat, cancelled : Nat]]
    BY <1>8, <2>1 DEF TypeOK, BookTrade
  <2> QED
    BY <1>8, <2>3, <2>5, <2>6 DEF TypeOK, BookTrade
<1>9. ASSUME NEW c \in Callers, BookPnl(c) PROVE TypeOK'
  <2>1. call[c].delta \in Frac /\ pnl \in Frac
    BY DEF TypeOK, CallType
  <2>2. pnl' \in Frac
    BY <1>9, <2>1, AddYenType DEF BookPnl, AddRealized
  <2> QED
    BY <1>9, <2>2, ReturnType DEF TypeOK, BookPnl
<1>10. ASSUME NEW c \in Callers, CancelReached(c) PROVE TypeOK'
  <2>1. call[c].ord \in Orders
    BY <1>0, <1>10 DEF FollowsPlaced, CancelReached, At
  <2>2. call' \in [Callers -> CallType]
    BY <1>10, GotoType DEF CancelReached, Label
  <2> QED
    BY <1>10, <2>1, <2>2, TakeOffType DEF TypeOK, CancelReached
<1>11. ASSUME NEW c \in Callers, CancelFailed(c) PROVE TypeOK'
  BY <1>11, GotoType DEF TypeOK, CancelFailed, Label
<1>12. ASSUME NEW c \in Callers, RecordCancelled(c) PROVE TypeOK'
  <2>1. call[c].ord \in Orders
    BY <1>0, <1>12 DEF FollowsPlaced, RecordCancelled, At
  <2>2. rows' \in [Orders -> [booked : Nat, cancelled : Nat]]
    BY <1>12, <2>1 DEF TypeOK, RecordCancelled
  <2> QED
    BY <1>12, <2>2, ReturnType DEF TypeOK, RecordCancelled
<1>13. ASSUME NEW o \in Orders, Fill(o) PROVE TypeOK'
  <2>1. orders[o] \in OrderType /\ account \in Account
    BY DEF TypeOK
  <2>2. PICK q \in 1..(orders[o].amount - orders[o].filled) :
          /\ orders' = [orders EXCEPT
                          ![o].filled = @ + q,
                          ![o].status = IF orders[o].filled + q = orders[o].amount
                                        THEN "filled" ELSE "open"]
          /\ account' = Plus(account, Gained(orders[o], q))
    BY <1>13 DEF Fill
  <2> DEFINE status == IF orders[o].filled + q = orders[o].amount THEN "filled" ELSE "open"
  <2>3. orders' \in [Orders -> OrderType]
    <3>1. orders' = [orders EXCEPT ![o] =
                       [orders[o] EXCEPT !.filled = @ + q, !.status = status]]
      BY <2>2 DEF TypeOK
    <3>2. orders[o].filled + q \in Nat /\ status \in Status
      BY <2>1 DEF OrderType, Status
    <3>3. [orders[o] EXCEPT !.filled = @ + q, !.status = status] \in OrderType
      <4> HIDE DEF status
      <4> QED
        BY <2>1, <3>2 DEF OrderType
    <3> QED
      BY <3>1, <3>3 DEF TypeOK
  <2>4. account' \in Account
    <3>1. q \in Int /\ orders[o].rate \in Nat /\ orders[o].side \in {"buy", "sell"}
      BY <2>1 DEF OrderType
    <3> QED
      BY <2>1, <2>2, <3>1, AccountOps
  <2> QED
    BY <1>13, <2>3, <2>4 DEF TypeOK, Fill
<1>14. ASSUME NEW o \in Orders, CancelOrder(o) PROVE TypeOK'
  BY <1>14, TakeOffType DEF TypeOK, CancelOrder
<1>15. CASE Exit
  BY <1>15 DEF TypeOK, Exit
<1>16. CASE UNCHANGED vars
  BY <1>16 DEF TypeOK, vars
<1> QED
  BY <1>1, <1>2, <1>3, <1>4, <1>5, <1>6, <1>7, <1>8, <1>9, <1>10, <1>11, <1>12,
     <1>13, <1>14, <1>15, <1>16 DEF Next, Proceed, Expire, PollMiss

-----------------------------------------------------------------------------
(***************************************************************************)
(* The inductive invariant.                                                *)
(***************************************************************************)
\* The order a call follows, if any, and an order nothing was recorded of.
Watch(c) == IF call[c].pc \in {"monitor", "book", "record"} THEN call[c].ord ELSE NoOrder
Blank(o) == rows[o].booked = 0 /\ rows[o].cancelled = 0 /\ o \notin lost
Count(o) == rows[o].booked + rows[o].cancelled + (IF o \in lost THEN 1 ELSE 0)

OneFollower ==
    \A c, d \in Callers : Watch(c) # NoOrder /\ Watch(c) = Watch(d) => c = d
Unreported == \A c \in Callers : Watch(c) # NoOrder => Blank(Watch(c))
Settled == \A o \in 1..placed : (\E c \in Callers : Watch(c) = o) \/ Count(o) = 1
Fresh == \A o \in Orders : o > placed => Blank(o)

Parts == FollowsPlaced /\ OneFollower /\ Unreported /\ Settled /\ Fresh
IInv == TypeOK /\ Parts

LEMMA PartsInit == Init => Parts
<1> SUFFICES ASSUME Init PROVE Parts
  OBVIOUS
<1>1. \A c \in Callers : Watch(c) = NoOrder
  BY DEF Init, Idle, Watch
<1>2. placed = 0 /\ \A o \in Orders : Blank(o)
  BY DEF Init, Blank
<1>3. FollowsPlaced
  BY InitType
<1> QED
  BY <1>1, <1>2, <1>3 DEF Parts, OneFollower, Unreported, Settled, Fresh

\* A step that records nothing, and after which every call follows what it
\* followed, keeps the parts.
LEMMA Frame ==
  ASSUME IInv, UNCHANGED <<placed, rows, lost>>, FollowsPlaced',
         \A c \in Callers : Watch(c)' = Watch(c)
  PROVE  Parts'
  BY DEF IInv, Parts, OneFollower, Unreported, Settled, Fresh, Blank, Count

\* What a caller's move from one label to another does to the orders followed.
LEMMA MoveFrame ==
  ASSUME IInv, UNCHANGED <<placed, rows, lost>>, NEW c \in Callers, NEW new,
         call' = [call EXCEPT ![c] = new],
         \/ new.pc \notin {"monitor", "book", "record"} /\ Watch(c) = NoOrder
         \/ new.pc \in {"monitor", "book", "record"} /\ new.ord = Watch(c)
            /\ Watch(c) # NoOrder
  PROVE  Parts'
<1>1. call \in [Callers -> CallType]
  BY DEF IInv, TypeOK
<1>2. \A d \in Callers : call'[d] = IF d = c THEN new ELSE call[d]
  BY <1>1
<1>3. \A d \in Callers : Watch(d)' = Watch(d)
  BY <1>2 DEF Watch
<1>4. FollowsPlaced'
  BY <1>2 DEF IInv, Parts, FollowsPlaced, Watch
<1> QED
  BY <1>3, <1>4, Frame

LEMMA GotoFrame ==
  ASSUME IInv, UNCHANGED <<placed, rows, lost>>, NEW c \in Callers, NEW label, Goto(c, label),
         \/ /\ call[c].pc \notin {"monitor", "book", "record"}
            /\ label \notin {"monitor", "book", "record"}
         \/ /\ call[c].pc \in {"monitor", "book", "record"}
            /\ label \in {"monitor", "book", "record"}
  PROVE  Parts'
<1> DEFINE new == [call[c] EXCEPT !.pc = label]
<1>1. call[c] \in CallType
  BY DEF IInv, TypeOK
<1>2. call' = [call EXCEPT ![c] = new]
  BY DEF Goto
<1>3. new.pc = label /\ new.ord = call[c].ord
  BY <1>1 DEF CallType
<1>4. call[c].pc \in {"monitor", "book", "record"} => call[c].ord # NoOrder
  BY DEF IInv, Parts, FollowsPlaced, NoOrder
<1>5. \/ new.pc \notin {"monitor", "book", "record"} /\ Watch(c) = NoOrder
      \/ new.pc \in {"monitor", "book", "record"} /\ new.ord = Watch(c)
         /\ Watch(c) # NoOrder
  BY <1>3, <1>4 DEF Watch
<1> HIDE DEF new
<1> QED
  BY <1>2, <1>5, MoveFrame

LEMMA ReturnFrame ==
  ASSUME IInv, UNCHANGED <<placed, rows, lost>>, NEW c \in Callers, Return(c),
         call[c].pc \notin {"monitor", "book", "record"}
  PROVE  Parts'
<1>1. Watch(c) = NoOrder /\ Idle.pc \notin {"monitor", "book", "record"}
  BY DEF Watch, Idle
<1> QED
  BY <1>1, MoveFrame DEF Return

\* A call that has read the state of its order for good settles it: one row is
\* saved, and the order is followed no more.
LEMMA SettleStep ==
  ASSUME IInv, NEW c \in Callers, NEW new, Watch(c) # NoOrder,
         new.pc \notin {"monitor", "book", "record"},
         call' = [call EXCEPT ![c] = new],
         UNCHANGED <<placed, lost>>,
         \/ rows' = [rows EXCEPT ![Watch(c)].booked = @ + 1]
         \/ rows' = [rows EXCEPT ![Watch(c)].cancelled = @ + 1]
  PROVE  Parts'
<1>0. PICK o : o = Watch(c)
  OBVIOUS
<1>1. call \in [Callers -> CallType] /\ rows \in [Orders -> [booked : Nat, cancelled : Nat]]
      /\ placed \in 0..MaxOrders
  BY DEF IInv, TypeOK
<1>2. o \in 1..placed /\ o \in Orders
  BY <1>0, <1>1 DEF IInv, Parts, FollowsPlaced, Watch, Orders
<1>3. \A d \in Callers : call'[d] = IF d = c THEN new ELSE call[d]
  BY <1>1
<1>4. \A d \in Callers : Watch(d)' = IF d = c THEN NoOrder ELSE Watch(d)
  BY <1>3 DEF Watch
<1>5. \A x \in Orders : x # o => rows'[x] = rows[x]
  BY <1>0, <1>1, <1>2
<1>6. rows[o].booked = 0 /\ rows[o].cancelled = 0 /\ o \notin lost
  BY <1>0 DEF IInv, Parts, Unreported, Blank
<1>7. Count(o)' = 1
  BY <1>0, <1>1, <1>2, <1>6 DEF Count
<1>8. \A d \in Callers : d # c => Watch(d) # o
  BY <1>0 DEF IInv, Parts, OneFollower
<1>9. FollowsPlaced'
  BY <1>3 DEF IInv, Parts, FollowsPlaced
<1>10. OneFollower'
  BY <1>4 DEF IInv, Parts, OneFollower
<1>11. Unreported'
  <2> SUFFICES ASSUME NEW d \in Callers, Watch(d)' # NoOrder PROVE Blank(Watch(d))'
    BY DEF Unreported
  <2>1. d # c /\ Watch(d)' = Watch(d) /\ Watch(d) # o /\ Blank(Watch(d))
    BY <1>0, <1>4, <1>8 DEF IInv, Parts, Unreported
  <2>2. Watch(d) \in Orders
    BY <1>1, <1>4, <2>1 DEF IInv, Parts, FollowsPlaced, Watch, Orders
  <2> QED
    BY <1>5, <2>1, <2>2 DEF Blank
<1>12. Settled'
  <2> SUFFICES ASSUME NEW x \in 1..placed
               PROVE  (\E d \in Callers : Watch(d)' = x) \/ Count(x)' = 1
    BY DEF Settled
  <2>1. CASE x = o
    BY <1>7, <2>1
  <2>2. CASE x # o
    <3>1. Count(x)' = Count(x)
      BY <1>1, <1>5, <2>2 DEF Count, Orders
    <3>2. \A d \in Callers : Watch(d) = x => d # c /\ Watch(d)' = x
      BY <1>0, <1>4, <2>2
    <3> QED
      BY <3>1, <3>2 DEF IInv, Parts, Settled
  <2> QED
    BY <2>1, <2>2
<1>13. Fresh'
  BY <1>1, <1>2, <1>5 DEF IInv, Parts, Fresh, Blank, Orders
<1> QED
  BY <1>9, <1>10, <1>11, <1>12, <1>13 DEF Parts

\* A new order is followed by the call that learned its identifier, or lost.
LEMMA AcceptedFrame ==
  ASSUME IInv, NEW c \in Callers, call[c].pc = "submit", Accept(call[c].req)
  PROVE  /\ placed \in Nat /\ placed + 1 \in Orders /\ placed' = placed + 1
         /\ Blank(placed + 1)
         /\ Watch(c) = NoOrder
         /\ \A d \in Callers : Watch(d) # NoOrder => Watch(d) \in 1..placed
<1>1. placed \in Nat /\ call[c].req \in Request
  BY DEF IInv, TypeOK, CallType
<1>2. placed + 1 \in Orders /\ placed' = placed + 1
  BY <1>1, AcceptType DEF IInv, Accept
<1>3. Blank(placed + 1)
  BY <1>1, <1>2 DEF IInv, Parts, Fresh
<1>4. Watch(c) = NoOrder /\ \A d \in Callers : Watch(d) # NoOrder => Watch(d) \in 1..placed
  BY DEF IInv, Parts, FollowsPlaced, Watch
<1> QED
  BY <1>1, <1>2, <1>3, <1>4

LEMMA AcceptedStep ==
  ASSUME IInv, NEW c \in Callers, SubmitAccepted(c)
  PROVE  Parts'
<1>1. /\ placed \in Nat /\ placed + 1 \in Orders /\ placed' = placed + 1
      /\ Blank(placed + 1)
      /\ Watch(c) = NoOrder
      /\ \A d \in Callers : Watch(d) # NoOrder => Watch(d) \in 1..placed
  BY AcceptedFrame DEF SubmitAccepted, At
<1>2. rows' = rows /\ lost' = lost
  BY DEF SubmitAccepted, books
<1> DEFINE new == [Idle EXCEPT !.pc = "monitor", !.ord = placed + 1]
<1>3. \A d \in Callers : call'[d] = IF d = c THEN new ELSE call[d]
  BY DEF IInv, TypeOK, SubmitAccepted
<1>4. new.pc = "monitor" /\ new.ord = placed + 1
  BY DEF Idle
<1> HIDE DEF new
<1>5. \A d \in Callers : Watch(d)' = IF d = c THEN placed + 1 ELSE Watch(d)
  BY <1>3, <1>4 DEF Watch
<1>6. \A o : Blank(o)' = Blank(o) /\ Count(o)' = Count(o)
  BY <1>2 DEF Blank, Count
<1>7. FollowsPlaced'
  BY <1>1, <1>3, <1>4 DEF IInv, Parts, FollowsPlaced
<1>8. OneFollower'
  BY <1>1, <1>5 DEF IInv, Parts, OneFollower
<1>9. Unreported'
  BY <1>1, <1>2, <1>5 DEF IInv, Parts, Unreported, Blank
<1>10. Settled'
  <2> SUFFICES ASSUME NEW o \in 1..(placed + 1)
               PROVE  (\E d \in Callers : Watch(d)' = o) \/ Count(o)' = 1
    BY <1>1 DEF Settled
  <2>1. CASE o = placed + 1
    BY <1>5, <2>1
  <2>2. CASE o \in 1..placed
    BY <1>1, <1>5, <1>6, <2>2 DEF IInv, Parts, Settled, NoOrder
  <2> QED
    BY <1>1, <2>1, <2>2
<1>11. Fresh'
  BY <1>1, <1>6 DEF IInv, Parts, Fresh, Orders
<1> QED
  BY <1>7, <1>8, <1>9, <1>10, <1>11 DEF Parts

LEMMA ReplyLostStep ==
  ASSUME IInv, NEW c \in Callers, SubmitReplyLost(c)
  PROVE  Parts'
<1>1. /\ placed \in Nat /\ placed + 1 \in Orders /\ placed' = placed + 1
      /\ Blank(placed + 1)
      /\ Watch(c) = NoOrder
      /\ \A d \in Callers : Watch(d) # NoOrder => Watch(d) \in 1..placed
  BY AcceptedFrame DEF SubmitReplyLost, At
<1>2. rows' = rows /\ lost' = lost \cup {placed + 1}
  BY DEF SubmitReplyLost, books
<1>3. \A d \in Callers : call'[d] = IF d = c THEN Idle ELSE call[d]
  BY DEF IInv, TypeOK, SubmitReplyLost, Return
<1>4. \A d \in Callers : Watch(d)' = Watch(d)
  BY <1>1, <1>3 DEF Watch, Idle
<1>5. \A o : o # placed + 1 => Blank(o)' = Blank(o) /\ Count(o)' = Count(o)
  BY <1>2 DEF Blank, Count
<1>6. FollowsPlaced'
  BY <1>1, <1>3 DEF IInv, Parts, FollowsPlaced, Idle
<1>7. OneFollower'
  BY <1>4 DEF IInv, Parts, OneFollower
<1>8. Unreported'
  <2> SUFFICES ASSUME NEW d \in Callers, Watch(d)' # NoOrder PROVE Blank(Watch(d))'
    BY DEF Unreported
  <2>1. Watch(d) \in 1..placed /\ Blank(Watch(d)) /\ Watch(d)' = Watch(d)
    BY <1>1, <1>4 DEF IInv, Parts, Unreported
  <2> QED
    BY <1>1, <1>2, <2>1 DEF Blank
<1>9. Settled'
  <2> SUFFICES ASSUME NEW o \in 1..(placed + 1)
               PROVE  (\E d \in Callers : Watch(d)' = o) \/ Count(o)' = 1
    BY <1>1 DEF Settled
  <2>1. CASE o = placed + 1
    BY <1>1, <1>2, <2>1 DEF Blank, Count
  <2>2. CASE o \in 1..placed
    <3>1. Count(o)' = Count(o)
      BY <1>1, <1>5, <2>2
    <3> QED
      BY <1>4, <2>2, <3>1 DEF IInv, Parts, Settled
  <2> QED
    BY <1>1, <2>1, <2>2
<1>10. Fresh'
  <2> SUFFICES ASSUME NEW o \in Orders, o > placed' PROVE Blank(o)'
    BY DEF Fresh
  <2>1. o > placed /\ o # placed + 1
    BY <1>1 DEF Orders
  <2> QED
    BY <1>5, <2>1 DEF IInv, Parts, Fresh
<1> QED
  BY <1>6, <1>7, <1>8, <1>9, <1>10 DEF Parts

\* Every step keeps the parts.
LEMMA PartsStep == IInv /\ [Next]_vars => Parts'
<1> SUFFICES ASSUME IInv, [Next]_vars PROVE Parts'
  OBVIOUS
<1> USE DEF exchange, books, At
<1>0. call \in [Callers -> CallType]
  BY DEF IInv, TypeOK
<1>1. ASSUME NEW c \in Callers, Call(c) PROVE Parts'
  <2>1. PICK r \in Requests :
          call' = [call EXCEPT ![c] = [Idle EXCEPT !.pc = "drawdown", !.req = r, !.bal = account]]
    BY <1>1 DEF Call
  <2>2. [Idle EXCEPT !.pc = "drawdown", !.req = r, !.bal = account].pc = "drawdown"
    BY DEF Idle
  <2>3. Watch(c) = NoOrder
    BY <1>1 DEF Call, Watch
  <2>4. UNCHANGED <<placed, rows, lost>>
    BY <1>1 DEF Call
  <2> DEFINE new == [Idle EXCEPT !.pc = "drawdown", !.req = r, !.bal = account]
  <2>5. call' = [call EXCEPT ![c] = new] /\ new.pc = "drawdown"
    BY <2>1, <2>2
  <2> HIDE DEF new
  <2> QED
    BY <2>3, <2>4, <2>5, MoveFrame
<1>2. ASSUME NEW c \in Callers, CheckDrawdown(c) PROVE Parts'
  BY <1>2, GotoFrame, ReturnFrame DEF CheckDrawdown, Check
<1>3. ASSUME NEW c \in Callers, CheckPosition(c) PROVE Parts'
  BY <1>3, GotoFrame, ReturnFrame DEF CheckPosition, Check
<1>4. ASSUME NEW c \in Callers, SubmitRefused(c) PROVE Parts'
  BY <1>4, ReturnFrame DEF SubmitRefused
<1>5. ASSUME NEW c \in Callers, PollHit(c) PROVE Parts'
  BY <1>5, GotoFrame DEF PollHit
<1>6. ASSUME NEW c \in Callers, BookTrade(c) PROVE Parts'
  <2> DEFINE new == [call[c] EXCEPT !.pc = "pnl",
               !.delta = RealizedBy(pos, SignedAmount(call[c].ord), orders[call[c].ord].rate)]
  <2>1. call' = [call EXCEPT ![c] = new] /\ new.pc = "pnl"
    BY <1>0, <1>6 DEF BookTrade, CallType
  <2>2. Watch(c) = call[c].ord /\ Watch(c) # NoOrder
    BY <1>6 DEF BookTrade, Watch, IInv, Parts, FollowsPlaced, NoOrder
  <2>3. UNCHANGED <<placed, lost>> /\ rows' = [rows EXCEPT ![Watch(c)].booked = @ + 1]
    BY <1>6, <2>2 DEF BookTrade
  <2> HIDE DEF new
  <2> QED
    BY <2>1, <2>2, <2>3, SettleStep
<1>7. ASSUME NEW c \in Callers, BookPnl(c) PROVE Parts'
  BY <1>7, ReturnFrame DEF BookPnl
<1>8. ASSUME NEW c \in Callers, CancelReached(c) PROVE Parts'
  BY <1>8, GotoFrame DEF CancelReached
<1>9. ASSUME NEW c \in Callers, CancelFailed(c) PROVE Parts'
  BY <1>9, GotoFrame DEF CancelFailed
<1>10. ASSUME NEW c \in Callers, RecordCancelled(c) PROVE Parts'
  <2>1. call' = [call EXCEPT ![c] = Idle] /\ Idle.pc = "idle"
    BY <1>10 DEF RecordCancelled, Return, Idle
  <2>2. Watch(c) = call[c].ord /\ Watch(c) # NoOrder
    BY <1>10 DEF RecordCancelled, Watch, IInv, Parts, FollowsPlaced, NoOrder
  <2>3. UNCHANGED <<placed, lost>> /\ rows' = [rows EXCEPT ![Watch(c)].cancelled = @ + 1]
    BY <1>10, <2>2 DEF RecordCancelled
  <2> QED
    BY <2>1, <2>2, <2>3, SettleStep
<1>11. ASSUME UNCHANGED <<call, placed, rows, lost>> PROVE Parts'
  BY <1>11, Frame DEF Watch, IInv, Parts, FollowsPlaced
<1>12. ASSUME NEW o \in Orders, Fill(o) \/ CancelOrder(o) PROVE Parts'
  BY <1>11, <1>12 DEF Fill, CancelOrder
<1>13. CASE Exit \/ UNCHANGED vars
  BY <1>11, <1>13 DEF Exit, vars
<1> QED
  BY <1>1, <1>2, <1>3, <1>4, <1>5, <1>6, <1>7, <1>8, <1>9, <1>10, <1>12, <1>13,
     AcceptedStep, ReplyLostStep, <1>11 DEF Next, Proceed, Expire, PollMiss, vars

-----------------------------------------------------------------------------
(***************************************************************************)
(* The theorems.                                                           *)
(***************************************************************************)
LEMMA Inductive == Spec => []IInv
<1>1. Init => IInv
  BY InitType, PartsInit DEF IInv
<1>2. IInv /\ [Next]_vars => IInv'
  BY TypeStep, PartsStep DEF IInv, Parts
<1> QED
  BY <1>1, <1>2, PTL DEF Spec

\* PlaceOrder never leaves a value outside its type: no order identifier out of
\* range, and no position or PnL with a zero denominator.
THEOREM TypeCorrectness == Spec => []TypeOK
<1>1. IInv => TypeOK
  BY DEF IInv
<1> QED
  BY <1>1, Inductive, PTL

\* Each order the exchange accepted is followed by one call, or settled in one
\* way: booked, recorded as cancelled, or lost with its reply.
THEOREM OutcomeUniqueness == Spec => []OneOutcomePerOrder
<1>1. IInv => OneOutcomePerOrder
  <2> SUFFICES ASSUME IInv, NEW o \in 1..placed
               PROVE  Cardinality(Unsettled(o)) + rows[o].booked + rows[o].cancelled
                        + (IF o \in lost THEN 1 ELSE 0) = 1
    BY DEF OneOutcomePerOrder
  <2>1. o \in Orders /\ rows[o].booked \in Nat /\ rows[o].cancelled \in Nat
    BY DEF IInv, TypeOK, Orders
  <2>2. Unsettled(o) = {c \in Callers : Watch(c) = o}
    BY <2>1 DEF Unsettled, Following, Watch, Orders, NoOrder
  <2>3. CASE \E c \in Callers : Watch(c) = o
    <3>1. PICK c \in Callers : Watch(c) = o
      BY <2>3
    <3>2. Watch(c) # NoOrder
      BY <3>1 DEF NoOrder
    <3>3. Unsettled(o) = {c}
      BY <2>2, <3>1, <3>2 DEF IInv, Parts, OneFollower
    <3>4. Cardinality(Unsettled(o)) = 1
      BY <3>3, FS_Singleton
    <3> QED
      BY <2>1, <3>1, <3>2, <3>4 DEF IInv, Parts, Unreported, Blank
  <2>4. CASE ~\E c \in Callers : Watch(c) = o
    <3>1. Unsettled(o) = {}
      BY <2>2, <2>4
    <3>2. Cardinality(Unsettled(o)) = 0
      BY <3>1, FS_EmptySet
    <3> QED
      BY <2>1, <2>4, <3>2 DEF IInv, Parts, Settled, Count
  <2> QED
    BY <2>3, <2>4
<1> QED
  BY <1>1, Inductive, PTL

\* At the start no order has an outcome.
LEMMA OutcomeInit == Init => Outcomes!Init
<1> SUFFICES ASSUME Init PROVE Outcomes!Init
  OBVIOUS
<1>1. placed = 0 /\ pos.size = 0
  BY DEF Init, Flat
<1>2. \A o \in Orders : OutcomeOf(o) = "none"
  BY <1>1 DEF OutcomeOf, Orders
<1> QED
  BY <1>1, <1>2 DEF Outcomes!Init, Orders

\* The outcome of an accepted order, in terms of the parts.
LEMMA OutcomeCases ==
  ASSUME IInv, NEW o \in Orders
  PROVE  /\ o > placed => OutcomeOf(o) = "none"
         /\ o \in 1..placed /\ Blank(o) => OutcomeOf(o) = "pending"
         /\ o \in 1..placed /\ o \in lost => OutcomeOf(o) = "lost"
         /\ o \in 1..placed /\ o \notin lost /\ rows[o].booked > 0 => OutcomeOf(o) = "booked"
         /\ o \in 1..placed /\ o \notin lost /\ rows[o].booked = 0 /\ rows[o].cancelled > 0
              => OutcomeOf(o) = "closed"
  BY DEF IInv, TypeOK, OutcomeOf, Blank, Orders

\* A step that changes neither what the outcomes depend on nor the position
\* stutters.
LEMMA OutcomeStutter ==
  ASSUME IInv, UNCHANGED <<placed, rows, lost, pos>>,
         \A o \in Orders : o <= placed => SignedAmount(o)' = SignedAmount(o)
  PROVE  UNCHANGED Outcomes!vars
<1>1. \A o \in Orders : OutcomeOf(o)' = OutcomeOf(o)
  BY DEF OutcomeOf
<1>2. \A o \in Orders : (IF o > placed THEN 0 ELSE SignedAmount(o))'
                          = IF o > placed THEN 0 ELSE SignedAmount(o)
  BY DEF IInv, TypeOK, Orders
<1> QED
  BY <1>1, <1>2 DEF Outcomes!vars

\* The exchange never changes what an order asks for.
LEMMA TermsStay ==
  ASSUME TypeOK, NEW o \in Orders, Fill(o) \/ TakeOff(o)
  PROVE  \A x \in Orders : /\ orders'[x].side = orders[x].side
                           /\ orders'[x].amount = orders[x].amount
                           /\ orders'[x].rate = orders[x].rate
<1>1. orders \in [Orders -> OrderType]
  BY DEF TypeOK
<1>2. CASE Fill(o)
  <2>1. PICK n, status : orders' = [orders EXCEPT ![o] = [orders[o] EXCEPT
                            !.filled = n, !.status = status]]
    BY <1>1, <1>2 DEF Fill
  <2> QED
    BY <1>1, <2>1 DEF OrderType
<1>3. CASE TakeOff(o)
  <2>1. orders' = [orders EXCEPT ![o] = [orders[o] EXCEPT !.status = "cancelled"]]
        \/ orders' = orders
    BY <1>1, <1>3 DEF TakeOff
  <2> QED
    BY <1>1, <2>1 DEF OrderType
<1> QED
  BY <1>2, <1>3

LEMMA AmountsStay ==
  ASSUME IInv, NEW o \in Orders, Fill(o) \/ TakeOff(o)
  PROVE  \A x \in Orders : SignedAmount(x)' = SignedAmount(x)
BY TermsStay DEF IInv, SignedAmount

\* An accepted order becomes pending, or lost.
LEMMA OutcomePlaced ==
  ASSUME IInv, NEW c \in Callers, SubmitAccepted(c) \/ SubmitReplyLost(c)
  PROVE  Outcomes!Next
<1>1. /\ placed \in Nat /\ placed + 1 \in Orders /\ placed' = placed + 1
      /\ Blank(placed + 1)
  BY AcceptedFrame DEF SubmitAccepted, SubmitReplyLost, At
<1>2. PICK o \in Orders : o = placed + 1
  BY <1>1
<1>3. rows' = rows /\ pos' = pos /\ (lost' = lost \/ lost' = lost \cup {o})
  BY <1>2 DEF SubmitAccepted, SubmitReplyLost, books
<1>4. PICK r \in Request : /\ orders[o] \in OrderType
                           /\ orders' = [orders EXCEPT ![o] =
                                [side |-> r.side, amount |-> r.amount, rate |-> r.rate,
                                 filled |-> 0, status |-> "open"]]
  BY <1>2 DEF IInv, TypeOK, CallType, SubmitAccepted, SubmitReplyLost, Accept
<1>5. \A x \in Orders : x # o => orders'[x] = orders[x]
  BY <1>4 DEF IInv, TypeOK
<1>6. orders'[o].side = r.side /\ orders'[o].amount = r.amount /\ r.amount \in Nat \ {0}
  BY <1>4 DEF IInv, TypeOK, Request
<1>7. PICK result \in {"pending", "lost"} :
        \A x \in Orders : OutcomeOf(x)' = IF x = o THEN result ELSE OutcomeOf(x)
  <2>1. OutcomeOf(o)' = IF o \in lost' THEN "lost" ELSE "pending"
    BY <1>1, <1>2, <1>3 DEF OutcomeOf, Blank
  <2>2. \A x \in Orders : x # o => OutcomeOf(x)' = OutcomeOf(x)
    BY <1>1, <1>2, <1>3 DEF OutcomeOf, Orders
  <2> QED
    BY <2>1, <2>2
<1>8. OutcomeOf(o) = "none"
  BY <1>1, <1>2 DEF OutcomeOf
<1> DEFINE signedOf(x) == IF x > placed THEN 0 ELSE SignedAmount(x)
<1>9. \A x \in Orders : x # o => signedOf(x)' = signedOf(x)
  BY <1>1, <1>2, <1>5 DEF SignedAmount, Orders
<1>10. signedOf(o)' # 0
  BY <1>1, <1>2, <1>6 DEF SignedAmount, Orders
<1> QED
  BY <1>3, <1>7, <1>8, <1>9, <1>10 DEF Outcomes!Next, Outcomes!Place

\* A pending order becomes booked, and the position moves by its amount.
LEMMA OutcomeBooked ==
  ASSUME IInv, NEW c \in Callers, BookTrade(c)
  PROVE  Outcomes!Next
<1>1. PICK o : o = call[c].ord
  OBVIOUS
<1>2. o \in 1..placed /\ o \in Orders /\ placed \in Nat /\ Blank(o)
  <2>1. call[c].pc = "book"
    BY DEF BookTrade, At
  <2>2. o \in 1..placed /\ o \in Orders /\ placed \in Nat
    BY <1>1, <2>1 DEF IInv, TypeOK, Parts, FollowsPlaced, Orders
  <2>3. Watch(c) = o /\ o # NoOrder
    BY <1>1, <2>1, <2>2 DEF Watch, NoOrder
  <2> QED
    BY <2>2, <2>3 DEF IInv, Parts, Unreported
<1>3. /\ rows' = [rows EXCEPT ![o].booked = @ + 1]
      /\ pos' = Update(pos, SignedAmount(o), orders[o].rate)
      /\ UNCHANGED <<placed, lost, orders>>
  BY <1>1 DEF BookTrade, exchange
<1>4. pos'.size = pos.size + SignedAmount(o)
  BY <1>2, <1>3, SignedAmountType, UpdateSize DEF IInv, TypeOK
<1>5. rows \in [Orders -> [booked : Nat, cancelled : Nat]]
  BY DEF IInv, TypeOK
<1>6. OutcomeOf(o) = "pending" /\ OutcomeOf(o)' = "booked"
  BY <1>2, <1>3, <1>5 DEF OutcomeOf, Blank
<1>7. \A x \in Orders : x # o => OutcomeOf(x)' = OutcomeOf(x)
  BY <1>2, <1>3, <1>5 DEF OutcomeOf
<1>8. \A x \in Orders : SignedAmount(x)' = SignedAmount(x)
  BY <1>3 DEF SignedAmount
<1>9. \A x \in Orders : (IF x > placed THEN 0 ELSE SignedAmount(x))'
                          = IF x > placed THEN 0 ELSE SignedAmount(x)
  BY <1>3, <1>8
<1>10. ~(o > placed)
  BY <1>2
<1>11. Outcomes!Book(o)
  BY <1>2, <1>4, <1>6, <1>7, <1>9, <1>10 DEF Outcomes!Book
<1> QED
  BY <1>2, <1>11 DEF Outcomes!Next

\* A pending order is closed, and the position stays.
LEMMA OutcomeClosed ==
  ASSUME IInv, NEW c \in Callers, RecordCancelled(c)
  PROVE  Outcomes!Next
<1>1. PICK o : o = call[c].ord
  OBVIOUS
<1>2. o \in 1..placed /\ o \in Orders /\ placed \in Nat /\ Blank(o)
  <2>1. call[c].pc = "record"
    BY DEF RecordCancelled, At
  <2>2. o \in 1..placed /\ o \in Orders /\ placed \in Nat
    BY <1>1, <2>1 DEF IInv, TypeOK, Parts, FollowsPlaced, Orders
  <2>3. Watch(c) = o /\ o # NoOrder
    BY <1>1, <2>1, <2>2 DEF Watch, NoOrder
  <2> QED
    BY <2>2, <2>3 DEF IInv, Parts, Unreported
<1>3. /\ rows' = [rows EXCEPT ![o].cancelled = @ + 1]
      /\ UNCHANGED <<placed, lost, orders, pos>>
  BY <1>1 DEF RecordCancelled, exchange
<1>4. rows \in [Orders -> [booked : Nat, cancelled : Nat]]
  BY DEF IInv, TypeOK
<1>5. OutcomeOf(o) = "pending" /\ OutcomeOf(o)' = "closed"
  BY <1>2, <1>3, <1>4 DEF OutcomeOf, Blank
<1>6. \A x \in Orders : x # o => OutcomeOf(x)' = OutcomeOf(x)
  BY <1>2, <1>3, <1>4 DEF OutcomeOf
<1>7. \A x \in Orders : (IF x > placed THEN 0 ELSE SignedAmount(x))'
                          = IF x > placed THEN 0 ELSE SignedAmount(x)
  BY <1>3 DEF SignedAmount
<1>8. Outcomes!Close(o)
  BY <1>2, <1>3, <1>5, <1>6, <1>7 DEF Outcomes!Close
<1> QED
  BY <1>2, <1>8 DEF Outcomes!Next

LEMMA OutcomeStep == IInv /\ [Next]_vars => [Outcomes!Next]_(Outcomes!vars)
<1> SUFFICES ASSUME IInv, [Next]_vars PROVE [Outcomes!Next]_(Outcomes!vars)
  OBVIOUS
<1> USE DEF exchange, books
<1>1. ASSUME NEW c \in Callers, SubmitAccepted(c) \/ SubmitReplyLost(c) \/ BookTrade(c)
                                  \/ RecordCancelled(c)
      PROVE  Outcomes!Next
  BY <1>1, OutcomePlaced, OutcomeBooked, OutcomeClosed
<1>2. ASSUME UNCHANGED <<placed, orders, rows, lost, pos>> PROVE UNCHANGED Outcomes!vars
  BY <1>2, OutcomeStutter DEF SignedAmount
<1>3. ASSUME NEW c \in Callers,
             Call(c) \/ CheckDrawdown(c) \/ CheckPosition(c) \/ SubmitRefused(c)
               \/ PollMiss(c) \/ PollHit(c) \/ BookPnl(c) \/ CancelFailed(c)
      PROVE  UNCHANGED Outcomes!vars
  BY <1>2, <1>3 DEF Call, CheckDrawdown, CheckPosition, Check, SubmitRefused, PollMiss, PollHit,
     BookPnl, CancelFailed, vars
<1>4. ASSUME NEW o \in Orders, Fill(o) \/ TakeOff(o), UNCHANGED <<placed, rows, lost, pos>>
      PROVE  UNCHANGED Outcomes!vars
  BY <1>4, AmountsStay, OutcomeStutter
<1>5. ASSUME NEW c \in Callers, CancelReached(c) PROVE UNCHANGED Outcomes!vars
  <2>1. call[c].ord \in Orders
    BY <1>5 DEF CancelReached, At, IInv, TypeOK, Parts, FollowsPlaced, Orders
  <2> QED
    BY <1>4, <1>5, <2>1 DEF CancelReached
<1>6. ASSUME NEW o \in Orders, Fill(o) \/ CancelOrder(o) PROVE UNCHANGED Outcomes!vars
  BY <1>4, <1>6 DEF Fill, CancelOrder
<1>7. CASE Exit \/ UNCHANGED vars
  BY <1>2, <1>7 DEF Exit, vars
<1> QED
  BY <1>1, <1>3, <1>5, <1>6, <1>7 DEF Next, Proceed, Expire

\* PlaceOrder keeps the promise of OrderOutcome: outcomes are final, and the
\* position moves by an order's amount exactly when the order becomes booked.
THEOREM Refinement == Spec => ImplementsOrderOutcome
<1>1. Spec => Outcomes!Init /\ [][Outcomes!Next]_(Outcomes!vars)
  BY OutcomeInit, OutcomeStep, Inductive, PTL DEF Spec
<1> QED
  BY <1>1 DEF ImplementsOrderOutcome, Outcomes!Spec
-----------------------------------------------------------------------------
(***************************************************************************)
(* The books.                                                              *)
(***************************************************************************)
\* A realized PnL is on its way in the calls at "pnl" and in no other.
Carried == \A c \in Callers : call[c].pc # "pnl" => call[c].delta = ZeroYen

BInv == IInv /\ Carried /\ BooksBalance

LEMMA OrdersFinite == IsFiniteSet(Orders)
BY FS_Interval DEF Orders

\* What booked orders ask for stays, accepted orders come without a row.
LEMMA BookedTermsStay ==
  ASSUME IInv, [Next]_vars
  PROVE  \A o \in Orders : rows[o].booked # 0 =>
            SignedAmount(o)' = SignedAmount(o) /\ orders'[o].rate = orders[o].rate
<1> USE DEF exchange, books
<1>1. ASSUME UNCHANGED orders
      PROVE  \A o \in Orders : SignedAmount(o)' = SignedAmount(o) /\ orders'[o].rate = orders[o].rate
  BY <1>1 DEF SignedAmount
<1>2. ASSUME NEW x \in Orders, Fill(x) \/ TakeOff(x)
      PROVE  \A o \in Orders : SignedAmount(o)' = SignedAmount(o) /\ orders'[o].rate = orders[o].rate
  BY <1>2, TermsStay DEF IInv, SignedAmount
<1>3. ASSUME NEW c \in Callers, CancelReached(c) PROVE \E x \in Orders : TakeOff(x)
  <2>1. call[c].ord \in Orders
    BY <1>3 DEF CancelReached, At, IInv, TypeOK, Parts, FollowsPlaced, Orders
  <2> QED
    BY <1>3, <2>1 DEF CancelReached
<1>4. ASSUME NEW c \in Callers, SubmitAccepted(c) \/ SubmitReplyLost(c)
      PROVE  \A o \in Orders : rows[o].booked # 0 => orders'[o] = orders[o]
  <2>1. Blank(placed + 1) /\ placed + 1 \in Orders
    BY <1>4, AcceptedFrame DEF SubmitAccepted, SubmitReplyLost, At
  <2> QED
    BY <1>4, <2>1 DEF IInv, TypeOK, SubmitAccepted, SubmitReplyLost, Accept, Blank
<1>5. CASE \E c \in Callers : SubmitAccepted(c) \/ SubmitReplyLost(c)
  BY <1>4, <1>5 DEF SignedAmount
<1>6. CASE (\E c \in Callers : CancelReached(c)) \/ (\E o \in Orders : Fill(o) \/ CancelOrder(o))
  BY <1>2, <1>3, <1>6 DEF CancelOrder
<1>7. CASE UNCHANGED orders
  BY <1>1, <1>7
<1> QED
  BY <1>5, <1>6, <1>7 DEF Next, Proceed, Expire, Call, CheckDrawdown, CheckPosition, Check,
     SubmitRefused, PollMiss, PollHit, BookTrade, BookPnl, CancelFailed, RecordCancelled, Exit, vars

\* The position, the PnL, the orders' booked amounts and the amounts in transit
\* are all that the balance depends on.
LEMMA BalanceFrame ==
  ASSUME BInv, [Next]_vars, TypeOK', UNCHANGED <<pos, pnl>>,
         \A o \in Orders : rows'[o].booked = rows[o].booked,
         \A c \in Callers : call'[c].delta = call[c].delta
  PROVE  BooksBalance'
<1>1. \A o \in Orders : BookedSize(o)' = BookedSize(o)
  BY BookedTermsStay DEF BInv, BookedSize
<1>2. Size' = Size
  BY <1>1 DEF Size
<1>3. \A o \in Orders : BookedSize(o)' * orders'[o].rate = BookedSize(o) * orders[o].rate
  <2> SUFFICES ASSUME NEW o \in Orders
               PROVE  BookedSize(o)' * orders'[o].rate = BookedSize(o) * orders[o].rate
    OBVIOUS
  <2>1. orders[o].rate \in Int /\ orders'[o].rate \in Int
    BY DEF BInv, IInv, TypeOK, OrderType
  <2>2. CASE rows[o].booked = 0
    BY <1>1, <2>1, <2>2 DEF BookedSize
  <2>3. CASE rows[o].booked # 0
    BY <1>1, <2>3, BookedTermsStay DEF BInv
  <2> QED
    BY <2>2, <2>3
<1>4. Paid' = Paid
  BY <1>3 DEF Paid
<1>5. InTransit' = InTransit
  BY DEF InTransit
<1> QED
  BY <1>2, <1>4, <1>5 DEF BInv, BooksBalance

\* The steps of a call that book nothing.
LEMMA NothingCarried ==
  ASSUME IInv, Carried, NEW c \in Callers,
         \/ Call(c) \/ CheckDrawdown(c) \/ CheckPosition(c)
         \/ SubmitAccepted(c) \/ SubmitReplyLost(c) \/ SubmitRefused(c)
         \/ PollHit(c) \/ RecordCancelled(c) \/ CancelReached(c) \/ CancelFailed(c)
  PROVE  Carried' /\ \A d \in Callers : call'[d].delta = call[d].delta
<1>1. call[c].pc # "pnl" /\ call[c].delta = ZeroYen
  BY DEF Carried, At, Call, CheckDrawdown, CheckPosition, SubmitAccepted, SubmitReplyLost,
     SubmitRefused, PollHit, RecordCancelled, CancelReached, CancelFailed
<1>2. call \in [Callers -> CallType]
  BY DEF IInv, TypeOK
<1>3. ASSUME NEW label, label # "pnl", Goto(c, label)
      PROVE  \E new : /\ call' = [call EXCEPT ![c] = new]
                      /\ new.pc # "pnl" /\ new.delta = ZeroYen
  <2> DEFINE new == [call[c] EXCEPT !.pc = label]
  <2>1. call' = [call EXCEPT ![c] = new] /\ new.pc = label /\ new.delta = ZeroYen
    BY <1>1, <1>2, <1>3 DEF Goto, CallType
  <2> QED
    BY <1>3, <2>1
<1>4. Idle.pc # "pnl" /\ Idle.delta = ZeroYen
  BY DEF Idle
<1>5. ASSUME Return(c)
      PROVE  \E new : /\ call' = [call EXCEPT ![c] = new]
                      /\ new.pc # "pnl" /\ new.delta = ZeroYen
  BY <1>4, <1>5 DEF Return
<1>6. ASSUME Call(c)
      PROVE  \E new : /\ call' = [call EXCEPT ![c] = new]
                      /\ new.pc # "pnl" /\ new.delta = ZeroYen
  <2>1. PICK r \in Requests :
          call' = [call EXCEPT ![c] = [Idle EXCEPT !.pc = "drawdown", !.req = r, !.bal = account]]
    BY <1>6 DEF Call
  <2> DEFINE new == [Idle EXCEPT !.pc = "drawdown", !.req = r, !.bal = account]
  <2>2. new.pc = "drawdown" /\ new.delta = ZeroYen
    BY DEF Idle
  <2> QED
    BY <2>1, <2>2
<1>7. ASSUME SubmitAccepted(c)
      PROVE  \E new : /\ call' = [call EXCEPT ![c] = new]
                      /\ new.pc # "pnl" /\ new.delta = ZeroYen
  <2> DEFINE new == [Idle EXCEPT !.pc = "monitor", !.ord = placed + 1]
  <2>1. call' = [call EXCEPT ![c] = new]
    BY <1>7 DEF SubmitAccepted
  <2>2. new.pc = "monitor" /\ new.delta = ZeroYen
    BY DEF Idle
  <2> QED
    BY <2>1, <2>2
<1>8. PICK new : /\ call' = [call EXCEPT ![c] = new]
                 /\ new.pc # "pnl" /\ new.delta = ZeroYen
  BY <1>3, <1>5, <1>6, <1>7 DEF CheckDrawdown, CheckPosition, Check, SubmitReplyLost,
     SubmitRefused, PollHit, RecordCancelled, CancelReached, CancelFailed
<1>9. \A d \in Callers : call'[d] = IF d = c THEN new ELSE call[d]
  BY <1>2, <1>8
<1> QED
  BY <1>1, <1>8, <1>9 DEF Carried

\* BookTrade keeps the balance: the order's amount joins the position and the
\* booked sizes, its price the cost and the yen paid, and what it realized is in
\* transit.
LEMMA BookTradeBalances ==
  ASSUME BInv, NEW c \in Callers, BookTrade(c), TypeOK'
  PROVE  Carried' /\ BooksBalance'
<1>0. PICK o : o = call[c].ord
  OBVIOUS
<1> DEFINE t == SignedAmount(o)
           price == orders[o].rate
           r == RealizedBy(pos, t, price)
           sum(f) == SumFunctionOnSet(f, Orders)
<1>1. o \in Orders /\ rows[o].booked = 0 /\ call[c].pc = "book"
  BY <1>0 DEF BookTrade, At, BInv, IInv, TypeOK, Parts, FollowsPlaced, Unreported, Blank, Watch,
     Orders, NoOrder
<1>2. /\ rows' = [rows EXCEPT ![o].booked = @ + 1]
      /\ pos' = Update(pos, t, price)
      /\ call' = [call EXCEPT ![c].pc = "pnl", ![c].delta = r]
      /\ UNCHANGED <<orders, placed, account, pnl>>
  BY <1>0 DEF BookTrade, exchange
<1>3. /\ call \in [Callers -> CallType] /\ orders \in [Orders -> OrderType]
      /\ rows \in [Orders -> [booked : Nat, cancelled : Nat]]
      /\ pos \in PositionType /\ pnl \in Frac
      /\ t \in Int \ {0} /\ price \in Nat
  BY <1>1, SignedAmountType DEF BInv, IInv, TypeOK
<1>4. IsFiniteSet(Orders)
  BY OrdersFinite
<1>5. /\ \A x \in Orders \ {o} : rows'[x] = rows[x]
      /\ rows'[o].booked = 1
  BY <1>1, <1>2, <1>3
<1>6. \A x \in Orders : SignedAmount(x) \in Int /\ orders[x].rate \in Int
  BY SignedAmountType DEF BInv, IInv
<1>7. /\ \A x \in Orders : BookedSize(x) \in Int /\ BookedSize(x)' \in Int
      /\ \A x \in Orders \ {o} : BookedSize(x)' = BookedSize(x)
      /\ BookedSize(o) = 0 /\ BookedSize(o)' = t
  <2>1. \A x \in Orders : SignedAmount(x)' = SignedAmount(x)
    BY <1>2 DEF SignedAmount
  <2> QED
    BY <1>1, <1>5, <1>6, <2>1 DEF BookedSize
<1>8. sum(Size') = sum(Size) + t
  <2>1. /\ \A x \in Orders : Size[x] \in Int /\ Size'[x] \in Int
        /\ \A x \in Orders \ {o} : Size'[x] = Size[x]
        /\ Size[o] = 0 /\ Size'[o] = t
    BY <1>1, <1>7 DEF Size
  <2> DEFINE f == Size
             g == Size'
  <2>2. /\ \A x \in Orders : f[x] \in Int /\ g[x] \in Int
        /\ \A x \in Orders \ {o} : g[x] = f[x]
        /\ f[o] = 0 /\ g[o] = t
    BY <2>1
  <2>3. sum(f) \in Int
    <3> HIDE DEF f
    <3> QED
      BY <1>4, <2>2, SumType
  <2> HIDE DEF f, g, t
  <2>4. sum(g) = sum(f) + g[o] - f[o]
    BY <1>1, <1>4, <2>2, SumUpdate
  <2>5. sum(g) = sum(f) + t
    BY <1>3, <2>2, <2>3, <2>4
  <2> QED
    BY <2>5 DEF f, g
<1>9. sum(Paid') = sum(Paid) + t * price /\ sum(Paid) \in Int
  <2>1. /\ \A x \in Orders : Paid[x] \in Int /\ Paid'[x] \in Int
        /\ \A x \in Orders \ {o} : Paid'[x] = Paid[x]
        /\ Paid[o] = 0 /\ Paid'[o] = t * price
    BY <1>1, <1>2, <1>6, <1>7 DEF Paid
  <2> DEFINE f == Paid
             g == Paid'
             m == t * price
  <2>2. /\ \A x \in Orders : f[x] \in Int /\ g[x] \in Int
        /\ \A x \in Orders \ {o} : g[x] = f[x]
        /\ f[o] = 0 /\ g[o] = m
    BY <2>1
  <2>3. sum(f) \in Int
    <3> HIDE DEF f
    <3> QED
      BY <1>4, <2>2, SumType
  <2>4. m \in Int
    BY <1>3
  <2> HIDE DEF f, g, m
  <2>5. sum(g) = sum(f) + g[o] - f[o]
    BY <1>1, <1>4, <2>2, SumUpdate
  <2>6. sum(g) = sum(f) + m
    BY <2>2, <2>3, <2>4, <2>5
  <2> QED
    BY <2>3, <2>6 DEF f, g, m
<1>10. r \in Frac
  BY <1>3, RealizedByType
<1>11. \A d \in Callers : call'[d] = IF d = c THEN [call[c] EXCEPT !.pc = "pnl", !.delta = r]
                                     ELSE call[d]
  <2> HIDE DEF r
  <2> QED
    BY <1>2, <1>3
<1>12. call'[c].pc = "pnl" /\ call'[c].delta = r /\ call[c].delta = ZeroYen
  BY <1>1, <1>3, <1>11 DEF CallType, BInv, Carried
<1>13. Carried'
  BY <1>11, <1>12 DEF BInv, Carried
<1>14. /\ \A d \in Callers : InTransit[d] \in Frac /\ InTransit'[d] \in Frac
       /\ \A d \in Callers \ {c} : InTransit'[d] = InTransit[d]
       /\ InTransit[c] = ZeroYen /\ InTransit'[c] = r
  BY <1>3, <1>11, <1>12 DEF InTransit, CallType, TypeOK
<1> DEFINE y == SumOfYen(InTransit, Callers)
           z == SumOfYen(InTransit', Callers)
<1>15. SameYen(z, AddYen(r, y)) /\ y \in Frac /\ z \in Frac
  <2> DEFINE f == InTransit
             g == InTransit'
  <2>1. /\ \A d \in Callers : f[d] \in Frac /\ g[d] \in Frac
        /\ \A d \in Callers \ {c} : g[d] = f[d]
        /\ f[c] = ZeroYen /\ g[c] = r
    BY <1>14
  <2> HIDE DEF f, g, r
  <2>2. SameYen(SumOfYen(g, Callers), AddYen(r, SumOfYen(f, Callers)))
    BY <2>1, YenSumGrows
  <2>3. SumOfYen(f, Callers) \in Frac /\ SumOfYen(g, Callers) \in Frac
    BY <2>1, YenSumType
  <2> QED
    BY <2>2, <2>3 DEF f, g
<1>16. pos'.size = sum(Size')
  <2>1. pos.size = sum(Size) /\ pos'.size = pos.size + t
    BY <1>2, <1>3, UpdateSize DEF BInv, BooksBalance
  <2> QED
    BY <1>8, <2>1
<1> DEFINE paid == [num |-> sum(Paid), den |-> 1]
           tp == [num |-> t * price, den |-> 1]
           old == CostOf(pos)
           cost == CostOf(pos')
<1>17. AddYen(paid, tp) = [num |-> sum(Paid'), den |-> 1]
  BY <1>9 DEF AddYen
<1>18. paid \in Frac /\ tp \in Frac /\ old \in Frac /\ cost \in Frac
  BY <1>3, <1>9 DEF Frac, CostOf, PositionType, TypeOK
<1>19. SameYen(AddYen(old, AddYen(tp, r)), cost)
  BY <1>2, <1>3, UpdateCost
<1>20. SameYen(AddYen(paid, AddYen(pnl, y)), old)
  BY DEF BInv, BooksBalance
<1>21. SameYen(AddYen(AddYen(paid, tp), AddYen(pnl, z)), cost)
  <2> HIDE DEF paid, tp, old, cost, y, z, r
  <2> DEFINE pt == AddYen(paid, tp)
             ry == AddYen(r, y)
             b1 == AddYen(pt, AddYen(pnl, z))
             b2 == AddYen(pt, AddYen(pnl, ry))
             k == AddYen(paid, AddYen(pnl, y))
             trd == AddYen(tp, r)
             b3 == AddYen(k, trd)
             b4 == AddYen(old, trd)
  <2>1. /\ pt \in Frac /\ ry \in Frac /\ b1 \in Frac /\ b2 \in Frac /\ b3 \in Frac /\ b4 \in Frac
        /\ k \in Frac /\ trd \in Frac /\ AddYen(pnl, z) \in Frac /\ AddYen(pnl, ry) \in Frac
    BY <1>3, <1>10, <1>15, <1>18, AddYenType
  <2>2. SameYen(AddYen(pnl, z), AddYen(pnl, ry))
    BY <1>3, <1>15, <2>1, AddYenSame
  <2>3. SameYen(b1, b2)
    BY <2>1, <2>2, AddYenSame
  <2>4. SameYen(b2, b3)
    BY <1>3, <1>10, <1>15, <1>18, AddYenRegroup
  <2>5. SameYen(b3, b4)
    BY <1>18, <1>20, <2>1, AddYenSameLeft
  <2>6. SameYen(b4, cost)
    BY <1>19
  <2> HIDE DEF b1, b2, b3, b4
  <2>7. SameYen(b1, b3)
    BY <2>1, <2>3, <2>4, SameYenTransitive
  <2>8. SameYen(b1, b4)
    BY <2>1, <2>5, <2>7, SameYenTransitive
  <2>9. SameYen(b1, cost)
    BY <1>18, <2>1, <2>6, <2>8, SameYenTransitive
  <2> QED
    BY <2>9 DEF b1
<1>22. BooksBalance'
  <2>1. pnl' = pnl
    BY <1>2
  <2>2. SameYen(AddYen([num |-> sum(Paid'), den |-> 1], AddYen(pnl, z)), cost)
    BY <1>17, <1>21
  <2> QED
    BY <1>16, <2>1, <2>2 DEF BooksBalance
<1> QED
  BY <1>13, <1>22

\* BookPnl keeps the balance: what was in transit has arrived.
LEMMA BookPnlBalances ==
  ASSUME BInv, NEW c \in Callers, BookPnl(c), TypeOK'
  PROVE  Carried' /\ BooksBalance'
<1> DEFINE r == call[c].delta
           y == SumOfYen(InTransit, Callers)
           z == SumOfYen(InTransit', Callers)
           paid == [num |-> SumFunctionOnSet(Paid, Orders), den |-> 1]
           cost == CostOf(pos)
<1>1. call \in [Callers -> CallType] /\ pnl \in Frac /\ pos \in PositionType /\ pnl' \in Frac
  BY DEF BInv, IInv, TypeOK
<1>2. r \in Frac /\ r.num \in Int
  BY <1>1 DEF CallType, Frac
<1>3. \A d \in Callers : call'[d] = IF d = c THEN Idle ELSE call[d]
  BY <1>1 DEF BookPnl, Return
<1>4. Carried'
  BY <1>3 DEF BInv, Carried, Idle
<1>5. UNCHANGED <<exchange, pos, rows>>
  BY DEF BookPnl
<1>6. Size' = Size /\ Paid' = Paid
  <2>1. \A o \in Orders : BookedSize(o)' = BookedSize(o) /\ orders'[o].rate = orders[o].rate
    BY <1>5 DEF BookedSize, SignedAmount, exchange
  <2> QED
    BY <2>1 DEF Size, Paid
<1>7. SameYen(AddYen(pnl, r), pnl')
  <2>1. CASE r.num = 0
    BY <1>1, <1>2, <2>1, AddNothing DEF BookPnl, AddRealized
  <2>2. CASE r.num # 0
    <3>1. pnl' = AddYen(pnl, r)
      BY <2>2 DEF BookPnl, AddRealized
    <3> QED
      BY <1>1, <3>1, SameYenEquivalence
  <2> QED
    BY <2>1, <2>2
<1>8. /\ \A d \in Callers : InTransit[d] \in Frac /\ InTransit'[d] \in Frac
      /\ \A d \in Callers \ {c} : InTransit[d] = InTransit'[d]
      /\ InTransit'[c] = ZeroYen /\ InTransit[c] = r
  BY <1>1, <1>3, AddZeroYen DEF InTransit, CallType, Idle, Frac, ZeroYen
<1>9. SameYen(y, AddYen(r, z)) /\ y \in Frac /\ z \in Frac
  <2> DEFINE f == InTransit'
             g == InTransit
  <2>1. /\ \A d \in Callers : f[d] \in Frac /\ g[d] \in Frac
        /\ \A d \in Callers \ {c} : g[d] = f[d]
        /\ f[c] = ZeroYen /\ g[c] = r
    BY <1>8
  <2> HIDE DEF f, g, r
  <2>2. SameYen(SumOfYen(g, Callers), AddYen(r, SumOfYen(f, Callers)))
    BY <2>1, YenSumGrows
  <2>3. SumOfYen(f, Callers) \in Frac /\ SumOfYen(g, Callers) \in Frac
    BY <2>1, YenSumType
  <2> QED
    BY <2>2, <2>3 DEF f, g
<1>10. paid \in Frac /\ cost \in Frac
  <2>1. \A o \in Orders : Paid[o] \in Int
    BY SignedAmountType DEF BInv, IInv, Paid, BookedSize
  <2>2. SumFunctionOnSet(Paid, Orders) \in Int
    BY <2>1, OrdersFinite, SumType
  <2> QED
    BY <1>1, <2>2 DEF Frac, CostOf, PositionType
<1>11. SameYen(AddYen(paid, AddYen(pnl, y)), cost)
  BY DEF BInv, BooksBalance
<1>12. SameYen(AddYen(paid, AddYen(pnl', z)), cost)
  <2> DEFINE n == pnl'
  <2>0. n \in Frac /\ SameYen(AddYen(pnl, r), n)
    BY <1>1, <1>7
  <2> HIDE DEF paid, cost, y, z, r, n
  <2> DEFINE rz == AddYen(r, z)
             pr == AddYen(pnl, r)
             s1 == AddYen(n, z)
             s2 == AddYen(pr, z)
             s3 == AddYen(pnl, rz)
             s4 == AddYen(pnl, y)
  <2>1. /\ rz \in Frac /\ pr \in Frac /\ s1 \in Frac /\ s2 \in Frac /\ s3 \in Frac /\ s4 \in Frac
        /\ AddYen(paid, s1) \in Frac /\ AddYen(paid, s4) \in Frac
    BY <1>1, <1>2, <1>9, <1>10, <2>0, AddYenType
  <2>2. SameYen(s2, s1)
    BY <1>9, <2>0, <2>1, AddYenSameLeft
  <2>3. SameYen(s3, s2)
    BY <1>1, <1>2, <1>9, AddYenAssociates
  <2>4. SameYen(s4, s3)
    BY <1>1, <1>9, <2>1, AddYenSame
  <2>5. SameYen(AddYen(paid, s4), cost)
    BY <1>11
  <2> HIDE DEF s1, s2, s3, s4
  <2>6. SameYen(s4, s2)
    BY <2>1, <2>3, <2>4, SameYenTransitive
  <2>7. SameYen(s4, s1)
    BY <2>1, <2>2, <2>6, SameYenTransitive
  <2>8. SameYen(s1, s4)
    BY <2>1, <2>7, SameYenEquivalence
  <2>9. SameYen(AddYen(paid, s1), AddYen(paid, s4))
    BY <1>10, <2>1, <2>8, AddYenSame
  <2>10. SameYen(AddYen(paid, s1), cost)
    BY <1>10, <2>1, <2>5, <2>9, SameYenTransitive
  <2> QED
    BY <2>10 DEF s1, n
<1> QED
  BY <1>4, <1>5, <1>6, <1>12 DEF BInv, BooksBalance

LEMMA BooksInit == Init => Carried /\ BooksBalance
<1> SUFFICES ASSUME Init PROVE Carried /\ BooksBalance
  OBVIOUS
<1>1. Carried
  BY DEF Init, Carried, Idle
<1>2. \A o \in Orders : Size[o] = 0 /\ Paid[o] = 0
  BY DEF Init, Size, Paid, BookedSize, Unplaced
<1>3. SumFunctionOnSet(Size, Orders) = 0 /\ SumFunctionOnSet(Paid, Orders) = 0
  BY <1>2, OrdersFinite, SumZero
<1>4. SameYen(SumOfYen(InTransit, Callers), ZeroYen) /\ SumOfYen(InTransit, Callers) \in Frac
  <2>1. \A c \in Callers : InTransit[c] = ZeroYen /\ InTransit[c] \in Frac
    BY <1>1, AddZeroYen DEF Init, InTransit, Idle, ZeroYen, Frac
  <2> QED
    BY <2>1, YenSumNothing, YenSumType
<1> DEFINE y == SumOfYen(InTransit, Callers)
<1>5. y.num = 0 /\ y.den \in Nat \ {0}
  BY <1>4 DEF SameYen, ZeroYen, Frac
<1> HIDE DEF y
<1>6. SameYen(AddYen(ZeroYen, AddYen(ZeroYen, y)), CostOf(Flat))
  BY <1>5 DEF SameYen, AddYen, ZeroYen, CostOf, Flat
<1>7. SameYen(AddYen([num |-> 0, den |-> 1], AddYen(ZeroYen, y)), CostOf(Flat))
  BY <1>6 DEF ZeroYen
<1> QED
  BY <1>1, <1>3, <1>7 DEF Init, BooksBalance, Flat, y

LEMMA BooksStep == BInv /\ [Next]_vars => BInv'
<1> SUFFICES ASSUME BInv, [Next]_vars PROVE BInv'
  OBVIOUS
<1> USE DEF exchange, books
<1>1. IInv'
  BY TypeStep, PartsStep DEF BInv, IInv, Parts
<1>2. TypeOK'
  BY <1>1 DEF IInv
<1>3. ASSUME NEW c \in Callers,
             \/ Call(c) \/ CheckDrawdown(c) \/ CheckPosition(c)
             \/ SubmitAccepted(c) \/ SubmitReplyLost(c) \/ SubmitRefused(c)
             \/ PollHit(c) \/ RecordCancelled(c) \/ CancelReached(c) \/ CancelFailed(c)
      PROVE  Carried' /\ BooksBalance'
  <2>1. Carried' /\ \A d \in Callers : call'[d].delta = call[d].delta
    BY <1>3, NothingCarried DEF BInv
  <2>2. UNCHANGED <<pos, pnl>>
    BY <1>3 DEF Call, CheckDrawdown, CheckPosition, Check, SubmitAccepted, SubmitReplyLost,
       SubmitRefused, PollHit, RecordCancelled, CancelReached, CancelFailed
  <2>3. \A o \in Orders : rows'[o].booked = rows[o].booked
    <3>1. rows \in [Orders -> [booked : Nat, cancelled : Nat]]
      BY DEF BInv, IInv, TypeOK
    <3>2. rows' = rows \/ rows' = [rows EXCEPT ![call[c].ord].cancelled = @ + 1]
      BY <1>3 DEF Call, CheckDrawdown, CheckPosition, Check, SubmitAccepted, SubmitReplyLost,
         SubmitRefused, PollHit, RecordCancelled, CancelReached, CancelFailed
    <3> QED
      BY <3>1, <3>2
  <2> QED
    BY <1>2, <2>1, <2>2, <2>3, BalanceFrame
<1>4. ASSUME NEW c \in Callers, BookTrade(c) \/ BookPnl(c) PROVE Carried' /\ BooksBalance'
  BY <1>2, <1>4, BookTradeBalances, BookPnlBalances
<1>5. ASSUME UNCHANGED <<call, pos, pnl, rows>> PROVE Carried' /\ BooksBalance'
  BY <1>2, <1>5, BalanceFrame DEF BInv, Carried
<1>6. CASE (\E o \in Orders : Fill(o) \/ CancelOrder(o)) \/ Exit
  <2>1. UNCHANGED <<call, pos, pnl, rows>>
    BY <1>6 DEF Fill, CancelOrder, Exit
  <2> QED
    BY <1>1, <1>5, <2>1 DEF BInv
<1>7. CASE UNCHANGED vars \/ \E c \in Callers : PollMiss(c)
  <2>1. UNCHANGED <<call, pos, pnl, rows>>
    BY <1>7 DEF PollMiss, vars
  <2> QED
    BY <1>1, <1>5, <2>1 DEF BInv
<1> QED
  BY <1>1, <1>3, <1>4, <1>6, <1>7 DEF BInv, Next, Proceed, Expire

\* The position is the sum of the booked amounts, and what it cost is what was
\* paid and what was realized: however the calls interleave the row, the update
\* of the position and the update of the PnL.
THEOREM BalancedBooks == Spec => []BooksBalance
<1>1. Init => BInv
  BY InitType, PartsInit, BooksInit DEF BInv, IInv
<1>2. BInv => BooksBalance
  BY DEF BInv
<1> QED
  BY <1>1, <1>2, BooksStep, PTL DEF Spec
-----------------------------------------------------------------------------
(***************************************************************************)
(* The risk checks, with one caller.                                       *)
(***************************************************************************)
\* With one caller, an order reaches the exchange only while the realized loss
\* is within MaxDrawdownPercent of the balance the call has read.
Sound == \A c \in Callers :
    call[c].pc \in {"position", "submit"} => ~DrawdownExceeded(call[c].bal)

LEMMA SoundStep ==
  ASSUME NEW me, Callers = {me}, TypeOK, TypeOK', Sound, [Next]_vars
  PROVE  Sound'
<1> USE DEF exchange, books, At
<1>1. call \in [Callers -> CallType] /\ me \in Callers
  BY DEF TypeOK
<1>2. ASSUME UNCHANGED pnl, call'[me] = call[me] PROVE Sound'
  BY <1>2 DEF Sound, DrawdownExceeded
<1>3. ASSUME call'[me].pc \notin {"position", "submit"} PROVE Sound'
  BY <1>3 DEF Sound
<1>4. ASSUME NEW label, Goto(me, label), UNCHANGED pnl,
             label \in {"position", "submit"} => ~DrawdownExceeded(call[me].bal)
      PROVE  Sound'
  <2>1. call'[me].pc = label /\ call'[me].bal = call[me].bal
    BY <1>1, <1>4 DEF Goto, CallType
  <2> QED
    BY <1>4, <2>1 DEF Sound, DrawdownExceeded
<1>5. ASSUME Return(me) PROVE Sound'
  <2>1. call'[me].pc = "idle"
    BY <1>1, <1>5 DEF Return, Idle
  <2> QED
    BY <1>3, <2>1
<1>6. CASE Call(me)
  <2>1. call'[me].pc = "drawdown"
    BY <1>1, <1>6 DEF Call, Idle
  <2> QED
    BY <1>3, <2>1
<1>7. CASE CheckDrawdown(me)
  BY <1>4, <1>5, <1>7 DEF CheckDrawdown, Check
<1>8. CASE CheckPosition(me)
  <2>1. ~DrawdownExceeded(call[me].bal)
    BY <1>1, <1>8 DEF CheckPosition, Sound
  <2> QED
    BY <1>4, <1>5, <1>8, <2>1 DEF CheckPosition, Check
<1>9. CASE SubmitAccepted(me)
  <2>1. call'[me].pc = "monitor"
    BY <1>1, <1>9 DEF SubmitAccepted, Idle
  <2> QED
    BY <1>3, <2>1
<1>10. CASE SubmitReplyLost(me) \/ SubmitRefused(me) \/ BookPnl(me) \/ RecordCancelled(me)
  BY <1>5, <1>10 DEF SubmitReplyLost, SubmitRefused, BookPnl, RecordCancelled
<1>11. CASE PollHit(me) \/ CancelReached(me) \/ CancelFailed(me)
  BY <1>4, <1>11 DEF PollHit, CancelReached, CancelFailed
<1>12. CASE BookTrade(me)
  <2> DEFINE r == RealizedBy(pos, SignedAmount(call[me].ord), orders[call[me].ord].rate)
  <2>1. call' = [call EXCEPT ![me] = [call[me] EXCEPT !.pc = "pnl", !.delta = r]]
    BY <1>1, <1>12 DEF BookTrade
  <2> HIDE DEF r
  <2>2. call'[me].pc = "pnl"
    BY <1>1, <2>1 DEF CallType
  <2> QED
    BY <1>3, <2>2
<1>13. CASE PollMiss(me) \/ Exit \/ UNCHANGED vars
            \/ \E o \in Orders : Fill(o) \/ CancelOrder(o)
  <2>1. UNCHANGED <<call, pnl>>
    BY <1>13 DEF PollMiss, Exit, Fill, CancelOrder, vars
  <2> QED
    BY <1>2, <2>1
<1> QED
  BY <1>6, <1>7, <1>8, <1>9, <1>10, <1>11, <1>12, <1>13 DEF Next, Proceed, Expire

\* A call past its check submits with the loss still within the limit: nothing
\* is booked between its check and its request.
THEOREM DrawdownKept ==
  ASSUME NEW me, Callers = {me}
  PROVE  Spec => NoOrderBeyondDrawdown
<1> DEFINE J == IInv /\ Sound
           Within == placed' # placed =>
             \E c \in Callers :
                /\ call[c].pc = "submit"
                /\ -pnl.num * 100 <= call[c].bal.jpy * MaxDrawdownPct * pnl.den
<1>1. Init => J
  BY InitType, PartsInit DEF IInv, Init, Sound, Idle
<1>2. J /\ [Next]_vars => J'
  <2> SUFFICES ASSUME J, [Next]_vars PROVE J'
    OBVIOUS
  <2>1. IInv'
    BY TypeStep, PartsStep DEF IInv, Parts
  <2>2. Sound'
    BY <2>1, SoundStep DEF IInv
  <2> QED
    BY <2>1, <2>2
<1>3. J /\ [Next]_vars => [Within]_vars
  <2> SUFFICES ASSUME J, [Next]_vars, placed' # placed
               PROVE  \E c \in Callers :
                        /\ call[c].pc = "submit"
                        /\ -pnl.num * 100 <= call[c].bal.jpy * MaxDrawdownPct * pnl.den
    OBVIOUS
  <2>1. PICK c \in Callers : SubmitAccepted(c) \/ SubmitReplyLost(c)
    BY DEF Next, Proceed, Expire, Call, CheckDrawdown, CheckPosition, Check, SubmitRefused,
       PollMiss, PollHit, BookTrade, BookPnl, CancelReached, CancelFailed, RecordCancelled, Fill,
       CancelOrder, Exit, vars, exchange, books
  <2>2. call[c].pc = "submit" /\ ~DrawdownExceeded(call[c].bal)
    BY <2>1 DEF SubmitAccepted, SubmitReplyLost, At, Sound
  <2>3. /\ -pnl.num * 100 \in Int
        /\ call[c].bal.jpy * MaxDrawdownPct * pnl.den \in Int
    BY DEF IInv, TypeOK, CallType, Account, Frac
  <2> QED
    BY <2>2, <2>3 DEF DrawdownExceeded
<1> QED
  BY <1>1, <1>2, <1>3, PTL DEF Spec, NoOrderBeyondDrawdown

\* The yen order o has taken off the account so far.
Outlay(o) ==
    IF orders[o].side = "sell" THEN 0
    ELSE (IF orders[o].status = "cancelled" THEN orders[o].filled ELSE orders[o].amount)
           * orders[o].rate
Flow == [o \in Orders |-> IF o > placed THEN 0 ELSE Proceeds[o] - Outlay(o)]

\* The yen on the account are those of the start and what the orders brought in
\* less what they took; so no balance read exceeds what was ever held.
Ledger == account.jpy = InitJpy + SumFunctionOnSet(Flow, Orders)
Untouched == \A o \in Orders : o > placed => orders[o] = Unplaced

LInv == IInv /\ Ledger /\ Untouched

FlowTypes == \A o \in Orders :
    /\ Proceeds[o] \in Nat /\ Outlay(o) \in Nat
    /\ Flow[o] = IF o > placed THEN 0 ELSE Proceeds[o] - Outlay(o)
    /\ Flow[o] \in Int

LEMMA FlowType == TypeOK => FlowTypes
<1> SUFFICES ASSUME TypeOK, NEW o \in Orders
             PROVE  /\ Proceeds[o] \in Nat /\ Outlay(o) \in Nat
                    /\ Flow[o] = IF o > placed THEN 0 ELSE Proceeds[o] - Outlay(o)
                    /\ Flow[o] \in Int
  BY DEF FlowTypes
<1>1. orders[o].amount \in Nat /\ orders[o].rate \in Nat /\ orders[o].filled \in Nat
  BY DEF TypeOK, OrderType
<1>2. Proceeds[o] \in Nat /\ Outlay(o) \in Nat
  BY <1>1 DEF Proceeds, Outlay
<1> QED
  BY <1>2 DEF Flow

LEMMA FlowTypeNext == TypeOK' => FlowTypes'
BY FlowType, PTL

\* A step that changes the flow of one order changes the account by as much.
LEMMA FlowStep ==
  ASSUME TypeOK, TypeOK', Ledger, NEW o \in Orders, NEW d \in Int,
         \A x \in Orders \ {o} : Flow'[x] = Flow[x],
         Flow'[o] = Flow[o] + d, account'.jpy = account.jpy + d
  PROVE  Ledger'
<1> DEFINE f == Flow
           g == Flow'
<1>1. /\ \A x \in Orders : f[x] \in Int /\ g[x] \in Int
      /\ \A x \in Orders \ {o} : g[x] = f[x]
      /\ g[o] = f[o] + d
  BY FlowType, FlowTypeNext DEF FlowTypes
<1> HIDE DEF f, g
<1>2. SumFunctionOnSet(g, Orders) = SumFunctionOnSet(f, Orders) + g[o] - f[o]
  BY <1>1, OrdersFinite, SumUpdate
<1>3. SumFunctionOnSet(f, Orders) \in Int
  BY <1>1, OrdersFinite, SumType
<1>4. SumFunctionOnSet(g, Orders) = SumFunctionOnSet(f, Orders) + d
  BY <1>1, <1>2, <1>3
<1> QED
  BY <1>3, <1>4 DEF Ledger, f, g

\* What the exchange does to an order and to the account.
LEMMA AcceptFlow ==
  ASSUME LInv, TypeOK', NEW r \in Request, Accept(r)
  PROVE  /\ Ledger' /\ Untouched'
         /\ \A x \in Orders : Proceeds[x] <= Proceeds'[x]
<1>0. PICK n : n = placed + 1
  OBVIOUS
<1> DEFINE d == IF r.side = "buy" THEN -(r.amount * r.rate) ELSE 0
<1>1. n \in Orders /\ placed \in Nat /\ placed' = n /\ n = placed + 1
  BY <1>0 DEF Accept, LInv, IInv, TypeOK, Orders
<1>2. /\ orders \in [Orders -> OrderType] /\ account \in Account
      /\ r.amount \in Nat \ {0} /\ r.rate \in Nat \ {0} /\ r.side \in {"buy", "sell"}
  BY DEF LInv, IInv, TypeOK, Request
<1>3. /\ \A x \in Orders \ {n} : orders'[x] = orders[x]
      /\ orders'[n] = [side |-> r.side, amount |-> r.amount, rate |-> r.rate,
                       filled |-> 0, status |-> "open"]
      /\ orders[n] = Unplaced
  BY <1>1, <1>2 DEF Accept, LInv, Untouched
<1>4. FlowTypes /\ FlowTypes'
  BY FlowType, FlowTypeNext DEF LInv, IInv
<1>5. \A x \in Orders \ {n} : Proceeds'[x] = Proceeds[x] /\ Outlay(x)' = Outlay(x)
  BY <1>3 DEF Proceeds, Outlay
<1>6. Proceeds[n] = 0 /\ Proceeds'[n] = 0
  BY <1>1, <1>2, <1>3 DEF Proceeds, Unplaced
<1>7. Outlay(n)' = -d /\ d \in Int
  <2>1. r.amount * r.rate \in Int
    BY <1>2
  <2> QED
    BY <1>2, <1>3, <2>1 DEF Outlay
<1>8. \A x \in Orders \ {n} : Flow'[x] = Flow[x]
  <2> SUFFICES ASSUME NEW x \in Orders \ {n} PROVE Flow'[x] = Flow[x]
    OBVIOUS
  <2>1. x > placed' <=> x > placed
    BY <1>1 DEF Orders
  <2> QED
    BY <1>4, <1>5, <2>1 DEF FlowTypes
<1>9. Flow'[n] = Flow[n] + d
  <2>1. Flow[n] = 0 /\ Flow'[n] = Proceeds'[n] - Outlay(n)'
    BY <1>1, <1>4 DEF FlowTypes
  <2> HIDE DEF d
  <2> QED
    BY <1>6, <1>7, <2>1
<1>10. account'.jpy = account.jpy + d
  BY <1>2 DEF Accept, Minus, Reserved, Account
<1>11. Ledger'
  <2> HIDE DEF d
  <2> QED
    BY <1>1, <1>7, <1>8, <1>9, <1>10, FlowStep DEF LInv, IInv
<1>12. Untouched'
  BY <1>1, <1>3 DEF LInv, Untouched, Orders
<1> QED
  BY <1>4, <1>5, <1>6, <1>11, <1>12 DEF FlowTypes

LEMMA FillFlow ==
  ASSUME LInv, TypeOK', NEW o \in Orders, Fill(o)
  PROVE  /\ Ledger' /\ Untouched'
         /\ \A x \in Orders : Proceeds[x] <= Proceeds'[x]
<1>1. PICK q \in 1..(orders[o].amount - orders[o].filled) :
        /\ orders' = [orders EXCEPT
                        ![o].filled = @ + q,
                        ![o].status = IF orders[o].filled + q = orders[o].amount
                                      THEN "filled" ELSE "open"]
        /\ account' = Plus(account, Gained(orders[o], q))
  BY DEF Fill
<1> DEFINE d == IF orders[o].side = "sell" THEN q * orders[o].rate ELSE 0
<1>2. orders \in [Orders -> OrderType] /\ account \in Account /\ placed \in Nat
  BY DEF LInv, IInv, TypeOK
<1>3. /\ orders[o].filled \in Nat /\ orders[o].rate \in Nat /\ orders[o].amount \in Nat
      /\ q \in Nat /\ orders[o].status = "open" /\ orders[o].side \in {"buy", "sell"}
  BY <1>2 DEF Fill, OrderType
<1>4. /\ \A x \in Orders \ {o} : orders'[x] = orders[x]
      /\ orders'[o].side = orders[o].side /\ orders'[o].amount = orders[o].amount
      /\ orders'[o].rate = orders[o].rate /\ orders'[o].filled = orders[o].filled + q
      /\ orders'[o].status # "cancelled"
  BY <1>1, <1>2 DEF OrderType
<1>5. FlowTypes /\ FlowTypes'
  BY FlowType, FlowTypeNext DEF LInv, IInv
<1>6. placed' = placed /\ ~(o > placed)
  BY <1>3 DEF Fill, LInv, Untouched, Unplaced
<1>7. \A x \in Orders \ {o} : Proceeds'[x] = Proceeds[x] /\ Outlay(x)' = Outlay(x)
  BY <1>4 DEF Proceeds, Outlay
<1>8. Proceeds'[o] = Proceeds[o] + d /\ Outlay(o)' = Outlay(o) /\ d \in Nat
  <2>1. (orders[o].filled + q) * orders[o].rate
          = orders[o].filled * orders[o].rate + q * orders[o].rate
    BY <1>3
  <2> QED
    BY <1>3, <1>4, <2>1 DEF Proceeds, Outlay
<1>9. \A x \in Orders \ {o} : Flow'[x] = Flow[x]
  BY <1>5, <1>6, <1>7 DEF FlowTypes
<1>10. Flow'[o] = Flow[o] + d
  <2> HIDE DEF d
  <2> QED
    BY <1>5, <1>6, <1>8 DEF FlowTypes
<1>11. account'.jpy = account.jpy + d
  BY <1>1, <1>2, <1>3 DEF Plus, Gained, Account
<1>12. Ledger'
  <2> HIDE DEF d
  <2> QED
    BY <1>8, <1>9, <1>10, <1>11, FlowStep DEF LInv, IInv
<1>13. Untouched'
  BY <1>4, <1>6 DEF LInv, Untouched
<1>14. \A x \in Orders : Proceeds[x] <= Proceeds'[x]
  <2> HIDE DEF d
  <2> QED
    BY <1>5, <1>7, <1>8 DEF FlowTypes
<1> QED
  BY <1>12, <1>13, <1>14

LEMMA TakeOffFlow ==
  ASSUME LInv, TypeOK', NEW o \in Orders, TakeOff(o), placed' = placed
  PROVE  /\ Ledger' /\ Untouched'
         /\ \A x \in Orders : Proceeds[x] <= Proceeds'[x]
<1>1. FlowTypes /\ FlowTypes' /\ placed \in Nat
  BY FlowType, FlowTypeNext DEF LInv, IInv, TypeOK
<1>2. CASE orders[o].status # "open"
  <2>1. UNCHANGED <<orders, account, placed>>
    BY <1>2 DEF TakeOff
  <2>2. Proceeds' = Proceeds /\ Flow' = Flow
    BY <2>1 DEF Proceeds, Flow, Outlay
  <2> QED
    BY <1>1, <2>1, <2>2 DEF LInv, Ledger, Untouched, FlowTypes
<1>3. CASE orders[o].status = "open"
  <2> DEFINE d == IF orders[o].side = "sell" THEN 0
                  ELSE (orders[o].amount - orders[o].filled) * orders[o].rate
  <2>1. orders \in [Orders -> OrderType] /\ account \in Account
    BY DEF LInv, IInv, TypeOK
  <2>2. /\ orders[o].filled \in Nat /\ orders[o].rate \in Nat /\ orders[o].amount \in Nat
        /\ orders[o].side \in {"buy", "sell"}
    BY <2>1 DEF OrderType
  <2>3. /\ \A x \in Orders \ {o} : orders'[x] = orders[x]
        /\ orders'[o].side = orders[o].side /\ orders'[o].amount = orders[o].amount
        /\ orders'[o].rate = orders[o].rate /\ orders'[o].filled = orders[o].filled
        /\ orders'[o].status = "cancelled"
        /\ account' = Plus(account, Reserved(orders[o], orders[o].amount - orders[o].filled))
    BY <1>3, <2>1 DEF TakeOff, OrderType
  <2>4. ~(o > placed)
    BY <1>3 DEF LInv, Untouched, Unplaced
  <2>5. /\ \A x \in Orders \ {o} : Proceeds'[x] = Proceeds[x] /\ Outlay(x)' = Outlay(x)
        /\ Proceeds'[o] = Proceeds[o]
    BY <2>3 DEF Proceeds, Outlay
  <2>6. Outlay(o)' = Outlay(o) - d /\ d \in Int
    <3>1. orders[o].filled * orders[o].rate
            = orders[o].amount * orders[o].rate
                - (orders[o].amount - orders[o].filled) * orders[o].rate
      BY <2>2
    <3> QED
      BY <1>3, <2>2, <2>3, <3>1 DEF Outlay
  <2>7. \A x \in Orders \ {o} : Flow'[x] = Flow[x]
    BY <1>1, <2>5 DEF FlowTypes
  <2>8. Flow'[o] = Flow[o] + d
    <3> HIDE DEF d
    <3> QED
      BY <1>1, <2>4, <2>5, <2>6 DEF FlowTypes
  <2>9. account'.jpy = account.jpy + d
    BY <2>1, <2>2, <2>3 DEF Plus, Reserved, Account
  <2>10. Ledger'
    <3> HIDE DEF d
    <3> QED
      BY <2>6, <2>7, <2>8, <2>9, FlowStep DEF LInv, IInv
  <2>11. Untouched'
    BY <2>3, <2>4 DEF LInv, Untouched
  <2>12. \A x \in Orders : Proceeds[x] <= Proceeds'[x]
    BY <1>1, <2>5 DEF FlowTypes
  <2> QED
    BY <2>10, <2>11, <2>12
<1> QED
  BY <1>2, <1>3

LEMMA LedgerInit == Init => Ledger /\ Untouched
<1> SUFFICES ASSUME Init PROVE Ledger /\ Untouched
  OBVIOUS
<1>1. placed = 0 /\ \A o \in Orders : o > placed /\ orders[o] = Unplaced
  BY DEF Init, Orders
<1>2. \A o \in Orders : Flow[o] = 0
  BY <1>1 DEF Flow
<1>3. SumFunctionOnSet(Flow, Orders) = 0
  BY <1>2, OrdersFinite, SumZero
<1> QED
  BY <1>1, <1>3 DEF Init, Ledger, Untouched

\* Every step keeps the ledger, and no step takes back what a sale brought in.
LEMMA LedgerStep ==
  ASSUME LInv, [Next]_vars
  PROVE  LInv' /\ \A x \in Orders : Proceeds[x] <= Proceeds'[x]
<1> USE DEF exchange, books
<1>1. IInv' /\ TypeOK'
  BY TypeStep, PartsStep DEF LInv, IInv, Parts
<1>2. ASSUME NEW c \in Callers, SubmitAccepted(c) \/ SubmitReplyLost(c)
      PROVE  Ledger' /\ Untouched' /\ \A x \in Orders : Proceeds[x] <= Proceeds'[x]
  <2>1. call[c].req \in Request /\ Accept(call[c].req)
    BY <1>2 DEF LInv, IInv, TypeOK, CallType, SubmitAccepted, SubmitReplyLost
  <2> QED
    BY <1>1, <2>1, AcceptFlow
<1>3. ASSUME NEW o \in Orders, Fill(o) \/ CancelOrder(o)
      PROVE  Ledger' /\ Untouched' /\ \A x \in Orders : Proceeds[x] <= Proceeds'[x]
  BY <1>1, <1>3, FillFlow, TakeOffFlow DEF CancelOrder
<1>4. ASSUME NEW c \in Callers, CancelReached(c)
      PROVE  Ledger' /\ Untouched' /\ \A x \in Orders : Proceeds[x] <= Proceeds'[x]
  <2>1. call[c].ord \in Orders
    BY <1>4 DEF CancelReached, At, LInv, IInv, TypeOK, Parts, FollowsPlaced, Orders
  <2> QED
    BY <1>1, <1>4, <2>1, TakeOffFlow DEF CancelReached
<1>5. ASSUME UNCHANGED <<orders, account, placed>>
      PROVE  Ledger' /\ Untouched' /\ \A x \in Orders : Proceeds[x] <= Proceeds'[x]
  <2>1. Proceeds' = Proceeds /\ Flow' = Flow
    BY <1>5 DEF Proceeds, Flow, Outlay
  <2>2. FlowTypes
    BY FlowType DEF LInv, IInv
  <2> QED
    BY <1>5, <2>1, <2>2 DEF LInv, Ledger, Untouched, FlowTypes
<1>6. CASE UNCHANGED <<orders, account, placed>>
  BY <1>1, <1>5, <1>6 DEF LInv
<1>7. CASE (\E c \in Callers : SubmitAccepted(c) \/ SubmitReplyLost(c) \/ CancelReached(c))
           \/ (\E o \in Orders : Fill(o) \/ CancelOrder(o))
  BY <1>1, <1>2, <1>3, <1>4, <1>7 DEF LInv
<1> QED
  BY <1>6, <1>7 DEF Next, Proceed, Expire, Call, CheckDrawdown, CheckPosition, Check,
     SubmitRefused, PollMiss, PollHit, BookTrade, BookPnl, CancelFailed, RecordCancelled, Exit, vars

\* What was ever held bounds every balance, and only grows.
LEMMA BalanceBound ==
  ASSUME LInv
  PROVE  account.jpy <= YenEverHeld /\ YenEverHeld \in Int
<1>1. FlowTypes
  BY FlowType DEF LInv, IInv
<1> DEFINE f == Flow
           g == Proceeds
<1>2. \A o \in Orders : f[o] \in Int /\ g[o] \in Int /\ f[o] <= g[o]
  BY <1>1 DEF FlowTypes
<1> HIDE DEF f, g
<1>3. SumFunctionOnSet(f, Orders) <= SumFunctionOnSet(g, Orders)
  BY <1>2, OrdersFinite, SumMonotone
<1>4. SumFunctionOnSet(f, Orders) \in Int /\ SumFunctionOnSet(g, Orders) \in Int
  BY <1>2, OrdersFinite, SumType
<1> QED
  BY <1>3, <1>4 DEF LInv, Ledger, YenEverHeld, f, g

LEMMA HeldGrows ==
  ASSUME LInv, [Next]_vars
  PROVE  YenEverHeld <= YenEverHeld' /\ YenEverHeld \in Int /\ YenEverHeld' \in Int
<1>1. FlowTypes /\ FlowTypes'
  BY LedgerStep, FlowType, FlowTypeNext DEF LInv, IInv
<1> DEFINE f == Proceeds
           g == Proceeds'
<1>2. \A o \in Orders : f[o] \in Int /\ g[o] \in Int /\ f[o] <= g[o]
  BY <1>1, LedgerStep DEF FlowTypes
<1> HIDE DEF f, g
<1>3. SumFunctionOnSet(f, Orders) <= SumFunctionOnSet(g, Orders)
  BY <1>2, OrdersFinite, SumMonotone
<1>4. SumFunctionOnSet(f, Orders) \in Int /\ SumFunctionOnSet(g, Orders) \in Int
  BY <1>2, OrdersFinite, SumType
<1> QED
  BY <1>3, <1>4 DEF YenEverHeld, f, g

\* An order worth v yen fits, on top of position p, into the ratio of w yen; and
\* a long position p lies within it.
Fits(p, v, w) == (Abs(CostOf(p).num) + v * p.den) * 100 <= w * MaxPositionPct * p.den
Within(p, w) == p.size > 0 => CostOf(p).num * 100 <= w * MaxPositionPct * p.den

LEMMA RatioGrows ==
  ASSUME NEW p \in PositionType, NEW v \in Int, NEW w \in Int, NEW x \in Int, w <= x
  PROVE  /\ Fits(p, v, w) => Fits(p, v, x)
         /\ Within(p, w) => Within(p, x)
<1>1. p.size \in Int /\ p.num \in Int /\ p.den \in Nat \ {0}
  BY DEF PositionType
<1>2. CostOf(p).num \in Int /\ Abs(CostOf(p).num) \in Int
  BY <1>1, AbsNat DEF CostOf
<1> DEFINE k == MaxPositionPct * p.den
<1>3. k \in Nat
  BY <1>1
<1>4. w * k <= x * k
  <2> HIDE DEF k
  <2>1. (x - w) * k >= 0
    BY <1>3
  <2>2. (x - w) * k = x * k - w * k
    BY <1>3
  <2>3. w * k \in Int /\ x * k \in Int
    BY <1>3
  <2> QED
    BY <2>1, <2>2, <2>3
<1>5. w * MaxPositionPct * p.den = w * k /\ x * MaxPositionPct * p.den = x * k
  BY <1>1
<1>6. w * k \in Int /\ x * k \in Int /\ (Abs(CostOf(p).num) + v * p.den) * 100 \in Int
      /\ CostOf(p).num * 100 \in Int
  BY <1>1, <1>2, <1>3
<1> QED
  BY <1>4, <1>5, <1>6 DEF Fits, Within

\* The average entry price is never negative.
LEMMA AverageNonNegative ==
  ASSUME NEW p \in PositionType, p.num >= 0, NEW t \in Int \ {0}, NEW price \in Nat
  PROVE  Update(p, t, price).num >= 0
<1>1. p.size \in Int /\ p.num \in Nat /\ p.den \in Nat \ {0}
  BY DEF PositionType
<1>2. Opened(t, price).num >= 0 /\ Opened(p.size + t, price).num >= 0 /\ Flat.num >= 0
      /\ [p EXCEPT !.size = @ + t].num >= 0
  BY <1>1 DEF Opened, Flat, PositionType
<1>3. Increased(p, t, price).num >= 0
  <2>1. Abs(p.size) \in Nat /\ Abs(t) \in Nat
    BY <1>1, AbsNat
  <2>2. Abs(p.size) * p.num \in Nat /\ Abs(t) * price * p.den \in Nat
    BY <1>1, <2>1
  <2> QED
    BY <2>2 DEF Increased
<1> QED
  BY <1>2, <1>3 DEF Update, Offset

\* A purchase that fits leaves a long position within the ratio, whether it
\* opens one, adds to one or turns a short one around.
LEMMA PurchaseWithin ==
  ASSUME NEW p \in PositionType, p.num >= 0, NEW t \in Nat \ {0}, NEW price \in Nat,
         NEW w \in Int, Fits(p, t * price, w)
  PROVE  Within(Update(p, t, price), w)
<1>1. p.size \in Int /\ p.num \in Nat /\ p.den \in Nat \ {0}
  BY DEF PositionType
<1> DEFINE s == p.size
           n == p.num
           d == p.den
           m == MaxPositionPct
<1>2. (Abs(s * n) + (t * price) * d) * 100 <= w * m * d
  BY DEF Fits, CostOf
<1>3. Abs(t) = t /\ Abs(s * n) \in Nat /\ s * n <= Abs(s * n)
  <2>1. s * n \in Int
    BY <1>1
  <2> QED
    BY <2>1 DEF Abs
<1>4. s \in Int /\ n \in Nat /\ d \in Nat \ {0} /\ m \in Nat
  BY <1>1
<1>5. (t * price) * 100 <= w * m
  <2> HIDE DEF s, n, d, m
  <2>1. (t * price) * d \in Nat
    BY <1>4
  <2>2. ((t * price) * d) * 100 <= w * m * d
    <3>1. w * m * d \in Int
      BY <1>4
    <3> QED
      BY <1>2, <1>3, <2>1, <3>1
  <2>3. ((t * price) * 100) * d <= (w * m) * d
    <3>1. ((t * price) * d) * 100 = ((t * price) * 100) * d
      BY <1>4
    <3> QED
      BY <2>2, <3>1
  <2>4. (t * price) * 100 \in Int /\ w * m \in Int
    BY <1>4
  <2> QED
    BY <1>4, <2>3, <2>4, CancelFactorLeq
<1>6. CASE s = 0
  <2>1. Update(p, t, price) = Opened(t, price)
    BY <1>6 DEF Update
  <2>2. CostOf(Opened(t, price)).num = t * price /\ Opened(t, price).den = 1
    BY DEF CostOf, Opened
  <2>3. w * m * 1 = w * m
    BY <1>4
  <2> QED
    BY <1>5, <2>1, <2>2, <2>3 DEF Within
<1>7. CASE s > 0
  <2> DEFINE k == s * n + t * price * d
  <2>1. Abs(s) = s /\ SameDirection(p, t)
    BY <1>1, <1>7 DEF Abs, SameDirection
  <2>2. Update(p, t, price) = Increased(p, t, price)
    BY <1>7, <2>1 DEF Update
  <2>3. /\ Increased(p, t, price).size = s + t /\ Increased(p, t, price).num = k
        /\ Increased(p, t, price).den = d * (s + t)
    BY <1>3, <2>1 DEF Increased
  <2>4. CostOf(Increased(p, t, price)).num = (s + t) * k
    BY <2>3 DEF CostOf
  <2> DEFINE u == s + t
  <2>5. ((s + t) * k) * 100 <= w * m * (d * (s + t))
    <3> HIDE DEF s, n, d, m
    <3>1. u \in Nat /\ k \in Int /\ w * m * d \in Int
      BY <1>4, <1>7
    <3>2. k * 100 <= w * m * d
      <4>1. s * n \in Int /\ (t * price) * d \in Int /\ t * price * d = (t * price) * d
        BY <1>4
      <4> QED
        BY <1>2, <1>3, <3>1, <4>1
    <3> HIDE DEF k, u
    <3>3. (k * 100) * u <= (w * m * d) * u
      <4> DEFINE a == k * 100
                 b == w * m * d
      <4>1. a \in Int /\ b \in Int /\ a <= b
        BY <3>1, <3>2
      <4> HIDE DEF a, b
      <4> QED
        BY <3>1, <4>1, ScaleLeq DEF a, b
    <3>4. (u * k) * 100 = (k * 100) * u
      BY <3>1
    <3>5. w * m * (d * u) = (w * m * d) * u
      BY <1>4, <3>1
    <3> QED
      BY <3>3, <3>4, <3>5 DEF u
  <2> QED
    BY <2>2, <2>3, <2>4, <2>5 DEF Within
<1>8. CASE s < 0
  <2>1. Update(p, t, price) = Offset(p, t, price)
    BY <1>1, <1>8 DEF Update, SameDirection
  <2>2. CASE t < -s
    <3>1. Offset(p, t, price) = [p EXCEPT !.size = @ + t]
      BY <1>1, <1>8, <2>2 DEF Offset, Abs
    <3>2. [p EXCEPT !.size = @ + t].size = s + t
      BY DEF PositionType
    <3> QED
      BY <1>1, <2>1, <2>2, <3>1, <3>2 DEF Within
  <2>3. CASE t = -s
    <3>1. Offset(p, t, price) = Flat
      BY <1>1, <1>8, <2>3 DEF Offset, Abs
    <3> QED
      BY <2>1, <3>1 DEF Within, Flat
  <2>4. CASE t > -s
    <3>1. Offset(p, t, price) = Opened(s + t, price)
      BY <1>1, <1>8, <2>4 DEF Offset, Abs
    <3>2. CostOf(Opened(s + t, price)).num = (s + t) * price /\ Opened(s + t, price).den = 1
      BY DEF CostOf, Opened
    <3>3. ((s + t) * price) * 100 <= w * m
      <4>1. (s + t) * price <= t * price
        <5>1. (-s) * price \in Nat
          BY <1>4, <1>8
        <5>2. t * price = (s + t) * price + (-s) * price
          BY <1>4
        <5>3. (s + t) * price \in Int
          BY <1>4
        <5> QED
          BY <5>1, <5>2, <5>3
      <4>2. (s + t) * price \in Int /\ t * price \in Int /\ w * m \in Int
        BY <1>4
      <4> QED
        BY <1>5, <4>1, <4>2
    <3>4. w * m * 1 = w * m
      BY <1>4
    <3> QED
      BY <2>1, <3>1, <3>2, <3>3, <3>4 DEF Within
  <2> QED
    BY <1>1, <2>2, <2>3, <2>4
<1> QED
  BY <1>1, <1>6, <1>7, <1>8

\* A sale leaves a smaller long position at the same average, or none.
LEMMA SaleWithin ==
  ASSUME NEW p \in PositionType, p.num >= 0, NEW t \in Int, t < 0, NEW price \in Nat,
         NEW w \in Int, Within(p, w)
  PROVE  Within(Update(p, t, price), w)
<1>1. p.size \in Int /\ p.num \in Nat /\ p.den \in Nat \ {0}
  BY DEF PositionType
<1>2. Update(p, t, price).size = p.size + t
  BY UpdateSize
<1>3. CASE p.size + t <= 0
  BY <1>1, <1>2, <1>3 DEF Within
<1>4. CASE p.size + t > 0
  <2>1. Update(p, t, price) = [p EXCEPT !.size = @ + t]
    BY <1>1, <1>4 DEF Update, SameDirection, Offset, Abs
  <2> DEFINE q == [p EXCEPT !.size = @ + t]
  <2>2. q.size = p.size + t /\ q.num = p.num /\ q.den = p.den
    BY DEF PositionType
  <2>3. CostOf(q).num = (p.size + t) * p.num
    BY <2>2 DEF CostOf
  <2>4. (p.size + t) * p.num <= p.size * p.num
    BY <1>1, ScaleLeq
  <2>5. p.size * p.num * 100 <= w * MaxPositionPct * p.den
    BY <1>1, <1>4 DEF Within, CostOf
  <2>6. (p.size + t) * p.num \in Int /\ p.size * p.num \in Int /\ w * MaxPositionPct * p.den \in Int
    BY <1>1
  <2>7. (p.size + t) * p.num * 100 <= w * MaxPositionPct * p.den
    BY <2>4, <2>5, <2>6
  <2> QED
    BY <2>1, <2>2, <2>3, <2>7 DEF Within
<1> QED
  BY <1>1, <1>3, <1>4

\* With one caller, neither the position nor the average moves between the check
\* of an order and its booking.
Known == \A c \in Callers :
    call[c].pc \in {"drawdown", "position"} => call[c].bal.jpy <= YenEverHeld

Vetted == \A c \in Callers :
    /\ call[c].pc = "submit" /\ call[c].req.side = "buy"
         => Fits(pos, call[c].req.amount * call[c].req.rate, YenEverHeld)
    /\ call[c].pc \in {"monitor", "book"} /\ orders[call[c].ord].side = "buy"
         => Fits(pos, orders[call[c].ord].amount * orders[call[c].ord].rate, YenEverHeld)

RInv == /\ LInv /\ Known /\ Vetted
        /\ pos.num >= 0
        /\ Within(pos, YenEverHeld)

\* A step that leaves the position and the call's order alone.
LEMMA VettedFrame ==
  ASSUME NEW me, Callers = {me}, RInv, [Next]_vars, UNCHANGED pos,
         call'[me].pc \in {"drawdown", "position"} => call'[me].bal.jpy <= YenEverHeld',
         call'[me].pc = "submit" /\ call'[me].req.side = "buy"
           => Fits(pos, call'[me].req.amount * call'[me].req.rate, YenEverHeld),
         call'[me].pc \in {"monitor", "book"} /\ orders'[call'[me].ord].side = "buy"
           => Fits(pos, orders'[call'[me].ord].amount * orders'[call'[me].ord].rate, YenEverHeld)
  PROVE  RInv'
<1>1. LInv'
  BY LedgerStep DEF RInv
<1>2. YenEverHeld <= YenEverHeld' /\ YenEverHeld \in Int /\ YenEverHeld' \in Int
  BY HeldGrows DEF RInv
<1>3. pos \in PositionType /\ pos.num >= 0 /\ Within(pos, YenEverHeld)
  BY DEF RInv, LInv, IInv, TypeOK
<1>4. \A v \in Int : Fits(pos, v, YenEverHeld) => Fits(pos, v, YenEverHeld')
  BY <1>2, <1>3, RatioGrows
<1>5. Within(pos, YenEverHeld')
  <2>1. 0 \in Int
    OBVIOUS
  <2> QED
    BY <1>2, <1>3, <2>1, RatioGrows
<1>6. call'[me] \in CallType /\ orders' \in [Orders -> OrderType] /\ placed' \in 0..MaxOrders
      /\ FollowsPlaced'
  BY <1>1 DEF LInv, IInv, TypeOK, Parts
<1>7. call'[me].req.amount * call'[me].req.rate \in Int
  BY <1>6 DEF CallType, Request
<1>8. call'[me].pc \in {"monitor", "book"} =>
        orders'[call'[me].ord].amount * orders'[call'[me].ord].rate \in Int
  <2> SUFFICES ASSUME call'[me].pc \in {"monitor", "book"}
               PROVE  orders'[call'[me].ord].amount * orders'[call'[me].ord].rate \in Int
    OBVIOUS
  <2>1. call'[me].ord \in Orders
    BY <1>6 DEF FollowsPlaced, Orders
  <2> QED
    BY <1>6, <2>1 DEF OrderType
<1>9. Known'
  BY DEF Known
<1>10. Vetted'
  BY <1>4, <1>7, <1>8 DEF Vetted
<1> QED
  BY <1>1, <1>3, <1>5, <1>9, <1>10 DEF RInv

LEMMA RatioStep ==
  ASSUME NEW me, Callers = {me}, RInv, [Next]_vars
  PROVE  RInv'
<1> USE DEF exchange, books, At
<1>1. /\ call \in [Callers -> CallType] /\ me \in Callers /\ pos \in PositionType
      /\ orders \in [Orders -> OrderType]
  BY DEF RInv, LInv, IInv, TypeOK
<1>2. YenEverHeld <= YenEverHeld' /\ YenEverHeld \in Int /\ YenEverHeld' \in Int
      /\ account.jpy <= YenEverHeld
  BY HeldGrows, BalanceBound DEF RInv
<1>3. /\ call[me].pc \in {"drawdown", "position"} => call[me].bal.jpy <= YenEverHeld
      /\ call[me].pc = "submit" /\ call[me].req.side = "buy"
           => Fits(pos, call[me].req.amount * call[me].req.rate, YenEverHeld)
      /\ call[me].pc \in {"monitor", "book"} /\ orders[call[me].ord].side = "buy"
           => Fits(pos, orders[call[me].ord].amount * orders[call[me].ord].rate, YenEverHeld)
  BY <1>1 DEF RInv, Known, Vetted
<1>4. call[me].bal.jpy \in Int /\ account.jpy \in Int
  BY <1>1 DEF RInv, LInv, IInv, TypeOK, CallType, Account
<1>5. ASSUME UNCHANGED pos, call'[me].pc \notin {"drawdown", "position", "submit", "monitor", "book"}
      PROVE  RInv'
  BY <1>5, VettedFrame
<1>6. ASSUME Return(me), UNCHANGED pos PROVE RInv'
  <2>1. call'[me].pc = "idle"
    BY <1>1, <1>6 DEF Return, Idle
  <2> QED
    BY <1>5, <1>6, <2>1
<1>7. ASSUME NEW label, Goto(me, label)
      PROVE  /\ call'[me].pc = label /\ call'[me].bal = call[me].bal
             /\ call'[me].req = call[me].req /\ call'[me].ord = call[me].ord
  BY <1>1, <1>7 DEF Goto, CallType
<1>8. CASE Call(me)
  <2>1. call'[me].pc = "drawdown" /\ call'[me].bal = account
    BY <1>1, <1>8 DEF Call, Idle
  <2>2. UNCHANGED pos /\ call'[me].bal.jpy <= YenEverHeld'
    BY <1>2, <1>4, <1>8, <2>1 DEF Call
  <2> QED
    BY <2>1, <2>2, VettedFrame
<1>9. CASE CheckDrawdown(me)
  <2>1. CASE Return(me)
    BY <1>6, <1>9, <2>1 DEF CheckDrawdown, Check
  <2>2. CASE Goto(me, "position")
    <3>1. call'[me].pc = "position" /\ call'[me].bal.jpy <= YenEverHeld' /\ UNCHANGED pos
      BY <1>2, <1>3, <1>4, <1>7, <1>9, <2>2 DEF CheckDrawdown, Check
    <3> QED
      BY <3>1, VettedFrame
  <2> QED
    BY <1>9, <2>1, <2>2 DEF CheckDrawdown, Check
<1>10. CASE CheckPosition(me)
  <2>1. CASE Return(me)
    BY <1>6, <1>10, <2>1 DEF CheckPosition, Check
  <2>2. CASE ~PositionExceeded(call[me].req, call[me].bal) /\ Goto(me, "submit")
    <3> DEFINE r == call[me].req
    <3>1. call'[me].pc = "submit" /\ call'[me].req = r /\ UNCHANGED pos
      BY <1>7, <1>10, <2>2 DEF CheckPosition, Check
    <3>2. r.amount * r.rate \in Int
      BY <1>1 DEF CallType, Request
    <3>3. ASSUME r.side = "buy" PROVE Fits(pos, r.amount * r.rate, YenEverHeld)
      <4> DEFINE b == call[me].bal.jpy
      <4>1. b <= YenEverHeld /\ b \in Int
        BY <1>3, <1>4, <1>10 DEF CheckPosition
      <4>2. (Abs(CostOf(pos).num) + r.amount * r.rate * pos.den) * 100
              <= b * MaxPositionPct * pos.den
        <5>1. /\ pos.den \in Nat /\ CostOf(pos).num \in Int
          BY <1>1 DEF PositionType, CostOf
        <5>2. (Abs(CostOf(pos).num) + r.amount * r.rate * pos.den) * 100 \in Int
              /\ b * MaxPositionPct * pos.den \in Int
          BY <3>2, <4>1, <5>1, AbsNat
        <5> QED
          BY <2>2, <3>3, <5>2 DEF PositionExceeded
      <4>3. Fits(pos, r.amount * r.rate, b)
        BY <4>2 DEF Fits
      <4> HIDE DEF b, r
      <4> QED
        BY <1>1, <1>2, <3>2, <4>1, <4>3, RatioGrows
    <3> QED
      BY <3>1, <3>3, VettedFrame
  <2> QED
    BY <1>10, <2>1, <2>2 DEF CheckPosition, Check
<1>11. CASE SubmitAccepted(me)
  <2>0. PICK n : n = placed + 1
    OBVIOUS
  <2>1. call'[me].pc = "monitor" /\ call'[me].ord = n /\ UNCHANGED pos
    BY <1>1, <1>11, <2>0 DEF SubmitAccepted, Idle
  <2>2. n \in Orders
    BY <1>11, <2>0, AcceptedFrame DEF SubmitAccepted, RInv, LInv
  <2>3. /\ orders'[n].side = call[me].req.side /\ orders'[n].amount = call[me].req.amount
        /\ orders'[n].rate = call[me].req.rate
    BY <1>1, <1>11, <2>0, <2>2 DEF SubmitAccepted, Accept
  <2>4. orders'[n].side = "buy" => Fits(pos, orders'[n].amount * orders'[n].rate, YenEverHeld)
    BY <1>3, <1>11, <2>3 DEF SubmitAccepted
  <2> QED
    BY <2>1, <2>4, VettedFrame
<1>12. CASE SubmitReplyLost(me) \/ SubmitRefused(me) \/ BookPnl(me) \/ RecordCancelled(me)
  BY <1>6, <1>12 DEF SubmitReplyLost, SubmitRefused, BookPnl, RecordCancelled
<1>13. CASE PollHit(me)
  <2>1. /\ call'[me].pc = "book" /\ call'[me].ord = call[me].ord
        /\ UNCHANGED <<pos, orders>> /\ call[me].pc = "monitor"
    BY <1>7, <1>13 DEF PollHit
  <2> QED
    BY <1>3, <2>1, VettedFrame
<1>14. CASE CancelReached(me) \/ CancelFailed(me)
  <2>1. call'[me].pc = "record" /\ UNCHANGED pos
    BY <1>7, <1>14 DEF CancelReached, CancelFailed
  <2> QED
    BY <1>5, <2>1
<1>15. CASE BookTrade(me)
  <2>0. PICK o : o = call[me].ord
    OBVIOUS
  <2> DEFINE t == SignedAmount(o)
             price == orders[o].rate
             r == RealizedBy(pos, t, price)
  <2>1. o \in Orders /\ t \in Int \ {0} /\ price \in Nat
    <3>1. o \in Orders
      BY <1>15, <2>0 DEF BookTrade, RInv, LInv, IInv, TypeOK, Parts, FollowsPlaced, Orders
    <3> QED
      BY <3>1, SignedAmountType DEF RInv, LInv, IInv
  <2>2. call' = [call EXCEPT ![me] = [call[me] EXCEPT !.pc = "pnl", !.delta = r]]
    BY <1>1, <1>15, <2>0 DEF BookTrade
  <2>3. call'[me].pc = "pnl"
    <3> HIDE DEF r
    <3> QED
      BY <1>1, <2>2 DEF CallType
  <2>4. pos' = Update(pos, t, price) /\ UNCHANGED orders
    BY <1>15, <2>0 DEF BookTrade
  <2>5. pos'.num >= 0
    BY <1>1, <2>1, <2>4, AverageNonNegative DEF RInv
  <2>6. Within(pos', YenEverHeld)
    <3>1. CASE orders[o].side = "buy"
      <4>1. t \in Nat \ {0} /\ t = orders[o].amount
        BY <1>1, <2>1, <3>1 DEF SignedAmount, OrderType
      <4>2. Fits(pos, t * price, YenEverHeld)
        BY <1>3, <1>15, <2>0, <3>1, <4>1 DEF BookTrade
      <4> HIDE DEF t, price
      <4> QED
        BY <1>1, <1>2, <2>1, <2>4, <4>1, <4>2, PurchaseWithin DEF RInv
    <3>2. CASE orders[o].side # "buy"
      <4>1. t < 0
        BY <1>1, <2>1, <3>2 DEF SignedAmount, OrderType
      <4> HIDE DEF t, price
      <4> QED
        BY <1>1, <1>2, <2>1, <2>4, <4>1, SaleWithin DEF RInv
    <3> QED
      BY <3>1, <3>2
  <2>7. LInv'
    BY LedgerStep DEF RInv
  <2>8. Within(pos', YenEverHeld')
    <3>1. pos' \in PositionType /\ 0 \in Int
      BY <2>7 DEF LInv, IInv, TypeOK
    <3> QED
      BY <1>2, <2>6, <3>1, RatioGrows
  <2>9. Known' /\ Vetted'
    BY <2>3 DEF Known, Vetted
  <2> QED
    BY <2>5, <2>7, <2>8, <2>9 DEF RInv
<1>16. ASSUME UNCHANGED <<call, pos>>,
              \A x \in Orders : /\ orders'[x].side = orders[x].side
                               /\ orders'[x].amount = orders[x].amount
                               /\ orders'[x].rate = orders[x].rate
       PROVE  RInv'
  <2>1. call[me].pc \in {"monitor", "book"} => call[me].ord \in Orders
    BY <1>1 DEF RInv, LInv, IInv, TypeOK, Parts, FollowsPlaced, Orders
  <2>2. call'[me].pc \in {"drawdown", "position"} => call'[me].bal.jpy <= YenEverHeld'
    BY <1>2, <1>3, <1>4, <1>16
  <2>3. call'[me].pc \in {"monitor", "book"} /\ orders'[call'[me].ord].side = "buy"
           => Fits(pos, orders'[call'[me].ord].amount * orders'[call'[me].ord].rate, YenEverHeld)
    BY <1>3, <1>16, <2>1
  <2> QED
    BY <1>3, <1>16, <2>2, <2>3, VettedFrame
<1>17. ASSUME NEW o \in Orders, Fill(o) \/ CancelOrder(o) PROVE RInv'
  <2>1. UNCHANGED <<call, pos>>
    BY <1>17 DEF Fill, CancelOrder
  <2> QED
    BY <1>16, <1>17, <2>1, TermsStay DEF CancelOrder, RInv, LInv, IInv
<1>18. CASE PollMiss(me) \/ Exit \/ UNCHANGED vars
  <2>1. UNCHANGED <<call, pos, orders>>
    BY <1>18 DEF PollMiss, Exit, vars
  <2> QED
    BY <1>16, <2>1
<1> QED
  BY <1>8, <1>9, <1>10, <1>11, <1>12, <1>13, <1>14, <1>15, <1>17, <1>18 DEF Next, Proceed, Expire

\* With one caller, a long position was bought within MaxPositionRatio of the
\* yen the account ever held: the check counts the position already held, and a
\* balance read earlier is no more than what was ever held.
THEOREM RatioKept ==
  ASSUME NEW me, Callers = {me}
  PROVE  Spec => []LongPositionWithinRatio
<1>1. Init => RInv
  <2> SUFFICES ASSUME Init PROVE RInv
    OBVIOUS
  <2>1. LInv
    BY InitType, PartsInit, LedgerInit DEF LInv, IInv
  <2>2. Known /\ Vetted
    BY DEF Init, Known, Vetted, Idle
  <2>3. pos.num >= 0 /\ Within(pos, YenEverHeld)
    BY DEF Init, Flat, Within
  <2> QED
    BY <2>1, <2>2, <2>3 DEF RInv
<1>2. RInv /\ [Next]_vars => RInv'
  BY RatioStep
<1>3. RInv => LongPositionWithinRatio
  BY DEF RInv, Within, LongPositionWithinRatio
<1> QED
  BY <1>1, <1>2, <1>3, PTL DEF Spec
=============================================================================
