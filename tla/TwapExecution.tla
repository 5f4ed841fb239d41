--------------------------- MODULE TwapExecution ----------------------------
(***************************************************************************)
(* Sliced orders and partial exits: executeTwapOrder and positionMonitor   *)
(* (cmd/bot/main.go) with the partial-exit flag of LiveExecutionEngine.    *)
(*                                                                         *)
(* Three kinds of goroutine meet here.  The signal loop opens positions,   *)
(* with a direct PlaceOrder or, for a large order, with a TWAP goroutine.  *)
(* The position monitor ticks and, when the position is in profit and no   *)
(* partial exit is under way, starts a TWAP goroutine that sells part of   *)
(* it.  Each TWAP goroutine places its order in chunks, and clears the     *)
(* partial-exit flag when it ends, whatever it was started for.            *)
(*                                                                         *)
(* A call of PlaceOrder is one step: by module OrderOutcome the position   *)
(* moves by the amount, once, or the call returns an error and it does not *)
(* move at all.                                                            *)
(***************************************************************************)
EXTENDS Integers, FiniteSets

CONSTANTS
    Twaps,         \* identities for the TWAP goroutines alive at one time
    MaxOrderSize,  \* cfg.Trade.Twap.MaxOrderSizeBtc, in lots
    OrderAmount,   \* cfg.Trade.OrderAmount, in lots
    ExitPct,       \* cfg.Trade.Twap.ExitRatio, in percent
    MaxSize        \* bound: no signal or exit while the position is beyond it

ASSUME SizeAssumption ==
    /\ MaxOrderSize \in Nat \ {0}
    /\ OrderAmount \in Nat \ {0}
    /\ ExitPct \in 1..100
    /\ MaxSize \in Nat

VARIABLES
    twapEnabled,  \* cfg.Trade.Twap.Enabled
    ctxDone,      \* the context is cancelled
    exiting,      \* e.isExitingPartially
    size,         \* the size of e.position
    twap,         \* twap[i]: the locals of executeTwapOrder
    sliced        \* an entry was sliced at some time (a history variable)

vars == <<twapEnabled, ctxDone, exiting, size, twap, sliced>>

Kinds == {"none", "entry", "exit"}
Sides == {"buy", "sell"}
Labels == {"free", "chunk", "sleep", "last", "defer"}

\* kind and side of the order, its total amount, the loop index i, the lots
\* placed so far, and whether an error or the context cut it short.
Free == [pc |-> "free", kind |-> "none", side |-> "buy", total |-> 0, i |-> 0,
         sent |-> 0, aborted |-> FALSE]

TwapType == [pc : Labels, kind : Kinds, side : Sides, total : Nat, i : Nat,
             sent : Nat, aborted : BOOLEAN]

Running(kind) == {i \in Twaps : twap[i].pc # "free" /\ twap[i].kind = kind}

Magnitude(n) == IF n < 0 THEN -n ELSE n
Signed(side, amount) == IF side = "sell" THEN -amount ELSE amount

-----------------------------------------------------------------------------
(***************************************************************************)
(* executeTwapOrder.                                                       *)
(***************************************************************************)
NumOrders(i) == twap[i].total \div MaxOrderSize
LastOrderSize(i) == twap[i].total - NumOrders(i) * MaxOrderSize

\* The statement after the for loop has run n times.
After(i, n) == IF n < NumOrders(i) THEN "chunk" ELSE "last"

\* go executeTwapOrder(ctx, execEngine, params), up to its first statement.
Spawn(i, kind, side, amount) ==
    /\ twap[i].pc = "free"
    /\ twap' = [twap EXCEPT ![i] =
                  [Free EXCEPT !.pc = IF amount \div MaxOrderSize > 0 THEN "chunk" ELSE "last",
                               !.kind = kind, !.side = side, !.total = amount]]

\* PlaceOrder filled the amount: the goroutine goes on at the label.
Placed(i, amount, label) ==
    /\ size' = size + Signed(twap[i].side, amount)
    /\ twap' = [twap EXCEPT ![i].pc = label, ![i].sent = @ + amount]

\* Mutant: the goroutine tries again instead of ending.
AbortRetries(i) == UNCHANGED <<twap, size>>

\* PlaceOrder failed, the context is done, or a reload left no trade
\* configuration: the goroutine ends.
Abort(i) ==
    /\ twap' = [twap EXCEPT ![i].pc = "defer", ![i].aborted = TRUE]
    /\ UNCHANGED size

\* One round of the for loop.
Chunk(i) ==
    /\ twap[i].pc = "chunk"
    /\ \/ ~ctxDone /\ Placed(i, MaxOrderSize, "sleep")
       \/ Abort(i)
    /\ UNCHANGED <<twapEnabled, ctxDone, exiting, sliced>>

Sleep(i) ==
    /\ twap[i].pc = "sleep"
    /\ twap' = [twap EXCEPT ![i].pc = After(i, twap[i].i + 1), ![i].i = @ + 1]
    /\ UNCHANGED <<twapEnabled, ctxDone, exiting, size, sliced>>

\* The remainder, unless it is (virtually) zero.
LastChunk(i) ==
    /\ twap[i].pc = "last"
    /\ IF LastOrderSize(i) = 0
       THEN twap' = [twap EXCEPT ![i].pc = "defer"] /\ UNCHANGED size
       ELSE \/ ~ctxDone /\ Placed(i, LastOrderSize(i), "defer")
            \/ Abort(i)
    /\ UNCHANGED <<twapEnabled, ctxDone, exiting, sliced>>

\* Mutant: the flag is cleared only by an order that was placed completely.
DeferOnlyAfterSuccess(i) ==
    /\ twap[i].pc = "defer"
    /\ exiting' = (exiting /\ twap[i].aborted)
    /\ twap' = [twap EXCEPT ![i] = Free]
    /\ UNCHANGED <<twapEnabled, ctxDone, size, sliced>>

\* The deferred SetPartialExitStatus(false): for an entry as well.
Defer(i) ==
    /\ twap[i].pc = "defer"
    /\ exiting' = FALSE
    /\ twap' = [twap EXCEPT ![i] = Free]
    /\ UNCHANGED <<twapEnabled, ctxDone, size, sliced>>

TwapStep(i) == Chunk(i) \/ Sleep(i) \/ LastChunk(i) \/ Defer(i)

-----------------------------------------------------------------------------
(***************************************************************************)
(* The goroutines that start them.                                         *)
(***************************************************************************)
\* Mutant: an order is sliced only if it makes two whole chunks.
SignalSlicesWholeChunks(side) ==
    /\ ~ctxDone
    /\ Magnitude(size) <= MaxSize
    /\ IF twapEnabled /\ OrderAmount \div MaxOrderSize > 1
       THEN /\ \E i \in Twaps : Spawn(i, "entry", side, OrderAmount)
            /\ sliced' = TRUE
            /\ UNCHANGED size
       ELSE /\ size' = size + Signed(side, OrderAmount)
            /\ UNCHANGED <<twap, sliced>>
    /\ UNCHANGED <<twapEnabled, ctxDone, exiting>>

\* The signal loop: a large order goes to a TWAP goroutine, any other is placed
\* by the loop itself (whose failure changes nothing).
Signal(side) ==
    /\ ~ctxDone
    /\ Magnitude(size) <= MaxSize
    /\ IF twapEnabled /\ OrderAmount > MaxOrderSize
       THEN /\ \E i \in Twaps : Spawn(i, "entry", side, OrderAmount)
            /\ sliced' = TRUE
            /\ UNCHANGED size
       ELSE /\ size' = size + Signed(side, OrderAmount)
            /\ UNCHANGED <<twap, sliced>>
    /\ UNCHANGED <<twapEnabled, ctxDone, exiting>>

\* Mutant: the flag is not looked at.
MayTriggerAgain == size # 0

\* CheckAndTriggerPartialExit: whether the profit is beyond the threshold is up
\* to the market.
MayTrigger == ~exiting /\ size # 0

\* The exit is a part of a lot where the division says so: a lot is the
\* resolution of the model, so it is rounded up, and is never nothing.
ExitSize == (Magnitude(size) * ExitPct + 99) \div 100

\* A tick of the position monitor that triggers: the flag is set inside the
\* lock, and the order goes to a TWAP goroutine.
TriggerPartialExit ==
    /\ ~ctxDone
    /\ MayTrigger
    /\ exiting' = TRUE
    /\ \E i \in Twaps :
          Spawn(i, "exit", IF size < 0 THEN "buy" ELSE "sell", ExitSize)
    /\ UNCHANGED <<twapEnabled, ctxDone, size, sliced>>

\* A configuration reload flips cfg.Trade.Twap.Enabled.
SetTwapEnabled ==
    /\ twapEnabled' = ~twapEnabled
    /\ UNCHANGED <<ctxDone, exiting, size, twap, sliced>>

Cancel ==
    /\ ~ctxDone
    /\ ctxDone' = TRUE
    /\ UNCHANGED <<twapEnabled, exiting, size, twap, sliced>>

-----------------------------------------------------------------------------
Init ==
    /\ twapEnabled \in BOOLEAN
    /\ ctxDone = FALSE
    /\ exiting = FALSE
    /\ size = 0
    /\ twap = [i \in Twaps |-> Free]
    /\ sliced = FALSE

Next ==
    \/ \E i \in Twaps : TwapStep(i)
    \/ \E side \in Sides : Signal(side)
    \/ TriggerPartialExit
    \/ SetTwapEnabled
    \/ Cancel

Spec == Init /\ [][Next]_vars

\* A TWAP goroutine runs on: each PlaceOrder returns (LiveEngine, CallsReturn)
\* and each sleep ends.
FairSpec == Spec /\ \A i \in Twaps : WF_vars(TwapStep(i))

-----------------------------------------------------------------------------
(***************************************************************************)
(* Properties.                                                             *)
(***************************************************************************)
\* The types of the variables.
TypeOK ==
    /\ twapEnabled \in BOOLEAN /\ ctxDone \in BOOLEAN /\ exiting \in BOOLEAN
    /\ size \in Int
    /\ twap \in [Twaps -> TwapType]
    /\ sliced \in BOOLEAN

\* The flag is never left behind: while it is set, the goroutine of a partial
\* exit is there to clear it, on every path out of executeTwapOrder (error,
\* cancelled context, completion).
FlagHasOwner == exiting => Running("exit") # {}

\* "Should not trigger another exit if one is in progress"
\* (execution_engine_test.go:689).
AtMostOneExit == Cardinality(Running("exit")) <= 1

\* It holds as long as no entry has been sliced: then the flag is set exactly
\* while an exit runs.
AtMostOneExitWithoutEntryTwap == ~sliced => AtMostOneExit

\* While slicing is enabled no single order is larger than the limit: not a
\* chunk, not the remainder, not what the signal loop places itself; and a
\* goroutine never places more than its total, and that total unless an error
\* or the context cuts it short.
WholeAmountPlaced ==
    [][ /\ Magnitude(size' - size) > MaxOrderSize => ~twapEnabled /\ UNCHANGED twap
        /\ \A i \in Twaps :
              /\ twap'[i].sent <= twap'[i].total
              /\ twap'[i].pc = "defer" /\ ~twap'[i].aborted => twap'[i].sent = twap'[i].total
      ]_vars

\* Every partial exit ends and makes way for the next one.
ExitEnds == exiting ~> ~exiting
=============================================================================
