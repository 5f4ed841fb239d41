---------------------------- MODULE DBWriterProofs ----------------------------
(***************************************************************************)
(* Theorems about the database writer, for any finite set of savers, any   *)
(* batch size and any number of rows.                                      *)
(***************************************************************************)
EXTENDS DBWriter, ArithmeticProofs, SequenceTheorems

USE SizesAssumption, SaversAssumption

-----------------------------------------------------------------------------
(***************************************************************************)
(* The inductive invariant: rows are numbered as they are saved, and a     *)
(* table followed by its buffer holds them in that order.                  *)
(***************************************************************************)
Numbered == [kind : Kinds, id : Nat]

TypeOK ==
    /\ saved \in Nat
    /\ buffer \in [Kinds -> Seq(Numbered)]
    /\ table \in [Kinds -> Seq(Numbered)]
    /\ due \in [Savers -> Kinds \cup {"none"}]
    /\ closing \in {"open", "closing", "closed"}
    /\ before \in 0 .. saved

Increasing(rows) == \A m, n \in 1 .. Len(rows) : m < n => rows[m].id < rows[n].id

\* No row has a number that was not given out yet.
Old == \A k \in Kinds : \A n \in 1 .. Len(table[k] \o buffer[k]) : (table[k] \o buffer[k])[n].id <= saved

IInv ==
    /\ TypeOK
    /\ \A k \in Kinds : Increasing(table[k] \o buffer[k])
    /\ Old
    /\ BufferBounded
    /\ ClosedIsFlushed

LEMMA InOrder == IInv => RowsInOrder
  BY DEF IInv, RowsInOrder, Increasing

-----------------------------------------------------------------------------
\* The first part of an increasing sequence is increasing.
LEMMA ConcatFirst ==
  ASSUME NEW s \in Seq(Numbered), NEW t \in Seq(Numbered)
  PROVE  \A n \in 1 .. Len(s) : n \in 1 .. Len(s \o t) /\ (s \o t)[n] = s[n]
OBVIOUS

LEMMA NumbersAreNatural ==
  ASSUME NEW s \in Seq(Numbered)
  PROVE  \A n \in 1 .. Len(s) : s[n].id \in Nat
<1>1. \A n \in 1 .. Len(s) : s[n] \in Numbered
  OBVIOUS
<1> QED
  BY <1>1 DEF Numbered

LEMMA PrefixIncreasing ==
  ASSUME NEW s \in Seq(Numbered), NEW t \in Seq(Numbered), Increasing(s \o t)
  PROVE  Increasing(s)
<1>1. \A n \in 1 .. Len(s) : n \in 1 .. Len(s \o t) /\ (s \o t)[n] = s[n]
  BY ConcatFirst
<1> QED
  BY <1>1 DEF Increasing

\* A row with a larger number than all others may be appended.
LEMMA AppendIncreasing ==
  ASSUME NEW s \in Seq(Numbered), NEW bound \in Nat, NEW row \in Numbered,
         row.id = bound + 1, Increasing(s), \A n \in 1 .. Len(s) : s[n].id <= bound
  PROVE  /\ Increasing(Append(s, row))
         /\ \A n \in 1 .. Len(Append(s, row)) : Append(s, row)[n].id <= bound + 1
<1>1. /\ Len(Append(s, row)) = Len(s) + 1 /\ Len(s) \in Nat
      /\ Append(s, row)[Len(s) + 1] = row
      /\ \A n \in 1 .. Len(s) : Append(s, row)[n] = s[n]
  OBVIOUS
<1>2. \A n \in 1 .. Len(s) + 1 : n = Len(s) + 1 \/ n \in 1 .. Len(s)
  BY <1>1
<1>3. \A n \in 1 .. Len(s) : s[n].id \in Nat
  BY NumbersAreNatural
<1> QED
  BY <1>1, <1>2, <1>3 DEF Increasing

LEMMA ConcatAppend ==
  ASSUME NEW s \in Seq(Numbered), NEW t \in Seq(Numbered), NEW e \in Numbered
  PROVE  s \o Append(t, e) = Append(s \o t, e)
<1>1. <<e>> \in Seq(Numbered) /\ s \o t \in Seq(Numbered)
  OBVIOUS
<1>2. Append(t, e) = t \o <<e>>
  BY AppendIsConcat
<1>3. Append(s \o t, e) = (s \o t) \o <<e>>
  BY <1>1, AppendIsConcat
<1>4. (s \o t) \o <<e>> = s \o (t \o <<e>>)
  BY <1>1, ConcatAssociative
<1> QED
  BY <1>2, <1>3, <1>4

\* What a flush leaves: tables that are what they were, with or without the
\* buffer, and empty buffers.
LEMMA FlushedTables ==
  ASSUME TypeOK, Flush
  PROVE  /\ buffer' = [k \in Kinds |-> <<>>]
         /\ table' \in [Kinds -> Seq(Numbered)]
         /\ \A k \in Kinds : table'[k] \in {table[k], table[k] \o buffer[k]}
<1>1. PICK failed \in SUBSET Kinds :
         /\ table' = [k \in Kinds |-> IF k \in failed THEN table[k] ELSE table[k] \o buffer[k]]
         /\ buffer' = [k \in Kinds |-> <<>>]
  BY DEF Flush
<1>2. \A k \in Kinds : table[k] \in Seq(Numbered) /\ table[k] \o buffer[k] \in Seq(Numbered)
  BY DEF TypeOK
<1> QED
  BY <1>1, <1>2

\* A flush by anybody keeps order and bounds; afterwards nothing is buffered.
LEMMA FlushKeeps ==
  ASSUME IInv, Flush, UNCHANGED saved, due' \in [Savers -> Kinds \cup {"none"}],
         closing' \in {"open", "closing", "closed"}, UNCHANGED before
  PROVE  IInv'
<1> USE DEF IInv
<1>1. /\ buffer' = [k \in Kinds |-> <<>>]
      /\ table' \in [Kinds -> Seq(Numbered)]
      /\ \A k \in Kinds : table'[k] \in {table[k], table[k] \o buffer[k]}
  BY FlushedTables
<1>2. TypeOK'
  <2>1. buffer' \in [Kinds -> Seq(Numbered)]
    BY <1>1
  <2> QED
    BY <1>1, <2>1 DEF TypeOK
<1>3. ASSUME NEW k \in Kinds
      PROVE  /\ Increasing(table'[k] \o buffer'[k])
             /\ \A n \in 1 .. Len(table'[k] \o buffer'[k]) : (table'[k] \o buffer'[k])[n].id <= saved'
  <2>1. table[k] \in Seq(Numbered) /\ buffer[k] \in Seq(Numbered)
    BY DEF TypeOK
  <2>2. buffer'[k] = <<>> /\ table'[k] \in Seq(Numbered)
    BY <1>1
  <2>3. table'[k] \o buffer'[k] = table'[k]
    BY <2>2
  <2>4. Increasing(table[k] \o buffer[k]) /\ Increasing(table[k])
    BY <2>1, PrefixIncreasing
  <2>5. \A n \in 1 .. Len(table[k]) : /\ n \in 1 .. Len(table[k] \o buffer[k])
                                      /\ (table[k] \o buffer[k])[n] = table[k][n]
    BY <2>1, ConcatFirst
  <2>6. \A n \in 1 .. Len(table[k] \o buffer[k]) : (table[k] \o buffer[k])[n].id <= saved
    BY DEF Old
  <2>7. CASE table'[k] = table[k]
    BY <2>3, <2>4, <2>5, <2>6, <2>7
  <2>8. CASE table'[k] = table[k] \o buffer[k]
    BY <2>3, <2>4, <2>6, <2>8
  <2> QED
    BY <1>1, <2>7, <2>8
<1>4. BufferBounded'
  <2> SUFFICES ASSUME NEW k \in Kinds
               PROVE  Len(buffer'[k]) <= BatchSize - 1 + Cardinality(Flushing(k)')
    BY DEF BufferBounded
  <2>1. Cardinality(Flushing(k)') \in Nat
    BY FS_Subset, FS_CardinalityType DEF Flushing
  <2>2. Len(buffer'[k]) = 0
    BY <1>1
  <2> QED
    BY <2>1, <2>2
<1>5. ClosedIsFlushed'
  BY <1>1 DEF ClosedIsFlushed, RowsOf
<1> QED
  BY <1>2, <1>3, <1>4, <1>5 DEF Old

\* A saver appends the next number; if that fills the buffer, it is one more of
\* those about to flush it.
LEMMA SaveKeeps ==
  ASSUME IInv, NEW s \in Savers, NEW k \in Kinds, Save(s, k)
  PROVE  IInv'
<1> DEFINE row == [kind |-> k, id |-> saved + 1]
<1> USE DEF IInv
<1>1. /\ saved' = saved + 1 /\ due[s] = "none"
      /\ buffer' = [buffer EXCEPT ![k] = Append(buffer[k], row)]
      /\ due' = [due EXCEPT ![s] = IF Len(buffer[k]) + 1 >= BatchSize THEN k ELSE "none"]
      /\ UNCHANGED <<table, closing, before>>
  BY DEF Save, Free, AppendRow, Full
<1>2. row \in Numbered
  BY DEF TypeOK, Numbered
<1>3. TypeOK'
  <2>1. Append(buffer[k], row) \in Seq(Numbered)
    BY <1>2 DEF TypeOK
  <2>2. buffer' \in [Kinds -> Seq(Numbered)]
    BY <1>1, <2>1 DEF TypeOK
  <2> HIDE DEF row
  <2> QED
    BY <1>1, <2>2 DEF TypeOK
<1>4. ASSUME NEW l \in Kinds
      PROVE  /\ Increasing(table'[l] \o buffer'[l])
             /\ \A n \in 1 .. Len(table'[l] \o buffer'[l]) : (table'[l] \o buffer'[l])[n].id <= saved'
  <2> DEFINE rows == table[l] \o buffer[l]
  <2>1. table[l] \in Seq(Numbered) /\ buffer[l] \in Seq(Numbered) /\ rows \in Seq(Numbered)
    BY DEF TypeOK
  <2>2. Increasing(rows) /\ \A n \in 1 .. Len(rows) : rows[n].id <= saved
    BY DEF Old
  <2>3. saved \in Nat
    BY DEF TypeOK
  <2> HIDE DEF rows
  <2>4. CASE l # k
    <3>1. table'[l] \o buffer'[l] = rows
      BY <1>1, <2>4 DEF TypeOK, rows
    <3>2. \A n \in 1 .. Len(rows) : rows[n].id \in Nat
      BY <2>1, NumbersAreNatural
    <3>3. \A n \in 1 .. Len(rows) : rows[n].id <= saved + 1
      BY <2>2, <2>3, <3>2
    <3> QED
      BY <1>1, <2>2, <3>1, <3>3
  <2>5. CASE l = k
    <3>1. table'[l] = table[l] /\ buffer'[l] = Append(buffer[l], row)
      BY <1>1, <2>5 DEF TypeOK
    <3>2. row.id = saved + 1
      OBVIOUS
    <3> HIDE DEF row
    <3>3. table'[l] \o buffer'[l] = Append(rows, row)
      <4>1. table[l] \o Append(buffer[l], row) = Append(table[l] \o buffer[l], row)
        BY <1>2, <2>1, ConcatAppend
      <4> QED
        BY <3>1, <4>1 DEF rows
    <3>4. /\ Increasing(Append(rows, row))
          /\ \A n \in 1 .. Len(Append(rows, row)) : Append(rows, row)[n].id <= saved + 1
      BY <1>2, <2>1, <2>2, <2>3, <3>2, AppendIncreasing
    <3> QED
      BY <1>1, <3>3, <3>4
  <2> QED
    BY <2>4, <2>5
<1>5. BufferBounded'
  <2> SUFFICES ASSUME NEW l \in Kinds
               PROVE  Len(buffer'[l]) <= BatchSize - 1 + Cardinality(Flushing(l)')
    BY DEF BufferBounded
  <2>1. IsFiniteSet(Flushing(l)) /\ Cardinality(Flushing(l)) \in Nat
    BY FS_Subset, FS_CardinalityType DEF Flushing
  <2>2. Len(buffer[l]) \in Nat /\ Len(buffer[l]) <= BatchSize - 1 + Cardinality(Flushing(l))
    BY DEF TypeOK, BufferBounded
  <2>3. s \notin Flushing(l)
    BY <1>1 DEF Flushing, Kinds
  <2>4. CASE l # k
    <3>1. Flushing(l)' = Flushing(l)
      BY <1>1, <2>4 DEF Flushing, TypeOK, Kinds
    <3>2. buffer'[l] = buffer[l]
      BY <1>1, <2>4 DEF TypeOK
    <3> QED
      BY <2>2, <3>1, <3>2
  <2>5. CASE l = k
    <3>1. Len(buffer'[l]) = Len(buffer[l]) + 1
      BY <1>1, <1>2, <2>5 DEF TypeOK
    <3>2. CASE Len(buffer[l]) + 1 >= BatchSize
      <4>1. Flushing(l)' = Flushing(l) \cup {s}
        BY <1>1, <2>5, <3>2 DEF Flushing, TypeOK
      <4>2. Cardinality(Flushing(l)') = Cardinality(Flushing(l)) + 1
        BY <2>1, <2>3, <4>1, FS_AddElement
      <4> QED
        BY <2>1, <2>2, <3>1, <4>2
    <3>3. CASE ~(Len(buffer[l]) + 1 >= BatchSize)
      <4>1. Cardinality(Flushing(l)') \in Nat
        BY FS_Subset, FS_CardinalityType DEF Flushing
      <4> QED
        BY <2>2, <3>1, <3>3, <4>1
    <3> QED
      BY <3>2, <3>3
  <2> QED
    BY <2>4, <2>5
<1>6. ClosedIsFlushed'
  <2> SUFFICES ASSUME closing = "closed", NEW l \in Kinds, NEW n \in 1 .. Len(buffer'[l])
               PROVE  buffer'[l][n].id > before
    BY <1>1 DEF ClosedIsFlushed, RowsOf
  <2>1. \A m \in 1 .. Len(buffer[l]) : buffer[l][m].id > before
    BY DEF ClosedIsFlushed, RowsOf
  <2>2. before < saved + 1 /\ row.id = saved + 1
    BY DEF TypeOK
  <2>3. buffer[l] \in Seq(Numbered)
    BY DEF TypeOK
  <2>4. CASE l # k
    BY <1>1, <2>1, <2>4 DEF TypeOK
  <2>5. CASE l = k
    <3>1. buffer'[l] = Append(buffer[l], row)
      BY <1>1, <2>5 DEF TypeOK
    <3> HIDE DEF row
    <3>2. n \in 1 .. Len(buffer[l]) \/ n = Len(buffer[l]) + 1
      BY <2>3, <3>1
    <3>3. CASE n = Len(buffer[l]) + 1
      BY <2>2, <2>3, <3>1, <3>3
    <3>4. CASE n \in 1 .. Len(buffer[l])
      BY <2>1, <2>3, <3>1, <3>4
    <3> QED
      BY <3>2, <3>3, <3>4
  <2> QED
    BY <2>4, <2>5
<1> QED
  BY <1>3, <1>4, <1>5, <1>6 DEF Old

-----------------------------------------------------------------------------
LEMMA InitInv == Init => IInv
<1> SUFFICES ASSUME Init PROVE IInv
  OBVIOUS
<1> USE DEF Init
<1>1. TypeOK
  BY DEF TypeOK
<1>2. \A k \in Kinds : table[k] \o buffer[k] = <<>> /\ Len(buffer[k]) = 0
  OBVIOUS
<1>3. (\A k \in Kinds : Increasing(table[k] \o buffer[k])) /\ Old
  BY <1>2 DEF Increasing, Old
<1>4. BufferBounded
  <2>1. \A k \in Kinds : Flushing(k) \in SUBSET Savers
    BY DEF Flushing
  <2>2. \A k \in Kinds : Cardinality(Flushing(k)) \in Nat
    BY <2>1, FS_Subset, FS_CardinalityType
  <2> QED
    BY <1>2, <2>2 DEF BufferBounded
<1>5. ClosedIsFlushed
  BY DEF ClosedIsFlushed
<1> QED
  BY <1>1, <1>3, <1>4, <1>5 DEF IInv

LEMMA NextInv == IInv /\ [Next]_vars => IInv'
<1> SUFFICES ASSUME IInv, [Next]_vars PROVE IInv'
  OBVIOUS
<1>1. ASSUME NEW s \in Savers, NEW k \in Kinds, Save(s, k) PROVE IInv'
  BY <1>1, SaveKeeps
<1>2. ASSUME NEW s \in Savers, SaverFlush(s) PROVE IInv'
  <2>1. due' \in [Savers -> Kinds \cup {"none"}]
    BY <1>2 DEF SaverFlush, IInv, TypeOK
  <2> QED
    BY <1>2, <2>1, FlushKeeps DEF SaverFlush, IInv, TypeOK
<1>3. CASE Tick
  BY <1>3, FlushKeeps DEF Tick, IInv, TypeOK
<1>4. CASE CloseFlush
  BY <1>4, FlushKeeps DEF CloseFlush, IInv, TypeOK
\* Close takes down how many rows there were; the other steps leave the rows.
<1>5. CASE CloseBegin
  <2>1. /\ UNCHANGED <<saved, buffer, table, due>>
        /\ closing' = "closing" /\ before' = saved
    BY <1>5 DEF CloseBegin, store
  <2>2. TypeOK'
    BY <2>1 DEF IInv, TypeOK
  <2>3. BufferBounded'
    BY <2>1 DEF IInv, BufferBounded, Flushing
  <2>4. Old' /\ \A k \in Kinds : Increasing(table'[k] \o buffer'[k])
    BY <2>1 DEF IInv, Old
  <2> QED
    BY <2>1, <2>2, <2>3, <2>4 DEF IInv, ClosedIsFlushed
<1>6. CASE UNCHANGED <<saved, buffer, table, due, closing, before>>
  BY <1>6 DEF IInv, TypeOK, Old, BufferBounded, Flushing, ClosedIsFlushed, RowsOf
<1>7. CASE Stop \/ Exit \/ (\E s \in Savers : ReadTotal(s) \/ InsertProfit(s)) \/ UNCHANGED vars
  BY <1>6, <1>7 DEF Stop, Exit, ReadTotal, InsertProfit, vars, store
<1> QED
  BY <1>1, <1>2, <1>3, <1>4, <1>5, <1>7 DEF Next

LEMMA Invariance == Spec => []IInv
  BY InitInv, NextInv, PTL DEF Spec

-----------------------------------------------------------------------------
(***************************************************************************)
(* The theorems.                                                           *)
(***************************************************************************)
\* RowsInOrder: no interleaving of flushes reorders the rows of a table.
THEOREM WrittenInOrder == Spec => []RowsInOrder
  BY Invariance, InOrder, PTL

\* BufferBounded: only savers between their append and their flush let a buffer
\* grow past the batch size.
THEOREM BoundedBuffers == Spec => []BufferBounded
<1>1. IInv => BufferBounded
  BY DEF IInv
<1> QED
  BY Invariance, <1>1, PTL

\* ClosedIsFlushed: Close leaves no row behind that was saved before it.
THEOREM CloseFlushes == Spec => []ClosedIsFlushed
<1>1. IInv => ClosedIsFlushed
  BY DEF IInv
<1> QED
  BY Invariance, <1>1, PTL
-----------------------------------------------------------------------------
(***************************************************************************)
(* Where the rows are.  A flush moves them, from the buffers to the tables *)
(* or, in a batch the database refuses, to dropped: it neither adds nor    *)
(* loses one, and no two of them share a number.                           *)
(***************************************************************************)
Held(k) == RowsOf(buffer, k) \cup RowsOf(table, k)
HeldRows == UNION {Held(k) : k \in Kinds}
AllRows == HeldRows \cup dropped

Kinded == \A k \in Kinds : \A r \in Held(k) : r.kind = k

RowsInv ==
    /\ dropped \subseteq Numbered
    /\ Kinded
    /\ \A r, q \in AllRows : r.id = q.id => r = q
    /\ \A n \in 1 .. saved : \E r \in AllRows : r.id = n
    /\ \A r \in AllRows : r.id <= saved
    /\ \A k \in Kinds : Held(k) \cap dropped = {}

LEMMA InAllRows == \A r : r \in AllRows <=> (\E k \in Kinds : r \in Held(k)) \/ r \in dropped
<1> SUFFICES ASSUME NEW r PROVE r \in AllRows <=> (\E k \in Kinds : r \in Held(k)) \/ r \in dropped
  OBVIOUS
<1>1. r \in HeldRows <=> \E k \in Kinds : r \in Held(k)
  <2>1. ASSUME NEW k \in Kinds, r \in Held(k) PROVE r \in HeldRows
    BY <2>1 DEF HeldRows
  <2>2. ASSUME r \in HeldRows PROVE \E k \in Kinds : r \in Held(k)
    BY <2>2 DEF HeldRows
  <2> QED
    BY <2>1, <2>2
<1> QED
  BY <1>1 DEF AllRows

LEMMA InAllRowsNext ==
  \A r : r \in AllRows' <=> (\E k \in Kinds : r \in Held(k)') \/ r \in dropped'
<1>1. (\A r : r \in AllRows <=> (\E k \in Kinds : r \in Held(k)) \/ r \in dropped)'
  BY InAllRows, PTL
<1> QED
  BY <1>1

LEMMA RowsTyped ==
  ASSUME TypeOK
  PROVE  \A k \in Kinds : /\ \A n \in 1 .. Len(buffer[k]) : buffer[k][n] \in Numbered
                          /\ \A n \in 1 .. Len(table[k]) : table[k][n] \in Numbered
                          /\ Held(k) \subseteq Numbered
<1> SUFFICES ASSUME NEW k \in Kinds
             PROVE  /\ \A n \in 1 .. Len(buffer[k]) : buffer[k][n] \in Numbered
                    /\ \A n \in 1 .. Len(table[k]) : table[k][n] \in Numbered
                    /\ Held(k) \subseteq Numbered
  OBVIOUS
<1>1. buffer[k] \in Seq(Numbered) /\ table[k] \in Seq(Numbered)
  BY DEF TypeOK
<1>2. /\ \A n \in 1 .. Len(buffer[k]) : buffer[k][n] \in Numbered
      /\ \A n \in 1 .. Len(table[k]) : table[k][n] \in Numbered
  BY <1>1
<1> QED
  BY <1>2 DEF Held, RowsOf

\* The rows of two sequences in one.
LEMMA RowsOfConcat ==
  ASSUME NEW s \in Seq(Numbered), NEW t \in Seq(Numbered)
  PROVE  {(s \o t)[n] : n \in 1 .. Len(s \o t)}
           = {s[n] : n \in 1 .. Len(s)} \cup {t[n] : n \in 1 .. Len(t)}
<1>1. /\ Len(s \o t) = Len(s) + Len(t) /\ Len(s) \in Nat /\ Len(t) \in Nat
      /\ \A n \in 1 .. Len(s) : (s \o t)[n] = s[n]
      /\ \A n \in 1 .. Len(t) : (s \o t)[Len(s) + n] = t[n]
  OBVIOUS
<1>2. \A n \in 1 .. Len(s) : n \in 1 .. Len(s \o t)
  BY <1>1
<1>3. \A n \in 1 .. Len(t) : Len(s) + n \in 1 .. Len(s \o t)
  BY <1>1
<1>4. ASSUME NEW n \in 1 .. Len(s \o t)
      PROVE  (s \o t)[n] \in {s[m] : m \in 1 .. Len(s)} \cup {t[m] : m \in 1 .. Len(t)}
  <2>1. CASE n <= Len(s)
    <3>1. n \in 1 .. Len(s)
      BY <1>1, <2>1
    <3> QED
      BY <1>1, <3>1
  <2>2. CASE n > Len(s)
    <3>1. n - Len(s) \in 1 .. Len(t) /\ Len(s) + (n - Len(s)) = n
      BY <1>1, <2>2
    <3>2. (s \o t)[Len(s) + (n - Len(s))] = t[n - Len(s)]
      BY <1>1, <3>1
    <3>3. (s \o t)[n] = t[n - Len(s)]
      BY <3>1, <3>2
    <3> QED
      BY <3>1, <3>3
  <2> QED
    BY <1>1, <2>1, <2>2
<1>5. {(s \o t)[n] : n \in 1 .. Len(s \o t)}
        \subseteq {s[n] : n \in 1 .. Len(s)} \cup {t[n] : n \in 1 .. Len(t)}
  BY <1>4
<1>6. {s[n] : n \in 1 .. Len(s)} \subseteq {(s \o t)[n] : n \in 1 .. Len(s \o t)}
  BY <1>1, <1>2
<1>7. {t[n] : n \in 1 .. Len(t)} \subseteq {(s \o t)[n] : n \in 1 .. Len(s \o t)}
  BY <1>1, <1>3
<1> QED
  BY <1>5, <1>6, <1>7

\* Rows in the order of their numbers are not in two places.
LEMMA IncreasingApart ==
  ASSUME NEW s \in Seq(Numbered), NEW t \in Seq(Numbered), Increasing(s \o t)
  PROVE  /\ \A m \in 1 .. Len(s), n \in 1 .. Len(t) : s[m].id # t[n].id
         /\ \A m, n \in 1 .. Len(s) : s[m].id = s[n].id => m = n
         /\ \A m, n \in 1 .. Len(t) : t[m].id = t[n].id => m = n
<1>1. /\ Len(s \o t) = Len(s) + Len(t) /\ Len(s) \in Nat /\ Len(t) \in Nat
      /\ \A n \in 1 .. Len(s) : (s \o t)[n] = s[n]
      /\ \A n \in 1 .. Len(t) : (s \o t)[Len(s) + n] = t[n]
  OBVIOUS
<1>2. /\ \A n \in 1 .. Len(s) : n \in 1 .. Len(s \o t) /\ s[n].id \in Nat
      /\ \A n \in 1 .. Len(t) : Len(s) + n \in 1 .. Len(s \o t) /\ t[n].id \in Nat
  BY <1>1, NumbersAreNatural
<1>3. \A m \in 1 .. Len(s), n \in 1 .. Len(t) : s[m].id < t[n].id
  <2> SUFFICES ASSUME NEW m \in 1 .. Len(s), NEW n \in 1 .. Len(t)
               PROVE  s[m].id < t[n].id
    OBVIOUS
  <2>1. m < Len(s) + n
    BY <1>1
  <2>2. (s \o t)[m].id < (s \o t)[Len(s) + n].id
    BY <1>2, <2>1 DEF Increasing
  <2> QED
    BY <1>1, <2>2
<1>4. \A m, n \in 1 .. Len(s) : m < n => s[m].id < s[n].id
  BY <1>1, <1>2 DEF Increasing
<1>5. \A m, n \in 1 .. Len(t) : m < n => t[m].id < t[n].id
  <2> SUFFICES ASSUME NEW m \in 1 .. Len(t), NEW n \in 1 .. Len(t), m < n
               PROVE  t[m].id < t[n].id
    OBVIOUS
  <2>1. Len(s) + m < Len(s) + n
    BY <1>1
  <2>2. (s \o t)[Len(s) + m].id < (s \o t)[Len(s) + n].id
    BY <1>2, <2>1 DEF Increasing
  <2> QED
    BY <1>1, <2>2
<1>6. ASSUME NEW m \in 1 .. Len(s), NEW n \in 1 .. Len(t) PROVE s[m].id # t[n].id
  BY <1>2, <1>3
<1>7. ASSUME NEW m \in 1 .. Len(s), NEW n \in 1 .. Len(s), s[m].id = s[n].id PROVE m = n
  <2>1. ~(m < n) /\ ~(n < m)
    BY <1>2, <1>4, <1>7
  <2> QED
    BY <2>1
<1>8. ASSUME NEW m \in 1 .. Len(t), NEW n \in 1 .. Len(t), t[m].id = t[n].id PROVE m = n
  <2>1. ~(m < n) /\ ~(n < m)
    BY <1>2, <1>5, <1>8
  <2> QED
    BY <2>1
<1> QED
  BY <1>6, <1>7, <1>8

LEMMA Apart ==
  ASSUME IInv, NEW k \in Kinds
  PROVE  RowsOf(buffer, k) \cap RowsOf(table, k) = {}
<1>1. table[k] \in Seq(Numbered) /\ buffer[k] \in Seq(Numbered) /\ Increasing(table[k] \o buffer[k])
  BY DEF IInv, TypeOK
<1>2. \A m \in 1 .. Len(table[k]), n \in 1 .. Len(buffer[k]) : table[k][m].id # buffer[k][n].id
  BY <1>1, IncreasingApart
<1> QED
  BY <1>2 DEF RowsOf

\* A flush keeps the rows together.
LEMMA FlushKeepsRows ==
  ASSUME IInv, RowsInv, Flush, UNCHANGED saved
  PROVE  RowsInv'
<1> USE DEF IInv
<1>1. PICK failed \in SUBSET {k \in Kinds : buffer[k] # <<>>} :
        /\ table' = [k \in Kinds |-> IF k \in failed THEN table[k] ELSE table[k] \o buffer[k]]
        /\ dropped' = dropped \cup UNION {RowsOf(buffer, k) : k \in failed}
        /\ buffer' = [k \in Kinds |-> <<>>]
  BY DEF Flush
<1>2. ASSUME NEW k \in Kinds
      PROVE  /\ RowsOf(buffer, k)' = {}
             /\ RowsOf(table, k)' = IF k \in failed THEN RowsOf(table, k) ELSE Held(k)
  <2>1. buffer[k] \in Seq(Numbered) /\ table[k] \in Seq(Numbered)
    BY DEF TypeOK
  <2>2. RowsOf(buffer, k)' = {}
    BY <1>1 DEF RowsOf
  <2>3. CASE k \in failed
    BY <1>1, <2>2, <2>3 DEF RowsOf
  <2>4. CASE k \notin failed
    <3>1. table'[k] = table[k] \o buffer[k]
      BY <1>1, <2>4
    <3>2. {(table[k] \o buffer[k])[n] : n \in 1 .. Len(table[k] \o buffer[k])}
            = {table[k][n] : n \in 1 .. Len(table[k])} \cup {buffer[k][n] : n \in 1 .. Len(buffer[k])}
      BY <2>1, RowsOfConcat
    <3> QED
      BY <2>2, <2>4, <3>1, <3>2 DEF RowsOf, Held
  <2> QED
    BY <2>3, <2>4
<1>3. \A k \in Kinds : Held(k)' = IF k \in failed THEN RowsOf(table, k) ELSE Held(k)
  BY <1>2 DEF Held
<1>4. failed \subseteq Kinds /\ \A k \in Kinds : RowsOf(buffer, k) \subseteq Held(k)
                                              /\ RowsOf(table, k) \subseteq Held(k)
  BY DEF Held
<1>5. \A r : (\E k \in Kinds : r \in Held(k)') \/ r \in dropped'
               <=> (\E k \in Kinds : r \in Held(k)) \/ r \in dropped
  <2>1. \A r : r \in dropped' <=> r \in dropped \/ \E k \in failed : r \in RowsOf(buffer, k)
    BY <1>1
  <2>2. \A k \in Kinds : Held(k) = RowsOf(buffer, k) \cup RowsOf(table, k)
    BY DEF Held
  <2> QED
    BY <1>3, <1>4, <2>1, <2>2
<1>6. AllRows' = AllRows
  BY <1>5, InAllRows, InAllRowsNext
<1>7. dropped' \subseteq Numbered
  <2>1. \A k \in Kinds : Held(k) \subseteq Numbered
    BY RowsTyped
  <2> QED
    BY <1>1, <1>4, <2>1 DEF RowsInv
<1>8. Kinded'
  BY <1>3, <1>4 DEF RowsInv, Kinded
<1>9. ASSUME NEW k \in Kinds PROVE Held(k)' \cap dropped' = {}
  <2> SUFFICES ASSUME NEW r \in Held(k)', r \in dropped' PROVE FALSE
    OBVIOUS
  <2>1. r \in Held(k) /\ r \notin dropped /\ r.kind = k
    BY <1>3, <1>4 DEF RowsInv, Kinded
  <2>2. PICK l \in failed : r \in RowsOf(buffer, l)
    BY <1>1, <2>1
  <2>3. l = k
    BY <1>4, <2>1, <2>2 DEF RowsInv, Kinded
  <2> QED
    BY <1>3, <2>2, <2>3, Apart
<1> QED
  BY <1>6, <1>7, <1>8, <1>9 DEF RowsInv

\* A row is saved.
LEMMA SaveKeepsRows ==
  ASSUME IInv, RowsInv, NEW s \in Savers, NEW k \in Kinds, Save(s, k)
  PROVE  RowsInv'
<1>1. PICK row : row = [kind |-> k, id |-> saved + 1]
  OBVIOUS
<1>2. /\ saved' = saved + 1 /\ buffer' = [buffer EXCEPT ![k] = Append(buffer[k], row)]
      /\ UNCHANGED <<table, dropped>>
  BY <1>1 DEF Save, AppendRow
<1>3. saved \in Nat /\ row \in Numbered /\ row.kind = k /\ row.id = saved + 1
  BY <1>1 DEF IInv, TypeOK, Numbered
<1>4. \A l \in Kinds : buffer[l] \in Seq(Numbered) /\ Held(l) \subseteq Numbered
  BY RowsTyped DEF IInv, TypeOK
<1>5. ASSUME NEW l \in Kinds
      PROVE  Held(l)' = IF l = k THEN Held(l) \cup {row} ELSE Held(l)
  <2>1. CASE l = k
    <3>1. buffer'[l] = Append(buffer[l], row)
      BY <1>2, <2>1 DEF IInv, TypeOK
    <3>2. /\ Len(buffer'[l]) = Len(buffer[l]) + 1 /\ Len(buffer[l]) \in Nat
          /\ buffer'[l][Len(buffer[l]) + 1] = row
          /\ \A n \in 1 .. Len(buffer[l]) : buffer'[l][n] = buffer[l][n]
      BY <1>3, <1>4, <3>1
    <3>3. 1 .. Len(buffer'[l]) = (1 .. Len(buffer[l])) \cup {Len(buffer[l]) + 1}
      BY <3>2
    <3>4. RowsOf(buffer, l)' = RowsOf(buffer, l) \cup {row}
      BY <3>2, <3>3 DEF RowsOf
    <3>5. RowsOf(table, l)' = RowsOf(table, l)
      BY <1>2 DEF RowsOf
    <3> QED
      BY <2>1, <3>4, <3>5 DEF Held
  <2>2. CASE l # k
    BY <1>2, <2>2 DEF IInv, TypeOK, Held, RowsOf
  <2> QED
    BY <2>1, <2>2
<1>6. \A r : r \in AllRows' <=> r \in AllRows \/ r = row
  BY <1>2, <1>5, InAllRows, InAllRowsNext
<1>7. \A r \in AllRows : r \in Numbered /\ r.id <= saved
  BY <1>4, InAllRows DEF RowsInv
<1>8. \A r \in AllRows : r.id \in Nat /\ r.id # row.id
  BY <1>3, <1>7 DEF Numbered
<1>9. \A r, q \in AllRows' : r.id = q.id => r = q
  BY <1>6, <1>8 DEF RowsInv
<1>10. \A n \in 1 .. saved' : \E r \in AllRows' : r.id = n
  <2> SUFFICES ASSUME NEW n \in 1 .. saved' PROVE \E r \in AllRows' : r.id = n
    OBVIOUS
  <2>1. n \in 1 .. saved \/ n = saved + 1
    BY <1>2, <1>3
  <2>2. CASE n = saved + 1
    BY <1>3, <1>6, <2>2
  <2>3. CASE n \in 1 .. saved
    BY <1>6, <2>3 DEF RowsInv
  <2> QED
    BY <2>1, <2>2, <2>3
<1>11. \A r \in AllRows' : r.id <= saved'
  BY <1>2, <1>3, <1>6, <1>7, <1>8
<1>12. Kinded' /\ \A l \in Kinds : Held(l)' \cap dropped' = {}
  <2>1. row \notin dropped
    BY <1>8, InAllRows
  <2> QED
    BY <1>2, <1>3, <1>5, <2>1 DEF RowsInv, Kinded
<1> QED
  BY <1>2, <1>9, <1>10, <1>11, <1>12 DEF RowsInv

LEMMA InitRows == Init => RowsInv
<1> SUFFICES ASSUME Init PROVE RowsInv
  OBVIOUS
<1>1. \A k \in Kinds : buffer[k] = <<>> /\ table[k] = <<>>
  BY DEF Init
<1>2. \A k \in Kinds : Held(k) = {}
  BY <1>1 DEF Held, RowsOf
<1>3. \A r : r \notin AllRows
  BY <1>2, InAllRows DEF Init
<1> QED
  BY <1>2, <1>3 DEF RowsInv, Kinded, Init

LEMMA NextRows == IInv /\ RowsInv /\ [Next]_vars => RowsInv'
<1> SUFFICES ASSUME IInv, RowsInv, [Next]_vars PROVE RowsInv'
  OBVIOUS
<1>1. ASSUME NEW s \in Savers, NEW k \in Kinds, Save(s, k) PROVE RowsInv'
  BY <1>1, SaveKeepsRows
<1>2. CASE (\E s \in Savers : SaverFlush(s)) \/ Tick \/ CloseFlush
  BY <1>2, FlushKeepsRows DEF SaverFlush, Tick, CloseFlush
<1>3. CASE UNCHANGED <<saved, store>>
  <2>1. \A k \in Kinds : Held(k)' = Held(k)
    BY <1>3 DEF store, Held, RowsOf
  <2>2. \A r : r \in AllRows' <=> r \in AllRows
    BY <1>3, <2>1, InAllRows, InAllRowsNext DEF store
  <2> QED
    BY <1>3, <2>1, <2>2 DEF store, RowsInv, Kinded
<1>4. CASE \/ Stop \/ CloseBegin \/ Exit \/ UNCHANGED vars
           \/ \E s \in Savers : ReadTotal(s) \/ InsertProfit(s)
  BY <1>3, <1>4 DEF Stop, CloseBegin, Exit, ReadTotal, InsertProfit, vars
<1> QED
  BY <1>1, <1>2, <1>4 DEF Next

\* Counting the places of row n.
Places(f, n) == UNION {{<<k, m>> : m \in {i \in 1..Len(f[k]) : f[k][i].id = n}} : k \in Kinds}

LEMMA InPlaces ==
  ASSUME NEW f, NEW n
  PROVE  \A p : p \in Places(f, n) <=> \E k \in Kinds : \E m \in 1..Len(f[k]) :
                                          f[k][m].id = n /\ p = <<k, m>>
<1> DEFINE At(k) == {<<k, m>> : m \in {i \in 1..Len(f[k]) : f[k][i].id = n}}
<1> SUFFICES ASSUME NEW p
             PROVE  p \in Places(f, n) <=> \E k \in Kinds : \E m \in 1..Len(f[k]) :
                                              f[k][m].id = n /\ p = <<k, m>>
  OBVIOUS
<1>1. \A k : p \in At(k) <=> \E m \in 1..Len(f[k]) : f[k][m].id = n /\ p = <<k, m>>
  OBVIOUS
<1>2. Places(f, n) = UNION {At(k) : k \in Kinds}
  BY DEF Places
<1> HIDE DEF At
<1>3. p \in UNION {At(k) : k \in Kinds} <=> \E k \in Kinds : p \in At(k)
  <2>1. ASSUME NEW k \in Kinds, p \in At(k) PROVE p \in UNION {At(l) : l \in Kinds}
    BY <2>1
  <2>2. ASSUME p \in UNION {At(k) : k \in Kinds} PROVE \E k \in Kinds : p \in At(k)
    BY <2>2
  <2> QED
    BY <2>1, <2>2
<1> QED
  BY <1>1, <1>2, <1>3

LEMMA OnePlace ==
  ASSUME NEW f, NEW n, NEW k \in Kinds, NEW m \in 1..Len(f[k]), f[k][m].id = n,
         \A l \in Kinds : \A i \in 1..Len(f[l]) : f[l][i].id = n => l = k /\ i = m
  PROVE  Occurrences(f, n) = 1
<1>1. Places(f, n) = {<<k, m>>}
  BY InPlaces
<1>2. Cardinality({<<k, m>>}) = 1
  BY FS_Singleton
<1> QED
  BY <1>1, <1>2 DEF Occurrences, Places

LEMMA NoPlace ==
  ASSUME NEW f, NEW n, \A l \in Kinds : \A i \in 1..Len(f[l]) : f[l][i].id # n
  PROVE  Occurrences(f, n) = 0
<1>1. Places(f, n) = {}
  BY InPlaces
<1> QED
  BY <1>1, FS_EmptySet DEF Occurrences, Places

LEMMA EachRow == IInv /\ RowsInv => EachRowOnce
<1> SUFFICES ASSUME IInv, RowsInv, NEW n \in 1 .. saved
             PROVE  Occurrences(buffer, n) + Occurrences(table, n)
                      + Cardinality({r \in dropped : r.id = n}) = 1
  BY DEF EachRowOnce
<1>1. PICK r \in AllRows : r.id = n
  BY DEF RowsInv
<1>2. \A k \in Kinds : /\ table[k] \in Seq(Numbered) /\ buffer[k] \in Seq(Numbered)
                       /\ Increasing(table[k] \o buffer[k])
  BY DEF IInv, TypeOK
<1>3. \A q \in AllRows : q.id = n => q = r
  BY <1>1 DEF RowsInv
<1>4. \A k \in Kinds : /\ \A m \in 1 .. Len(buffer[k]) : buffer[k][m] \in RowsOf(buffer, k)
                       /\ \A m \in 1 .. Len(table[k]) : table[k][m] \in RowsOf(table, k)
                       /\ RowsOf(buffer, k) \subseteq Held(k)
                       /\ RowsOf(table, k) \subseteq Held(k)
  BY DEF RowsOf, Held
<1>5. \A k \in Kinds :
        /\ \A m \in 1 .. Len(buffer[k]) : buffer[k][m].id = n => buffer[k][m] = r /\ r.kind = k
        /\ \A m \in 1 .. Len(table[k]) : table[k][m].id = n => table[k][m] = r /\ r.kind = k
  BY <1>3, <1>4, InAllRows DEF RowsInv, Kinded
<1>6. \A k \in Kinds :
        /\ \A m \in 1 .. Len(table[k]), i \in 1 .. Len(buffer[k]) : table[k][m].id # buffer[k][i].id
        /\ \A m, i \in 1 .. Len(table[k]) : table[k][m].id = table[k][i].id => m = i
        /\ \A m, i \in 1 .. Len(buffer[k]) : buffer[k][m].id = buffer[k][i].id => m = i
  BY <1>2, IncreasingApart
<1>7. CASE r \in dropped
  <2>1. \A k \in Kinds : r \notin RowsOf(buffer, k) /\ r \notin RowsOf(table, k)
    BY <1>4, <1>7 DEF RowsInv
  <2>2. Occurrences(buffer, n) = 0 /\ Occurrences(table, n) = 0
    BY <1>4, <1>5, <2>1, NoPlace
  <2>3. {q \in dropped : q.id = n} = {r}
    BY <1>1, <1>3, <1>7, InAllRows
  <2>4. Cardinality({r}) = 1
    BY FS_Singleton
  <2> QED
    BY <2>2, <2>3, <2>4
<1>8. CASE r \notin dropped
  <2>1. {q \in dropped : q.id = n} = {}
    BY <1>3, <1>8, InAllRows
  <2>2. Cardinality({q \in dropped : q.id = n}) = 0
    BY <2>1, FS_EmptySet
  <2>3. PICK k \in Kinds : r \in RowsOf(buffer, k) \/ r \in RowsOf(table, k)
    BY <1>1, <1>8, InAllRows DEF Held
  <2>4. CASE r \in RowsOf(buffer, k)
    <3>1. PICK m \in 1 .. Len(buffer[k]) : buffer[k][m] = r
      BY <2>4 DEF RowsOf
    <3>2. \A l \in Kinds : \A i \in 1 .. Len(buffer[l]) : buffer[l][i].id = n => l = k /\ i = m
      BY <1>1, <1>5, <1>6, <3>1
    <3>3. Occurrences(buffer, n) = 1
      BY <1>1, <3>1, <3>2, OnePlace
    <3>4. ASSUME NEW l \in Kinds, NEW i \in 1 .. Len(table[l]), table[l][i].id = n
          PROVE  FALSE
      <4>1. buffer[k][m].id = n /\ r.kind = k
        BY ONLY <1>1, <1>5, <3>1
      <4>2. l = k
        BY ONLY <1>5, <3>4, <4>1
      <4>3. table[k][i].id # buffer[k][m].id
        BY ONLY <1>6, <4>2
      <4> QED
        BY ONLY <3>4, <4>1, <4>2, <4>3
    <3>5. Occurrences(table, n) = 0
      BY <3>4, NoPlace
    <3> QED
      BY <2>2, <3>3, <3>5
  <2>5. CASE r \in RowsOf(table, k)
    <3>1. PICK m \in 1 .. Len(table[k]) : table[k][m] = r
      BY <2>5 DEF RowsOf
    <3>2. \A l \in Kinds : \A i \in 1 .. Len(table[l]) : table[l][i].id = n => l = k /\ i = m
      BY <1>1, <1>5, <1>6, <3>1
    <3>3. Occurrences(table, n) = 1
      BY <1>1, <3>1, <3>2, OnePlace
    <3>4. \A l \in Kinds : \A i \in 1 .. Len(buffer[l]) : buffer[l][i].id # n
      BY <1>1, <1>5, <1>6, <3>1
    <3>5. Occurrences(buffer, n) = 0
      BY <3>4, NoPlace
    <3> QED
      BY <2>2, <3>3, <3>5
  <2> QED
    BY <2>3, <2>4, <2>5
<1> QED
  BY <1>7, <1>8

\* EachRowOnce: no interleaving of appends and flushes, by whatever goroutines
\* and with whatever inserts failing, loses a row or writes it twice.
THEOREM RowsOnce == Spec => []EachRowOnce
<1>1. Init => IInv /\ RowsInv
  BY InitInv, InitRows
<1>2. (IInv /\ RowsInv) /\ [Next]_vars => (IInv /\ RowsInv)'
  BY NextInv, NextRows
<1> QED
  BY <1>1, <1>2, EachRow, PTL DEF Spec

-----------------------------------------------------------------------------
(***************************************************************************)
(* The cumulative profits.  While no two savers met and the times of the   *)
(* rows increase, the row of the latest time is the last one, the total a  *)
(* saver reads is the sum of all profits, and no other row comes between   *)
(* its two queries.                                                        *)
(***************************************************************************)
Fills == [profit : Int, time : Int, total : Int]

Ordered(n) == \A i, j \in 1 .. n : i < j => profits[i].time < profits[j].time
SumTo(n) == SumFunctionOnSet(ProfitOf, 1 .. n)

TotalsInv ==
    /\ profits \in Seq(Fills)
    /\ \A s \in Savers : filling[s] = <<>> \/ \E r \in Fills : filling[s] = <<r>>
    /\ filling = [s \in Savers |-> filling[s]]
    /\ ~met => \A s, t \in Savers : filling[s] # <<>> /\ filling[t] # <<>> => s = t
    /\ ~met /\ Ordered(Len(profits)) =>
          \A s \in Savers : filling[s] # <<>> =>
              filling[s][1].total = SumTo(Len(profits)) + filling[s][1].profit
    /\ TotalsAddUp

LEMMA ProfitSums ==
  ASSUME profits \in Seq(Fills)
  PROVE  /\ Len(profits) \in Nat
         /\ \A n \in 1 .. Len(profits) : profits[n] \in Fills /\ ProfitOf[n] = profits[n].profit
                                         /\ ProfitOf[n] \in Int
         /\ \A n \in 0 .. Len(profits) : SumTo(n) \in Int
<1>1. Len(profits) \in Nat /\ DOMAIN profits = 1 .. Len(profits)
  OBVIOUS
<1>2. \A n \in 1 .. Len(profits) : profits[n] \in Fills
  OBVIOUS
<1>3. \A n \in 1 .. Len(profits) : ProfitOf[n] = profits[n].profit /\ ProfitOf[n] \in Int
  BY <1>1, <1>2 DEF ProfitOf, Fills
<1>4. ASSUME NEW n \in 0 .. Len(profits) PROVE SumTo(n) \in Int
  <2>1. IsFiniteSet(1 .. n)
    BY FS_Interval
  <2>2. \A i \in 1 .. n : i \in 1 .. Len(profits)
    BY <1>1
  <2>3. \A i \in 1 .. n : ProfitOf[i] \in Int
    BY <1>3, <2>2
  <2> QED
    BY <2>1, <2>3, SumType DEF SumTo
<1> QED
  BY <1>1, <1>2, <1>3, <1>4

\* What the saver reads.
LEMMA LastTotal ==
  ASSUME TotalsInv, ~met, Ordered(Len(profits)), NEW last \in LastTotals
  PROVE  last = SumTo(Len(profits))
<1>1. profits \in Seq(Fills) /\ Len(profits) \in Nat /\ DOMAIN profits = 1 .. Len(profits)
  BY DEF TotalsInv
<1>2. CASE profits = <<>>
  <2>1. last = 0 /\ Len(profits) = 0
    BY <1>2 DEF LastTotals
  <2>2. 1 .. Len(profits) = {}
    BY <2>1
  <2> QED
    BY <2>1, <2>2, SumEmpty DEF SumTo
<1>3. CASE profits # <<>>
  <2>1. PICK m \in 1 .. Len(profits) :
          /\ last = profits[m].total
          /\ \A n \in 1 .. Len(profits) : profits[m].time >= profits[n].time
    BY <1>1, <1>3 DEF LastTotals, ToSet
  <2>2. Len(profits) \in 1 .. Len(profits)
    BY <1>1, <2>1
  <2>3. profits[m].time \in Int /\ profits[Len(profits)].time \in Int
    BY <1>1, <2>1, <2>2, ProfitSums DEF Fills
  <2>4. m = Len(profits)
    <3>1. m < Len(profits) => profits[m].time < profits[Len(profits)].time
      BY <2>1, <2>2 DEF Ordered
    <3>2. profits[m].time >= profits[Len(profits)].time
      BY <2>1, <2>2
    <3>3. ~(m < Len(profits))
      BY <2>3, <3>1, <3>2
    <3>4. PICK n \in Nat : n = Len(profits)
      BY <1>1
    <3>5. m \in 1 .. n /\ ~(m < n)
      BY <3>3, <3>4
    <3>6. m = n
      BY ONLY <3>4, <3>5
    <3> QED
      BY <3>4, <3>6
  <2>5. \A i, j \in 1 .. Len(profits) - 1 : i < j => profits[i].time < profits[j].time
    BY <1>1 DEF Ordered
  <2>6. profits[Len(profits)].total = SumFunctionOnSet(ProfitOf, 1 .. Len(profits))
    BY <1>1, <2>2, <2>5 DEF TotalsInv, TotalsAddUp
  <2> QED
    BY <2>1, <2>4, <2>6 DEF SumTo
<1> QED
  BY <1>2, <1>3

LEMMA ReadKeepsTotals ==
  ASSUME TotalsInv, NEW s \in Savers, ReadTotal(s)
  PROVE  TotalsInv'
<1>1. PICK profit \in Profits, time \in Times, last \in LastTotals :
        filling' = [filling EXCEPT ![s] = <<[profit |-> profit, time |-> time, total |-> last + profit]>>]
  BY DEF ReadTotal
<1>2. PICK r : r = [profit |-> profit, time |-> time, total |-> last + profit]
  OBVIOUS
<1>3. /\ UNCHANGED profits /\ filling[s] = <<>>
      /\ met' = (met \/ \E other \in Savers : filling[other] # <<>>)
  BY DEF ReadTotal, Free
<1>4. profits \in Seq(Fills)
  BY DEF TotalsInv
<1>5. last \in Int
  BY <1>4, ProfitSums DEF LastTotals, ToSet, Fills
<1>6. r \in Fills /\ r.profit = profit /\ r.total = last + profit
  BY <1>2, <1>5, ProfitsAssumption DEF Fills
<1>7. /\ filling'[s] = <<r>> /\ \A t \in Savers \ {s} : filling'[t] = filling[t]
      /\ filling' = [t \in Savers |-> filling'[t]]
  BY <1>1, <1>2 DEF TotalsInv
<1>8. \A t \in Savers : filling'[t] = <<>> \/ \E q \in Fills : filling'[t] = <<q>>
  BY <1>6, <1>7 DEF TotalsInv
<1>9. ASSUME ~met' PROVE ~met /\ \A t \in Savers : filling'[t] # <<>> => t = s
  BY <1>3, <1>7, <1>9
<1>10. ASSUME ~met', Ordered(Len(profits)), NEW t \in Savers, filling'[t] # <<>>
       PROVE  filling'[t][1].total = SumTo(Len(profits)) + filling'[t][1].profit
  <2>1. last = SumTo(Len(profits))
    BY <1>9, <1>10, LastTotal
  <2>2. filling'[t] = <<r>>
    BY <1>7, <1>9, <1>10
  <2> QED
    BY <1>6, <2>1, <2>2
<1>11. TotalsAddUp'
  BY <1>3, <1>9 DEF TotalsInv, TotalsAddUp, ProfitOf
<1>12. /\ Ordered(Len(profits))' <=> Ordered(Len(profits))
       /\ SumTo(Len(profits))' = SumTo(Len(profits))
  BY <1>3 DEF Ordered, SumTo, ProfitOf
<1> QED
  BY <1>3, <1>4, <1>7, <1>8, <1>9, <1>10, <1>11, <1>12 DEF TotalsInv

LEMMA InsertKeepsTotals ==
  ASSUME TotalsInv, NEW s \in Savers, InsertProfit(s)
  PROVE  TotalsInv'
<1>1. profits \in Seq(Fills) /\ Len(profits) \in Nat
  BY DEF TotalsInv
<1>2. PICK r \in Fills : filling[s] = <<r>>
  BY DEF InsertProfit, TotalsInv
<1>3. /\ filling' = [filling EXCEPT ![s] = <<>>] /\ UNCHANGED met
      /\ profits' = profits \/ profits' = profits \o <<r>>
  BY <1>2 DEF InsertProfit
<1>4. /\ filling'[s] = <<>> /\ \A t \in Savers \ {s} : filling'[t] = filling[t]
      /\ filling' = [t \in Savers |-> filling'[t]]
  BY <1>3 DEF TotalsInv
<1>5. ASSUME ~met PROVE \A t \in Savers : filling'[t] = <<>>
  BY <1>2, <1>4, <1>5 DEF TotalsInv
<1>6. CASE profits' = profits
  <2>1. TotalsAddUp'
    BY <1>3, <1>6 DEF TotalsInv, TotalsAddUp, ProfitOf
  <2> QED
    BY <1>1, <1>3, <1>4, <1>5, <1>6, <2>1 DEF TotalsInv
<1>7. CASE profits' = profits \o <<r>>
  <2>1. PICK n : n = Len(profits) + 1
    OBVIOUS
  <2>2. /\ profits' \in Seq(Fills) /\ Len(profits') = n /\ n \in Nat /\ profits'[n] = r
        /\ \A i \in 1 .. Len(profits) : profits'[i] = profits[i]
        /\ DOMAIN profits' = 1 .. n /\ DOMAIN profits = 1 .. Len(profits)
        /\ 1 .. n = (1 .. Len(profits)) \cup {n} /\ n \notin 1 .. Len(profits)
    BY <1>1, <1>7, <2>1
  <2>3. PICK f, g : f = ProfitOf /\ g = ProfitOf'
    OBVIOUS
  <2>4. /\ \A i \in 1 .. Len(profits) : f[i] \in Int /\ f[i] = g[i]
        /\ g[n] = r.profit /\ g[n] \in Int
    <3>1. \A i \in 1 .. Len(profits) : f[i] = profits[i].profit /\ f[i] \in Int
      BY <1>1, <2>3, ProfitSums
    <3>2. \A i \in 1 .. n : g[i] = profits'[i].profit
      BY <2>2, <2>3 DEF ProfitOf
    <3> QED
      BY <2>2, <3>1, <3>2 DEF Fills
  <2>5. \A m \in 0 .. Len(profits) : SumFunctionOnSet(f, 1 .. m) = SumFunctionOnSet(g, 1 .. m)
    <3> SUFFICES ASSUME NEW m \in 0 .. Len(profits)
                 PROVE  SumFunctionOnSet(f, 1 .. m) = SumFunctionOnSet(g, 1 .. m)
      OBVIOUS
    <3>1. IsFiniteSet(1 .. m) /\ \A i \in 1 .. m : i \in 1 .. Len(profits)
      BY <1>1, FS_Interval
    <3>2. \A i \in 1 .. m : f[i] \in Int /\ f[i] = g[i]
      BY <2>4, <3>1
    <3> QED
      BY <3>1, <3>2, SumSame
  <2>6. SumFunctionOnSet(g, 1 .. n) = r.profit + SumFunctionOnSet(g, 1 .. Len(profits))
    <3>1. PICK S : S = 1 .. Len(profits)
      OBVIOUS
    <3>2. IsFiniteSet(S) /\ n \notin S /\ 1 .. n = S \cup {n}
      <4>1. IsFiniteSet(1 .. Len(profits))
        BY <1>1, FS_Interval
      <4> QED
        BY <2>2, <3>1, <4>1
    <3>3. \A i \in S \cup {n} : g[i] \in Int
      BY <2>4, <3>1
    <3>4. SumFunctionOnSet(g, S \cup {n}) = g[n] + SumFunctionOnSet(g, S)
      BY <3>2, <3>3, SumAdd
    <3> QED
      BY <2>4, <3>1, <3>2, <3>4
  <2>7. ASSUME NEW m \in 1 .. n, ~met,
               \A i, j \in 1 .. m - 1 : i < j => profits'[i].time < profits'[j].time
        PROVE  profits'[m].total = SumFunctionOnSet(g, 1 .. m)
    <3>1. \A i, j \in 1 .. m - 1 : i < j => profits[i].time < profits[j].time
      <4>1. \A i \in 1 .. m - 1 : i \in 1 .. Len(profits)
        BY <1>1, <2>1
      <4> QED
        BY <2>2, <2>7, <4>1
    <3>2. CASE m # n
      <4>1. m \in 1 .. Len(profits)
        BY <2>2, <3>2
      <4>2. profits[m].total = SumFunctionOnSet(f, 1 .. m)
        BY <2>2, <2>3, <2>7, <3>1, <4>1 DEF TotalsInv, TotalsAddUp
      <4> QED
        BY <1>1, <2>2, <2>5, <4>1, <4>2
    <3>3. CASE m = n
      <4>1. Ordered(Len(profits))
        BY <1>1, <2>1, <3>1, <3>3 DEF Ordered
      <4>2. r.total = SumFunctionOnSet(f, 1 .. Len(profits)) + r.profit
        <5>1. filling[s] # <<>> /\ filling[s][1] = r
          BY <1>2
        <5>2. filling[s][1].total = SumTo(Len(profits)) + filling[s][1].profit
          BY <2>7, <4>1, <5>1 DEF TotalsInv
        <5> QED
          BY <2>3, <5>1, <5>2 DEF SumTo
      <4>3. SumFunctionOnSet(f, 1 .. Len(profits)) = SumFunctionOnSet(g, 1 .. Len(profits))
        BY <1>1, <2>5
      <4>4. SumFunctionOnSet(f, 1 .. Len(profits)) \in Int /\ r.profit \in Int
        BY <1>1, <2>3, ProfitSums DEF SumTo, Fills
      <4> QED
        BY <2>2, <2>6, <3>3, <4>2, <4>3, <4>4
    <3> QED
      BY <3>2, <3>3
  <2>8. TotalsAddUp'
    BY <1>3, <2>2, <2>3, <2>7 DEF TotalsAddUp
  <2>9. \A t \in Savers : filling'[t] = <<>> \/ \E q \in Fills : filling'[t] = <<q>>
    BY <1>4 DEF TotalsInv
  <2> QED
    BY <1>3, <1>4, <1>5, <2>2, <2>8, <2>9 DEF TotalsInv
<1> QED
  BY <1>3, <1>6, <1>7

LEMMA InitTotals == Init => TotalsInv
<1> SUFFICES ASSUME Init PROVE TotalsInv
  OBVIOUS
<1>1. profits = <<>> /\ filling = [s \in Savers |-> <<>>]
  BY DEF Init
<1>2. TotalsAddUp
  BY <1>1 DEF TotalsAddUp
<1> QED
  BY <1>1, <1>2 DEF TotalsInv

LEMMA NextTotals == TotalsInv /\ [Next]_vars => TotalsInv'
<1> SUFFICES ASSUME TotalsInv, [Next]_vars PROVE TotalsInv'
  OBVIOUS
<1>1. ASSUME NEW s \in Savers, ReadTotal(s) PROVE TotalsInv'
  BY <1>1, ReadKeepsTotals
<1>2. ASSUME NEW s \in Savers, InsertProfit(s) PROVE TotalsInv'
  BY <1>2, InsertKeepsTotals
<1>3. CASE UNCHANGED ledger
  BY <1>3 DEF ledger, TotalsInv, TotalsAddUp, ProfitOf, Ordered, SumTo
<1>4. CASE \/ \E s \in Savers : SaverFlush(s) \/ \E k \in Kinds : Save(s, k)
           \/ Tick \/ Stop \/ CloseBegin \/ CloseFlush \/ Exit \/ UNCHANGED vars
  BY <1>3, <1>4 DEF SaverFlush, Save, Tick, Stop, CloseBegin, CloseFlush, Exit, vars
<1> QED
  BY <1>1, <1>2, <1>4 DEF Next

\* TotalsAddUp: SaveTradePnL's two queries keep the running total as long as no
\* other saver is between its own and times increase; every hypothesis is one
\* the code does not enforce.
THEOREM TotalsKept == Spec => []TotalsAddUp
<1>1. TotalsInv => TotalsAddUp
  BY DEF TotalsInv
<1> QED
  BY <1>1, InitTotals, NextTotals, PTL DEF Spec
=============================================================================
