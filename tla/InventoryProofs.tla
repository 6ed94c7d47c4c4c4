--------------------------- MODULE InventoryProofs --------------------------
(***************************************************************************)
(* Theorems about Inventory, for any rows, orders, workers and bounds.     *)
(***************************************************************************)
EXTENDS Inventory, UnitSumsTheorems, SequenceTheorems

-----------------------------------------------------------------------------
(* Types.                                                                  *)

\* The reservations of a row are finitely many and have natural quantities.
LEMMA ActiveHoldsFinite ==
    ASSUME NEW rv \in [Holds -> Hold], NEW k
    PROVE  /\ IsFiniteSet(ActiveHolds(rv, k))
           /\ \A h \in ActiveHolds(rv, k) :
                 /\ rv[h].qty \in Nat
                 /\ rv[h] \in ActiveHold
<1>1. IsFiniteSet(Holds)
  BY FS_Interval, HoldsAssumption DEF Holds
<1>2. ActiveHolds(rv, k) \in SUBSET Holds
  BY DEF ActiveHolds
<1>3. ASSUME NEW h \in ActiveHolds(rv, k)
      PROVE  rv[h] \in ActiveHold
  BY <1>3 DEF ActiveHolds, Hold, HoldRecord, SettledHold, NoHold, ErasedHold
<1>4. \A h \in ActiveHolds(rv, k) : rv[h].qty \in Nat
  BY <1>3, QtyAssumption DEF ActiveHold, Qty
<1> QED
  BY <1>1, <1>2, <1>3, <1>4, FS_Subset

\* SUM(quantity) of the ACTIVE reservations is a natural number.
LEMMA HeldType ==
    ASSUME NEW rv \in [Holds -> Hold], NEW k
    PROVE  Held(rv, k) \in Nat
BY ActiveHoldsFinite, SumType DEF Held

\* Writing one entry of a function extends its domain by it.
LEMMA PutType ==
    ASSUME NEW D, NEW R, NEW f \in [D -> R], NEW x, NEW v \in R
    PROVE  /\ Put(f, x, v) \in [D \cup {x} -> R]
           /\ DOMAIN Put(f, x, v) = D \cup {x}
           /\ Put(f, x, v)[x] = v
           /\ \A y \in D : y # x => Put(f, x, v)[y] = f[y]
BY DEF Put

\* The fields of a well-typed transaction.
LEMMA TxnFields ==
    ASSUME NEW t, IsTxn(t)
    PROVE  /\ t.op \in Ops /\ t.ref \in Refs \cup {NoRef}
           /\ t.todo \in Seq(Line)
           /\ t.rows \in [DOMAIN t.rows -> Row] /\ DOMAIN t.rows \subseteq Keys
           /\ t.holds \in [DOMAIN t.holds -> HoldRecord] /\ DOMAIN t.holds \subseteq Holds
           /\ t.sums \in [physical : Int, held : Int]
           /\ t.stale \subseteq Keys
BY DEF IsTxn, TxnOver

LEMMA IdleType == IsTxn(Idle)
<1>1. <<>> \in [{} -> Row] /\ <<>> \in [{} -> HoldRecord] /\ DOMAIN <<>> = {}
  OBVIOUS
<1>2. Idle.rows = <<>> /\ Idle.holds = <<>>
  BY DEF Idle
<1>3. Idle \in TxnOver({}, {})
  BY <1>1, QtyAssumption DEF Idle, TxnOver, Ops, NoSums
<1> QED
  BY <1>1, <1>2, <1>3 DEF IsTxn

\* A transaction that has only begun.
LEMMA BegunType ==
    ASSUME NEW op \in Ops, NEW ref \in Refs \cup {NoRef}, NEW lines \in Seq(Line)
    PROVE  IsTxn([Idle EXCEPT !.op = op, !.ref = ref, !.todo = lines])
<1> DEFINE t == [Idle EXCEPT !.op = op, !.ref = ref, !.todo = lines]
<1>1. Idle \in TxnOver({}, {}) /\ DOMAIN Idle.rows = {} /\ DOMAIN Idle.holds = {}
  BY IdleType DEF IsTxn, Idle
<1>2. t.rows = Idle.rows /\ t.holds = Idle.holds
  BY DEF Idle
<1>3. t \in TxnOver({}, {})
  BY <1>1 DEF TxnOver
<1> QED
  BY <1>1, <1>2, <1>3 DEF IsTxn

LEMMA RowType ==
    ASSUME NEW row \in Row, NEW n \in Int, NEW sums \in [physical : Int, held : Int]
    PROVE  /\ Moved(row, n) \in Row
           /\ Reserved(row, n) \in Row
           /\ Released(row, n) \in Row
           /\ Committed(row, n) \in Row
           /\ Recomputed(row, sums) \in Row
BY DEF Row, Moved, Reserved, Released, Committed, Recomputed, Saved, AtLeastZero

\* What a worker sees is well-typed.
LEMMA SeenType ==
    ASSUME TypeOK, NEW w \in Workers
    PROVE  /\ \A k \in Keys : SeenRow(w, k) \in Row
           /\ SeenHolds(w) \in [Holds -> Hold]
<1>1. IsTxn(txn[w])
  BY DEF TypeOK
<1>2. /\ txn[w].rows \in [DOMAIN txn[w].rows -> Row]
      /\ txn[w].holds \in [DOMAIN txn[w].holds -> HoldRecord]
  BY <1>1, TxnFields
<1>3. \A k \in Keys : SeenRow(w, k) \in Row
  BY <1>2 DEF SeenRow, Locked, TypeOK
<1>4. SeenHolds(w) \in [Holds -> Hold]
  BY <1>2 DEF SeenHolds, TypeOK, Hold
<1> QED
  BY <1>3, <1>4

\* What a line does to its row, if the row and the line are well-typed.
LEMMA RowAfterType ==
    ASSUME TypeOK, NEW w \in Workers, NEW line \in Line
    PROVE  RowAfter(w, line) \in Row
<1> DEFINE row == SeenRow(w, line.key)
<1>1. row \in Row /\ txn[w].sums \in [physical : Int, held : Int]
  BY SeenType, TxnFields DEF TypeOK, Line
<1>2. line.qty \in Int /\ -line.qty \in Int /\ line.kind \in Kinds
  BY QtyAssumption DEF Line, Qty
<1>3. /\ Moved(row, -line.qty) \in Row /\ Moved(row, line.qty) \in Row
      /\ Reserved(row, line.qty) \in Row /\ Released(row, line.qty) \in Row
      /\ Committed(row, line.qty) \in Row /\ Recomputed(row, txn[w].sums) \in Row
  BY <1>1, <1>2, RowType
<1> HIDE DEF row
<1> QED
  BY <1>2, <1>3 DEF RowAfter, Kinds, row

\* What a line writes about reservations.
LEMMA HoldsAfterType ==
    ASSUME TypeOK, NEW w \in Workers, NEW line \in Line,
           txn[w].ref \in Refs \/ line.kind # "reserve",
           line.hold \in Holds \/ line.kind \notin {"reserve", "release", "commit"}
    PROVE  /\ DOMAIN HoldsAfter(w, line) \subseteq Holds
           /\ HoldsAfter(w, line) \in [DOMAIN HoldsAfter(w, line) -> HoldRecord]
<1> DEFINE D == DOMAIN txn[w].holds
<1>1. txn[w].holds \in [D -> HoldRecord] /\ D \subseteq Holds
  BY TxnFields DEF TypeOK
<1> DEFINE active == [status |-> "active", key |-> line.key, ref |-> txn[w].ref,
                      qty |-> line.qty]
           released == [status |-> "released", key |-> line.key]
           committed == [status |-> "committed", key |-> line.key]
<1>2. released \in HoldRecord /\ committed \in HoldRecord
  BY DEF HoldRecord, SettledHold, Line
<1>3. ASSUME NEW rec \in HoldRecord, line.hold \in Holds
      PROVE  /\ DOMAIN Put(txn[w].holds, line.hold, rec) \subseteq Holds
             /\ Put(txn[w].holds, line.hold, rec)
                  \in [DOMAIN Put(txn[w].holds, line.hold, rec) -> HoldRecord]
  <2> HIDE DEF D
  <2>1. /\ Put(txn[w].holds, line.hold, rec) \in [D \cup {line.hold} -> HoldRecord]
        /\ DOMAIN Put(txn[w].holds, line.hold, rec) = D \cup {line.hold}
    BY <1>1, <1>3 DEF Put
  <2> QED  BY <1>1, <1>3, <2>1
<1>4. CASE line.kind = "reserve"
  <2>1. active \in HoldRecord
    BY <1>4 DEF HoldRecord, ActiveHold, Line
  <2>2. HoldsAfter(w, line) = Put(txn[w].holds, line.hold, active)
    BY <1>4 DEF HoldsAfter
  <2> HIDE DEF active
  <2> QED  BY <1>3, <1>4, <2>1, <2>2
<1>5. CASE line.kind = "release"
  <2>1. HoldsAfter(w, line) = Put(txn[w].holds, line.hold, released)
    BY <1>5 DEF HoldsAfter
  <2> HIDE DEF released
  <2> QED  BY <1>2, <1>3, <1>5, <2>1
<1>6. CASE line.kind = "commit"
  <2>1. HoldsAfter(w, line) = Put(txn[w].holds, line.hold, committed)
    BY <1>6 DEF HoldsAfter
  <2> HIDE DEF committed
  <2> QED  BY <1>2, <1>3, <1>6, <2>1
<1>7. CASE line.kind \notin {"reserve", "release", "commit"}
  <2>1. HoldsAfter(w, line) = txn[w].holds
    BY <1>7 DEF HoldsAfter
  <2> QED  BY <1>1, <2>1
<1> QED
  BY <1>4, <1>5, <1>6, <1>7

-----------------------------------------------------------------------------
(* SUM(quantity) of the ACTIVE reservations when one of them changes.      *)

LEMMA HeldSame ==
    ASSUME NEW r \in [Holds -> Hold], NEW s \in [Holds -> Hold], NEW k,
           \A h \in Holds : r[h] # s[h] =>
               h \notin ActiveHolds(r, k) /\ h \notin ActiveHolds(s, k)
    PROVE  Held(r, k) = Held(s, k)
<1>1. ActiveHolds(r, k) = ActiveHolds(s, k)
  BY DEF ActiveHolds
<1>2. \A h \in ActiveHolds(r, k) : r[h].qty = s[h].qty
  BY <1>1 DEF ActiveHolds
<1> DEFINE A == ActiveHolds(r, k)
           f == [h \in A |-> r[h].qty]
           g == [h \in A |-> s[h].qty]
<1>3. \A h \in A : f[h] = g[h]
  BY <1>2
<1>4. SumOver(f, A) = SumOver(g, A)
  <2> HIDE DEF f, g, A
  <2> QED  BY <1>3, SumCongruent
<1> QED
  BY <1>1, <1>4 DEF Held

\* A reservation more: its quantity more.
LEMMA HeldGains ==
    ASSUME NEW r \in [Holds -> Hold], NEW s \in [Holds -> Hold], NEW k,
           NEW h \in Holds, h \notin ActiveHolds(r, k), h \in ActiveHolds(s, k),
           \A g \in Holds : g # h /\ r[g] # s[g] =>
               g \notin ActiveHolds(r, k) /\ g \notin ActiveHolds(s, k)
    PROVE  Held(s, k) = Held(r, k) + s[h].qty
<1> DEFINE A == ActiveHolds(r, k)
           B == ActiveHolds(s, k)
           f == [x \in A |-> r[x].qty]
           e == [x \in B |-> s[x].qty]
<1>1. B = A \cup {h} /\ h \notin A
  BY DEF ActiveHolds
<1>2. \A x \in A : f[x] = e[x]
  BY <1>1 DEF ActiveHolds
<1>3. IsFiniteSet(A) /\ (\A x \in B : e[x] \in Nat) /\ e[h] = s[h].qty
  BY <1>1, ActiveHoldsFinite
<1>4. SumOver(f, A) = SumOver(e, A)
  <2> HIDE DEF f, e, A, B
  <2> QED  BY <1>2, SumCongruent
<1>5. SumOver(e, A \cup {h}) = SumOver(e, A) + e[h]
  <2> HIDE DEF e, A, B
  <2> QED  BY <1>1, <1>3, SumAdd
<1>6. Held(r, k) = SumOver(f, A) /\ Held(s, k) = SumOver(e, B)
  BY DEF Held
<1> HIDE DEF f, e, A, B
<1> QED
  BY <1>1, <1>3, <1>4, <1>5, <1>6

-----------------------------------------------------------------------------
(* Steps that change nothing but one worker's transaction.                 *)

\* What is known of another worker stays known: it depends on that worker's own
\* transaction and on committed state.
LEMMA OtherWorker ==
    ASSUME TypeOK, IndInv, NEW w \in Workers, NEW t, txn' = [txn EXCEPT ![w] = t],
           UNCHANGED <<stock, resv, raced>>, NEW v \in Workers \ {w}
    PROVE  /\ txn'[v] = txn[v] /\ Claims(v)' = Claims(v)
           /\ LinesFit(v)' /\ WritesFit(v)' /\ RowsFit(v)'
<1>1. txn'[v] = txn[v]
  BY DEF TypeOK
<1>2. Claims(v)' = Claims(v)
  BY <1>1 DEF Claims
<1>3. LinesFit(v) /\ WritesFit(v) /\ RowsFit(v)
  BY DEF IndInv
<1>4. LinesFit(v)'
  BY <1>1, <1>3 DEF LinesFit, LineFits
<1>5. WritesFit(v)'
  BY <1>1, <1>3 DEF WritesFit, Locked
<1>6. SeenHolds(v)' = SeenHolds(v)
  BY <1>1 DEF SeenHolds
<1>7. RowsFit(v)'
  BY <1>1, <1>3, <1>6 DEF RowsFit, Exact
<1> QED
  BY <1>1, <1>2, <1>4, <1>5, <1>7

LEMMA TxnStep ==
    ASSUME TypeOK, IndInv, NEW w \in Workers, NEW t, IsTxn(t),
           txn' = [txn EXCEPT ![w] = t], UNCHANGED <<stock, resv, raced>>,
           LinesFit(w)', WritesFit(w)', RowsFit(w)',
           \A v \in Workers \ {w} : DOMAIN t.rows \cap DOMAIN txn[v].rows = {},
           \A v \in Workers \ {w} : \A h \in Claims(w)' \cap Claims(v) : resv[h] # NoHold
    PROVE  TypeOK' /\ IndInv'
<1>1. txn'[w] = t
  BY DEF TypeOK
<1>2. \A v \in Workers \ {w} :
        /\ txn'[v] = txn[v] /\ Claims(v)' = Claims(v)
        /\ LinesFit(v)' /\ WritesFit(v)' /\ RowsFit(v)'
  BY OtherWorker
<1>3. TypeOK'
  BY <1>1, <1>2 DEF TypeOK
<1>4. LocksExclusive'
  BY <1>1, <1>2 DEF LocksExclusive, IndInv
<1>5. ClaimsApart'
  BY <1>2 DEF ClaimsApart, IndInv
<1>6. \A v \in Workers : LinesFit(v)' /\ WritesFit(v)' /\ RowsFit(v)'
  BY <1>2
<1>7. CountersSound' /\ BookkeepingExact'
  BY DEF CountersSound, BookkeepingExact, Exact, IndInv
<1> QED
  BY <1>3, <1>4, <1>5, <1>6, <1>7 DEF IndInv

\* A rollback: refused, dead or chosen to break a deadlock.
LEMMA RollbackStep ==
    ASSUME TypeOK, IndInv, NEW w \in Workers, Rollback(w)
    PROVE  TypeOK' /\ IndInv'
<1>1. txn' = [txn EXCEPT ![w] = Idle] /\ UNCHANGED <<stock, resv, raced>>
  BY DEF Rollback
<1>2. txn'[w] = Idle
  BY <1>1 DEF TypeOK
<1>3. /\ DOMAIN Idle.rows = {} /\ DOMAIN Idle.holds = {} /\ DOMAIN Idle.todo = {}
      /\ Idle.op = "idle"
  BY DEF Idle
<1>4. Claims(w)' = {}
  BY <1>2, <1>3 DEF Claims
<1>5. LinesFit(w)' /\ WritesFit(w)' /\ RowsFit(w)'
  BY <1>2, <1>3 DEF LinesFit, WritesFit, RowsFit
<1> QED
  BY <1>1, <1>3, <1>4, <1>5, IdleType, TxnStep

\* A transaction that begins: its lines have to fit what is committed, and the
\* reservations it is going to create have to be nobody else's.
LEMMA BeginStep ==
    ASSUME TypeOK, IndInv, NEW w \in Workers, NEW op \in Ops, NEW ref \in Refs \cup {NoRef},
           NEW lines \in Seq(Line), Begin(w, op, ref, lines),
           UNCHANGED <<stock, resv, raced>>,
           op \notin {"recompute_begun", "recompute"}, LinesFit(w)',
           \A i \in DOMAIN lines : lines[i].hold \in Holds => 
              \/ resv[lines[i].hold] # NoHold
              \/ \A v \in Workers : lines[i].hold \notin Claims(v)
    PROVE  TypeOK' /\ IndInv'
<1> DEFINE t == [Idle EXCEPT !.op = op, !.ref = ref, !.todo = lines]
<1>1. txn' = [txn EXCEPT ![w] = t] /\ IsTxn(t)
  BY BegunType DEF Begin
<1>2. txn'[w] = t
  BY <1>1 DEF TypeOK
<1>3. DOMAIN t.rows = {} /\ DOMAIN t.holds = {} /\ t.todo = lines /\ t.op = op
  BY DEF Idle
<1> HIDE DEF t
<1>4. Claims(w)' = {lines[i].hold : i \in DOMAIN lines} \cap Holds
  BY <1>2, <1>3 DEF Claims
<1>5. WritesFit(w)' /\ RowsFit(w)'
  BY <1>2, <1>3 DEF WritesFit, RowsFit
<1>6. \A v \in Workers \ {w} : \A h \in Claims(w)' \cap Claims(v) : resv[h] # NoHold
  BY <1>4
<1> QED
  BY <1>1, <1>3, <1>5, <1>6, TxnStep

\* What begins is what was asked for.
LEMMA BegunFields ==
    ASSUME TypeOK, NEW w \in Workers, NEW op, NEW ref, NEW lines, Begin(w, op, ref, lines)
    PROVE  /\ txn'[w].op = op /\ txn'[w].ref = ref /\ txn'[w].todo = lines
           /\ DOMAIN txn'[w].rows = {} /\ DOMAIN txn'[w].holds = {} /\ txn'[w].stale = {}
<1>1. txn'[w] = [Idle EXCEPT !.op = op, !.ref = ref, !.todo = lines]
  BY DEF Begin, TypeOK
<1>2. DOMAIN <<>> = {}
  OBVIOUS
<1> QED
  BY <1>1, <1>2 DEF Idle

LEMMA PlaceOrderStep ==
    ASSUME TypeOK, IndInv, NEW w \in Workers, NEW ref \in Refs, NEW n \in Nat,
           NEW keys \in KeyLists(n), NEW qtys \in Quantities(n),
           PlaceOrder(w, ref, keys, qtys)
    PROVE  TypeOK' /\ IndInv'
<1>1. PICK h \in FreshHolds :
        /\ h .. (h + Len(keys) - 1) \subseteq FreshHolds
        /\ Begin(w, "reserve", ref,
                 [i \in 1 .. Len(keys) |->
                    [kind |-> "reserve", key |-> keys[i], qty |-> qtys[i],
                     hold |-> h + i - 1]])
  BY DEF PlaceOrder
<1>2. Len(keys) = n
  BY DEF KeyLists
<1> DEFINE lines == [i \in 1 .. n |->
                       [kind |-> "reserve", key |-> keys[i], qty |-> qtys[i],
                        hold |-> h + i - 1]]
<1>3. Begin(w, "reserve", ref, lines) /\ UNCHANGED <<stock, resv, raced>>
  BY <1>1, <1>2 DEF PlaceOrder
<1> HIDE DEF lines
<1>4. h \in Int /\ \A i \in 1 .. n : h + i - 1 \in FreshHolds
  <2>1. h \in Int
    BY HoldsAssumption DEF FreshHolds, Holds
  <2>2. \A i \in 1 .. n : h + i - 1 \in h .. (h + n - 1)
    BY <2>1
  <2> QED  BY <1>1, <1>2, <2>1, <2>2
<1> USE DEF lines
<1>5. \A i \in 1 .. n :
        /\ lines[i] \in Line /\ lines[i].kind = "reserve"
        /\ lines[i].hold = h + i - 1 /\ lines[i].hold \in Holds
        /\ resv[lines[i].hold] = NoHold
        /\ \A v \in Workers : lines[i].hold \notin Claims(v)
  <2>1. \A g \in FreshHolds : /\ g \in Holds /\ g \in 0 .. MaxHolds /\ resv[g] = NoHold
                              /\ \A v \in Workers : g \notin Claims(v)
    BY HoldsAssumption DEF FreshHolds, Holds, Claims
  <2>2. \A i \in 1 .. n : keys[i] \in Keys /\ qtys[i] \in Qty
    BY DEF KeyLists, Quantities
  <2>3. \A i \in 1 .. n : lines[i] \in Line
    BY <1>4, <2>1, <2>2 DEF Line, Kinds
  <2>4. \A i \in 1 .. n : lines[i].kind = "reserve" /\ lines[i].hold = h + i - 1
    OBVIOUS
  <2> HIDE DEF lines
  <2> QED  BY <1>4, <2>1, <2>3, <2>4
<1>6. DOMAIN lines = 1 .. n /\ lines \in Seq(Line)
  BY <1>5
<1> HIDE DEF lines
<1>7. /\ txn'[w].op = "reserve" /\ txn'[w].ref = ref /\ txn'[w].todo = lines
      /\ DOMAIN txn'[w].holds = {}
  BY <1>3, BegunFields
<1>8. LinesFit(w)'
  BY <1>3, <1>4, <1>5, <1>6, <1>7 DEF LinesFit, LineFits
<1> QED
  BY <1>3, <1>5, <1>6, <1>8, BeginStep DEF Ops

\* Reading the ACTIVE reservations of an order, to release or to commit them.
LEMMA FetchStep ==
    ASSUME TypeOK, IndInv, NEW w \in Workers, NEW kind \in {"release", "commit"},
           NEW ref \in Refs \cup {NoRef}, Fetch(w, kind, ref), UNCHANGED <<stock, resv, raced>>
    PROVE  TypeOK' /\ IndInv'
<1> DEFINE n == Cardinality(ActiveFor(ref))
<1>1. PICK s \in NewestFirst(ActiveFor(ref)) :
        Begin(w, kind, ref,
              [i \in DOMAIN s |->
                 [kind |-> kind, key |-> resv[s[i]].key, qty |-> resv[s[i]].qty,
                  hold |-> s[i]]])
  BY DEF Fetch
<1>2. n \in Nat
  <2>1. IsFiniteSet(Holds) /\ ActiveFor(ref) \in SUBSET Holds
    BY FS_Interval, HoldsAssumption DEF Holds, ActiveFor
  <2> QED  BY <2>1, FS_Subset, FS_CardinalityType
<1>3. /\ s \in [1 .. n -> ActiveFor(ref)]
      /\ \A i, j \in 1 .. n : i < j => s[i] > s[j]
  BY DEF NewestFirst
<1> HIDE DEF n
<1> DEFINE lines == [i \in 1 .. n |->
                       [kind |-> kind, key |-> resv[s[i]].key, qty |-> resv[s[i]].qty,
                        hold |-> s[i]]]
<1>4. DOMAIN s = 1 .. n
  BY <1>3
<1>5. Begin(w, kind, ref, lines)
  BY <1>1, <1>4
<1>6. \A h \in ActiveFor(ref) :
        /\ h \in Holds /\ resv[h] \in ActiveHold /\ resv[h] \in HoldRecord
        /\ resv[h].key \in Keys /\ resv[h].qty \in Qty /\ resv[h] # NoHold
        /\ ref \in Refs
  BY DEF ActiveFor, TypeOK, Hold, HoldRecord, ActiveHold, SettledHold, NoHold, ErasedHold
<1>7. \A i \in 1 .. n :
        /\ s[i] \in Holds /\ resv[s[i]] \in HoldRecord /\ resv[s[i]] # NoHold
        /\ resv[s[i]].key \in Keys /\ resv[s[i]].qty \in Qty /\ ref \in Refs
  BY <1>3, <1>6
<1>8. \A i \in 1 .. n :
        /\ lines[i] \in Line /\ lines[i].kind = kind /\ lines[i].hold = s[i]
        /\ lines[i].key = resv[s[i]].key /\ lines[i].qty = resv[s[i]].qty
  BY <1>7, HoldsAssumption DEF Line, Kinds, Holds
<1>9. DOMAIN lines = 1 .. n /\ lines \in Seq(Line)
  BY <1>2, <1>8
<1>10. \A i, j \in 1 .. n : i # j => s[i] # s[j]
  BY <1>2, <1>3, <1>7, HoldsAssumption DEF Holds
<1> HIDE DEF lines
<1>11. /\ txn'[w].op = kind /\ txn'[w].ref = ref /\ txn'[w].todo = lines
       /\ DOMAIN txn'[w].holds = {}
  BY <1>5, BegunFields
<1>12. LinesFit(w)'
  BY <1>7, <1>8, <1>9, <1>10, <1>11 DEF LinesFit, LineFits
<1>13. \A i \in DOMAIN lines : lines[i].hold \in Holds =>
          \/ resv[lines[i].hold] # NoHold
          \/ \A v \in Workers : lines[i].hold \notin Claims(v)
  BY <1>7, <1>8, <1>9
<1>14. kind \in Ops
  BY DEF Ops
<1> QED
  BY <1>5, <1>9, <1>12, <1>13, <1>14, BeginStep

LEMMA CommitFetchStep ==
    ASSUME TypeOK, IndInv, NEW w \in Workers, CommitFetch(w)
    PROVE  TypeOK' /\ IndInv'
<1>1. txn[w].ref \in Refs \cup {NoRef}
  BY TxnFields DEF TypeOK
<1> QED
  BY <1>1, FetchStep DEF CommitFetch

LEMMA CommitReservationStep ==
    ASSUME TypeOK, IndInv, NEW w \in Workers, NEW ref \in Refs, CommitReservation(w, ref)
    PROVE  TypeOK' /\ IndInv'
<1>1. Begin(w, "commit_checked", ref, <<>>) /\ UNCHANGED <<stock, resv, raced>>
  BY DEF CommitReservation
<1>2. txn'[w].todo = <<>>
  BY <1>1, BegunFields
<1>3. LinesFit(w)' /\ <<>> \in Seq(Line) /\ DOMAIN <<>> = {}
  BY <1>2 DEF LinesFit
<1> QED
  BY <1>1, <1>3, BeginStep DEF Ops

LEMMA MoveStockStep ==
    ASSUME TypeOK, IndInv, NEW w \in Workers, NEW out \in Keys, NEW in \in Keys,
           NEW q_out \in Qty, NEW q_in \in Qty, MoveStock(w, out, q_out, in, q_in)
    PROVE  TypeOK' /\ IndInv'
<1> DEFINE first == [kind |-> "deduct", key |-> out, qty |-> q_out, hold |-> 0]
           second == [kind |-> "add", key |-> in, qty |-> q_in, hold |-> 0]
           lines == <<first, second>>
<1>1. Begin(w, "move", NoRef, lines) /\ UNCHANGED <<stock, resv, raced>>
  BY DEF MoveStock
<1>2. first \in Line /\ second \in Line
  BY HoldsAssumption DEF Line, Kinds
<1>3. lines \in Seq(Line) /\ DOMAIN lines = {1, 2}
  BY <1>2
<1>4. \A i \in {1, 2} : lines[i].kind \in {"deduct", "add"} /\ lines[i].hold = 0
  OBVIOUS
<1> HIDE DEF lines
<1>5. txn'[w].op = "move" /\ txn'[w].todo = lines /\ DOMAIN txn'[w].holds = {}
  BY <1>1, BegunFields
<1>6. 0 \notin Holds
  BY DEF Holds
<1>7. LinesFit(w)'
  BY <1>3, <1>4, <1>5, <1>6 DEF LinesFit, LineFits
<1> QED
  BY <1>1, <1>3, <1>4, <1>6, <1>7, BeginStep DEF Ops

LEMMA RecomputeStockStep ==
    ASSUME TypeOK, IndInv, NEW w \in Workers, NEW k \in Keys, RecomputeStock(w, k)
    PROVE  TypeOK' /\ IndInv'
<1> DEFINE line == [kind |-> "recompute", key |-> k, qty |-> 1, hold |-> 0]
           lines == <<line>>
           sums == [physical |-> stock[k].physical, held |-> 0]
           t == [Idle EXCEPT !.op = "recompute_begun", !.todo = lines, !.sums = sums]
<1>1. txn' = [txn EXCEPT ![w] = t] /\ UNCHANGED <<stock, resv, raced>>
  BY DEF RecomputeStock
<1>2. line \in Line
  BY QtyAssumption, HoldsAssumption DEF Line, Kinds, Qty
<1>3. lines \in Seq(Line) /\ DOMAIN lines = {1}
  BY <1>2
<1>4. sums \in [physical : Int, held : Int]
  BY DEF TypeOK, Row
<1>5. Idle \in TxnOver({}, {}) /\ DOMAIN Idle.rows = {} /\ DOMAIN Idle.holds = {}
  BY IdleType DEF IsTxn, Idle
<1>6. t \in TxnOver({}, {}) /\ t.rows = Idle.rows /\ t.holds = Idle.holds
  <2> HIDE DEF lines, sums, line
  <2>1. t \in TxnOver({}, {})
    BY <1>3, <1>4, <1>5 DEF TxnOver, Ops
  <2>2. t.rows = Idle.rows /\ t.holds = Idle.holds
    BY <1>5 DEF TxnOver
  <2> QED  BY <2>1, <2>2
<1>7. IsTxn(t)
  BY <1>5, <1>6 DEF IsTxn
<1>8. txn'[w] = t
  BY <1>1 DEF TypeOK
<1>9. /\ txn'[w].op = "recompute_begun" /\ txn'[w].todo = lines
      /\ DOMAIN txn'[w].rows = {} /\ DOMAIN txn'[w].holds = {}
  BY <1>5, <1>6, <1>8
<1>10. line.kind = "recompute" /\ line.hold = 0 /\ 0 \notin Holds /\ lines[1] = line
  BY DEF Holds
<1> HIDE DEF t, line, lines
<1>11. LinesFit(w)' /\ WritesFit(w)' /\ RowsFit(w)'
  BY <1>3, <1>9, <1>10 DEF LinesFit, LineFits, WritesFit, RowsFit
<1>12. Claims(w)' = {}
  BY <1>3, <1>9, <1>10 DEF Claims
<1> QED
  BY <1>1, <1>5, <1>6, <1>7, <1>11, <1>12, TxnStep

LEMMA RecomputeReservedStep ==
    ASSUME TypeOK, IndInv, NEW w \in Workers, RecomputeReserved(w)
    PROVE  TypeOK' /\ IndInv'
<1> DEFINE held == Held(resv, Head(txn[w].todo).key)
           t == [txn[w] EXCEPT !.op = "recompute", !.sums.held = held]
<1>1. held \in Int
  BY HeldType DEF TypeOK
<1> HIDE DEF held
<1>2. /\ txn' = [txn EXCEPT ![w] = t] /\ UNCHANGED <<stock, resv, raced>>
      /\ txn[w].op = "recompute_begun"
  BY DEF RecomputeReserved, TypeOK, held
<1>3. IsTxn(txn[w])
  BY DEF TypeOK
<1>4. t.rows = txn[w].rows /\ t.holds = txn[w].holds
  BY <1>3 DEF IsTxn, TxnOver
<1>5. t \in TxnOver(DOMAIN txn[w].rows, DOMAIN txn[w].holds)
  BY <1>1, <1>3 DEF IsTxn, TxnOver, Ops
<1>6. IsTxn(t)
  BY <1>3, <1>4, <1>5 DEF IsTxn
<1>7. txn'[w] = t
  BY <1>2 DEF TypeOK
<1>8. /\ txn'[w].op = "recompute" /\ txn'[w].todo = txn[w].todo
      /\ txn'[w].ref = txn[w].ref
      /\ txn'[w].rows = txn[w].rows /\ txn'[w].holds = txn[w].holds
  BY <1>3, <1>7 DEF IsTxn, TxnOver
<1>9. LinesFit(w) /\ WritesFit(w) /\ DOMAIN txn[w].rows = {} /\ DOMAIN txn[w].holds = {}
  BY <1>2 DEF IndInv, WritesFit
<1> HIDE DEF t
<1>10. LinesFit(w)' /\ WritesFit(w)' /\ RowsFit(w)'
  BY <1>2, <1>8, <1>9 DEF LinesFit, LineFits, WritesFit, RowsFit
<1>11. Claims(w)' = Claims(w)
  BY <1>8 DEF Claims
<1>12. \A v \in Workers \ {w} : \A h \in Claims(w)' \cap Claims(v) : resv[h] # NoHold
  BY <1>11 DEF IndInv, ClaimsApart
<1> QED
  BY <1>2, <1>4, <1>6, <1>9, <1>10, <1>12, TxnStep

-----------------------------------------------------------------------------
(* Working off a line.                                                     *)

\* The first line and the rest.
LEMMA TodoFacts ==
    ASSUME TypeOK, NEW w \in Workers, txn[w].todo # <<>>
    PROVE  /\ Head(txn[w].todo) \in Line
           /\ 1 \in DOMAIN txn[w].todo /\ txn[w].todo[1] = Head(txn[w].todo)
           /\ Tail(txn[w].todo) \in Seq(Line)
           /\ \A i \in DOMAIN Tail(txn[w].todo) :
                /\ i \in Nat /\ i + 1 \in DOMAIN txn[w].todo /\ i + 1 # 1
                /\ Tail(txn[w].todo)[i] = txn[w].todo[i + 1]
<1>1. txn[w].todo \in Seq(Line)
  BY TxnFields DEF TypeOK
<1> QED
  BY <1>1

\* Replacing a transaction's lines, writes and history leaves a transaction.
LEMMA WorkedType ==
    ASSUME NEW t, IsTxn(t), NEW todo \in Seq(Line), NEW rows, NEW holds, NEW stale,
           DOMAIN rows \subseteq Keys, rows \in [DOMAIN rows -> Row],
           DOMAIN holds \subseteq Holds, holds \in [DOMAIN holds -> HoldRecord],
           stale \subseteq Keys
    PROVE  LET u == [t EXCEPT !.todo = todo, !.rows = rows, !.holds = holds,
                              !.stale = stale]
           IN  /\ u.op = t.op /\ u.ref = t.ref /\ u.sums = t.sums
               /\ u.todo = todo /\ u.rows = rows /\ u.holds = holds /\ u.stale = stale
               /\ IsTxn(u)
<1> DEFINE u == [t EXCEPT !.todo = todo, !.rows = rows, !.holds = holds, !.stale = stale]
<1>1. t \in TxnOver(DOMAIN t.rows, DOMAIN t.holds)
  BY DEF IsTxn
<1>2. /\ u.op = t.op /\ u.ref = t.ref /\ u.sums = t.sums
      /\ u.todo = todo /\ u.rows = rows /\ u.holds = holds /\ u.stale = stale
  BY <1>1 DEF TxnOver
<1>3. u \in TxnOver(DOMAIN rows, DOMAIN holds)
  BY <1>1 DEF TxnOver
<1> HIDE DEF u
<1>4. IsTxn(u)
  BY <1>2, <1>3 DEF IsTxn
<1> QED
  BY <1>2, <1>4 DEF u

\* The transaction after the line.
LEMMA WorkOffFields ==
    ASSUME TypeOK, IndInv, NEW w \in Workers, WorkOff(w)
    PROVE  LET line == Head(txn[w].todo)
               t == txn'[w]
           IN  /\ txn[w].todo # <<>> /\ txn[w].op # "recompute_begun"
               /\ line \in Line /\ CanLock(w, line.key) /\ Admits(w, line)
               /\ UNCHANGED <<stock, resv, raced>>
               /\ txn' = [txn EXCEPT ![w] = t]
               /\ t.op = txn[w].op /\ t.ref = txn[w].ref /\ t.sums = txn[w].sums
               /\ t.todo = Tail(txn[w].todo)
               /\ t.rows = Put(txn[w].rows, line.key, RowAfter(w, line))
               /\ DOMAIN t.rows = DOMAIN txn[w].rows \cup {line.key}
               /\ t.holds = HoldsAfter(w, line)
               /\ t.stale = IF OutOfDate(w, line) THEN txn[w].stale \cup {line.key}
                            ELSE txn[w].stale
               /\ LineFits(w, line)
               /\ IsTxn(t)
<1> DEFINE line == Head(txn[w].todo)
           rows == Put(txn[w].rows, line.key, RowAfter(w, line))
           holds == HoldsAfter(w, line)
           stale == IF OutOfDate(w, line) THEN txn[w].stale \cup {line.key}
                    ELSE txn[w].stale
           todo == Tail(txn[w].todo)
           t == [txn[w] EXCEPT !.todo = todo, !.rows = rows, !.holds = holds,
                               !.stale = stale]
<1>1. /\ txn[w].todo # <<>> /\ txn[w].op # "recompute_begun"
      /\ CanLock(w, line.key) /\ Admits(w, line)
      /\ UNCHANGED <<stock, resv, raced>>
  BY DEF WorkOff
<1>2. IsTxn(txn[w])
  BY DEF TypeOK
<1>3. txn' = [txn EXCEPT ![w] = t] /\ txn'[w] = t
  <2>1. txn' = [txn EXCEPT ![w] = t]
    BY DEF WorkOff, TypeOK
  <2> HIDE DEF t
  <2> QED  BY <2>1 DEF TypeOK
<1>4. line \in Line /\ LineFits(w, line) /\ todo \in Seq(Line)
  BY <1>1, TodoFacts DEF IndInv, LinesFit
<1>5. RowAfter(w, line) \in Row /\ line.key \in Keys
  BY <1>4, RowAfterType DEF Line
<1>6. /\ rows \in [DOMAIN txn[w].rows \cup {line.key} -> Row]
      /\ DOMAIN rows = DOMAIN txn[w].rows \cup {line.key}
      /\ DOMAIN rows \subseteq Keys
  <2> HIDE DEF line
  <2> QED  BY <1>2, <1>5, TxnFields DEF Put
<1>7. DOMAIN holds \subseteq Holds /\ holds \in [DOMAIN holds -> HoldRecord]
  <2>1. txn[w].ref \in Refs \/ line.kind # "reserve"
    BY <1>4 DEF LineFits
  <2>2. line.hold \in Holds \/ line.kind \notin {"reserve", "release", "commit"}
    BY <1>4 DEF LineFits
  <2> HIDE DEF line
  <2> QED  BY <1>4, <2>1, <2>2, HoldsAfterType
<1>8. stale \subseteq Keys
  BY <1>2, <1>5, TxnFields
<1> HIDE DEF line, rows, holds, stale, todo
<1>9. /\ t.op = txn[w].op /\ t.ref = txn[w].ref /\ t.sums = txn[w].sums
      /\ t.todo = todo /\ t.rows = rows /\ t.holds = holds /\ t.stale = stale
      /\ IsTxn(t)
  BY <1>2, <1>4, <1>6, <1>7, <1>8, WorkedType
<1> HIDE DEF t
<1> QED
  BY <1>1, <1>3, <1>4, <1>6, <1>9 DEF line, rows, holds, stale, todo

-----------------------------------------------------------------------------
(* What a worker sees: committed rows and reservations under its own.      *)

\* Reservations on rows it has not locked are as committed.
LEMMA SeenApart ==
    ASSUME TypeOK, IndInv, NEW w \in Workers, NEW k \in Keys, ~Locked(w, k)
    PROVE  Held(SeenHolds(w), k) = Held(resv, k)
<1>1. SeenHolds(w) \in [Holds -> Hold] /\ resv \in [Holds -> Hold]
  BY SeenType DEF TypeOK
<1>2. WritesFit(w)
  BY DEF IndInv
<1>3. ASSUME NEW h \in Holds, resv[h] # SeenHolds(w)[h]
      PROVE  h \notin ActiveHolds(resv, k) /\ h \notin ActiveHolds(SeenHolds(w), k)
  <2>1. h \in DOMAIN txn[w].holds /\ SeenHolds(w)[h] = txn[w].holds[h]
    BY <1>3 DEF SeenHolds
  <2>2. txn[w].holds[h].key # k
    BY <1>2, <2>1 DEF WritesFit
  <2>3. resv[h] = NoHold \/ resv[h].key # k
    BY <1>2, <2>1, <2>2 DEF WritesFit
  <2> QED  BY <2>1, <2>2, <2>3 DEF ActiveHolds, NoHold
<1> QED
  BY <1>1, <1>3, HeldSame

\* The row it sees has sound counters.
LEMMA SeenSound ==
    ASSUME TypeOK, IndInv, NEW w \in Workers, NEW k \in Keys
    PROVE  Sound(SeenRow(w, k))
BY DEF SeenRow, Locked, IndInv, RowsFit, CountersSound

\* And exact ones, unless a race has made them inexact.
LEMMA SeenExact ==
    ASSUME TypeOK, IndInv, NEW w \in Workers, NEW k \in Keys,
           k \notin raced, k \notin txn[w].stale
    PROVE  Exact(SeenRow(w, k), SeenHolds(w), k)
<1>1. CASE Locked(w, k)
  BY <1>1 DEF SeenRow, Locked, IndInv, RowsFit
<1>2. CASE ~Locked(w, k)
  BY <1>2, SeenApart DEF SeenRow, IndInv, BookkeepingExact, Exact
<1> QED
  BY <1>1, <1>2

\* A reservation the worker has not written is as committed.
LEMMA SeenCommitted ==
    ASSUME TypeOK, NEW w \in Workers, NEW h \in Holds, h \notin DOMAIN txn[w].holds
    PROVE  SeenHolds(w)[h] = resv[h]
BY DEF SeenHolds

-----------------------------------------------------------------------------
(* A line is worked off: the parts of the invariant.                       *)

\* The reservation a line is about, before and after it.
LEMMA LineHold ==
    ASSUME TypeOK, IndInv, NEW w \in Workers, WorkOff(w),
           Head(txn[w].todo).kind \in {"reserve", "release", "commit"}
    PROVE  LET line == Head(txn[w].todo)
               D == DOMAIN txn[w].holds
               new == txn'[w].holds
           IN  /\ line.hold \in Holds /\ line.hold \notin D
               /\ new \in [D \cup {line.hold} -> HoldRecord]
               /\ \A h \in D : new[h] = txn[w].holds[h]
               /\ new[line.hold].key = line.key
               /\ \/ /\ line.kind = "reserve" /\ resv[line.hold] = NoHold
                     /\ new[line.hold].status = "active"
                     /\ new[line.hold].qty = line.qty
                  \/ /\ line.kind # "reserve"
                     /\ resv[line.hold] \in HoldRecord
                     /\ resv[line.hold].key = line.key
                     /\ resv[line.hold].status = "active" => resv[line.hold].qty = line.qty
                     /\ new[line.hold].status # "active"
<1> DEFINE line == Head(txn[w].todo)
           D == DOMAIN txn[w].holds
           new == txn'[w].holds
           active == [status |-> "active", key |-> line.key, ref |-> txn[w].ref,
                      qty |-> line.qty]
           released == [status |-> "released", key |-> line.key]
           committed == [status |-> "committed", key |-> line.key]
<1>1. /\ line \in Line /\ LineFits(w, line) /\ Admits(w, line) /\ new = HoldsAfter(w, line)
      /\ IsTxn(txn'[w])
  BY WorkOffFields
<1>2. new \in [DOMAIN new -> HoldRecord]
  BY <1>1, TxnFields
<1> HIDE DEF line
<1>3. line.hold \in Holds /\ line.hold \notin D
  BY <1>1 DEF LineFits, line
<1>4. PICK rec : /\ new = Put(txn[w].holds, line.hold, rec)
                 /\ rec.key = line.key
                 /\ \/ line.kind = "reserve" /\ rec.status = "active" /\ rec.qty = line.qty
                    \/ line.kind # "reserve" /\ rec.status # "active"
  <2>1. CASE line.kind = "reserve"
    <3>1. new = Put(txn[w].holds, line.hold, active)
      BY <1>1, <2>1 DEF HoldsAfter
    <3> QED  BY <2>1, <3>1
  <2>2. CASE line.kind = "release"
    <3>1. new = Put(txn[w].holds, line.hold, released)
      BY <1>1, <2>2 DEF HoldsAfter
    <3> QED  BY <2>2, <3>1
  <2>3. CASE line.kind = "commit"
    <3>1. new = Put(txn[w].holds, line.hold, committed)
      BY <1>1, <2>3 DEF HoldsAfter
    <3> QED  BY <2>3, <3>1
  <2> QED  BY <2>1, <2>2, <2>3 DEF line
<1>5. /\ DOMAIN new = D \cup {line.hold} /\ new[line.hold] = rec
      /\ \A h \in D : new[h] = txn[w].holds[h]
  BY <1>3, <1>4 DEF Put
<1>6. CASE line.kind = "reserve"
  <2>1. resv[line.hold] = NoHold
    BY <1>1, <1>6 DEF LineFits
  <2> QED  BY <1>2, <1>3, <1>4, <1>5, <1>6, <2>1 DEF line
<1>7. CASE line.kind # "reserve"
  <2>1. line.kind \in {"release", "commit"}
    BY <1>7 DEF line
  <2>2. resv[line.hold] # ErasedHold
    BY <1>1, <2>1 DEF Admits
  <2>3. /\ resv[line.hold] \in HoldRecord /\ resv[line.hold].key = line.key
        /\ resv[line.hold].status = "active" => resv[line.hold].qty = line.qty
    BY <1>1, <2>1, <2>2 DEF LineFits
  <2> QED  BY <1>2, <1>3, <1>4, <1>5, <1>7, <2>3 DEF line
<1> QED
  BY <1>6, <1>7

\* A line of another kind is about no reservation.
LEMMA LineNoHold ==
    ASSUME TypeOK, IndInv, NEW w \in Workers, WorkOff(w),
           Head(txn[w].todo).kind \notin {"reserve", "release", "commit"}
    PROVE  txn'[w].holds = txn[w].holds
<1>1. txn'[w].holds = HoldsAfter(w, Head(txn[w].todo))
  BY WorkOffFields
<1> QED
  BY <1>1 DEF HoldsAfter

LEMMA WorkOffLinesFit ==
    ASSUME TypeOK, IndInv, NEW w \in Workers, WorkOff(w)
    PROVE  LinesFit(w)' /\ Claims(w)' \subseteq Claims(w)
<1> DEFINE line == Head(txn[w].todo)
           todo == txn[w].todo
           rest == Tail(todo)
           D == DOMAIN txn[w].holds
           E == DOMAIN txn'[w].holds
<1>1. /\ todo # <<>> /\ UNCHANGED <<stock, resv, raced>>
      /\ txn'[w].op = txn[w].op /\ txn'[w].ref = txn[w].ref /\ txn'[w].todo = rest
  BY WorkOffFields
<1>2. LinesFit(w)
  BY DEF IndInv
<1>3. /\ 1 \in DOMAIN todo /\ todo[1] = line
      /\ \A i \in DOMAIN rest : /\ i \in Nat /\ i + 1 \in DOMAIN todo /\ i + 1 # 1
                                /\ rest[i] = todo[i + 1]
  BY <1>1, TodoFacts
<1>4. E = D \/ (E = D \cup {line.hold} /\ line.hold \in Holds)
  BY LineHold, LineNoHold
<1> HIDE DEF todo, rest, line, D, E
<1>5. \A i \in DOMAIN todo : LineFits(w, todo[i])
  BY <1>2 DEF LinesFit, todo
<1>6. \A i, j \in DOMAIN todo : i # j /\ todo[i].hold \in Holds => todo[i].hold # todo[j].hold
  BY <1>2 DEF LinesFit, todo
<1>7. \A i \in DOMAIN rest : rest[i].hold \notin E
  <2> SUFFICES ASSUME NEW i \in DOMAIN rest PROVE rest[i].hold \notin E
    OBVIOUS
  <2>1. rest[i].hold \notin D
    BY <1>3, <1>5 DEF LineFits, D
  <2>2. line.hold \in Holds => rest[i].hold # line.hold
    BY <1>3, <1>6
  <2> QED  BY <1>4, <2>1, <2>2
<1>8. ASSUME NEW l, LineFits(w, l), l.hold \notin E
      PROVE  LineFits(w, l)'
  BY <1>1, <1>8 DEF LineFits, E
<1>9. \A i, j \in DOMAIN rest : i # j /\ rest[i].hold \in Holds => rest[i].hold # rest[j].hold
  <2> SUFFICES ASSUME NEW i \in DOMAIN rest, NEW j \in DOMAIN rest, i # j,
                      rest[i].hold \in Holds
               PROVE  rest[i].hold # rest[j].hold
    OBVIOUS
  <2>1. i + 1 # j + 1 /\ i + 1 \in DOMAIN todo /\ j + 1 \in DOMAIN todo
    BY <1>3
  <2> QED  BY <1>3, <1>6, <2>1
<1>10. \A i \in DOMAIN rest : LineFits(w, rest[i]) /\ rest[i].hold \notin E
  BY <1>3, <1>5, <1>7
<1>11. LinesFit(w)'
  <2>1. txn'[w].todo = rest
    BY <1>1 DEF rest, todo
  <2> SUFFICES ASSUME NEW i \in DOMAIN txn'[w].todo
               PROVE  /\ LineFits(w, txn[w].todo[i])'
                      /\ \A j \in DOMAIN txn'[w].todo :
                           i # j /\ txn'[w].todo[i].hold \in Holds
                           => txn'[w].todo[i].hold # txn'[w].todo[j].hold
    BY DEF LinesFit
  <2>2. \A l : l = rest[i] => LineFits(w, l)'
    BY <1>8, <1>10, <2>1
  <2>3. LineFits(w, txn[w].todo[i])'
    BY <2>1, <2>2 DEF LineFits
  <2> QED  BY <1>9, <2>1, <2>3
<1>12. Claims(w)' \subseteq Claims(w)
  <2>1. txn'[w].todo = rest /\ DOMAIN txn'[w].holds = E
    BY <1>1 DEF rest, todo, E
  <2>2. Claims(w)' = E \cup ({rest[i].hold : i \in DOMAIN rest} \cap Holds)
    BY <2>1 DEF Claims
  <2>3. Claims(w) = D \cup ({todo[i].hold : i \in DOMAIN todo} \cap Holds)
    BY DEF Claims, D, todo
  <2>4. \A i \in DOMAIN rest : \E j \in DOMAIN todo : rest[i].hold = todo[j].hold
    BY <1>3
  <2>5. line.hold \in {todo[i].hold : i \in DOMAIN todo}
    BY <1>3
  <2> QED  BY <1>4, <2>2, <2>3, <2>4, <2>5
<1> QED
  BY <1>11, <1>12

LEMMA WorkOffWritesFit ==
    ASSUME TypeOK, IndInv, NEW w \in Workers, WorkOff(w)
    PROVE  WritesFit(w)'
<1> DEFINE line == Head(txn[w].todo)
           D == DOMAIN txn[w].holds
           old == txn[w].holds
           new == txn'[w].holds
<1>1. /\ txn[w].todo # <<>> /\ UNCHANGED <<stock, resv, raced>>
      /\ txn[w].op # "recompute_begun"
      /\ txn'[w].op = txn[w].op /\ txn'[w].todo = Tail(txn[w].todo)
      /\ DOMAIN txn'[w].rows = DOMAIN txn[w].rows \cup {line.key}
      /\ LineFits(w, line)
  BY WorkOffFields
<1>2. WritesFit(w)
  BY DEF IndInv
<1>3. txn[w].op = "recompute" => txn'[w].todo = <<>> /\ DOMAIN new = {}
  <2> SUFFICES ASSUME txn[w].op = "recompute"
               PROVE  txn'[w].todo = <<>> /\ DOMAIN new = {}
    OBVIOUS
  <2>1. Len(txn[w].todo) = 1 /\ D = {}
    BY <1>1, <1>2 DEF WritesFit
  <2>2. txn[w].todo \in Seq(Line)
    BY TxnFields DEF TypeOK
  <2>3. Tail(txn[w].todo) = <<>>
    <3>1. /\ Tail(txn[w].todo) \in Seq(Line)
          /\ Len(Tail(txn[w].todo)) = Len(txn[w].todo) - 1
      BY <1>1, <2>2, HeadTailProperties
    <3> DEFINE rest == Tail(txn[w].todo)
    <3>2. rest \in Seq(Line) /\ Len(rest) = 0
      BY <2>1, <3>1
    <3> HIDE DEF rest
    <3>3. rest = <<>>
      BY <3>2
    <3> QED  BY <3>3 DEF rest
  <2>4. line.kind = "recompute"
    BY <1>1 DEF LineFits
  <2>5. new = old
    BY <2>4, LineNoHold
  <2> QED  BY <1>1, <2>1, <2>3, <2>5
<1> HIDE DEF line
<1>4. ASSUME NEW h \in DOMAIN new
      PROVE  /\ new[h].key \in DOMAIN txn'[w].rows
             /\ \/ new[h].status = "active" /\ resv[h] = NoHold
                \/ /\ new[h].status # "active"
                   /\ resv[h] \in HoldRecord /\ resv[h].key = new[h].key
  <2>1. CASE h \in D /\ new[h] = old[h]
    BY <1>1, <1>2, <2>1 DEF WritesFit, Locked
  <2>2. CASE line.kind \in {"reserve", "release", "commit"}
    <3>1. /\ new \in [D \cup {line.hold} -> HoldRecord]
          /\ \A g \in D : new[g] = old[g]
          /\ new[line.hold].key = line.key
          /\ \/ new[line.hold].status = "active" /\ resv[line.hold] = NoHold
             \/ /\ resv[line.hold] \in HoldRecord
                /\ resv[line.hold].key = line.key
                /\ new[line.hold].status # "active"
      BY <2>2, LineHold DEF line
    <3>2. h \in D \/ h = line.hold
      BY <1>4, <3>1
    <3> QED  BY <1>1, <2>1, <3>1, <3>2
  <2>3. CASE line.kind \notin {"reserve", "release", "commit"}
    BY <1>4, <2>1, <2>3, LineNoHold DEF line
  <2> QED  BY <2>2, <2>3
<1>5. resv' = resv
  BY <1>1
<1> QED
  BY <1>1, <1>3, <1>4, <1>5 DEF WritesFit, Locked

\* The reservations the worker sees after the line.
LEMMA WorkOffSeen ==
    ASSUME TypeOK, IndInv, NEW w \in Workers, WorkOff(w)
    PROVE  LET line == Head(txn[w].todo)
               before == SeenHolds(w)
               after == SeenHolds(w)'
           IN  /\ before \in [Holds -> Hold] /\ after \in [Holds -> Hold]
               /\ \A h \in Holds \ {line.hold} : after[h] = before[h]
               /\ \A k \in Keys \ {line.key} : Held(after, k) = Held(before, k)
               /\ line.kind = "reserve" =>
                    Held(after, line.key) = Held(before, line.key) + line.qty
               /\ line.kind \in {"release", "commit"}
                    /\ resv[line.hold].status = "active" =>
                    Held(before, line.key) = Held(after, line.key) + line.qty
               /\ line.kind \notin {"reserve", "release", "commit"} => after = before
<1> DEFINE line == Head(txn[w].todo)
           D == DOMAIN txn[w].holds
           old == txn[w].holds
           new == txn'[w].holds
           before == SeenHolds(w)
           after == SeenHolds(w)'
<1>1. /\ line \in Line /\ resv' = resv /\ IsTxn(txn'[w])
      /\ old \in [D -> HoldRecord] /\ D \subseteq Holds
  BY WorkOffFields, TxnFields DEF TypeOK
<1>2. before = [h \in Holds |-> IF h \in D THEN old[h] ELSE resv[h]]
  BY DEF SeenHolds
<1>3. after = [h \in Holds |-> IF h \in DOMAIN new THEN new[h] ELSE resv[h]]
  BY <1>1 DEF SeenHolds
<1>4. before \in [Holds -> Hold]
  BY SeenType
<1>5. after \in [Holds -> Hold]
  <2>1. new \in [DOMAIN new -> HoldRecord]
    BY <1>1, TxnFields
  <2> QED  BY <1>3, <2>1 DEF TypeOK, Hold
<1> HIDE DEF line
<1>6. CASE line.kind \notin {"reserve", "release", "commit"}
  <2>1. after = before
    BY <1>2, <1>3, <1>6, LineNoHold DEF line
  <2> QED  BY <1>4, <1>5, <1>6, <2>1 DEF line
<1>7. CASE line.kind \in {"reserve", "release", "commit"}
  <2>1. /\ line.hold \in Holds /\ line.hold \notin D
        /\ new \in [D \cup {line.hold} -> HoldRecord]
        /\ \A h \in D : new[h] = old[h]
        /\ new[line.hold].key = line.key
        /\ \/ /\ line.kind = "reserve" /\ resv[line.hold] = NoHold
              /\ new[line.hold].status = "active"
              /\ new[line.hold].qty = line.qty
           \/ /\ line.kind # "reserve"
              /\ resv[line.hold] \in HoldRecord
              /\ resv[line.hold].key = line.key
              /\ resv[line.hold].status = "active" => resv[line.hold].qty = line.qty
              /\ new[line.hold].status # "active"
    BY <1>7, LineHold DEF line
  <2>2. before[line.hold] = resv[line.hold] /\ after[line.hold] = new[line.hold]
    BY <1>2, <1>3, <2>1
  <2>3. \A h \in Holds \ {line.hold} : after[h] = before[h]
    BY <1>2, <1>3, <2>1
  <2> HIDE DEF before, after, new, old, D
  <2>4. ASSUME NEW k \in Keys \ {line.key}
        PROVE  Held(after, k) = Held(before, k)
    <3>1. /\ line.hold \notin ActiveHolds(before, k)
          /\ line.hold \notin ActiveHolds(after, k)
      BY <2>1, <2>2, <2>4 DEF ActiveHolds, NoHold
    <3> QED  BY <1>4, <1>5, <2>3, <3>1, HeldSame
  <2>5. CASE line.kind = "reserve"
    <3>1. /\ line.hold \notin ActiveHolds(before, line.key)
          /\ line.hold \in ActiveHolds(after, line.key)
          /\ after[line.hold].qty = line.qty
      BY <2>1, <2>2, <2>5 DEF ActiveHolds, NoHold
    <3>2. Held(after, line.key) = Held(before, line.key) + line.qty
      BY <1>4, <1>5, <2>1, <2>3, <3>1, HeldGains
    <3> QED  BY <1>4, <1>5, <2>3, <2>4, <2>5, <3>2 DEF line, before, after
  <2>6. CASE line.kind # "reserve"
    <3>1. CASE resv[line.hold].status = "active"
      <4>1. /\ line.hold \in ActiveHolds(before, line.key)
            /\ line.hold \notin ActiveHolds(after, line.key)
            /\ before[line.hold].qty = line.qty
        BY <2>1, <2>2, <2>6, <3>1 DEF ActiveHolds
      <4>2. Held(before, line.key) = Held(after, line.key) + line.qty
        BY <1>4, <1>5, <2>1, <2>3, <4>1, HeldGains
      <4> QED  BY <1>4, <1>5, <1>7, <2>3, <2>4, <2>6, <4>2 DEF line, before, after
    <3>2. CASE resv[line.hold].status # "active"
      BY <1>4, <1>5, <1>7, <2>3, <2>4, <2>6, <3>2 DEF line, before, after
    <3> QED  BY <3>1, <3>2
  <2> QED  BY <2>5, <2>6
<1> QED
  BY <1>6, <1>7

\* The counters of the row after the line: sound whatever the row was before.
LEMMA LineSound ==
    ASSUME TypeOK, IndInv, NEW w \in Workers, NEW line \in Line, Admits(w, line)
    PROVE  Sound(RowAfter(w, line))
<1> DEFINE row == SeenRow(w, line.key)
<1>1. row \in Row /\ Sound(row) /\ txn[w].sums \in [physical : Int, held : Int]
  BY SeenType, SeenSound, TxnFields DEF Line, TypeOK
<1>2. line.qty \in Nat /\ line.kind \in Kinds
  BY QtyAssumption DEF Line, Qty
<1>3. /\ line.kind \in {"reserve", "deduct"} => row.available >= line.qty
      /\ line.kind = "commit" => row.on_hand >= line.qty
  BY DEF Admits
<1> HIDE DEF row
<1>4. row.available >= line.qty => Sound(Moved(row, -line.qty))
  BY <1>1, <1>2 DEF Sound, Row, Moved, Saved
<1>5. Sound(Moved(row, line.qty))
  BY <1>1, <1>2 DEF Sound, Row, Moved, Saved
<1>6. Sound(Reserved(row, line.qty))
  BY <1>1, <1>2 DEF Sound, Row, Reserved, Saved
<1>7. Sound(Released(row, line.qty))
  BY <1>1, <1>2 DEF Sound, Row, Released, Saved, AtLeastZero
<1>8. row.on_hand >= line.qty => Sound(Committed(row, line.qty))
  BY <1>1, <1>2 DEF Sound, Row, Committed, Saved, AtLeastZero
<1>9. Sound(Recomputed(row, txn[w].sums))
  BY <1>1 DEF Sound, Recomputed, AtLeastZero
<1> QED
  BY <1>2, <1>3, <1>4, <1>5, <1>6, <1>7, <1>8, <1>9 DEF RowAfter, Kinds, row

\* The counters of the row after a line that was up to date agree with the
\* reservations, if they did before or are computed afresh.
LEMMA LineExact ==
    ASSUME TypeOK, IndInv, NEW w \in Workers, WorkOff(w),
           Head(txn[w].todo).key \notin txn'[w].stale,
           Head(txn[w].todo).key \notin raced \/ txn[w].op = "recompute"
    PROVE  Exact(RowAfter(w, Head(txn[w].todo)), SeenHolds(w)', Head(txn[w].todo).key)
<1> DEFINE line == Head(txn[w].todo)
           k == line.key
           row == SeenRow(w, k)
           before == SeenHolds(w)
           after == SeenHolds(w)'
<1>1. /\ txn[w].todo # <<>> /\ line \in Line /\ Admits(w, line) /\ LineFits(w, line)
      /\ txn[w].op # "recompute_begun"
      /\ ~OutOfDate(w, line) /\ k \notin txn[w].stale
  BY WorkOffFields
<1>2. line.qty \in Nat /\ line.kind \in Kinds /\ k \in Keys
  BY <1>1, QtyAssumption DEF Line, Qty
<1>3. row \in Row /\ Held(before, k) \in Nat /\ Held(after, k) \in Nat
  BY <1>2, SeenType, WorkOffSeen, HeldType
<1>4. /\ line.kind = "reserve" => Held(after, k) = Held(before, k) + line.qty
      /\ line.kind \in {"release", "commit"} /\ resv[line.hold].status = "active" =>
           Held(before, k) = Held(after, k) + line.qty
      /\ line.kind \notin {"reserve", "release", "commit"} => after = before
  BY WorkOffSeen
<1>5. CASE line.kind = "recompute"
  <2>1. txn[w].op = "recompute" /\ DOMAIN txn[w].rows = {} /\ DOMAIN txn[w].holds = {}
    BY <1>1, <1>5 DEF LineFits, IndInv, WritesFit
  <2>2. row = stock[k]
    BY <2>1 DEF SeenRow, Locked
  <2>3. before = resv
    BY <2>1 DEF SeenHolds, TypeOK
  <2>4. txn[w].sums.physical = stock[k].physical /\ txn[w].sums.held = Held(resv, k)
        /\ ~(txn[w].sums.physical < 0)
    BY <1>1, <1>5 DEF OutOfDate
  <2>5. stock[k].physical \in Int
    BY <1>2 DEF TypeOK, Row
  <2>6. RowAfter(w, line) = Recomputed(row, txn[w].sums)
    BY <1>5 DEF RowAfter
  <2>7. after = resv
    BY <1>4, <1>5, <2>3
  <2> HIDE DEF row, line, k, before, after
  <2>8. Exact(Recomputed(row, txn[w].sums), resv, k)
    BY <1>3, <2>2, <2>3, <2>4, <2>5 DEF Exact, Recomputed, AtLeastZero
  <2> QED  BY <2>6, <2>7, <2>8 DEF line, k, after
<1>6. CASE line.kind # "recompute"
  <2>1. k \notin raced
    BY <1>1, <1>6 DEF LineFits
  <2>2. Exact(row, before, k)
    BY <1>1, <1>2, <2>1, SeenExact
  <2>3. line.kind \in {"release", "commit"} => resv[line.hold].status = "active"
    BY <1>1 DEF OutOfDate
  <2>4. /\ line.kind = "reserve"   => RowAfter(w, line) = Reserved(row, line.qty)
        /\ line.kind = "release"   => RowAfter(w, line) = Released(row, line.qty)
        /\ line.kind = "commit"    => RowAfter(w, line) = Committed(row, line.qty)
        /\ line.kind = "deduct"    => RowAfter(w, line) = Moved(row, -line.qty)
        /\ line.kind = "add"       => RowAfter(w, line) = Moved(row, line.qty)
    BY DEF RowAfter
  <2> HIDE DEF row, line, k, before, after
  <2>5. line.kind = "reserve" => Exact(Reserved(row, line.qty), after, k)
    BY <1>2, <1>3, <1>4, <2>2 DEF Exact, Row, Reserved, Saved
  <2>6. line.kind = "release" => Exact(Released(row, line.qty), after, k)
    BY <1>2, <1>3, <1>4, <2>2, <2>3 DEF Exact, Row, Released, Saved, AtLeastZero
  <2>7. line.kind = "commit" => Exact(Committed(row, line.qty), after, k)
    BY <1>2, <1>3, <1>4, <2>2, <2>3 DEF Exact, Row, Committed, Saved, AtLeastZero
  <2>8. line.kind = "deduct" => Exact(Moved(row, -line.qty), after, k)
    BY <1>2, <1>3, <1>4, <2>2 DEF Exact, Row, Moved, Saved
  <2>9. line.kind = "add" => Exact(Moved(row, line.qty), after, k)
    BY <1>2, <1>3, <1>4, <2>2 DEF Exact, Row, Moved, Saved
  <2>10. Exact(RowAfter(w, line), after, k)
    BY <1>2, <1>6, <2>4, <2>5, <2>6, <2>7, <2>8, <2>9 DEF Kinds
  <2> QED  BY <2>10 DEF line, k, after
<1> QED
  BY <1>5, <1>6

LEMMA WorkOffRowsFit ==
    ASSUME TypeOK, IndInv, NEW w \in Workers, WorkOff(w)
    PROVE  RowsFit(w)'
<1> DEFINE line == Head(txn[w].todo)
           rows == txn[w].rows
<1>1. /\ line \in Line /\ Admits(w, line) /\ UNCHANGED <<stock, resv, raced>>
      /\ txn'[w].op = txn[w].op
      /\ txn'[w].rows = Put(rows, line.key, RowAfter(w, line))
      /\ txn'[w].stale = IF OutOfDate(w, line) THEN txn[w].stale \cup {line.key}
                         ELSE txn[w].stale
  BY WorkOffFields
<1>2. RowsFit(w) /\ DOMAIN rows \subseteq Keys
  BY TxnFields DEF IndInv, TypeOK
<1>3. ASSUME NEW k \in DOMAIN rows, k # line.key
      PROVE  /\ Sound(txn'[w].rows[k])
             /\ k \notin txn'[w].stale /\ (k \notin raced \/ txn[w].op = "recompute")
                => Exact(txn'[w].rows[k], SeenHolds(w)', k)
  <2>1. txn'[w].rows[k] = rows[k] /\ (k \notin txn'[w].stale => k \notin txn[w].stale)
    BY <1>1, <1>3 DEF Put
  <2>2. Held(SeenHolds(w)', k) = Held(SeenHolds(w), k)
    BY <1>2, <1>3, WorkOffSeen
  <2> QED  BY <1>2, <2>1, <2>2 DEF RowsFit, Exact
<1>4. /\ txn'[w].rows[line.key] = RowAfter(w, line)
      /\ DOMAIN txn'[w].rows = DOMAIN rows \cup {line.key}
  BY <1>1 DEF Put
<1>5. Sound(RowAfter(w, line))
  BY <1>1, LineSound
<1>6. line.key \notin txn'[w].stale /\ (line.key \notin raced \/ txn[w].op = "recompute")
      => Exact(RowAfter(w, line), SeenHolds(w)', line.key)
  BY LineExact
<1> HIDE DEF line, rows
<1>7. ASSUME NEW k \in DOMAIN txn'[w].rows
      PROVE  /\ Sound(txn'[w].rows[k])
             /\ k \notin txn'[w].stale /\ (k \notin raced \/ txn[w].op = "recompute")
                => Exact(txn'[w].rows[k], SeenHolds(w)', k)
  BY <1>3, <1>4, <1>5, <1>6
<1>8. raced' = raced /\ txn'[w].op = txn[w].op
  BY <1>1
<1> QED
  BY <1>7, <1>8 DEF RowsFit, Exact

LEMMA WorkOffStep ==
    ASSUME TypeOK, IndInv, NEW w \in Workers, WorkOff(w)
    PROVE  TypeOK' /\ IndInv'
<1> DEFINE line == Head(txn[w].todo)
           t == txn'[w]
<1>1. /\ CanLock(w, line.key) /\ UNCHANGED <<stock, resv, raced>>
      /\ txn' = [txn EXCEPT ![w] = t] /\ IsTxn(t)
      /\ DOMAIN t.rows = DOMAIN txn[w].rows \cup {line.key}
  BY WorkOffFields
<1>2. LinesFit(w)' /\ WritesFit(w)' /\ RowsFit(w)' /\ Claims(w)' \subseteq Claims(w)
  BY WorkOffLinesFit, WorkOffWritesFit, WorkOffRowsFit
<1>3. \A v \in Workers \ {w} : DOMAIN t.rows \cap DOMAIN txn[v].rows = {}
  BY <1>1 DEF CanLock, Locked, IndInv, LocksExclusive
<1>4. \A v \in Workers \ {w} : \A h \in Claims(w)' \cap Claims(v) : resv[h] # NoHold
  BY <1>2 DEF IndInv, ClaimsApart
<1> HIDE DEF line, t
<1> QED
  BY <1>1, <1>2, <1>3, <1>4, TxnStep

-----------------------------------------------------------------------------
(* COMMIT.                                                                 *)

\* A reservation the committing worker has written: it existed on that row or
\* is new, and nobody else is about to create it.
LEMMA CommittedHold ==
    ASSUME TypeOK, IndInv, NEW w \in Workers, NEW h \in DOMAIN txn[w].holds
    PROVE  LET new == txn[w].holds[h]
           IN  /\ h \in Holds /\ new \in HoldRecord /\ new # NoHold
               /\ SeenHolds(w)[h] = new
               /\ Locked(w, new.key)
               /\ \/ new.status = "active" /\ resv[h] = NoHold
                  \/ /\ new.status # "active"
                     /\ resv[h] \in HoldRecord /\ resv[h].key = new.key
               /\ resv[h] = NoHold => \A v \in Workers \ {w} : h \notin Claims(v)
<1>1. txn[w].holds \in [DOMAIN txn[w].holds -> HoldRecord] /\ h \in Holds
  BY TxnFields DEF TypeOK
<1>2. txn[w].holds[h] \in HoldRecord /\ txn[w].holds[h] # NoHold
  BY <1>1 DEF HoldRecord, ActiveHold, SettledHold, NoHold
<1>3. h \in Claims(w)
  BY DEF Claims
<1>4. resv[h] = NoHold => \A v \in Workers \ {w} : h \notin Claims(v)
  BY <1>3 DEF IndInv, ClaimsApart
<1>5. SeenHolds(w)[h] = txn[w].holds[h]
  BY <1>1 DEF SeenHolds
<1> QED
  BY <1>1, <1>2, <1>4, <1>5 DEF IndInv, WritesFit

\* What another worker knows survives the commit.
LEMMA CommitOthers ==
    ASSUME TypeOK, IndInv, NEW w \in Workers, Commit(w), NEW v \in Workers \ {w}
    PROVE  /\ txn'[v] = txn[v] /\ Claims(v)' = Claims(v)
           /\ LinesFit(v)' /\ WritesFit(v)' /\ RowsFit(v)'
<1> DEFINE D == DOMAIN txn[w].holds
<1>1. /\ resv' = SeenHolds(w) /\ txn' = [txn EXCEPT ![w] = Idle]
      /\ raced' = (raced \cup txn[w].stale) \ Repaired(w)
  BY DEF Commit
<1>2. txn'[v] = txn[v]
  BY <1>1 DEF TypeOK
<1>3. Claims(v)' = Claims(v)
  BY <1>2 DEF Claims
<1>4. \A h \in Holds \ D : resv'[h] = resv[h]
  BY <1>1 DEF SeenHolds
<1>5. \A h \in D : LET new == txn[w].holds[h]
                   IN  /\ h \in Holds /\ new \in HoldRecord /\ resv'[h] = new
                       /\ new # NoHold /\ Locked(w, new.key)
                       /\ \/ new.status = "active" /\ resv[h] = NoHold
                          \/ /\ new.status # "active"
                             /\ resv[h] \in HoldRecord /\ resv[h].key = new.key
                       /\ resv[h] = NoHold => h \notin Claims(v)
  BY <1>1, CommittedHold
<1>6. LinesFit(v) /\ WritesFit(v) /\ RowsFit(v)
  BY DEF IndInv
<1>7. ErasedHold \notin HoldRecord /\ ErasedHold # NoHold
  BY DEF ErasedHold, NoHold, HoldRecord, ActiveHold, SettledHold
<1>8. ASSUME NEW l, LineFits(v, l), l.hold \in Holds => l.hold \in Claims(v)
      PROVE  LineFits(v, l)'
  <2>1. l.hold \in D => resv[l.hold] # NoHold
    BY <1>5, <1>8
  <2>2. l.kind = "reserve" => resv'[l.hold] = NoHold
    BY <1>4, <1>8, <2>1 DEF LineFits
  <2>3. l.kind \in {"release", "commit"} =>
          \/ resv'[l.hold] = ErasedHold
          \/ /\ resv'[l.hold] \in HoldRecord
             /\ resv'[l.hold].key = l.key
             /\ resv'[l.hold].status = "active" => resv'[l.hold].qty = l.qty
    BY <1>4, <1>5, <1>7, <1>8, <2>1 DEF LineFits
  <2> QED  BY <1>2, <1>8, <2>2, <2>3 DEF LineFits
<1>9. LinesFit(v)'
  <2>1. \A i \in DOMAIN txn[v].todo : \A l : l = txn[v].todo[i] => LineFits(v, l)'
    BY <1>6, <1>8 DEF LinesFit, Claims
  <2> QED  BY <1>2, <1>6, <2>1 DEF LinesFit, LineFits
<1>10. WritesFit(v)'
  <2>1. ASSUME NEW h \in DOMAIN txn[v].holds
        PROVE  LET new == txn[v].holds[h]
               IN  \/ new.status = "active" /\ resv'[h] = NoHold
                   \/ /\ new.status # "active"
                      /\ resv'[h] \in HoldRecord /\ resv'[h].key = new.key
    <3>1. h \in Claims(v) /\ h \in Holds
      BY TxnFields DEF Claims, TypeOK
    <3>2. h \in D => resv[h] # NoHold
      BY <1>5, <3>1
    <3> QED  BY <1>4, <1>5, <1>6, <3>1, <3>2 DEF WritesFit
  <2> QED  BY <1>2, <1>6, <2>1 DEF WritesFit, Locked
<1>11. RowsFit(v)'
  <2>1. ASSUME NEW k \in DOMAIN txn[v].rows
        PROVE  Held(SeenHolds(v)', k) = Held(SeenHolds(v), k) /\ (k \notin raced' => k \notin raced)
    <3>1. ~Locked(w, k)
      BY DEF IndInv, LocksExclusive, Locked
    <3>2. k \notin Repaired(w)
      BY <3>1 DEF Repaired, Locked
    <3>3. SeenHolds(v) \in [Holds -> Hold]
      BY SeenType
    <3>4. SeenHolds(v)' = [h \in Holds |-> IF h \in DOMAIN txn[v].holds
                                           THEN txn[v].holds[h] ELSE SeenHolds(w)[h]]
      BY <1>1, <1>2 DEF SeenHolds
    <3>5. SeenHolds(v)' \in [Holds -> Hold]
      BY <3>4, SeenType, TxnFields DEF TypeOK, Hold
    <3>6. ASSUME NEW h \in Holds, SeenHolds(v)'[h] # SeenHolds(v)[h]
          PROVE  h \notin ActiveHolds(SeenHolds(v)', k) /\ h \notin ActiveHolds(SeenHolds(v), k)
      <4>1. h \notin DOMAIN txn[v].holds /\ SeenHolds(v)[h] = resv[h]
            /\ SeenHolds(v)'[h] = resv'[h]
        BY <1>1, <3>4, <3>6 DEF SeenHolds
      <4>2. h \in D
        BY <1>4, <3>6, <4>1
      <4>3. /\ txn[w].holds[h].key # k /\ resv'[h] = txn[w].holds[h]
            /\ resv[h] = NoHold \/ resv[h].key # k
        BY <1>5, <3>1, <4>2
      <4> QED  BY <4>1, <4>3 DEF ActiveHolds, NoHold
    <3> QED  BY <1>1, <3>2, <3>3, <3>5, <3>6, HeldSame
  <2> QED  BY <1>2, <1>6, <2>1 DEF RowsFit, Exact
<1> QED
  BY <1>2, <1>3, <1>9, <1>10, <1>11

LEMMA CommitStep ==
    ASSUME TypeOK, IndInv, NEW w \in Workers, Commit(w)
    PROVE  TypeOK' /\ IndInv'
<1>1. /\ stock' = [k \in Keys |-> SeenRow(w, k)]
      /\ resv' = SeenHolds(w) /\ txn' = [txn EXCEPT ![w] = Idle]
      /\ raced' = (raced \cup txn[w].stale) \ Repaired(w)
  BY DEF Commit
<1>2. \A v \in Workers \ {w} :
        /\ txn'[v] = txn[v] /\ Claims(v)' = Claims(v)
        /\ LinesFit(v)' /\ WritesFit(v)' /\ RowsFit(v)'
  BY CommitOthers
<1>3. txn'[w] = Idle
  BY <1>1 DEF TypeOK
<1>4. /\ DOMAIN Idle.rows = {} /\ DOMAIN Idle.holds = {} /\ DOMAIN Idle.todo = {}
      /\ Idle.op = "idle"
  BY DEF Idle
<1>5. LinesFit(w)' /\ WritesFit(w)' /\ RowsFit(w)' /\ Claims(w)' = {}
  BY <1>3, <1>4 DEF LinesFit, WritesFit, RowsFit, Claims
<1>6. TypeOK'
  <2>1. stock' \in [Keys -> Row] /\ resv' \in [Holds -> Hold]
    BY <1>1, SeenType
  <2>2. raced' \in SUBSET Keys
    BY <1>1, TxnFields DEF TypeOK
  <2>3. \A v \in Workers : IsTxn(txn'[v])
    BY <1>2, <1>3, IdleType DEF TypeOK
  <2> QED  BY <1>1, <2>1, <2>2, <2>3 DEF TypeOK
<1>7. LocksExclusive'
  BY <1>2, <1>3, <1>4 DEF LocksExclusive, IndInv
<1>8. ClaimsApart'
  <2>1. \A h \in Holds : resv[h] # NoHold => resv'[h] # NoHold
    BY <1>1, CommittedHold DEF SeenHolds
  <2>2. \A v \in Workers : Claims(v) \subseteq Holds
    BY TxnFields DEF Claims, TypeOK
  <2> QED  BY <1>2, <1>5, <2>1, <2>2 DEF ClaimsApart, IndInv
<1>9. CountersSound'
  BY <1>1, SeenSound DEF CountersSound
<1>10. BookkeepingExact'
  <2> SUFFICES ASSUME NEW k \in Keys, k \notin raced'
               PROVE  Exact(SeenRow(w, k), SeenHolds(w), k)
    BY <1>1 DEF BookkeepingExact, Exact
  <2>1. CASE k \in Repaired(w)
    <3>1. txn[w].op = "recompute" /\ k \in DOMAIN txn[w].rows /\ k \notin txn[w].stale
      BY <2>1 DEF Repaired
    <3>2. Exact(txn[w].rows[k], SeenHolds(w), k)
      BY <3>1 DEF IndInv, RowsFit
    <3> QED  BY <3>1, <3>2 DEF SeenRow, Locked
  <2>2. CASE k \notin Repaired(w)
    BY <1>1, <2>2, SeenExact
  <2> QED  BY <2>1, <2>2
<1> QED
  BY <1>2, <1>5, <1>6, <1>7, <1>8, <1>9, <1>10 DEF IndInv

-----------------------------------------------------------------------------
(* The services that are one step.                                         *)

\* A step that changes nothing.
LEMMA StutterStep ==
    ASSUME TypeOK, IndInv, UNCHANGED vars
    PROVE  TypeOK' /\ IndInv'
<1>1. stock' = stock /\ resv' = resv /\ txn' = txn /\ raced' = raced
  BY DEF vars
<1>2. TypeOK'
  BY <1>1 DEF TypeOK
<1>3. LocksExclusive' /\ ClaimsApart'
  BY <1>1 DEF LocksExclusive, ClaimsApart, Claims, IndInv
<1>4. \A v \in Workers : LinesFit(v)' /\ WritesFit(v)'
  BY <1>1 DEF IndInv, LinesFit, LineFits, WritesFit, Locked
<1>5. \A v \in Workers : RowsFit(v)'
  BY <1>1 DEF IndInv, RowsFit, Exact, SeenHolds
<1>6. CountersSound' /\ BookkeepingExact'
  BY <1>1 DEF IndInv, CountersSound, BookkeepingExact, Exact
<1> QED
  BY <1>2, <1>3, <1>4, <1>5, <1>6 DEF IndInv

\* A movement of a row nobody has locked.
LEMMA MovedStep ==
    ASSUME TypeOK, IndInv, NEW k \in Keys, NEW n \in Int, stock[k].on_hand + n >= 0,
           stock' = [stock EXCEPT ![k] = Moved(@, n)], UNCHANGED <<resv, txn, raced>>
    PROVE  TypeOK' /\ IndInv'
<1>1. stock[k] \in Row /\ Sound(stock[k])
  BY DEF TypeOK, IndInv, CountersSound
<1>2. /\ stock'[k] = Moved(stock[k], n)
      /\ \A j \in Keys \ {k} : stock'[j] = stock[j]
  BY DEF TypeOK
<1>3. TypeOK'
  <2>1. Moved(stock[k], n) \in Row
    BY <1>1 DEF Row, Moved, Saved
  <2>2. stock' \in [Keys -> Row]
    BY <2>1 DEF TypeOK
  <2> QED  BY <2>2 DEF TypeOK
<1>4. Sound(stock'[k])
  BY <1>1, <1>2 DEF Sound, Row, Moved, Saved
<1>5. Exact(stock[k], resv, k) => Exact(stock'[k], resv, k)
  BY <1>1, <1>2 DEF Exact, Row, Moved, Saved
<1>6. CountersSound' /\ BookkeepingExact'
  BY <1>2, <1>4, <1>5 DEF CountersSound, BookkeepingExact, Exact, IndInv
<1>7. resv' = resv /\ txn' = txn /\ raced' = raced
  OBVIOUS
<1>8. LocksExclusive' /\ ClaimsApart'
  BY <1>7 DEF LocksExclusive, ClaimsApart, Claims, IndInv
<1>9. \A v \in Workers : LinesFit(v)' /\ WritesFit(v)'
  BY <1>7 DEF IndInv, LinesFit, LineFits, WritesFit, Locked
<1>10. \A v \in Workers : RowsFit(v)'
  BY <1>7 DEF IndInv, RowsFit, Exact, SeenHolds
<1> QED
  BY <1>3, <1>6, <1>8, <1>9, <1>10 DEF IndInv

LEMMA OneRowStep ==
    ASSUME TypeOK, IndInv, NEW k \in Keys,
           \/ \E q \in Qty : ReceiveStock(k, q)
           \/ \E q \in Qty, back \in BOOLEAN : ProcessReturn(k, q, back)
           \/ \E delta \in -MaxQty .. MaxQty : AdjustStock(k, delta)
    PROVE  TypeOK' /\ IndInv'
<1>1. stock[k] \in Row /\ Sound(stock[k]) /\ stock \in [Keys -> Row]
  BY DEF TypeOK, IndInv, CountersSound
<1>2. ASSUME NEW q \in Qty, ReceiveStock(k, q)
      PROVE  TypeOK' /\ IndInv'
  <2>1. q \in Int /\ stock[k].on_hand + q >= 0
    BY <1>1, QtyAssumption DEF Qty, Row, Sound
  <2> QED  BY <1>2, <2>1, MovedStep DEF ReceiveStock
<1>3. ASSUME NEW q \in Qty, NEW back \in BOOLEAN, ProcessReturn(k, q, back)
      PROVE  TypeOK' /\ IndInv'
  <2>1. q \in Int /\ 0 \in Int /\ stock[k].on_hand + q >= 0 /\ stock[k].on_hand + 0 >= 0
    BY <1>1, QtyAssumption DEF Qty, Row, Sound
  <2>2. CASE back
    BY <1>3, <2>1, <2>2, MovedStep DEF ProcessReturn
  <2>3. CASE ~back
    <3>1. UNCHANGED vars
      BY <1>1, <1>3, <2>3 DEF ProcessReturn, vars
    <3> QED  BY <3>1, StutterStep
  <2> QED  BY <2>2, <2>3
<1>4. ASSUME NEW delta \in -MaxQty .. MaxQty, AdjustStock(k, delta)
      PROVE  TypeOK' /\ IndInv'
  <2>1. delta \in Int /\ stock[k].on_hand + delta >= 0
    BY <1>1, <1>4, QtyAssumption DEF AdjustStock, Row
  <2> QED  BY <1>4, <2>1, MovedStep DEF AdjustStock
<1> QED
  BY <1>2, <1>3, <1>4

\* Deleting rows: what anybody still knows of its reservations is that they
\* are erased.
LEMMA BulkDeleteStep ==
    ASSUME TypeOK, IndInv, NEW keys \in SUBSET Keys, BulkDeleteStockRecords(keys)
    PROVE  TypeOK' /\ IndInv'
<1> DEFINE gone == Deletable(keys)
<1>0. gone \subseteq keys
  BY DEF Deletable
<1> HIDE DEF gone
<1>1. /\ \A k \in gone : k \in Keys /\ Unlocked(k)
      /\ stock' = [k \in Keys |-> IF k \in gone THEN EmptyRow ELSE stock[k]]
      /\ resv' = [h \in Holds |-> IF resv[h] \in HoldRecord /\ resv[h].key \in gone
                                  THEN ErasedHold ELSE resv[h]]
      /\ \A v \in Workers : txn'[v] = txn[v] \/ txn'[v] = Idle
      /\ txn' = [v \in Workers |-> txn'[v]]
      /\ raced' = raced \ gone
  BY <1>0 DEF BulkDeleteStockRecords, gone
<1>2. ErasedHold \notin HoldRecord /\ ErasedHold # NoHold /\ NoHold \notin HoldRecord
  BY DEF ErasedHold, NoHold, HoldRecord, ActiveHold, SettledHold
<1>3. \A h \in Holds : \/ resv'[h] = resv[h]
                       \/ /\ resv[h] \in HoldRecord /\ resv[h].key \in gone
                          /\ resv'[h] = ErasedHold
  BY <1>1
<1>4. \A h \in Holds : resv[h] \in Hold
  BY DEF TypeOK
<1>5. TypeOK'
  <2>1. EmptyRow \in Row
    BY DEF EmptyRow, Row
  <2>2. stock' \in [Keys -> Row]
    BY <1>1, <2>1 DEF TypeOK
  <2>3. resv' \in [Holds -> Hold]
    BY <1>1, <1>4 DEF Hold
  <2>4. \A v \in Workers : IsTxn(txn'[v])
    BY <1>1, IdleType DEF TypeOK
  <2> QED  BY <1>1, <2>2, <2>3, <2>4 DEF TypeOK
<1>6. /\ DOMAIN Idle.rows = {} /\ DOMAIN Idle.holds = {} /\ DOMAIN Idle.todo = {}
      /\ Idle.op = "idle"
  BY DEF Idle
<1>7. \A v \in Workers : Claims(v)' \subseteq Claims(v)
  BY <1>1, <1>6 DEF Claims
<1>8. \A v \in Workers : Claims(v) \subseteq Holds
  BY TxnFields DEF Claims, TypeOK
<1>9. ClaimsApart'
  BY <1>2, <1>3, <1>7, <1>8 DEF ClaimsApart, IndInv
<1>10. LocksExclusive'
  BY <1>1, <1>6 DEF LocksExclusive, IndInv
<1>11. \A j \in Keys \ gone : Held(resv', j) = Held(resv, j)
  <2> SUFFICES ASSUME NEW j \in Keys \ gone PROVE Held(resv', j) = Held(resv, j)
    OBVIOUS
  <2>1. \A h \in Holds : resv[h] # resv'[h] =>
           h \notin ActiveHolds(resv, j) /\ h \notin ActiveHolds(resv', j)
    BY <1>3 DEF ActiveHolds, ErasedHold
  <2> QED  BY <1>5, <2>1, HeldSame DEF TypeOK
<1>12. \A k \in gone : Held(resv', k) = 0
  <2> SUFFICES ASSUME NEW k \in gone PROVE Held(resv', k) = 0
    OBVIOUS
  <2>1. ActiveHolds(resv', k) = {}
    <3> SUFFICES ASSUME NEW h \in Holds, resv'[h].status = "active", resv'[h].key = k
                 PROVE  FALSE
      BY DEF ActiveHolds
    <3>1. resv'[h] # ErasedHold
      BY DEF ErasedHold
    <3>2. resv'[h] = resv[h]
      BY <1>3, <3>1
    <3>3. resv[h] \in HoldRecord
      BY <1>4, <3>2 DEF Hold, NoHold, ErasedHold
    <3> QED  BY <1>1, <3>1, <3>2, <3>3
  <2> QED  BY <2>1, SumEmpty DEF Held
<1>13. CountersSound'
  BY <1>1 DEF CountersSound, IndInv, Sound, EmptyRow, TypeOK
<1>14. BookkeepingExact'
  <2> SUFFICES ASSUME NEW j \in Keys, j \notin raced' PROVE Exact(stock'[j], resv', j)
    BY DEF BookkeepingExact, Exact
  <2>1. CASE j \in gone
    BY <1>1, <1>12, <2>1 DEF Exact, EmptyRow, TypeOK
  <2>2. CASE j \notin gone
    BY <1>1, <1>11, <2>2 DEF Exact, TypeOK, IndInv, BookkeepingExact
  <2> QED  BY <2>1, <2>2
<1>15. ASSUME NEW v \in Workers
       PROVE  LinesFit(v)' /\ WritesFit(v)' /\ RowsFit(v)'
  <2>1. CASE txn'[v] = Idle
    BY <1>6, <2>1 DEF LinesFit, WritesFit, RowsFit
  <2>2. CASE txn'[v] = txn[v]
    <3>1. LinesFit(v) /\ WritesFit(v) /\ RowsFit(v)
      BY DEF IndInv
    <3>2. ASSUME NEW l, LineFits(v, l)
          PROVE  LineFits(v, l)'
      BY <1>2, <1>3, <2>2, <3>2 DEF LineFits
    <3>3. LinesFit(v)'
      <4>1. \A i \in DOMAIN txn[v].todo : \A l : l = txn[v].todo[i] => LineFits(v, l)'
        BY <3>1, <3>2 DEF LinesFit
      <4> QED  BY <2>2, <3>1, <4>1 DEF LinesFit, LineFits
    <3>4. WritesFit(v)'
      <4>1. \A h \in DOMAIN txn[v].holds :
              h \in Holds /\ txn[v].holds[h].key \notin gone
        BY <1>1, <3>1, TxnFields DEF WritesFit, Locked, Unlocked, TypeOK
      <4> QED  BY <1>2, <1>3, <2>2, <3>1, <4>1 DEF WritesFit, Locked
    <3>5. ASSUME NEW j \in DOMAIN txn[v].rows
          PROVE  j \notin gone /\ Held(SeenHolds(v)', j) = Held(SeenHolds(v), j)
      <4>1. j \notin gone
        BY <1>1 DEF Unlocked, Locked
      <4>2. SeenHolds(v) \in [Holds -> Hold]
        BY SeenType
      <4>3. SeenHolds(v)' = [h \in Holds |-> IF h \in DOMAIN txn[v].holds
                                             THEN txn[v].holds[h] ELSE resv'[h]]
        BY <2>2 DEF SeenHolds
      <4>4. SeenHolds(v)' \in [Holds -> Hold]
        BY <1>5, <4>3, TxnFields DEF TypeOK, Hold
      <4>5. \A h \in Holds : SeenHolds(v)'[h] # SeenHolds(v)[h] =>
              /\ SeenHolds(v)[h] = resv[h] /\ SeenHolds(v)'[h] = resv'[h]
              /\ resv'[h] # resv[h]
        BY <4>3 DEF SeenHolds
      <4>6. \A h \in Holds : SeenHolds(v)'[h] # SeenHolds(v)[h] =>
              /\ h \notin ActiveHolds(SeenHolds(v)', j)
              /\ h \notin ActiveHolds(SeenHolds(v), j)
        BY <1>3, <4>1, <4>5 DEF ActiveHolds, ErasedHold
      <4> QED  BY <4>1, <4>2, <4>4, <4>6, HeldSame
    <3>6. RowsFit(v)'
      BY <1>1, <2>2, <3>1, <3>5 DEF RowsFit, Exact
    <3> QED  BY <3>3, <3>4, <3>6
  <2> QED  BY <1>1, <2>1, <2>2
<1> QED
  BY <1>5, <1>9, <1>10, <1>13, <1>14, <1>15 DEF IndInv

-----------------------------------------------------------------------------
(* The invariant.                                                          *)

LEMMA InitInv == Init => TypeOK /\ IndInv
<1> SUFFICES ASSUME Init PROVE TypeOK /\ IndInv
  OBVIOUS
<1>1. TypeOK
  <2>1. EmptyRow \in Row /\ NoHold \in Hold
    BY DEF EmptyRow, Row, Hold
  <2>2. stock \in [Keys -> Row] /\ resv \in [Holds -> Hold]
    BY <2>1 DEF Init
  <2> QED  BY <2>2, IdleType DEF Init, TypeOK
<1>2. /\ DOMAIN Idle.rows = {} /\ DOMAIN Idle.holds = {} /\ DOMAIN Idle.todo = {}
      /\ Idle.op = "idle"
  BY DEF Idle
<1>3. \A w \in Workers : txn[w] = Idle
  BY DEF Init
<1>4. /\ LocksExclusive /\ ClaimsApart
      /\ \A w \in Workers : LinesFit(w) /\ WritesFit(w) /\ RowsFit(w)
  BY <1>2, <1>3 DEF LocksExclusive, ClaimsApart, Claims, LinesFit, WritesFit, RowsFit
<1>5. CountersSound
  BY DEF Init, CountersSound, Sound, EmptyRow
<1>6. \A k \in Keys : Held(resv, k) = 0
  <2>1. \A k \in Keys : ActiveHolds(resv, k) = {}
    BY DEF Init, ActiveHolds, NoHold
  <2> QED  BY <2>1, SumEmpty DEF Held
<1>7. BookkeepingExact
  BY <1>6 DEF Init, BookkeepingExact, Exact, EmptyRow
<1> QED
  BY <1>1, <1>4, <1>5, <1>7 DEF IndInv

LEMMA NextInv ==
    TypeOK /\ IndInv /\ [Next]_vars => TypeOK' /\ IndInv'
<1> SUFFICES ASSUME TypeOK, IndInv, [Next]_vars PROVE TypeOK' /\ IndInv'
  OBVIOUS
<1>1. CASE UNCHANGED vars
  BY <1>1, StutterStep
<1>2. CASE OneStepNext
  BY <1>2, OneRowStep, BulkDeleteStep DEF OneStepNext
<1>3. ASSUME NEW w \in Workers, BeginNext(w)
      PROVE  TypeOK' /\ IndInv'
  <2>1. CASE \E ref \in Refs, n \in 1 .. MaxLines :
               \E keys \in KeyLists(n), qtys \in Quantities(n) :
                  PlaceOrder(w, ref, keys, qtys)
    BY <2>1, PlaceOrderStep
  <2>2. ASSUME NEW ref \in Refs, ReleaseReservation(w, ref)
        PROVE  TypeOK' /\ IndInv'
    BY <2>2, FetchStep DEF ReleaseReservation
  <2>3. ASSUME NEW ref \in Refs, CommitReservation(w, ref)
        PROVE  TypeOK' /\ IndInv'
    BY <2>3, CommitReservationStep
  <2>4. ASSUME NEW out \in Keys, NEW in \in Keys, NEW q_out \in Qty, NEW q_in \in Qty,
               MoveStock(w, out, q_out, in, q_in)
        PROVE  TypeOK' /\ IndInv'
    BY <2>4, MoveStockStep
  <2>5. ASSUME NEW k \in Keys, RecomputeStock(w, k)
        PROVE  TypeOK' /\ IndInv'
    BY <2>5, RecomputeStockStep
  <2> QED  BY <1>3, <2>1, <2>2, <2>3, <2>4, <2>5 DEF BeginNext
<1>4. ASSUME NEW w \in Workers, Proceed(w)
      PROVE  TypeOK' /\ IndInv'
  <2>1. ASSUME CommitFetch(w) PROVE TypeOK' /\ IndInv'
    BY <2>1, CommitFetchStep
  <2>2. ASSUME Refuse(w) PROVE TypeOK' /\ IndInv'
    BY <2>2, RollbackStep DEF Refuse
  <2> QED
    BY <1>4, <2>1, <2>2, RecomputeReservedStep, WorkOffStep, CommitStep DEF Proceed
<1>5. ASSUME NEW w \in Workers, Die(w) \/ BreakDeadlock(w)
      PROVE  TypeOK' /\ IndInv'
  BY <1>5, RollbackStep DEF Die, BreakDeadlock
<1> QED
  BY <1>1, <1>2, <1>3, <1>4, <1>5 DEF Next

-----------------------------------------------------------------------------
(* One active reservation for an order on a row, and promises that fit.     *)

\* A worker that has written no reservation sees what is committed.
LEMMA NothingWritten ==
    ASSUME NEW w \in Workers, DOMAIN txn[w].holds = {}, OneActive(resv)
    PROVE  OneActive(SeenHolds(w))
BY DEF SeenHolds, OneActive

\* Fewer active reservations, none of them changed.
LEMMA FewerActive ==
    ASSUME NEW r, NEW s, OneActive(r), \A h \in Holds : s[h].status = "active" => s[h] = r[h]
    PROVE  OneActive(s)
BY DEF OneActive

\* Nothing but one worker's transaction changes.
LEMMA HoldsTxnStep ==
    ASSUME TypeOK, HoldsInv, NEW w \in Workers, NEW t, txn' = [txn EXCEPT ![w] = t],
           resv' = resv, OneActive(SeenHolds(w))', PromisesFit(w)'
    PROVE  HoldsInv'
<1>1. \A v \in Workers \ {w} : txn'[v] = txn[v]
  BY DEF TypeOK
<1>2. \A v \in Workers \ {w} : SeenHolds(v)' = SeenHolds(v)
  BY <1>1 DEF SeenHolds
<1>3. \A v \in Workers : OneActive(SeenHolds(v))'
  BY <1>2 DEF HoldsInv, OneActiveHold, OneActive
<1>4. \A v \in Workers : PromisesFit(v)'
  BY <1>1 DEF HoldsInv, PromisesFit
<1> QED
  BY <1>3, <1>4 DEF HoldsInv, OneActiveHold, OneActive

\* A transaction that begins, with lines of its kind.
LEMMA HoldsBegun ==
    ASSUME TypeOK, HoldsInv, NEW w \in Workers, NEW op, NEW ref, NEW lines,
           Begin(w, op, ref, lines), resv' = resv,
           \A i \in DOMAIN lines : lines[i].kind = "reserve" <=> op = "reserve"
    PROVE  HoldsInv'
<1>1. /\ txn'[w].op = op /\ txn'[w].todo = lines /\ txn'[w].stale = {}
      /\ DOMAIN txn'[w].rows = {} /\ DOMAIN txn'[w].holds = {}
  BY BegunFields
<1>2. OneActive(SeenHolds(w))'
  BY <1>1 DEF SeenHolds, OneActive, HoldsInv, OneActiveHold
<1>3. PromisesFit(w)'
  BY <1>1 DEF PromisesFit
<1>4. txn' = [txn EXCEPT ![w] = [Idle EXCEPT !.op = op, !.ref = ref, !.todo = lines]]
  BY DEF Begin
<1> QED
  BY <1>2, <1>3, <1>4, HoldsTxnStep

\* A rollback, and a commit of nothing.
LEMMA HoldsRollback ==
    ASSUME TypeOK, HoldsInv, NEW w \in Workers, Rollback(w)
    PROVE  HoldsInv'
<1>1. txn' = [txn EXCEPT ![w] = Idle] /\ resv' = resv /\ txn'[w] = Idle
  BY DEF Rollback, TypeOK
<1>2. Idle.op = "idle" /\ DOMAIN Idle.holds = {} /\ DOMAIN Idle.todo = {}
  BY DEF Idle
<1>3. OneActive(SeenHolds(w))'
  BY <1>1, <1>2 DEF SeenHolds, OneActive, HoldsInv, OneActiveHold
<1>4. PromisesFit(w)'
  BY <1>1, <1>2 DEF PromisesFit
<1> QED
  BY <1>1, <1>3, <1>4, HoldsTxnStep

LEMMA HoldsBeginNext ==
    ASSUME TypeOK, HoldsInv, NEW w \in Workers, BeginNext(w)
    PROVE  HoldsInv'
<1>1. ASSUME NEW ref \in Refs, NEW keys, NEW qtys, PlaceOrder(w, ref, keys, qtys) PROVE HoldsInv'
  <2>1. PICK h \in FreshHolds :
          Begin(w, "reserve", ref, [i \in 1 .. Len(keys) |->
            [kind |-> "reserve", key |-> keys[i], qty |-> qtys[i], hold |-> h + i - 1]])
    BY <1>1 DEF PlaceOrder
  <2> QED
    BY <1>1, <2>1, HoldsBegun DEF PlaceOrder
<1>2. ASSUME NEW ref \in Refs, ReleaseReservation(w, ref) PROVE HoldsInv'
  <2>1. PICK s \in NewestFirst(ActiveFor(ref)) :
          Begin(w, "release", ref, [i \in DOMAIN s |->
            [kind |-> "release", key |-> resv[s[i]].key, qty |-> resv[s[i]].qty, hold |-> s[i]]])
    BY <1>2 DEF ReleaseReservation, Fetch
  <2> QED
    BY <1>2, <2>1, HoldsBegun DEF ReleaseReservation
<1>3. ASSUME NEW ref \in Refs, CommitReservation(w, ref) PROVE HoldsInv'
  <2>1. Begin(w, "commit_checked", ref, <<>>) /\ resv' = resv
    BY <1>3 DEF CommitReservation
  <2> QED
    BY <2>1, HoldsBegun
<1>4. ASSUME NEW out \in Keys, NEW in \in Keys, NEW q_out \in Qty, NEW q_in \in Qty,
             MoveStock(w, out, q_out, in, q_in)
      PROVE  HoldsInv'
  <2> DEFINE lines == <<[kind |-> "deduct", key |-> out, qty |-> q_out, hold |-> 0],
                        [kind |-> "add", key |-> in, qty |-> q_in, hold |-> 0]>>
  <2>1. Begin(w, "move", NoRef, lines) /\ resv' = resv
    BY <1>4 DEF MoveStock
  <2>2. \A i \in DOMAIN lines : lines[i].kind # "reserve"
    OBVIOUS
  <2> HIDE DEF lines
  <2> QED
    BY <2>1, <2>2, HoldsBegun
<1>5. ASSUME NEW k \in Keys, RecomputeStock(w, k) PROVE HoldsInv'
  <2> DEFINE t == [Idle EXCEPT
                     !.op = "recompute_begun",
                     !.todo = <<[kind |-> "recompute", key |-> k, qty |-> 1, hold |-> 0]>>,
                     !.sums = [physical |-> stock[k].physical, held |-> 0]]
  <2>1. txn' = [txn EXCEPT ![w] = t] /\ resv' = resv /\ txn'[w] = t
    BY <1>5 DEF RecomputeStock, TypeOK
  <2>2. /\ t.op = "recompute_begun" /\ DOMAIN t.holds = {}
        /\ \A i \in DOMAIN t.todo : t.todo[i].kind # "reserve"
    BY DEF Idle
  <2> HIDE DEF t
  <2>3. OneActive(SeenHolds(w))'
    BY <2>1, <2>2 DEF SeenHolds, OneActive, HoldsInv, OneActiveHold
  <2>4. PromisesFit(w)'
    BY <2>1, <2>2 DEF PromisesFit
  <2> QED
    BY <2>1, <2>3, <2>4, HoldsTxnStep
<1> QED
  BY <1>1, <1>2, <1>3, <1>4, <1>5 DEF BeginNext

LEMMA HoldsRecomputeReserved ==
    ASSUME TypeOK, HoldsInv, NEW w \in Workers, RecomputeReserved(w)
    PROVE  HoldsInv'
<1> DEFINE t == [txn[w] EXCEPT !.op = "recompute",
                               !.sums.held = Held(resv, Head(txn[w].todo).key)]
<1>1. txn' = [txn EXCEPT ![w] = t] /\ resv' = resv /\ txn'[w] = t /\ txn[w].op = "recompute_begun"
  BY DEF RecomputeReserved, TypeOK
<1>2. txn[w] \in TxnOver(DOMAIN txn[w].rows, DOMAIN txn[w].holds)
  BY DEF TypeOK, IsTxn
<1>3. t.op = "recompute" /\ t.holds = txn[w].holds /\ t.todo = txn[w].todo
  BY <1>2 DEF TxnOver
<1> HIDE DEF t
<1>4. SeenHolds(w)' = SeenHolds(w)
  BY <1>1, <1>3 DEF SeenHolds
<1>5. PromisesFit(w)'
  BY <1>1, <1>3 DEF PromisesFit, HoldsInv
<1> QED
  BY <1>1, <1>4, <1>5, HoldsTxnStep DEF HoldsInv, OneActiveHold, OneActive

\* A line that reserves: the order had no reservation on the row, and the row had enough.
LEMMA HoldsReserved ==
    ASSUME TypeOK, IndInv, HoldsInv, NEW w \in Workers, WorkOff(w),
           Head(txn[w].todo).kind = "reserve"
    PROVE  OneActive(SeenHolds(w))' /\ PromisesFit(w)'
<1> DEFINE line == Head(txn[w].todo)
           new == [status |-> "active", key |-> line.key, ref |-> txn[w].ref, qty |-> line.qty]
<1>1. /\ txn[w].todo # <<>> /\ line \in Line /\ Admits(w, line) /\ resv' = resv
      /\ txn'[w].op = txn[w].op /\ txn'[w].todo = Tail(txn[w].todo)
      /\ txn'[w].rows = Put(txn[w].rows, line.key, RowAfter(w, line))
      /\ txn'[w].holds = HoldsAfter(w, line)
      /\ txn'[w].stale = IF OutOfDate(w, line) THEN txn[w].stale \cup {line.key} ELSE txn[w].stale
      /\ line.hold \in Holds
  BY WorkOffFields DEF LineFits
<1>2. txn[w].op = "reserve"
  BY <1>1, TodoFacts DEF HoldsInv, PromisesFit
<1>3. txn'[w].holds = Put(txn[w].holds, line.hold, new)
  BY <1>1 DEF HoldsAfter
<1>4. NotYetHeld(w, line.key) /\ SeenRow(w, line.key).available >= line.qty
  BY <1>1 DEF Admits
<1>5. RowAfter(w, line) = Reserved(SeenRow(w, line.key), line.qty) /\ ~OutOfDate(w, line)
  BY DEF RowAfter, OutOfDate
<1>6. line.key \in Keys /\ line.qty \in Qty
  BY <1>1 DEF Line
<1> HIDE DEF line
<1>7. \A h \in Holds : SeenHolds(w)'[h] = IF h = line.hold THEN new ELSE SeenHolds(w)[h]
  BY <1>1, <1>3 DEF SeenHolds, Put
<1>8. new.status = "active" /\ new.key = line.key /\ new.ref = txn[w].ref
  OBVIOUS
<1> HIDE DEF new
<1>9. OneActive(SeenHolds(w))'
  <2> DEFINE rv == SeenHolds(w)'
  <2> SUFFICES ASSUME NEW g \in Holds, NEW h \in Holds,
                      rv[g].status = "active", rv[h].status = "active",
                      rv[g].key = rv[h].key, rv[g].ref = rv[h].ref
               PROVE  g = h
    BY DEF OneActive
  <2>1. OneActive(SeenHolds(w))
    BY DEF HoldsInv, OneActiveHold
  <2>2. \A x \in Holds : SeenHolds(w)[x].status = "active" /\ SeenHolds(w)[x].key = line.key =>
                           SeenHolds(w)[x].ref # txn[w].ref
    BY <1>4 DEF NotYetHeld, ActiveHolds
  <2> QED
    BY <1>7, <1>8, <2>1, <2>2 DEF OneActive
<1>10. PromisesFit(w)'
  <2>1. SeenRow(w, line.key) \in Row /\ Sound(SeenRow(w, line.key)) /\ line.qty \in Nat \ {0}
    BY <1>6, SeenType, SeenSound, QtyAssumption DEF Qty
  <2>2. RowAfter(w, line).reserved <= RowAfter(w, line).on_hand
    BY <1>4, <1>5, <2>1 DEF Reserved, Saved, Sound, Row
  <2>3. \A k \in DOMAIN txn'[w].rows : txn'[w].rows[k].reserved <= txn'[w].rows[k].on_hand
    BY <1>1, <1>2, <2>2 DEF Put, HoldsInv, PromisesFit
  <2>4. \A i \in DOMAIN txn'[w].todo : txn'[w].todo[i].kind = "reserve"
    BY <1>1, <1>2, TodoFacts DEF HoldsInv, PromisesFit
  <2>5. txn'[w].stale = {}
    BY <1>1, <1>2, <1>5 DEF HoldsInv, PromisesFit
  <2> QED
    BY <1>1, <1>2, <2>3, <2>4, <2>5 DEF PromisesFit
<1> QED
  BY <1>9, <1>10

\* Any other line makes no reservation active.
LEMMA HoldsNotReserved ==
    ASSUME TypeOK, IndInv, HoldsInv, NEW w \in Workers, WorkOff(w),
           Head(txn[w].todo).kind # "reserve"
    PROVE  OneActive(SeenHolds(w))' /\ PromisesFit(w)'
<1> DEFINE line == Head(txn[w].todo)
<1>1. /\ txn[w].todo # <<>> /\ line \in Line /\ resv' = resv
      /\ txn'[w].op = txn[w].op /\ txn'[w].todo = Tail(txn[w].todo)
      /\ txn'[w].holds = HoldsAfter(w, line)
      /\ line.kind \in {"release", "commit"} => line.hold \in Holds
  BY WorkOffFields DEF LineFits
<1>2. txn[w].op # "reserve"
  BY <1>1, TodoFacts DEF HoldsInv, PromisesFit
<1>3. \/ txn'[w].holds = txn[w].holds
      \/ \E new \in SettledHold : txn'[w].holds = Put(txn[w].holds, line.hold, new)
  <2>1. line.key \in Keys /\ line.kind \in Kinds
    BY <1>1 DEF Line
  <2> HIDE DEF line
  <2>2. CASE line.kind \in {"release", "commit"}
    <3> DEFINE new == [status |-> IF line.kind = "release" THEN "released" ELSE "committed",
                       key |-> line.key]
    <3>1. new \in SettledHold
      BY <2>1 DEF SettledHold
    <3>2. txn'[w].holds = Put(txn[w].holds, line.hold, new)
      BY <1>1, <2>2 DEF HoldsAfter
    <3> QED
      BY <3>1, <3>2
  <2>3. CASE line.kind \in {"deduct", "add", "recompute"}
    BY <1>1, <2>3 DEF HoldsAfter
  <2> QED
    BY <2>1, <2>2, <2>3 DEF Kinds, line
<1>4. \A h \in DOMAIN txn'[w].holds :
         \/ txn'[w].holds[h].status # "active"
         \/ h \in DOMAIN txn[w].holds /\ txn'[w].holds[h] = txn[w].holds[h]
  <2>1. CASE txn'[w].holds = txn[w].holds
    BY <2>1
  <2>2. ASSUME NEW new \in SettledHold, txn'[w].holds = Put(txn[w].holds, line.hold, new)
        PROVE  <1>4
    <3>1. new.status # "active"
      BY DEF SettledHold
    <3> HIDE DEF line
    <3> QED
      BY <2>2, <3>1 DEF Put
  <2> QED
    BY <1>3, <2>1, <2>2
<1>5. \A h \in DOMAIN txn[w].holds : h \in DOMAIN txn'[w].holds
  BY <1>3 DEF Put
<1>6. \A h \in Holds : SeenHolds(w)'[h].status = "active" => SeenHolds(w)'[h] = SeenHolds(w)[h]
  BY <1>1, <1>4, <1>5 DEF SeenHolds
<1>7. OneActive(SeenHolds(w))'
  BY <1>6 DEF OneActive, HoldsInv, OneActiveHold
<1>8. PromisesFit(w)'
  <2>1. \A i \in DOMAIN txn'[w].todo : txn'[w].todo[i].kind # "reserve"
    BY <1>1, <1>2, TodoFacts DEF HoldsInv, PromisesFit
  <2> QED
    BY <1>1, <1>2, <1>4, <2>1 DEF HoldsInv, PromisesFit
<1> QED
  BY <1>7, <1>8

\* A commit: reservations on a row it has locked are the worker's, the others are as
\* they were, and nobody else has written any on a row it has locked.
LEMMA HoldsCommit ==
    ASSUME TypeOK, IndInv, HoldsInv, NEW w \in Workers, Commit(w)
    PROVE  HoldsInv'
<1>1. resv' = SeenHolds(w) /\ txn' = [txn EXCEPT ![w] = Idle]
  BY DEF Commit
<1>2. txn'[w] = Idle /\ \A v \in Workers \ {w} : txn'[v] = txn[v]
  BY <1>1 DEF TypeOK
<1>3. Idle.op = "idle" /\ DOMAIN Idle.holds = {} /\ DOMAIN Idle.todo = {}
  BY DEF Idle
<1>4. OneActive(resv)'
  BY <1>1 DEF HoldsInv, OneActiveHold, OneActive
<1>5. \A v \in Workers : PromisesFit(v)'
  BY <1>2, <1>3 DEF HoldsInv, PromisesFit
<1>6. OneActive(SeenHolds(w))'
  BY <1>2, <1>3, <1>4 DEF SeenHolds, OneActive
<1>7. ASSUME NEW v \in Workers \ {w} PROVE OneActive(SeenHolds(v))'
  <2> DEFINE rv == SeenHolds(v)'
             D == DOMAIN txn[v].holds
  <2>1. \A h \in Holds : rv[h] = IF h \in D THEN txn[v].holds[h] ELSE resv'[h]
    BY <1>2 DEF SeenHolds
  <2>2. \A h \in Holds : SeenHolds(v)[h] = IF h \in D THEN txn[v].holds[h] ELSE resv[h]
    BY DEF SeenHolds
  <2>3. \A h \in Holds : h \notin DOMAIN txn[w].holds => resv'[h] = resv[h]
    BY <1>1 DEF SeenHolds
  <2>4. \A h \in Holds : h \in DOMAIN txn[w].holds => Locked(w, resv'[h].key)
    BY <1>1, CommittedHold
  <2>5. \A h \in D : Locked(v, txn[v].holds[h].key)
    BY CommittedHold
  <2>6. \A k : ~(Locked(v, k) /\ Locked(w, k))
    BY DEF IndInv, LocksExclusive, Locked
  <2>7. OneActive(SeenHolds(v)) /\ OneActive(resv')
    BY <1>4 DEF HoldsInv, OneActiveHold, OneActive
  <2>8. ASSUME NEW g \in Holds, NEW h \in Holds, g \in D, h \notin D,
               rv[g].status = "active", rv[h].status = "active",
               rv[g].key = rv[h].key, rv[g].ref = rv[h].ref
        PROVE  FALSE
    <3>1. Locked(v, rv[g].key)
      BY <2>1, <2>5, <2>8
    <3>2. h \notin DOMAIN txn[w].holds
      BY <2>1, <2>4, <2>6, <2>8, <3>1
    <3>3. rv[h] = SeenHolds(v)[h] /\ rv[g] = SeenHolds(v)[g]
      BY <2>1, <2>2, <2>3, <2>8, <3>2
    <3> QED
      BY <2>7, <2>8, <3>3 DEF OneActive
  <2> SUFFICES ASSUME NEW g \in Holds, NEW h \in Holds,
                      rv[g].status = "active", rv[h].status = "active",
                      rv[g].key = rv[h].key, rv[g].ref = rv[h].ref
               PROVE  g = h
    BY DEF OneActive
  <2>9. CASE g \in D /\ h \in D
    BY <2>1, <2>2, <2>7, <2>9 DEF OneActive
  <2>10. CASE g \notin D /\ h \notin D
    BY <2>1, <2>7, <2>10 DEF OneActive
  <2> QED
    BY <2>8, <2>9, <2>10
<1> QED
  BY <1>4, <1>5, <1>6, <1>7 DEF HoldsInv, OneActiveHold

\* Rows are deleted: their reservations are erased, and no transaction has written any.
LEMMA HoldsBulkDelete ==
    ASSUME TypeOK, HoldsInv, NEW keys \in SUBSET Keys, BulkDeleteStockRecords(keys)
    PROVE  HoldsInv'
<1>1. \A h \in Holds : resv'[h] = resv[h] \/ resv'[h] = ErasedHold
  BY DEF BulkDeleteStockRecords
<1>2. \A v \in Workers : txn'[v] = txn[v] \/ txn'[v] = Idle
  BY DEF BulkDeleteStockRecords
<1>3. Idle.op = "idle" /\ DOMAIN Idle.holds = {} /\ DOMAIN Idle.todo = {}
  BY DEF Idle
<1>4. \A h \in Holds : resv'[h].status = "active" => resv'[h] = resv[h]
  BY <1>1 DEF ErasedHold
<1>5. OneActive(resv)'
  BY <1>4 DEF OneActive, HoldsInv, OneActiveHold
<1>6. ASSUME NEW v \in Workers PROVE OneActive(SeenHolds(v))' /\ PromisesFit(v)'
  <2>1. CASE txn'[v] = Idle
    BY <1>3, <1>5, <2>1 DEF SeenHolds, OneActive, PromisesFit
  <2>2. CASE txn'[v] = txn[v]
    <3>1. \A h \in Holds : SeenHolds(v)'[h].status = "active" => SeenHolds(v)'[h] = SeenHolds(v)[h]
      BY <1>4, <2>2 DEF SeenHolds
    <3> QED
      BY <2>2, <3>1 DEF OneActive, PromisesFit, HoldsInv, OneActiveHold
  <2> QED
    BY <1>2, <2>1, <2>2
<1> QED
  BY <1>5, <1>6 DEF HoldsInv, OneActiveHold

\* No reservation and no transaction changes.
LEMMA HoldsSame ==
    ASSUME HoldsInv, UNCHANGED <<resv, txn>>
    PROVE  HoldsInv'
BY DEF HoldsInv, OneActiveHold, OneActive, SeenHolds, PromisesFit

LEMMA NextHoldsInv == Inductive /\ [Next]_vars => HoldsInv'
<1> SUFFICES ASSUME TypeOK, IndInv, HoldsInv, [Next]_vars PROVE HoldsInv'
  BY DEF Inductive
<1>1. CASE UNCHANGED vars
  BY <1>1, HoldsSame DEF vars
<1>2. CASE OneStepNext
  <2>1. ASSUME NEW keys \in SUBSET Keys, BulkDeleteStockRecords(keys) PROVE HoldsInv'
    BY <2>1, HoldsBulkDelete
  <2> QED
    BY <1>2, <2>1, HoldsSame DEF OneStepNext, ReceiveStock, ProcessReturn, AdjustStock
<1>3. ASSUME NEW w \in Workers, BeginNext(w) PROVE HoldsInv'
  BY <1>3, HoldsBeginNext
<1>4. ASSUME NEW w \in Workers, Proceed(w) PROVE HoldsInv'
  <2>1. ASSUME CommitFetch(w) PROVE HoldsInv'
    <3>1. PICK s \in NewestFirst(ActiveFor(txn[w].ref)) :
            Begin(w, "commit", txn[w].ref, [i \in DOMAIN s |->
              [kind |-> "commit", key |-> resv[s[i]].key, qty |-> resv[s[i]].qty, hold |-> s[i]]])
      BY <2>1 DEF CommitFetch, Fetch
    <3> QED
      BY <2>1, <3>1, HoldsBegun DEF CommitFetch
  <2>2. ASSUME WorkOff(w) PROVE HoldsInv'
    <3>1. OneActive(SeenHolds(w))' /\ PromisesFit(w)'
      BY <2>2, HoldsReserved, HoldsNotReserved
    <3>2. txn' = [txn EXCEPT ![w] = txn'[w]] /\ resv' = resv
      BY <2>2, WorkOffFields
    <3> QED
      BY <3>1, <3>2, HoldsTxnStep
  <2>3. ASSUME Refuse(w) PROVE HoldsInv'
    BY <2>3, HoldsRollback DEF Refuse
  <2> QED
    BY <1>4, <2>1, <2>2, <2>3, HoldsRecomputeReserved, HoldsCommit DEF Proceed
<1>5. ASSUME NEW w \in Workers, Die(w) \/ BreakDeadlock(w) PROVE HoldsInv'
  BY <1>5, HoldsRollback DEF Die, BreakDeadlock
<1> QED
  BY <1>1, <1>2, <1>3, <1>4, <1>5 DEF Next

LEMMA InitHoldsInv == Init => HoldsInv
<1> SUFFICES ASSUME Init PROVE HoldsInv
  OBVIOUS
<1>1. /\ \A h \in Holds : resv[h].status = "none"
      /\ \A w \in Workers : txn[w] = Idle
  BY DEF Init, NoHold
<1>2. Idle.op = "idle" /\ DOMAIN Idle.holds = {} /\ DOMAIN Idle.todo = {}
  BY DEF Idle
<1> QED
  BY <1>1, <1>2 DEF HoldsInv, OneActiveHold, OneActive, SeenHolds, PromisesFit

\* Active reservations that were there before sum to no more than before.
LEMMA HeldLess ==
    ASSUME NEW r \in [Holds -> Hold], NEW s \in [Holds -> Hold], NEW k,
           \A h \in ActiveHolds(s, k) : s[h] = r[h]
    PROVE  Held(s, k) <= Held(r, k)
<1> DEFINE A == ActiveHolds(r, k)
           B == ActiveHolds(s, k)
           f == [x \in A |-> r[x].qty]
           e == [x \in B |-> s[x].qty]
<1>1. B \in SUBSET A
  BY DEF ActiveHolds
<1>2. \A x \in B : f[x] = e[x]
  BY <1>1
<1>3. IsFiniteSet(A) /\ \A x \in A : f[x] \in Nat
  BY ActiveHoldsFinite
<1>4. Held(r, k) = SumOver(f, A) /\ Held(s, k) = SumOver(e, B)
  BY DEF Held
<1> HIDE DEF f, e, A, B
<1>5. SumOver(f, B) = SumOver(e, B)
  BY <1>2, SumCongruent
<1>6. SumOver(f, B) <= SumOver(f, A)
  BY <1>1, <1>3, SumMonotone
<1> QED
  BY <1>4, <1>5, <1>6

\* Stock is promised to a further order only if it is there.
Promised ==
    \A k \in Keys : k \notin raced /\ Held(resv', k) > Held(resv, k) => Held(resv', k) <= stock'[k].on_hand

\* Where a commit promises more, the row was locked and the order was being placed.
LEMMA CommitPromised ==
    ASSUME TypeOK, IndInv, HoldsInv, NEW w \in Workers, Commit(w)
    PROVE  Promised
<1> SUFFICES ASSUME NEW k \in Keys, k \notin raced, Held(resv', k) > Held(resv, k)
             PROVE  Held(resv', k) <= stock'[k].on_hand
  BY DEF Promised
<1>1. resv' = SeenHolds(w) /\ stock'[k] = SeenRow(w, k)
  BY DEF Commit
<1>2. SeenHolds(w) \in [Holds -> Hold] /\ resv \in [Holds -> Hold]
  BY SeenType DEF TypeOK
<1>3. Held(SeenHolds(w), k) \in Nat /\ Held(resv, k) \in Nat
  BY <1>2, HeldType
<1>4. Locked(w, k)
  BY <1>1, <1>3, SeenApart
<1>5. txn[w].op = "reserve"
  <2> SUFFICES ASSUME txn[w].op # "reserve" PROVE FALSE
    OBVIOUS
  <2>1. \A h \in ActiveHolds(SeenHolds(w), k) : SeenHolds(w)[h] = resv[h]
    BY DEF SeenHolds, ActiveHolds, HoldsInv, PromisesFit
  <2>2. Held(SeenHolds(w), k) <= Held(resv, k)
    BY <1>2, <2>1, HeldLess
  <2> QED
    BY <1>1, <1>3, <2>2
<1>6. SeenRow(w, k).reserved <= SeenRow(w, k).on_hand
  BY <1>4, <1>5 DEF SeenRow, Locked, HoldsInv, PromisesFit
<1>7. Exact(SeenRow(w, k), SeenHolds(w), k)
  BY <1>5, SeenExact DEF HoldsInv, PromisesFit
<1> QED
  BY <1>1, <1>6, <1>7 DEF Exact

LEMMA NextPromised == Inductive /\ [Next]_vars => Promised
<1> SUFFICES ASSUME TypeOK, IndInv, HoldsInv, [Next]_vars PROVE Promised
  BY DEF Inductive
<1>1. resv \in [Holds -> Hold] /\ \A k \in Keys : Held(resv, k) \in Nat
  BY HeldType DEF TypeOK
<1>2. CASE resv' = resv
  BY <1>1, <1>2 DEF Promised
<1>3. ASSUME NEW keys \in SUBSET Keys, BulkDeleteStockRecords(keys) PROVE Promised
  <2>1. resv' \in [Holds -> Hold]
    BY <1>3, BulkDeleteStep DEF TypeOK
  <2>2. \A k : \A h \in ActiveHolds(resv', k) : resv'[h] = resv[h]
    BY <1>3 DEF ActiveHolds, BulkDeleteStockRecords, ErasedHold
  <2>3. \A k \in Keys : Held(resv', k) <= Held(resv, k) /\ Held(resv', k) \in Nat
    BY <1>1, <2>1, <2>2, HeldLess, HeldType
  <2> QED
    BY <1>1, <2>3 DEF Promised
<1>4. ASSUME NEW w \in Workers, Commit(w) PROVE Promised
  BY <1>4, CommitPromised
<1> QED
  BY <1>2, <1>3, <1>4
     DEF Next, vars, OneStepNext, BeginNext, Proceed, ReceiveStock, ProcessReturn, AdjustStock,
         PlaceOrder, ReleaseReservation, CommitReservation, MoveStock, RecomputeStock, CommitFetch,
         RecomputeReserved, WorkOff, Refuse, Die, BreakDeadlock, Rollback

\* Every reachable state is well-typed: the sums the code computes are numbers,
\* the rows and reservations a transaction writes are rows and reservations.
THEOREM TypeCorrect == Spec => []TypeOK
<1>1. Init => TypeOK /\ IndInv
  BY InitInv
<1>2. (TypeOK /\ IndInv) /\ [Next]_vars => (TypeOK /\ IndInv)'
  BY NextInv
<1> QED
  BY <1>1, <1>2, PTL DEF Spec

\* The inductive invariant: rows are locked by one transaction at a time, what is left to
\* do fits what has become of what was read, what has been written is sound and exact,
\* and so is what is committed.
THEOREM Invariance == Spec => []Inductive
<1>1. Init => Inductive
  BY InitInv, InitHoldsInv DEF Inductive
<1>2. Inductive /\ [Next]_vars => Inductive'
  BY NextInv, NextHoldsInv DEF Inductive
<1> QED
  BY <1>1, <1>2, PTL DEF Spec

\* Whatever the services race and wherever they die, no committed counter of a
\* stock row is negative and available never exceeds on_hand - reserved, except
\* where recompute_stock has clamped it to 0.
THEOREM SoundCounters == Spec => []CountersSound
<1>1. Inductive => CountersSound
  BY DEF Inductive, IndInv
<1> QED
  BY <1>1, Invariance, PTL

\* On every row no race has touched, reserved is the sum of the ACTIVE
\* reservations and on_hand the sum of the physical ledger entries.
THEOREM ExactBookkeeping == Spec => []BookkeepingExact
<1>1. Inductive => BookkeepingExact
  BY DEF Inductive, IndInv
<1> QED
  BY <1>1, Invariance, PTL

\* reserve_stock looks, with the row locked, for an ACTIVE reservation of the order before
\* it creates one: neither the database nor an open transaction ever holds two.
THEOREM OneActiveHoldAlways == Spec => []OneActiveHold
<1>1. Inductive => OneActiveHold
  BY DEF Inductive, HoldsInv
<1> QED
  BY <1>1, Invariance, PTL

\* No over-sell: on a row no race has touched, a commit that promises more stock than
\* before promises no more than is on the shelf.
THEOREM PromisesFitTheShelf == Spec => NewHoldsFit
<1>1. Inductive /\ [Next]_vars => [Promised]_vars
  BY NextPromised
<1> QED
  BY <1>1, Invariance, PTL DEF Spec, NewHoldsFit, Promised
=============================================================================
