---------------------------- MODULE QuotaProofs ----------------------------
(***************************************************************************)
(* Proofs about QuotaWindow, for any period and any saturation, and about  *)
(* QuotaStore, for any number of Gateways, plans and settlements, and      *)
(* about Admission, for every set of callers and every limit.              *)
(*                                                                         *)
(* The argument: only the Gateway that holds the write lock is between     *)
(* reading a row and writing it, and what it read is still what is stored, *)
(* so each commit adds one settlement to the row everybody else sees.      *)
(***************************************************************************)
EXTENDS QuotaStore, Admission, FiniteSetTheorems, TLAPS

USE WindowAssumption

-----------------------------------------------------------------------------
(* Windows.                                                                *)

\* BucketOf stays within the instance: a quotient is no larger than the
\* dividend.
LEMMA BucketInRange ==
    ASSUME NEW t \in Instants
    PROVE  BucketOf(t) \in Buckets
<1>1. BucketOf(t) \in Int /\ t = Period * BucketOf(t) + (t % Period) /\ t % Period \in 0..(Period - 1)
  BY DEF BucketOf, Instants
<1>2. BucketOf(t) >= 0
  <2>1. SUFFICES ASSUME BucketOf(t) <= -1 PROVE FALSE
    BY <1>1
  <2>2. Period * BucketOf(t) <= -Period
    BY <1>1, <2>1
  <2>. QED
    BY <1>1, <2>2 DEF Instants
<1>3. BucketOf(t) <= Period * BucketOf(t)
  BY <1>1, <1>2
<1>. QED
  BY <1>1, <1>2, <1>3 DEF Instants, Buckets

\* Saturated sums are counts.
LEMMA SatAddIsCount ==
    ASSUME NEW m \in Nat, NEW n \in Nat
    PROVE  SatAdd(m, n) \in Counts
BY DEF SatAdd, Capped, Counts

\* A record leaves a window.
LEMMA RecordedIsWindow ==
    ASSUME NEW w \in Windows, NEW t \in Instants, NEW n \in Nat
    PROVE  Recorded(w, t, n) \in Windows
<1>1. BucketOf(t) \in Buckets
  BY BucketInRange
<1>2. Advanced(w, t) \in Windows
  BY <1>1 DEF Advanced, Windows, Counts
<1>. DEFINE v == Advanced(w, t)
<1>3. v.curr \in Nat /\ v.prev \in Nat
  BY <1>2 DEF Windows, Counts
<1>4. SatAdd(v.curr, n) \in Counts /\ SatAdd(v.prev, n) \in Counts
  BY <1>3, SatAddIsCount
<1>. HIDE DEF v
<1>5. Recorded(w, t, n) \in {v, [v EXCEPT !.curr = SatAdd(@, n)],
                             [v EXCEPT !.prev = SatAdd(@, n)]}
  BY DEF Recorded, v
<1>6. v \in Windows
  BY <1>2 DEF v
<1>. QED
  BY <1>4, <1>5, <1>6 DEF Windows

\* The step that makes the two buckets exact: a record, however late, adds to
\* the bucket it belongs to or to none the window still shows.
LEMMA RecordIsExact ==
    ASSUME NEW w \in Windows, NEW sums \in [Buckets -> Nat],
           NEW t \in Instants, NEW n \in Nat,
           CountsExact(w, sums)
    PROVE  CountsExact(Recorded(w, t, n), Consumed(sums, t, n))
<1>. DEFINE b == BucketOf(t)
            v == Advanced(w, t)
            after == Consumed(sums, t, n)
<1>1. b \in Nat /\ b \in Buckets
  BY BucketInRange DEF Buckets
<1>2. v \in Windows /\ v.index >= b
  BY <1>1 DEF Advanced, Windows, Counts, Buckets
<1>3. CountsExact(v, sums)
  <2>1. CASE b <= w.index
    BY <2>1 DEF Advanced
  <2>2. CASE b > w.index
    <3>1. v.index = b /\ v.curr = 0 /\ v.prev = IF b = w.index + 1 THEN w.curr ELSE 0
      BY <1>1, <2>2 DEF Advanced, Windows, Buckets
    <3>2. \A c \in Buckets : c > w.index => sums[c] = 0
      BY DEF CountsExact
    <3>3. w.index \in Buckets /\ w.curr = BucketTotal(sums, w.index)
      BY DEF CountsExact, Windows
    <3>4. BucketTotal(sums, b) = 0
      BY <1>1, <2>2, <3>2 DEF BucketTotal, Capped
    <3>5. v.prev = BucketTotal(sums, b - 1)
      <4>1. CASE b = w.index + 1
        BY <3>1, <3>3, <4>1 DEF Buckets
      <4>2. CASE b # w.index + 1
        <5>1. b - 1 \in Buckets /\ b - 1 > w.index
          BY <1>1, <2>2, <3>3, <4>2 DEF Buckets
        <5>. QED
          BY <3>1, <3>2, <4>2, <5>1 DEF BucketTotal, Capped, Buckets
      <4>. QED
        BY <4>1, <4>2
    <3>6. \A c \in Buckets : c > b => sums[c] = 0
      BY <1>1, <2>2, <3>2, <3>3 DEF Buckets
    <3>. QED
      BY <3>1, <3>4, <3>5, <3>6 DEF CountsExact
  <2>. QED
    BY <1>1, <2>1, <2>2 DEF Windows, Buckets
<1>4. /\ after \in [Buckets -> Nat]
      /\ after[b] = sums[b] + n
      /\ \A c \in Buckets : c # b => after[c] = sums[c]
  BY <1>1 DEF Consumed
<1>. HIDE DEF b, v, after
<1>5. SatAdd(BucketTotal(sums, b), n) = BucketTotal(after, b)
  <2>1. /\ sums[b] \in Nat
        /\ BucketTotal(sums, b) = Capped(sums[b])
        /\ BucketTotal(after, b) = Capped(sums[b] + n)
    BY <1>1, <1>4 DEF BucketTotal
  <2>. QED
    BY <2>1 DEF SatAdd, Capped
<1>6. \A c \in Int : c # b /\ c <= Horizon => BucketTotal(after, c) = BucketTotal(sums, c)
  BY <1>1, <1>4 DEF BucketTotal, Buckets
<1>7. \A c \in Buckets : c > v.index => after[c] = 0
  BY <1>1, <1>2, <1>3, <1>4 DEF CountsExact, Windows, Buckets
<1>8. v.index \in Int /\ v.index <= Horizon
  BY <1>2 DEF Windows, Buckets
<1>9. CASE b = v.index
  <2>1. Recorded(w, t, n) = [v EXCEPT !.curr = SatAdd(@, n)]
    BY <1>9 DEF Recorded, b, v
  <2>2. BucketTotal(after, v.index - 1) = BucketTotal(sums, v.index - 1)
    BY <1>6, <1>8, <1>9
  <2>. QED
    BY <1>2, <1>3, <1>5, <1>7, <1>9, <2>1, <2>2 DEF CountsExact, Windows, after
<1>10. CASE b + 1 = v.index
  <2>1. Recorded(w, t, n) = [v EXCEPT !.prev = SatAdd(@, n)]
    BY <1>1, <1>2, <1>10 DEF Recorded, b, v, Windows, Buckets
  <2>2. BucketTotal(after, v.index) = BucketTotal(sums, v.index)
    BY <1>1, <1>6, <1>8, <1>10
  <2>3. v.index - 1 = b
    BY <1>1, <1>8, <1>10
  <2>. QED
    BY <1>2, <1>3, <1>5, <1>7, <2>1, <2>2, <2>3 DEF CountsExact, Windows, after
<1>11. CASE b # v.index /\ b + 1 # v.index
  <2>1. Recorded(w, t, n) = v
    BY <1>11 DEF Recorded, b, v
  <2>2. /\ BucketTotal(after, v.index) = BucketTotal(sums, v.index)
        /\ BucketTotal(after, v.index - 1) = BucketTotal(sums, v.index - 1)
    BY <1>1, <1>6, <1>8, <1>11
  <2>. QED
    BY <1>3, <1>7, <2>1, <2>2 DEF CountsExact, after
<1>. QED
  BY <1>9, <1>10, <1>11

\* A fresh window is exact about nothing.
LEMMA FreshIsExact == CountsExact(FreshWindow, NothingConsumed)
BY DEF CountsExact, FreshWindow, NothingConsumed, BucketTotal, Capped, Buckets

-----------------------------------------------------------------------------
(* What a window reads as.                                                 *)

\* Quotients by the period are monotone.
LEMMA QuotientMonotone ==
    ASSUME NEW m \in Nat, NEW n \in Nat, m <= n
    PROVE  m \div Period <= n \div Period
<1>. DEFINE q == m \div Period
            r == n \div Period
<1>1. /\ q \in Int /\ m = Period * q + (m % Period) /\ m % Period \in 0..(Period - 1)
      /\ r \in Int /\ n = Period * r + (n % Period) /\ n % Period \in 0..(Period - 1)
  OBVIOUS
<1>. HIDE DEF q, r
<1>2. SUFFICES ASSUME r + 1 <= q PROVE FALSE
  BY <1>1 DEF q, r
<1>3. Period * (r + 1) <= Period * q
  BY <1>1, <1>2
<1>4. Period * (r + 1) = Period * r + Period
  BY <1>1
<1>. QED
  BY <1>1, <1>3, <1>4

\* A decayed count never exceeds the count, and is one at the bucket's start.
LEMMA DecayedInRange ==
    ASSUME NEW n \in Nat, NEW t \in Instants
    PROVE  Decayed(n, t) \in Nat /\ Decayed(n, t) <= n
<1>. DEFINE k == Period - (t % Period)
<1>1. k \in 1..Period
  BY DEF Instants
<1>. HIDE DEF k
<1>2. n * k \in Nat /\ n * k <= n * Period
  BY <1>1
<1>3. (n * k) \div Period <= (n * Period) \div Period
  BY <1>2, QuotientMonotone
<1>4. (n * Period) \div Period = n
  OBVIOUS
<1>5. 0 \div Period = 0 /\ 0 \div Period <= (n * k) \div Period
  BY <1>2, QuotientMonotone
<1>. QED
  BY <1>2, <1>3, <1>4, <1>5 DEF Decayed, k

\* Within a bucket a count decays as the bucket fills.
LEMMA DecayedFalls ==
    ASSUME NEW n \in Nat, NEW t \in Instants, NEW u \in Instants,
           t <= u, BucketOf(t) = BucketOf(u)
    PROVE  Decayed(n, t) >= Decayed(n, u)
<1>. DEFINE k == Period - (t % Period)
            l == Period - (u % Period)
<1>1. t % Period <= u % Period
  BY DEF BucketOf, Instants
<1>2. k \in Nat /\ l \in Nat /\ l <= k
  BY <1>1 DEF Instants
<1>. HIDE DEF k, l
<1>3. n * l \in Nat /\ n * k \in Nat /\ n * l <= n * k
  BY <1>2
<1>4. (n * l) \div Period <= (n * k) \div Period
  BY <1>3, QuotientMonotone
<1>. QED
  BY <1>4 DEF Decayed, k, l

\* effective_used computes the documented estimate from its two counts, for
\* every instant of the live bucket and after.
LEMMA UsedFromExactCounts ==
    ASSUME NEW w \in Windows, NEW sums \in [Buckets -> Nat], CountsExact(w, sums),
           NEW t \in Instants, BucketOf(t) >= w.index
    PROVE  EffectiveUsed(w, t) = Estimate(sums, t)
<1>. DEFINE b == BucketOf(t)
<1>1. b \in Buckets /\ w.index \in Buckets /\ w.curr \in Counts /\ w.prev \in Counts
  BY BucketInRange DEF Windows
<1>2. /\ w.curr = BucketTotal(sums, w.index)
      /\ w.prev = BucketTotal(sums, w.index - 1)
      /\ \A c \in Buckets : c > w.index => sums[c] = 0
  BY DEF CountsExact
<1>3. CASE b = w.index
  BY <1>1, <1>2, <1>3 DEF EffectiveUsed, Estimate, Buckets
<1>4. CASE b = w.index + 1
  <2>1. BucketTotal(sums, b) = 0 /\ BucketTotal(sums, b - 1) = w.curr
    BY <1>1, <1>2, <1>4 DEF BucketTotal, Capped, Buckets
  <2>2. Decayed(w.curr, t) \in Nat /\ Decayed(w.curr, t) <= w.curr
    BY <1>1, DecayedInRange DEF Counts
  <2>3. SatAdd(0, Decayed(w.curr, t)) = Decayed(w.curr, t)
    BY <1>1, <2>2 DEF SatAdd, Capped, Counts
  <2>. QED
    BY <1>1, <1>4, <2>1, <2>3 DEF EffectiveUsed, Estimate, Buckets
<1>5. CASE b > w.index + 1
  <2>1. BucketTotal(sums, b) = 0 /\ BucketTotal(sums, b - 1) = 0
    <3>1. b - 1 \in Buckets /\ b - 1 > w.index /\ b >= 0 /\ b - 1 >= 0
      BY <1>1, <1>5 DEF Buckets
    <3>2. sums[b] = 0 /\ sums[b - 1] = 0
      BY <1>1, <1>2, <3>1 DEF Buckets
    <3>. QED
      BY <3>1, <3>2 DEF BucketTotal, Capped
  <2>2. SatAdd(0, Decayed(0, t)) = 0
    BY DecayedInRange DEF SatAdd, Capped
  <2>. QED
    BY <1>1, <1>5, <2>1, <2>2 DEF EffectiveUsed, Estimate, Buckets
<1>. QED
  BY <1>1, <1>3, <1>4, <1>5 DEF Buckets

\* BucketOf follows the clock.
LEMMA BucketMonotone ==
    ASSUME NEW t \in Instants, NEW u \in Instants, t <= u
    PROVE  BucketOf(t) <= BucketOf(u)
BY QuotientMonotone DEF BucketOf, Instants

\* effective_used only falls as the clock advances, so setting the clock back
\* shows no less.
LEMMA UsedFalls ==
    ASSUME NEW w \in Windows, NEW t \in Instants, NEW u \in Instants, t <= u
    PROVE  EffectiveUsed(w, t) >= EffectiveUsed(w, u)
<1>. DEFINE b == BucketOf(t)
            c == BucketOf(u)
<1>1. b \in Buckets /\ c \in Buckets /\ b <= c
  BY BucketInRange, BucketMonotone
<1>2. w.index \in Nat /\ w.curr \in Nat /\ w.prev \in Nat /\ w.curr <= MaxCount
  BY DEF Windows, Counts, Buckets
<1>3. /\ Decayed(w.curr, t) \in Nat /\ Decayed(w.curr, t) <= w.curr
      /\ Decayed(w.prev, t) \in Nat /\ Decayed(w.prev, t) <= w.prev
      /\ Decayed(w.curr, u) \in Nat /\ Decayed(w.curr, u) <= w.curr
      /\ Decayed(w.prev, u) \in Nat /\ Decayed(w.prev, u) <= w.prev
  BY <1>2, DecayedInRange
<1>4. b = c => /\ Decayed(w.curr, t) >= Decayed(w.curr, u)
               /\ Decayed(w.prev, t) >= Decayed(w.prev, u)
  BY <1>2, DecayedFalls
<1>. HIDE DEF b, c
<1>5. /\ EffectiveUsed(w, t) = IF b < w.index THEN SatAdd(w.curr, w.prev)
                               ELSE IF b = w.index THEN SatAdd(w.curr, Decayed(w.prev, t))
                               ELSE IF b = w.index + 1 THEN Decayed(w.curr, t) ELSE 0
      /\ EffectiveUsed(w, u) = IF c < w.index THEN SatAdd(w.curr, w.prev)
                               ELSE IF c = w.index THEN SatAdd(w.curr, Decayed(w.prev, u))
                               ELSE IF c = w.index + 1 THEN Decayed(w.curr, u) ELSE 0
  BY DEF EffectiveUsed, b, c
<1>6. b \in Nat /\ c \in Nat
  BY <1>1 DEF Buckets
<1>. QED
  BY <1>1, <1>2, <1>3, <1>4, <1>5, <1>6 DEF SatAdd, Capped


-----------------------------------------------------------------------------
(* The store.                                                              *)

USE StoreAssumption

-----------------------------------------------------------------------------
(* The invariant of the store.                                             *)

\* Whoever is between reading a row and writing it holds the lock, and the row
\* is still the one it read.
WriterIsCurrent ==
    \A g \in Gateways : pc[g] = "writing" =>
        /\ lock = g
        /\ Stored(plan[g])
        /\ settling[g].row = rows[plan[g]]

\* A Gateway with a settlement missing knows it, or left the marker.
GapIsKnown ==
    \A g \in Gateways : gap[g] =>
        /\ pc[g] # "opening"
        /\ pc[g] = "off" => marker
        /\ pc[g] \in {"up", "writing"} => failed[g]

\* Nothing was ever committed to a row that does not exist.
AbsentIsEmpty == \A p \in Plans : rows[p] = Absent => total[p] = NothingConsumed

IInv == TypeOK /\ SettlementsExact /\ AbsentIsEmpty /\ WriterIsCurrent /\ GapIsKnown

LEMMA InitIInv == Init => IInv
<1>. SUFFICES ASSUME Init PROVE IInv
  OBVIOUS
<1>1. FreshWindow \in Windows
  BY DEF FreshWindow, Windows, Counts, Buckets
<1>2. NothingSettling \in Settlements
  BY <1>1 DEF NothingSettling, Settlements, Instants
<1>3. NothingConsumed \in [Buckets -> Nat]
  BY DEF NothingConsumed
<1>4. TypeOK
  BY <1>1, <1>2, <1>3 DEF Init, TypeOK
<1>. QED
  BY <1>4 DEF Init, IInv, SettlementsExact, Stored, AbsentIsEmpty,
              WriterIsCurrent, GapIsKnown

LEMMA OpenPreparesStep ==
    ASSUME IInv, NEW g \in Gateways, OpenPrepares(g)
    PROVE  IInv'
<1>. USE DEF IInv
<1>1. FreshWindow \in Windows /\ FreshWindow # Absent /\ FreshWindow # Corrupt
  BY DEF FreshWindow, Windows, Counts, Buckets
<1>2. plan[g] \in Plans
  BY DEF TypeOK
<1>3. /\ pc' = [pc EXCEPT ![g] = "up"]
      /\ failed' = [failed EXCEPT ![g] = FALSE]
      /\ saved' = [saved EXCEPT ![g] = rows'[plan[g]]]
      /\ UNCHANGED <<marker, lock, plan, settling, total, gap, settled>>
      /\ pc[g] = "opening" /\ lock = NoGateway
  BY DEF OpenPrepares, Goto, LockFree, history
<1>4. /\ rows' \in [Plans -> Windows \union {Absent, Corrupt}]
      /\ rows'[plan[g]] \in Windows
      /\ \A q \in Plans : rows'[q] = rows[q] \/ (rows[q] = Absent /\ rows'[q] = FreshWindow)
  <2>1. CASE Stored(plan[g]) /\ UNCHANGED rows
    BY <1>2, <2>1 DEF TypeOK, Stored
  <2>2. CASE rows[plan[g]] = Absent /\ rows' = [rows EXCEPT ![plan[g]] = FreshWindow]
    BY <1>1, <1>2, <2>2 DEF TypeOK
  <2>. QED
    BY <2>1, <2>2 DEF OpenPrepares
<1>5. TypeOK'
  BY <1>3, <1>4 DEF TypeOK
<1>6. SettlementsExact'
  BY <1>3, <1>4, FreshIsExact DEF SettlementsExact, AbsentIsEmpty, Stored
<1>7. AbsentIsEmpty'
  BY <1>1, <1>3, <1>4 DEF AbsentIsEmpty
<1>8. WriterIsCurrent'
  <2>1. \A h \in Gateways : pc[h] # "writing"
    BY <1>3 DEF WriterIsCurrent
  <2>. QED
    BY <1>3, <2>1 DEF WriterIsCurrent, TypeOK
<1>9. GapIsKnown'
  BY <1>3 DEF TypeOK, GapIsKnown
<1>. QED
  BY <1>5, <1>6, <1>7, <1>8, <1>9

\* A settlement begins: the row is read under the lock.
LEMMA SettleBeginsStep ==
    ASSUME IInv, NEW g \in Gateways, NEW t \in Instants, NEW n \in Amounts,
           SettleBegins(g, t, n)
    PROVE  IInv'
<1>. USE DEF IInv
<1>1. plan[g] \in Plans /\ rows[plan[g]] \in Windows /\ n \in Nat
  BY DEF SettleBegins, Stored, TypeOK
<1>2. /\ pc' = [pc EXCEPT ![g] = "writing"]
      /\ lock' = g
      /\ settling' = [settling EXCEPT ![g] = [row |-> rows[plan[g]], at |-> t, amount |-> n]]
      /\ settled' = settled + 1
      /\ UNCHANGED <<rows, marker, plan, saved, failed, total, gap>>
      /\ pc[g] = "up" /\ lock = NoGateway /\ Stored(plan[g])
  BY DEF SettleBegins, Goto, LockFree
<1>3. [row |-> rows[plan[g]], at |-> t, amount |-> n] \in Settlements
  BY <1>1 DEF Settlements
<1>4. TypeOK'
  BY <1>2, <1>3 DEF TypeOK
<1>5. SettlementsExact' /\ AbsentIsEmpty'
  BY <1>2 DEF SettlementsExact, AbsentIsEmpty, Stored
<1>6. WriterIsCurrent'
  <2>1. \A h \in Gateways : pc[h] # "writing"
    BY <1>2 DEF WriterIsCurrent
  <2>2. /\ settling'[g].row = rows[plan[g]]
        /\ \A h \in Gateways : pc'[h] = "writing" => h = g
    BY <1>2, <2>1 DEF TypeOK
  <2>. QED
    BY <1>2, <2>2 DEF WriterIsCurrent, Stored
<1>7. GapIsKnown'
  BY <1>2 DEF TypeOK, GapIsKnown
<1>. QED
  BY <1>4, <1>5, <1>6, <1>7

\* The commit: what was read is still stored, so the new row counts one
\* settlement more than the old one.
LEMMA SettleCommitsStep ==
    ASSUME IInv, NEW g \in Gateways, SettleCommits(g)
    PROVE  IInv'
<1>. USE DEF IInv
<1>. DEFINE p == plan[g]
            s == settling[g]
            row == Recorded(s.row, s.at, s.amount)
<1>1. /\ rows' = [rows EXCEPT ![p] = row]
      /\ saved' = [saved EXCEPT ![g] = row]
      /\ lock' = NoGateway
      /\ settling' = [settling EXCEPT ![g] = NothingSettling]
      /\ total' = [total EXCEPT ![p] = Consumed(@, s.at, s.amount)]
      /\ pc' = [pc EXCEPT ![g] = "up"]
      /\ UNCHANGED <<marker, plan, failed, gap, settled>>
      /\ pc[g] = "writing"
  BY DEF SettleCommits, Goto
<1>2. p \in Plans /\ s.at \in Instants /\ s.amount \in Nat /\ s.row \in Windows
  BY DEF TypeOK, Settlements
<1>3. s.row = rows[p] /\ Stored(p)
  BY <1>1 DEF WriterIsCurrent
<1>4. row \in Windows /\ row # Absent /\ row # Corrupt
  BY <1>2, RecordedIsWindow
<1>5. Consumed(total[p], s.at, s.amount) \in [Buckets -> Nat]
  <2>1. BucketOf(s.at) \in Buckets /\ total[p] \in [Buckets -> Nat]
    BY <1>2, BucketInRange DEF TypeOK
  <2>. QED
    BY <1>2, <2>1 DEF Consumed
<1>6. CountsExact(row, Consumed(total[p], s.at, s.amount))
  <2>1. total[p] \in [Buckets -> Nat] /\ CountsExact(s.row, total[p])
    BY <1>2, <1>3 DEF TypeOK, SettlementsExact
  <2>. QED
    BY <1>2, <2>1, RecordIsExact
<1>. HIDE DEF p, s, row
<1>7. NothingSettling \in Settlements
  BY DEF NothingSettling, Settlements, FreshWindow, Windows, Instants, Buckets, Counts
<1>8. TypeOK'
  BY <1>1, <1>2, <1>4, <1>5, <1>7 DEF TypeOK
<1>9. /\ rows'[p] = row /\ total'[p] = Consumed(total[p], s.at, s.amount)
      /\ \A q \in Plans : q # p => rows'[q] = rows[q] /\ total'[q] = total[q]
  BY <1>1, <1>2 DEF TypeOK
<1>10. SettlementsExact'
  BY <1>6, <1>9 DEF SettlementsExact, Stored
<1>11. AbsentIsEmpty'
  BY <1>4, <1>9 DEF AbsentIsEmpty
<1>12. WriterIsCurrent'
  <2>1. \A h \in Gateways : pc'[h] # "writing"
    BY <1>1 DEF WriterIsCurrent, TypeOK
  <2>. QED
    BY <2>1 DEF WriterIsCurrent
<1>13. GapIsKnown'
  BY <1>1 DEF TypeOK, GapIsKnown
<1>. QED
  BY <1>8, <1>10, <1>11, <1>12, <1>13

\* The steps that leave every row and every total as it is.
LEMMA OtherGatewaySteps ==
    ASSUME IInv, NEW g \in Gateways,
           \/ \E p \in Plans : OpenChecks(g, p)
           \/ OpenFails(g) \/ SettleFails(g) \/ SettleFailed(g)
           \/ ReadFails(g) \/ Ends(g)
           \/ \E t \in Instants, n \in Amounts : SettleRefused(g, t, n)
    PROVE  IInv'
<1>. USE DEF IInv
<1>. DEFINE Rest == TypeOK' /\ WriterIsCurrent' /\ GapIsKnown'
<1>1. UNCHANGED <<rows, total>>
  BY DEF OpenChecks, OpenFails, SettleFails, SettleFailed, ReadFails, Ends,
         SettleRefused, PersistenceError, store, gateway, history
<1>2. SettlementsExact' /\ AbsentIsEmpty'
  BY <1>1 DEF SettlementsExact, AbsentIsEmpty, Stored
<1>3. /\ FreshWindow \in Windows
      /\ NothingSettling \in Settlements
  BY DEF NothingSettling, Settlements, FreshWindow, Windows, Instants, Buckets, Counts
<1>. SUFFICES Rest
  BY <1>2
<1>4. ASSUME NEW p \in Plans, OpenChecks(g, p)
      PROVE  Rest
  BY <1>4 DEF OpenChecks, MarkerAllows, Goto, TypeOK, WriterIsCurrent, GapIsKnown,
              Stored, store, history
<1>5. CASE OpenFails(g)
  BY <1>5 DEF OpenFails, Goto, TypeOK, WriterIsCurrent, GapIsKnown, Stored, store,
              history
<1>6. CASE SettleFails(g)
  BY <1>6 DEF SettleFails, Goto, TypeOK, WriterIsCurrent, GapIsKnown, Stored
<1>7. CASE SettleFailed(g)
  <2>. DEFINE r == Recorded(saved[g], settling[g].at, settling[g].amount)
  <2>1. r \in Windows
    BY RecordedIsWindow DEF TypeOK, Settlements
  <2>. HIDE DEF r
  <2>2. /\ saved' = [saved EXCEPT ![g] = r]
        /\ failed' = [failed EXCEPT ![g] = TRUE]
        /\ marker' \in BOOLEAN /\ (marker => marker')
        /\ settling' = [settling EXCEPT ![g] = NothingSettling]
        /\ pc' = [pc EXCEPT ![g] = "up"]
        /\ pc[g] = "failing"
        /\ UNCHANGED <<rows, lock, plan, total, gap, settled>>
    BY <1>7 DEF SettleFailed, PersistenceError, Goto, TypeOK, r
  <2>3. TypeOK'
    BY <1>3, <2>1, <2>2 DEF TypeOK
  <2>4. WriterIsCurrent' /\ GapIsKnown'
    BY <2>2 DEF TypeOK, WriterIsCurrent, GapIsKnown, Stored
  <2>. QED
    BY <2>3, <2>4
<1>8. CASE ReadFails(g)
  <2>1. /\ failed' = [failed EXCEPT ![g] = TRUE]
        /\ marker' \in BOOLEAN /\ (marker => marker')
        /\ UNCHANGED <<rows, lock, pc, plan, saved, settling, total, gap, settled>>
    BY <1>8 DEF ReadFails, PersistenceError, history, TypeOK
  <2>. QED
    BY <2>1 DEF TypeOK, WriterIsCurrent, GapIsKnown, Stored
<1>9. CASE Ends(g)
  <2>1. /\ pc' = [pc EXCEPT ![g] = "off"]
        /\ gap' = [gap EXCEPT ![g] = @ /\ marker]
        /\ failed' = [failed EXCEPT ![g] = FALSE]
        /\ saved' = [saved EXCEPT ![g] = FreshWindow]
        /\ settling' = [settling EXCEPT ![g] = NothingSettling]
        /\ lock' = IF lock = g THEN NoGateway ELSE lock
        /\ UNCHANGED <<rows, marker, plan, total, settled>>
    BY <1>9 DEF Ends, Goto
  <2>2. gap' \in [Gateways -> BOOLEAN]
    BY <2>1, Zenon DEF TypeOK
  <2>3. TypeOK'
    BY <1>3, <2>1, <2>2 DEF TypeOK
  <2>4. WriterIsCurrent'
    BY <2>1 DEF TypeOK, WriterIsCurrent, Stored
  <2>5. GapIsKnown'
    <3>1. ASSUME NEW h \in Gateways, gap'[h]
          PROVE  gap[h] /\ (h = g => marker)
      BY <2>1, <3>1 DEF TypeOK
    <3>. QED
      BY <2>1, <3>1 DEF TypeOK, GapIsKnown
  <2>. QED
    BY <2>3, <2>4, <2>5
<1>10. ASSUME NEW t \in Instants, NEW n \in Amounts, SettleRefused(g, t, n)
       PROVE  Rest
  <2>1. [row |-> FreshWindow, at |-> t, amount |-> n] \in Settlements
    BY <1>3 DEF Settlements
  <2>2. TypeOK'
    BY <1>10, <2>1 DEF SettleRefused, Goto, TypeOK, store
  <2>. QED
    BY <1>10, <2>2 DEF SettleRefused, Goto, TypeOK, WriterIsCurrent, GapIsKnown, Stored, store
<1>. QED
  BY <1>4, <1>5, <1>6, <1>7, <1>8, <1>9, <1>10

\* A row is damaged only when nobody is writing.
LEMMA RowIsDamagedStep ==
    ASSUME IInv, NEW p \in Plans, RowIsDamaged(p)
    PROVE  IInv'
<1>. USE DEF IInv
<1>1. /\ rows' = [rows EXCEPT ![p] = Corrupt] /\ lock = NoGateway
      /\ UNCHANGED <<marker, lock, pc, plan, saved, failed, settling, total, gap, settled>>
  BY DEF RowIsDamaged, LockFree, gateway, history
<1>2. TypeOK'
  BY <1>1 DEF TypeOK
<1>3. SettlementsExact' /\ AbsentIsEmpty'
  BY <1>1 DEF SettlementsExact, AbsentIsEmpty, Stored, TypeOK
<1>4. WriterIsCurrent' /\ GapIsKnown'
  BY <1>1 DEF WriterIsCurrent, GapIsKnown
<1>. QED
  BY <1>2, <1>3, <1>4

LEMMA Step == IInv /\ [Next]_vars => IInv'
<1>. SUFFICES ASSUME IInv, [Next]_vars PROVE IInv'
  OBVIOUS
<1>1. CASE UNCHANGED vars
  BY <1>1 DEF vars, store, gateway, history, IInv, TypeOK, SettlementsExact,
              AbsentIsEmpty, WriterIsCurrent, GapIsKnown, Stored
<1>2. CASE Next
  BY <1>2, OpenPreparesStep, SettleBeginsStep, SettleCommitsStep, OtherGatewaySteps,
     RowIsDamagedStep DEF Next
<1>. QED
  BY <1>1, <1>2

-----------------------------------------------------------------------------
(* Theorems.                                                               *)

\* The inductive invariant of the quota store.
THEOREM StoreInvariant == Spec => []IInv
<1>. QED
  BY InitIInv, Step, PTL DEF Spec

\* Every variable of the quota store keeps its type: counts saturate, buckets
\* stay within the instance.
THEOREM TypeCorrect == Spec => []TypeOK
<1>1. IInv => TypeOK
  BY DEF IInv
<1>. QED
  BY <1>1, StoreInvariant, PTL

\* record_settled loses nothing: a row counts exactly what all Gateways
\* committed to it, late settlements in the bucket they belong to.
THEOREM NoSettlementIsLost == Spec => []SettlementsExact
<1>1. IInv => SettlementsExact
  BY DEF IInv
<1>. QED
  BY <1>1, StoreInvariant, PTL

\* persistence_error stops quota routing for good: a Gateway that misses one of
\* its settlements reports the account exhausted, after a restart too.
THEOREM GapsStopRouting == Spec => []GapStopsRouting
<1>1. IInv => GapStopsRouting
  BY DEF IInv, GapIsKnown, GapStopsRouting, Exhausted
<1>. QED
  BY <1>1, StoreInvariant, PTL

\* effective_used reads, for every period and any order of settlements, as the
\* two-bucket estimate over everything ever committed.
THEOREM UsedIsEstimated == Spec => []UsedIsTheEstimate
<1>1. IInv => UsedIsTheEstimate
  BY UsedFromExactCounts DEF IInv, TypeOK, SettlementsExact, UsedIsTheEstimate, Stored
<1>. QED
  BY <1>1, StoreInvariant, PTL

\* effective_used after a wall-clock correction: no reading at an earlier
\* instant shows less consumption.
THEOREM RollbackIsSafe == Spec => []RollbackFreesNothing
<1>1. IInv => RollbackFreesNothing
  BY UsedFalls DEF IInv, TypeOK, RollbackFreesNothing, Stored
<1>. QED
  BY <1>1, StoreInvariant, PTL

-----------------------------------------------------------------------------
(* Admission.                                                              *)

\* Every variable of the gate keeps its type; in particular the AtomicU32 never
\* goes below 0, where fetch_sub would wrap.  CounterExact is needed for that:
\* it is the holder of a permit that makes the counter positive.
GateInv == AdmissionTypeOK /\ CounterExact

\* The permits in existence form a finite set.
LEMMA HoldersFinite == IsFiniteSet(Holders)
BY AdmissionAssumption, FS_Subset DEF Holders

\* A step that changes nobody's "held" changes neither Holders nor its size.
LEMMA HoldersUnchanged ==
    ASSUME AdmissionTypeOK, AdmissionTypeOK', \A c \in Callers : loc'[c] = "held" <=> loc[c] = "held"
    PROVE  Holders' = Holders
BY DEF Holders

\* A successful exchange adds its caller to the holders.
LEMMA HoldersAdd ==
    ASSUME AdmissionTypeOK, NEW c \in Callers, loc[c] # "held",
           loc' = [loc EXCEPT ![c] = "held"]
    PROVE  Cardinality(Holders') = Cardinality(Holders) + 1
<1>1. Holders' = Holders \union {c}
  BY DEF AdmissionTypeOK, Holders
<1>2. c \notin Holders
  BY DEF Holders
<1> QED BY <1>1, <1>2, HoldersFinite, FS_AddElement

\* Permit::drop removes its caller from the holders, of whom there was one.
LEMMA HoldersRemove ==
    ASSUME AdmissionTypeOK, NEW c \in Callers, loc[c] = "held",
           loc' = [loc EXCEPT ![c] = "out"]
    PROVE  /\ Cardinality(Holders') = Cardinality(Holders) - 1
           /\ Cardinality(Holders) \in Nat \ {0}
<1>1. Holders' = Holders \ {c}
  BY DEF AdmissionTypeOK, Holders
<1>2. c \in Holders
  BY DEF Holders
<1>3. Cardinality(Holders) \in Nat
  BY HoldersFinite, FS_CardinalityType
<1>4. Cardinality(Holders) # 0
  BY <1>2, HoldersFinite, FS_EmptySet
<1> QED BY <1>1, <1>2, <1>3, <1>4, HoldersFinite, FS_RemoveElement

\* A new gate has no permits out.
LEMMA InitGateInv == AdmissionInit => GateInv
<1> SUFFICES ASSUME AdmissionInit PROVE GateInv
  OBVIOUS
<1>1. AdmissionTypeOK
  BY DEF AdmissionInit, AdmissionTypeOK
<1>2. Holders = {}
  BY DEF AdmissionInit, Holders
<1>3. CounterExact
  BY <1>2, FS_EmptySet, AdmissionAssumption DEF AdmissionInit, CounterExact
<1> QED BY <1>1, <1>3 DEF GateInv

\* Every step of every caller preserves the invariant.
LEMMA NextGateInv == GateInv /\ [AdmissionNext]_admissionVars => GateInv'
<1> SUFFICES ASSUME GateInv, [AdmissionNext]_admissionVars PROVE GateInv'
  OBVIOUS
<1> USE AdmissionAssumption
<1>1. CASE UNCHANGED admissionVars
  BY <1>1 DEF admissionVars, GateInv, AdmissionTypeOK, CounterExact, Holders
<1>2. ASSUME NEW c \in Callers, Call(c) PROVE GateInv'
  <2>1. CASE TakeNothing(c)
    <3>1. AdmissionTypeOK'
      BY <2>1 DEF GateInv, AdmissionTypeOK, TakeNothing, Moves
    <3>2. Holders' = Holders
      BY <2>1, <3>1, HoldersUnchanged DEF GateInv, AdmissionTypeOK, TakeNothing, Moves
    <3> QED BY <2>1, <3>1, <3>2 DEF GateInv, CounterExact, TakeNothing
  <2>2. CASE Load(c)
    <3>1. AdmissionTypeOK'
      BY <2>2 DEF GateInv, AdmissionTypeOK, Load, Moves
    <3>2. Holders' = Holders
      BY <2>2, <3>1, HoldersUnchanged DEF GateInv, AdmissionTypeOK, Load, Moves
    <3> QED BY <2>2, <3>1, <3>2 DEF GateInv, CounterExact, Load
  <2>3. CASE Full(c)
    <3>1. AdmissionTypeOK'
      BY <2>3 DEF GateInv, AdmissionTypeOK, Full, Moves, Forget
    <3>2. Holders' = Holders
      BY <2>3, <3>1, HoldersUnchanged DEF GateInv, AdmissionTypeOK, Full, Moves
    <3> QED BY <2>3, <3>1, <3>2 DEF GateInv, CounterExact, Full
  <2>4. CASE Exchange(c)
    <3>1. AdmissionTypeOK'
      BY <2>4 DEF GateInv, AdmissionTypeOK, Exchange, Moves, Forget
    <3>2. Cardinality(Holders') = Cardinality(Holders) + 1
      BY <2>4, HoldersAdd DEF GateInv, Exchange, Moves
    <3>3. counter' = counter + 1 /\ counter < limit /\ limit' = limit
      BY <2>4 DEF Exchange
    <3>4. counter \in Nat /\ limit \in Nat
      BY DEF GateInv, AdmissionTypeOK
    <3>5. CounterExact'
      BY <3>2, <3>3, <3>4 DEF GateInv, CounterExact
    <3> QED BY <3>1, <3>5 DEF GateInv
  <2>5. CASE ExchangeFails(c)
    <3>1. AdmissionTypeOK'
      BY <2>5 DEF GateInv, AdmissionTypeOK, ExchangeFails
    <3>2. Holders' = Holders
      BY <2>5 DEF Holders, ExchangeFails
    <3> QED BY <2>5, <3>1, <3>2 DEF GateInv, CounterExact, ExchangeFails
  <2>6. CASE Drop(c)
    <3>1. /\ Cardinality(Holders') = Cardinality(Holders) - 1
          /\ Cardinality(Holders) \in Nat \ {0}
      BY <2>6, HoldersRemove DEF GateInv, Drop, Moves
    <3>2. AdmissionTypeOK'
      BY <2>6, <3>1 DEF GateInv, CounterExact, AdmissionTypeOK, Drop, Moves
    <3> QED BY <2>6, <3>1, <3>2 DEF GateInv, CounterExact, AdmissionTypeOK, Drop
  <2>7. CASE Refused(c)
    <3>1. AdmissionTypeOK'
      BY <2>7 DEF GateInv, AdmissionTypeOK, Refused, Moves
    <3>2. Holders' = Holders
      BY <2>7, <3>1, HoldersUnchanged DEF GateInv, AdmissionTypeOK, Refused, Moves
    <3> QED BY <2>7, <3>1, <3>2 DEF GateInv, CounterExact, Refused
  <2> QED BY <1>2, <2>1, <2>2, <2>3, <2>4, <2>5, <2>6, <2>7 DEF Call
<1> QED BY <1>1, <1>2 DEF AdmissionNext

\* The gate keeps its invariant.
THEOREM GateInvariant == AdmissionSpec => []GateInv
BY InitGateInv, NextGateInv, PTL DEF AdmissionSpec

\* The counter of admission.rs is exactly the number of permits in existence and
\* never passes the limit.
THEOREM CounterIsExact == AdmissionSpec => []CounterExact
<1>1. GateInv => CounterExact
  BY DEF GateInv
<1> QED BY <1>1, GateInvariant, PTL

-----------------------------------------------------------------------------
(* try_take implements the atomic gate.                                    *)

\* The abstract gate counts as the detailed one does.
LEMMA SameCardinality == \A S : Gate!Cardinality(S) = Cardinality(S)
BY DEF Gate!Cardinality, Cardinality

\* The callers the abstract gate holds a permit for are the holders.
LEMMA SameHolders == AdmissionTypeOK => Gate!Held = Holders
BY DEF AdmissionTypeOK, Gate!Held, Holders

\* A new counter is a new abstract gate.
LEMMA InitGate == AdmissionInit => Gate!GateInit
BY AdmissionAssumption DEF AdmissionInit, Gate!GateInit

\* Every step of a caller is a step of the abstract gate or changes nothing the
\* gate shows: the load or the failed exchange that meets a full counter is the
\* refusal, the successful exchange is the admission.
LEMMA NextGate ==
    GateInv /\ GateInv' /\ [AdmissionNext]_admissionVars => [Gate!GateNext]_(Gate!gateVars)
<1> SUFFICES ASSUME GateInv, GateInv', [AdmissionNext]_admissionVars
             PROVE  [Gate!GateNext]_(Gate!gateVars)
  OBVIOUS
<1> USE AdmissionAssumption
<1>1. CASE UNCHANGED admissionVars
  BY <1>1 DEF admissionVars, Gate!gateVars
<1>2. ASSUME NEW c \in Callers, Call(c) PROVE [Gate!GateNext]_(Gate!gateVars)
  <2>0. /\ Gate!Cardinality(Gate!Held) = counter /\ counter <= limit
        /\ counter \in Nat /\ limit \in Nat
    BY SameHolders, SameCardinality DEF GateInv, CounterExact, AdmissionTypeOK
  <2>loc. /\ loc \in [Callers -> {"out", "loop", "held", "refused"}]
          /\ current \in [Callers -> Nat]
    BY DEF GateInv, AdmissionTypeOK
  <2>1. CASE TakeNothing(c)
    <3>1. /\ loc[c] = "out" /\ loc' = [loc EXCEPT ![c] = "refused"]
          /\ limit' = limit /\ current' = current /\ limit = 0
      BY <2>1 DEF TakeNothing, Moves
    <3>2. Gate!Cardinality(Gate!Held) >= limit
      BY <2>0, <3>1
    <3>3. Gate!Refuse(c)
      BY <2>loc, <3>1, <3>2 DEF Gate!Refuse
    <3> QED BY <3>3 DEF Gate!GateNext
  <2>2. CASE Load(c)
    <3>1. CASE counter >= limit
      <4>1. Gate!Refuse(c)
        BY <2>0, <2>2, <3>1 DEF Gate!Refuse, GateInv, AdmissionTypeOK, Load, Moves
      <4> QED BY <4>1 DEF Gate!GateNext
    <3>2. CASE counter < limit
      BY <2>0, <2>2, <3>2 DEF Gate!gateVars, GateInv, AdmissionTypeOK, Load, Moves
    <3> QED BY <2>0, <3>1, <3>2
  <2>3. CASE Full(c)
    BY <2>0, <2>3 DEF Gate!gateVars, GateInv, AdmissionTypeOK, Full, Moves, Forget
  <2>4. CASE Exchange(c)
    <3>1. /\ loc[c] = "loop" /\ loc' = [loc EXCEPT ![c] = "held"]
          /\ current[c] = counter /\ counter < limit
          /\ limit' = limit /\ current' = [current EXCEPT ![c] = 0]
      BY <2>4 DEF Exchange, Moves, Forget
    <3>2. Gate!Cardinality(Gate!Held) < limit /\ ~(current[c] >= limit)
      BY <2>0, <3>1
    <3>3. Gate!Admit(c)
      BY <2>loc, <3>1, <3>2 DEF Gate!Admit
    <3> QED BY <3>3 DEF Gate!GateNext
  <2>5. CASE ExchangeFails(c)
    <3>1. CASE counter >= limit
      <4>1. /\ loc[c] = "loop" /\ loc' = loc /\ ~(current[c] >= limit)
            /\ limit' = limit /\ current' = [current EXCEPT ![c] = counter]
        BY <2>0, <2>loc, <2>5 DEF ExchangeFails
      <4>2. Gate!Cardinality(Gate!Held) >= limit
        BY <2>0, <3>1
      <4>3. Gate!Refuse(c)
        BY <2>loc, <3>1, <4>1, <4>2 DEF Gate!Refuse
      <4> QED BY <4>3 DEF Gate!GateNext
    <3>2. CASE counter < limit
      BY <2>0, <2>5, <3>2 DEF Gate!gateVars, GateInv, AdmissionTypeOK, ExchangeFails
    <3> QED BY <2>0, <3>1, <3>2
  <2>6. CASE Drop(c)
    <3>1. Gate!Leave(c)
      BY <2>0, <2>6 DEF Gate!Leave, GateInv, AdmissionTypeOK, Drop, Moves
    <3> QED BY <3>1 DEF Gate!GateNext
  <2>7. CASE Refused(c)
    <3>1. Gate!Leave(c)
      BY <2>0, <2>7 DEF Gate!Leave, GateInv, AdmissionTypeOK, Refused, Moves
    <3> QED BY <3>1 DEF Gate!GateNext
  <2> QED BY <1>2, <2>1, <2>2, <2>3, <2>4, <2>5, <2>6, <2>7 DEF Call
<1> QED BY <1>1, <1>2 DEF AdmissionNext

\* try_take is one atomic step to its callers, for every number of threads and
\* every limit: the refinement that lets AttemptMachine treat it as one.
THEOREM TryTakeIsAtomic == AdmissionSpec => TakesAreAtomic
BY InitGate, NextGate, GateInvariant, PTL DEF AdmissionSpec, TakesAreAtomic, Gate!GateSpec

=============================================================================
