---------------------------- MODULE QuotaWindow ----------------------------
(***************************************************************************)
(* SlidingWindow (quota_ledger.rs): consumption of a fixed period counted  *)
(* in two buckets.  The bucket of an instant is its quotient by the        *)
(* period, so nothing ever resets a window but the next record.            *)
(*                                                                         *)
(* The instants 0..Horizon bound the wall clock of an instance, which may  *)
(* be corrected in both directions; the period and the u64 maximum are     *)
(* parameters.                                                             *)
(***************************************************************************)
EXTENDS Integers

CONSTANTS Period,   \* len_ms
          Horizon,  \* the last instant of an instance
          MaxCount  \* u64::MAX, where the counts saturate

ASSUME WindowAssumption ==
    /\ Period \in Nat \ {0}
    /\ Horizon \in Nat
    /\ MaxCount \in Nat

Instants == 0..Horizon
Buckets == 0..Horizon
Counts == 0..MaxCount
Windows == [index : Buckets, curr : Counts, prev : Counts]

Capped(n) == IF n <= MaxCount THEN n ELSE MaxCount

\* saturating_add.
SatAdd(m, n) == Capped(m + n)

FreshWindow == [index |-> 0, curr |-> 0, prev |-> 0]

\* index_at.
BucketOf(t) == t \div Period

\* advance: the buckets roll forward to the instant, never back.
Advanced(w, t) ==
    IF BucketOf(t) <= w.index THEN w
    ELSE [index |-> BucketOf(t),
          curr |-> 0,
          prev |-> IF BucketOf(t) = w.index + 1 THEN w.curr ELSE 0]

\* SlidingWindow::record: an event older than both buckets has aged out.
Recorded(w, t, n) ==
    LET v == Advanced(w, t)
        b == BucketOf(t)
    IN  IF b = v.index THEN [v EXCEPT !.curr = SatAdd(@, n)]
        ELSE IF b + 1 = v.index THEN [v EXCEPT !.prev = SatAdd(@, n)]
        ELSE v

\* Part of a bucket that the window reaching back from t still covers.
Decayed(n, t) == (n * (Period - (t % Period))) \div Period

\* Mutant of EffectiveUsed: an instant before the live bucket reads as empty.
EffectiveUsedForgets(w, t) ==
    LET b == BucketOf(t) IN
    IF b = w.index THEN SatAdd(w.curr, Decayed(w.prev, t))
    ELSE IF b = w.index + 1 THEN Decayed(w.curr, t)
    ELSE 0

\* Mutant of EffectiveUsed: a window nobody recorded in does not roll forward.
EffectiveUsedUnrolled(w, t) ==
    IF BucketOf(t) < w.index THEN SatAdd(w.curr, w.prev)
    ELSE SatAdd(w.curr, Decayed(w.prev, t))

\* effective_used; a clock corrected back sees both buckets in full.
EffectiveUsed(w, t) ==
    LET b == BucketOf(t) IN
    IF b < w.index THEN SatAdd(w.curr, w.prev)
    ELSE IF b = w.index THEN SatAdd(w.curr, Decayed(w.prev, t))
    ELSE IF b = w.index + 1 THEN Decayed(w.curr, t)
    ELSE 0

\* remaining_permille.
RemainingPermille(w, t, limit) ==
    IF limit = 0 THEN 0
    ELSE LET used == EffectiveUsed(w, t) IN
         IF used >= limit THEN 0 ELSE ((limit - used) * 1000) \div limit

-----------------------------------------------------------------------------
(* What a window stands for.  total[b] is all that was ever consumed in    *)
(* bucket b.                                                               *)

NothingConsumed == [b \in Buckets |-> 0]

Consumed(total, t, n) == [total EXCEPT ![BucketOf(t)] = @ + n]

BucketTotal(total, b) == IF b < 0 THEN 0 ELSE Capped(total[b])

\* Both counts are the totals of their buckets and nothing is newer.
CountsExact(w, total) ==
    /\ w.curr = BucketTotal(total, w.index)
    /\ w.prev = BucketTotal(total, w.index - 1)
    /\ \A b \in Buckets : b > w.index => total[b] = 0

\* The documented estimate, from the totals: the bucket of t, and the one
\* before it weighted by what is left of it.
Estimate(total, t) ==
    SatAdd(BucketTotal(total, BucketOf(t)),
           Decayed(BucketTotal(total, BucketOf(t) - 1), t))
=============================================================================
