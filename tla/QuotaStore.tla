----------------------------- MODULE QuotaStore -----------------------------
(***************************************************************************)
(* The persisted quota of one account (quota_tracker.rs): several          *)
(* Gateways, in one process or several, count consumption in one           *)
(* quota.sqlite and must neither lose a settlement of another nor route on *)
(* a count that misses one of their own.                                   *)
(*                                                                         *)
(* A row belongs to a plan of the account.  SQLite is external: a write    *)
(* transaction holds its lock from BEGIN IMMEDIATE to the end, a reader    *)
(* sees the last commit, and any statement may fail.  The quota mutex of a *)
(* Gateway is held over a whole settlement, so its own reads never fall    *)
(* between two steps of one.  The instant of a settlement is taken before  *)
(* the mutex from a wall clock that may be corrected: it is any instant.   *)
(*                                                                         *)
(* One window stands for all of a plan's, the rate window included: each   *)
(* is counted by itself.  An attempt settles once, under a receipt of its  *)
(* own, so the receipts a row remembers turn none away and are left out.   *)
(***************************************************************************)
EXTENDS QuotaWindow, FiniteSets

CONSTANTS Gateways,
          Plans,
          LimitOf,        \* the allowance of a plan's window
          MaxRows,        \* MAX_QUOTA_ACCOUNTS
          Amounts,        \* what a settlement may count
          Absent,         \* no row
          Corrupt,        \* a row that does not load
          NoGateway,
          MaxSettlements  \* bound on the settlements of an instance

ASSUME StoreAssumption ==
    /\ LimitOf \in [Plans -> Nat]
    /\ MaxRows \in Nat
    /\ Amounts \subseteq Nat
    /\ Absent \notin Windows /\ Corrupt \notin Windows /\ Absent # Corrupt
    /\ NoGateway \notin Gateways
    /\ MaxSettlements \in Nat

VARIABLES
    rows,     \* quota_accounts: a row per plan
    marker,   \* the file quota-state-unavailable exists
    lock,     \* the Gateway in a write transaction
    pc,       \* Gateway: off, opening, up, writing, failing
    plan,     \* its TrackedAccount's plan
    saved,    \* its in-memory copy of the row
    failed,   \* persistence_failed
    settling, \* the settlement in progress: row read, instant, amount
    (* History. *)
    total,    \* consumption committed to a plan's row, by bucket
    gap,      \* a settlement of this Gateway is not in the store
    settled   \* settlements begun

store == <<rows, marker, lock>>
gateway == <<pc, plan, saved, failed, settling>>
history == <<total, gap, settled>>
vars == <<store, gateway, history>>

NothingSettling == [row |-> FreshWindow, at |-> 0, amount |-> 0]

Goto(g, l) == pc' = [pc EXCEPT ![g] = l]

Stored(p) == rows[p] \notin {Absent, Corrupt}

\* Mutant of LockFree: a deferred transaction reads without the write lock.
LockIgnored == TRUE

\* A write transaction can begin: nobody else is in one.
LockFree == lock = NoGateway

-----------------------------------------------------------------------------
(* QuotaTracker::persistent.                                               *)

\* Mutant of MarkerAllows: the marker is not looked at.
MarkerIgnored == TRUE

\* QuotaStore::open refuses while the failure marker exists.
MarkerAllows == ~marker

OpenChecks(g, p) ==
    /\ pc[g] = "off"
    /\ MarkerAllows
    /\ plan' = [plan EXCEPT ![g] = p]
    /\ Goto(g, "opening")
    /\ UNCHANGED <<store, saved, failed, settling, history>>

\* prepare, in one transaction: the plan's row is loaded, or a fresh one is
\* inserted while the table has room.
OpenPrepares(g) ==
    LET p == plan[g] IN
    /\ pc[g] = "opening"
    /\ LockFree
    /\ \/ Stored(p) /\ UNCHANGED rows
       \/ /\ rows[p] = Absent
          /\ Cardinality({q \in Plans : rows[q] # Absent}) < MaxRows
          /\ rows' = [rows EXCEPT ![p] = FreshWindow]
    /\ saved' = [saved EXCEPT ![g] = rows'[p]]
    /\ failed' = [failed EXCEPT ![g] = FALSE]
    /\ Goto(g, "up")
    /\ UNCHANGED <<marker, lock, plan, settling, history>>

\* Any error of open or prepare: there is no Gateway.
OpenFails(g) ==
    /\ pc[g] = "opening"
    /\ Goto(g, "off")
    /\ UNCHANGED <<store, plan, saved, failed, settling, history>>

-----------------------------------------------------------------------------
(* record_settled.                                                         *)

\* BEGIN IMMEDIATE and load.
SettleBegins(g, t, n) ==
    /\ pc[g] = "up"
    /\ LockFree
    /\ Stored(plan[g])
    /\ settled < MaxSettlements
    /\ settled' = settled + 1
    /\ lock' = g
    /\ settling' = [settling EXCEPT ![g] = [row |-> rows[plan[g]], at |-> t, amount |-> n]]
    /\ Goto(g, "writing")
    /\ UNCHANGED <<rows, marker, plan, saved, failed, total, gap>>

\* UPDATE and COMMIT; the committed row becomes the copy in memory.
SettleCommits(g) ==
    LET s == settling[g]
        row == Recorded(s.row, s.at, s.amount)
    IN  /\ pc[g] = "writing"
        /\ rows' = [rows EXCEPT ![plan[g]] = row]
        /\ saved' = [saved EXCEPT ![g] = row]
        /\ lock' = NoGateway
        /\ settling' = [settling EXCEPT ![g] = NothingSettling]
        /\ total' = [total EXCEPT ![plan[g]] = Consumed(@, s.at, s.amount)]
        /\ Goto(g, "up")
        /\ UNCHANGED <<marker, plan, failed, gap, settled>>

\* The transaction could not begin, or the row does not load.
SettleRefused(g, t, n) ==
    /\ pc[g] = "up"
    /\ settled < MaxSettlements
    /\ settled' = settled + 1
    /\ settling' = [settling EXCEPT ![g] = [row |-> FreshWindow, at |-> t, amount |-> n]]
    /\ gap' = [gap EXCEPT ![g] = TRUE]
    /\ Goto(g, "failing")
    /\ UNCHANGED <<store, plan, saved, failed, total>>

\* UPDATE or COMMIT failed: the transaction is rolled back.
SettleFails(g) ==
    /\ pc[g] = "writing"
    /\ lock' = NoGateway
    /\ gap' = [gap EXCEPT ![g] = TRUE]
    /\ Goto(g, "failing")
    /\ UNCHANGED <<rows, marker, plan, saved, failed, settling, total, settled>>

\* persistence_error: the first one of a Gateway leaves the marker, if it can.
PersistenceError(g) ==
    /\ failed' = [failed EXCEPT ![g] = TRUE]
    /\ marker' \in IF failed[g] THEN {marker} ELSE {marker, TRUE}

\* The settlement is counted in memory alone.
SettleFailed(g) ==
    LET s == settling[g] IN
    /\ pc[g] = "failing"
    /\ PersistenceError(g)
    /\ saved' = [saved EXCEPT ![g] = Recorded(@, s.at, s.amount)]
    /\ settling' = [settling EXCEPT ![g] = NothingSettling]
    /\ Goto(g, "up")
    /\ UNCHANGED <<rows, lock, plan, total, gap, settled>>

-----------------------------------------------------------------------------
(* Reading, ending, and what others do to the file.                        *)

\* current_saved could not read the row.
ReadFails(g) ==
    /\ pc[g] = "up"
    /\ PersistenceError(g)
    /\ UNCHANGED <<rows, lock, pc, plan, saved, settling, history>>

\* A Gateway is dropped, or its process dies; a transaction is rolled back.
\* Without a marker nothing is left of what it knew.
Ends(g) ==
    /\ pc[g] # "off"
    /\ lock' = IF lock = g THEN NoGateway ELSE lock
    /\ failed' = [failed EXCEPT ![g] = FALSE]
    /\ saved' = [saved EXCEPT ![g] = FreshWindow]
    /\ settling' = [settling EXCEPT ![g] = NothingSettling]
    /\ Goto(g, "off")
    /\ gap' = [gap EXCEPT ![g] = @ /\ marker]
    /\ UNCHANGED <<rows, marker, plan, total, settled>>

\* Another program damages a row.
RowIsDamaged(p) ==
    /\ LockFree
    /\ Stored(p)
    /\ rows' = [rows EXCEPT ![p] = Corrupt]
    /\ UNCHANGED <<marker, lock, gateway, history>>

-----------------------------------------------------------------------------
Init ==
    /\ rows = [p \in Plans |-> Absent]
    /\ marker = FALSE
    /\ lock = NoGateway
    /\ pc = [g \in Gateways |-> "off"]
    /\ plan \in [Gateways -> Plans]
    /\ saved = [g \in Gateways |-> FreshWindow]
    /\ failed = [g \in Gateways |-> FALSE]
    /\ settling = [g \in Gateways |-> NothingSettling]
    /\ total = [p \in Plans |-> NothingConsumed]
    /\ gap = [g \in Gateways |-> FALSE]
    /\ settled = 0

Next ==
    \/ \E g \in Gateways :
         \/ \E p \in Plans : OpenChecks(g, p)
         \/ OpenPrepares(g) \/ OpenFails(g)
         \/ \E t \in Instants, n \in Amounts :
              SettleBegins(g, t, n) \/ SettleRefused(g, t, n)
         \/ SettleCommits(g) \/ SettleFails(g) \/ SettleFailed(g)
         \/ ReadFails(g) \/ Ends(g)
    \/ \E p \in Plans : RowIsDamaged(p)

Spec == Init /\ [][Next]_vars

-----------------------------------------------------------------------------
(* What the router is told.                                                *)

\* current_ledger: the row as committed, the copy when it cannot be read.
CurrentWindow(g) == IF Stored(plan[g]) THEN rows[plan[g]] ELSE saved[g]

\* quota_state(..).exhausted, without the cooldowns and provider readings: they
\* replace the first disjunct or add to it, never to the second.
Exhausted(g, t) ==
    \/ RemainingPermille(CurrentWindow(g), t, LimitOf[plan[g]]) = 0
    \/ failed[g] \/ ~Stored(plan[g])

-----------------------------------------------------------------------------
Settlements == [row : Windows, at : Instants, amount : Nat]

TypeOK ==
    /\ rows \in [Plans -> Windows \union {Absent, Corrupt}]
    /\ marker \in BOOLEAN
    /\ lock \in Gateways \union {NoGateway}
    /\ pc \in [Gateways -> {"off", "opening", "up", "writing", "failing"}]
    /\ plan \in [Gateways -> Plans]
    /\ saved \in [Gateways -> Windows]
    /\ failed \in [Gateways -> BOOLEAN]
    /\ settling \in [Gateways -> Settlements]
    /\ total \in [Plans -> [Buckets -> Nat]]
    /\ gap \in [Gateways -> BOOLEAN]
    /\ settled \in Nat

\* "Transactional snapshots avoid overwriting settlements from another Gateway":
\* whichever Gateways settle, in whatever order and however late, a row counts
\* exactly what was committed to it.
SettlementsExact == \A p \in Plans : Stored(p) => CountsExact(rows[p], total[p])

\* The same through effective_used: at every instant the buckets reach, the
\* window reads as the estimate over everything ever committed.
UsedIsTheEstimate ==
    \A p \in Plans : Stored(p) =>
        \A t \in Instants : BucketOf(t) >= rows[p].index =>
            EffectiveUsed(rows[p], t) = Estimate(total[p], t)

\* "A wall-clock correction must not expose consumed quota as available": of two
\* readings of a row the one at the earlier instant shows no less consumption.
RollbackFreesNothing ==
    \A p \in Plans : Stored(p) =>
        \A t, u \in Instants : t <= u =>
            EffectiveUsed(rows[p], t) >= EffectiveUsed(rows[p], u)

\* "Quota routing is paused" and stays so over a restart: no Gateway answers
\* with quota to spend when a settlement of its own is missing in the store,
\* unless it ended before the marker was left or the marker could not be written.
GapStopsRouting ==
    \A g \in Gateways :
        pc[g] = "up" /\ gap[g] => \A t \in Instants : Exhausted(g, t)
=============================================================================
