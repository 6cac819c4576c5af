-------------------------- MODULE AgentTransaction --------------------------
(***************************************************************************)
(* Connecting a local Agent to Token Station and taking the connection     *)
(* back (agent_integration/): several configuration files of another       *)
(* program are rewritten together, with an encrypted snapshot of each and  *)
(* an ownership record of what was written.  Plans are prepared against    *)
(* one revision of the files and applied later, one at a time under        *)
(* operation_lock; force_forget, snapshot maintenance, the user's own      *)
(* edits and the end of the process take no part in that lock.             *)
(*                                                                         *)
(* A document is what lies at the owned paths and the rest of its text; a  *)
(* revision hash is the document.  File 0 is the primary one.              *)
(***************************************************************************)
EXTENDS Integers

CONSTANTS Companions, \* companion files beside the primary one
          MaxOps,     \* bound on the operation ids of an instance
          MaxEvents   \* bound on failures, edits, crashes, retention and force_forgets together

ASSUME AgentAssumption == Companions \in Nat /\ MaxOps \in Nat /\ MaxEvents \in Nat

Files == 0..Companions
Ops == 1..MaxOps

\* Values at the owned paths: none, the user's, those of connect, of a refresh.
Values == {"none", "user", "station", "refreshed"}
NoFile == [own |-> "none", rest |-> "missing"]
Docs == [own : Values, rest : {"empty", "text"}] \union {NoFile}
UserDoc == [own |-> "user", rest |-> "text"]

NoSnapshot == [doc |-> NoFile, pinned |-> FALSE, exists |-> FALSE]
NoRecord == [revision |-> 0]
NoPlan == [kind |-> "none"]
NoRun == [op |-> 0, pc |-> "idle", at |-> 0, result |-> "untouched"]
NoForget == [pc |-> "idle"]

VARIABLES
    file,     \* the Agent's files
    snapshot, \* the snapshot store: operation and file to snapshot
    record,   \* the ownership record of the installation
    plan,     \* prepared plans, from their issue to the end of their transaction
    lastOp,   \* the last operation id given out
    run,      \* the transaction that holds operation_lock
    forget,   \* force_forget
    events,   \* how many of those there were
    mine,     \* history: files as the transaction wrote them
    touched,  \* history: files others wrote since it began
    lost      \* history: retention took a snapshot of it (the clock was set)

fileHistory == <<mine, touched, lost>>
agentVars == <<file, snapshot, record, plan, lastOp, run, forget, events, fileHistory>>

-----------------------------------------------------------------------------
(* Plans (plan.rs).                                                        *)

\* connect_patch writes the owned paths and leaves the rest.
Managed(d, v) == [own |-> v, rest |-> IF d = NoFile THEN "empty" ELSE d.rest]

\* The owned paths of the snapshot are put back into the current document; a
\* file that was not there goes again if nothing but our revision is in it.
Projected(d, source, managedAfter) ==
    IF source = NoFile /\ d = managedAfter /\ d.rest \in {"empty", "missing"}
    THEN NoFile
    ELSE Managed(d, source.own)

Loaded(n) == \A f \in Files : snapshot[n][f].exists
Source(n) == [f \in Files |-> snapshot[n][f].doc]

\* owned_values_changed: what is at the owned paths is what the record says, or
\* what the plan is about to write.
OwnedAsKnown(owned, after, now) ==
    \A f \in Files : now[f].own \in {owned[f], after[f].own}

Issued(kind, after) ==
    /\ lastOp < MaxOps
    /\ lastOp' = lastOp + 1
    /\ plan' = [plan EXCEPT ![lastOp + 1] =
                  [kind |-> kind, before |-> file, after |-> after, bound |-> record]]
    /\ UNCHANGED <<file, snapshot, record, run, forget, events, fileHistory>>

\* plan_connection: refused while the installation is owned.
PlanConnect ==
    /\ record = NoRecord
    /\ Issued("connect", [f \in Files |-> Managed(file[f], "station")])

PutBack(n) == [f \in Files |-> Projected(file[f], Source(n)[f], record.after[f])]

\* plan_disconnect: back to the baseline.
PlanDisconnect ==
    /\ record # NoRecord /\ Loaded(record.base)
    /\ OwnedAsKnown(record.owned, Source(record.base), file)
    /\ Issued("disconnect", PutBack(record.base))

\* plan_restore: back to the snapshot of any operation, and still connected.
PlanRestore(n) ==
    /\ record # NoRecord /\ Loaded(n)
    /\ OwnedAsKnown(record.owned, Source(n), file)
    /\ Issued("restore", PutBack(n))

\* refresh_model_metadata prepares and applies by itself.
PlanRefresh ==
    /\ record # NoRecord
    /\ Issued("restore", [f \in Files |-> Managed(file[f], "refreshed")])

\* discard_plan, prune_expired, and every check of apply_from_cached_scan and of
\* apply_prepared that turns a taken plan down before it is consumed.
DropPlan(n) ==
    /\ plan[n] # NoPlan /\ run.op # n
    /\ plan' = [plan EXCEPT ![n] = NoPlan]
    /\ UNCHANGED <<file, snapshot, record, lastOp, run, forget, events, fileHistory>>

-----------------------------------------------------------------------------
(* The transaction (apply_prepared).                                       *)

running == plan[run.op]

\* What goes wrong counts against the bound.
Fault(happens) ==
    /\ events' = events + (IF happens THEN 1 ELSE 0)
    /\ events' <= MaxEvents

Event == Fault(TRUE)

\* Mutant of Writable: the revision is not compared again.
WritableUnchecked(f, expected, new) == ~(new = NoFile /\ file[f] = NoFile)

\* FsAtomicConfigWriter compares the revision before it replaces a file; there is
\* nothing to remove when the file is missing.
Writable(f, expected, new) == file[f] = expected /\ ~(new = NoFile /\ file[f] = NoFile)

\* It may fail before the rename, or after it (Windows ACL check, directory fsync).
AtomicWrite(f, expected, new, result) ==
    /\ ~Writable(f, expected, new) => result = "failed"
    /\ file' = IF result = "failed" THEN file ELSE [file EXCEPT ![f] = new]
    /\ Fault(result # "ok" /\ Writable(f, expected, new))

Results == {"ok", "failed", "late"}

Goto(pc, at) == run' = [run EXCEPT !.pc = pc, !.at = at]

\* The ownership the plan was made for is the one that is active.
SameOwnership(n) ==
    IF plan[n].kind = "connect" THEN record = NoRecord
    ELSE record # NoRecord /\ record.revision = plan[n].bound.revision

Admitted(n) ==
    /\ SameOwnership(n)
    /\ file = plan[n].before
    /\ plan[n].kind # "connect" => OwnedAsKnown(plan[n].bound.owned, plan[n].after, file)

\* take_plan, the wait for operation_lock, and everything that is checked under it
\* before the plan is consumed.
Begin(n) ==
    /\ run = NoRun /\ plan[n] # NoPlan /\ Admitted(n)
    /\ run' = [NoRun EXCEPT !.op = n, !.pc = "snapshot"]
    /\ mine' = {} /\ touched' = {} /\ lost' = FALSE
    /\ UNCHANGED <<file, snapshot, record, plan, lastOp, forget, events>>

\* Mutant of TakeSnapshots: a snapshot that fails does not end the transaction.
TakeSnapshotsBestEffort ==
    /\ run.pc = "snapshot"
    /\ \E count \in 0..(Companions + 1) :
          /\ snapshot' = [snapshot EXCEPT ![run.op] =
               [f \in Files |-> IF f < count
                  THEN [doc |-> running.before[f], pinned |-> running.kind = "connect",
                        exists |-> TRUE]
                  ELSE NoSnapshot]]
          /\ Fault(count <= Companions) /\ Goto("write", 0)
    /\ UNCHANGED <<file, record, plan, lastOp, forget, fileHistory>>

\* A snapshot per file, pinned for a connection, until one fails; then the
\* deadline is looked at again.
TakeSnapshots ==
    /\ run.pc = "snapshot"
    /\ \E count \in 0..(Companions + 1) :
          /\ snapshot' = [snapshot EXCEPT ![run.op] =
               [f \in Files |-> IF f < count
                  THEN [doc |-> running.before[f], pinned |-> running.kind = "connect",
                        exists |-> TRUE]
                  ELSE NoSnapshot]]
          /\ \/ count = Companions + 1 /\ Fault(FALSE) /\ Goto("write", 0)
             \/ Event /\ Goto("unpin", 0)
    /\ UNCHANGED <<file, record, plan, lastOp, forget, fileHistory>>

\* recover_files is given how many files were written, and goes back from there.
Recover(count) ==
    run' = [run EXCEPT !.pc = IF count = 0 THEN "unpin" ELSE "undo", !.at = count - 1,
                       !.result = IF count = 0 THEN "untouched" ELSE "restored"]

\* Mutant of WrittenCount: a write that failed after its rename is not counted.
WrittenCountIgnoresLate(f, result) == f

WrittenCount(f, result) == IF result = "late" THEN f + 1 ELSE f

WriteFile ==
    LET f == run.at IN
    /\ run.pc = "write"
    /\ \E result \in Results :
          /\ AtomicWrite(f, running.before[f], running.after[f], result)
          /\ mine' = IF result = "failed" THEN mine ELSE mine \union {f}
          /\ IF result # "ok" THEN Recover(WrittenCount(f, result))
             ELSE IF f < Companions THEN Goto("write", f + 1) ELSE Goto("verify", 0)
    /\ UNCHANGED <<snapshot, record, plan, lastOp, forget, touched, lost>>

\* Post-write read, hash, parse and self-check of every file.
VerifyFiles ==
    /\ run.pc = "verify"
    /\ \/ file = running.after /\ Goto("commit", 0) /\ Fault(FALSE)
       \/ Recover(Companions + 1) /\ Fault(file = running.after)
    /\ UNCHANGED <<file, snapshot, record, plan, lastOp, forget, fileHistory>>

\* Mutant of NewRecord: a restore makes its own snapshots the baseline.
NewRecordRebases ==
    CASE running.kind = "connect" ->
           [revision |-> 1, base |-> run.op, owned |-> [f \in Files |-> running.after[f].own],
            after |-> running.after, orig |-> [f \in Files |-> running.before[f].own], doubtful |-> FALSE]
      [] running.kind = "restore" ->
           [running.bound EXCEPT !.revision = @ + 1, !.after = running.after, !.base = run.op,
                           !.owned = [f \in Files |-> running.after[f].own]]
      [] running.kind = "disconnect" -> NoRecord

\* The record that is written: a new one pins its own snapshots as the baseline,
\* a restore keeps the baseline, a disconnect leaves none.
\* "doubtful" is history: the record came of a connection that was reported as
\* failed, or of a plan for an earlier one: revisions start from 1 again, so the
\* ownership of a plan may look like the one that is active.
NewRecord ==
    CASE running.kind = "connect" ->
           [revision |-> 1, base |-> run.op, owned |-> [f \in Files |-> running.after[f].own],
            after |-> running.after, orig |-> [f \in Files |-> running.before[f].own], doubtful |-> FALSE]
      [] running.kind = "restore" ->
           [running.bound EXCEPT !.revision = @ + 1, !.after = running.after,
                           !.owned = [f \in Files |-> running.after[f].own]]
      [] running.kind = "disconnect" -> NoRecord

\* OwnershipStore::commit and remove compare the revision; the index may be on
\* disk although the write was reported as failed.
CommitOwnership ==
    /\ run.pc = "commit"
    /\ \E result \in Results :
          /\ ~SameOwnership(run.op) => result = "failed"
          /\ record' = IF result = "failed" THEN record
                       ELSE IF NewRecord = NoRecord THEN NoRecord
                       ELSE [NewRecord EXCEPT !.doubtful =
                               @ \/ record # running.bound
                                 \/ (running.kind = "connect" /\ result = "late")]
          /\ IF result = "ok"
             THEN run' = [run EXCEPT !.pc = "release", !.result = "applied"]
             ELSE Recover(Companions + 1)
          /\ Fault(result # "ok" /\ SameOwnership(run.op))
    /\ UNCHANGED <<file, snapshot, plan, lastOp, forget, fileHistory>>

\* restore_projection: only over what the transaction itself wrote.
UndoFile ==
    LET f == run.at
        s == snapshot[run.op][f] IN
    /\ run.pc = "undo"
    /\ \E result \in Results :
          /\ IF s.exists THEN AtomicWrite(f, running.after[f], s.doc, result)
             ELSE result = "failed" /\ UNCHANGED <<file, events>>
          /\ mine' = IF result = "failed" THEN mine ELSE mine \ {f}
          /\ run' = [run EXCEPT !.pc = IF f = 0 THEN "unpin" ELSE "undo", !.at = f - 1,
                       !.result = IF result = "ok" THEN @ ELSE "repair"]
    /\ UNCHANGED <<snapshot, record, plan, lastOp, forget, touched, lost>>

\* set_pinned(false) of each of an operation's snapshots; the ones it fails for
\* stay pinned.
Unpinned(n) ==
    \E left \in SUBSET Files :
       /\ snapshot' = [snapshot EXCEPT ![n] =
                         [f \in Files |-> [snapshot[n][f] EXCEPT !.pinned = @ /\ f \in left]]]
       /\ Fault(left # {})

\* unpin_failed_connection_snapshots.
UnpinFailed ==
    /\ run.pc = "unpin"
    /\ IF running.kind = "connect" THEN Unpinned(run.op)
       ELSE UNCHANGED <<snapshot, events>>
    /\ Goto("done", 0)
    /\ UNCHANGED <<file, record, plan, lastOp, forget, fileHistory>>

\* Mutant of Release: a restore lets it go as well.
ReleaseAlways ==
    /\ run.pc = "release"
    /\ IF running.kind # "connect" THEN Unpinned(running.bound.base)
       ELSE UNCHANGED <<snapshot, events>>
    /\ Goto("done", 0)
    /\ UNCHANGED <<file, record, plan, lastOp, forget, fileHistory>>

\* A disconnect lets the baseline of its plan go.
Release ==
    /\ run.pc = "release"
    /\ IF running.kind = "disconnect" THEN Unpinned(running.bound.base)
       ELSE UNCHANGED <<snapshot, events>>
    /\ Goto("done", 0)
    /\ UNCHANGED <<file, record, plan, lastOp, forget, fileHistory>>

Answer ==
    /\ run.pc = "done"
    /\ run' = NoRun /\ plan' = [plan EXCEPT ![run.op] = NoPlan]
    /\ mine' = {} /\ touched' = {} /\ lost' = FALSE
    /\ UNCHANGED <<file, snapshot, record, lastOp, forget, events>>

-----------------------------------------------------------------------------
(* force_forget: no keys, no snapshots, no operation_lock.                 *)

\* Somebody else wrote f.
Disturbs(f) ==
    /\ mine' = mine \ {f}
    /\ touched' = IF run = NoRun THEN {} ELSE touched \union {f}
    /\ UNCHANGED lost

ForgetLooks ==
    /\ Event
    /\ forget = NoForget /\ record # NoRecord
    /\ forget' = [pc |-> "strip", at |-> 0, record |-> record, before |-> file,
                  after |-> [f \in Files |-> [file[f] EXCEPT !.own = "none"]], wrote |-> {}]
    /\ UNCHANGED <<file, snapshot, record, plan, lastOp, run, fileHistory>>

\* Nothing to strip from a file that is not there, nor from a companion without
\* owned values.
Spared(f) == forget.before[f] = NoFile \/ (f # 0 /\ forget.before[f].own = "none")

ForgetStrips ==
    LET f == forget.at
        next == IF f < Companions THEN "strip" ELSE "remove" IN
    /\ forget.pc = "strip"
    /\ IF Spared(f)
       THEN /\ forget' = [forget EXCEPT !.pc = next, !.at = f + 1]
            /\ UNCHANGED <<file, fileHistory, events>>
       ELSE \E result \in Results :
              /\ AtomicWrite(f, forget.before[f], forget.after[f], result)
              /\ IF result = "failed" THEN UNCHANGED fileHistory ELSE Disturbs(f)
              /\ forget' = [forget EXCEPT !.pc = IF result = "ok" THEN next ELSE "rollback",
                   !.at = IF result = "ok" THEN f + 1 ELSE f,
                   !.wrote = IF result = "failed" THEN @ ELSE @ \union {f}]
    /\ UNCHANGED <<snapshot, record, plan, lastOp, run>>

ForgetRemoves ==
    /\ forget.pc = "remove"
    /\ \E result \in Results :
          LET same == record # NoRecord /\ record.revision = forget.record.revision IN
          /\ ~same => result = "failed"
          /\ record' = IF result = "failed" THEN record ELSE NoRecord
          /\ forget' = [forget EXCEPT !.pc = IF result = "ok" THEN "unpin" ELSE "rollback",
                                     !.at = Companions]
          /\ Fault(result # "ok" /\ same)
    /\ UNCHANGED <<file, snapshot, plan, lastOp, run, fileHistory>>

\* rollback_force_strips: newest first, errors ignored.
ForgetRollsBack ==
    LET f == forget.at IN
    /\ forget.pc = "rollback"
    /\ forget' = IF f = 0 THEN NoForget ELSE [forget EXCEPT !.at = f - 1]
    /\ IF f \notin forget.wrote THEN UNCHANGED <<file, fileHistory, events>>
       ELSE \E result \in Results :
              /\ AtomicWrite(f, forget.after[f], forget.before[f], result)
              /\ IF result = "failed" THEN UNCHANGED fileHistory ELSE Disturbs(f)
    /\ UNCHANGED <<snapshot, record, plan, lastOp, run>>

ForgetUnpins ==
    /\ forget.pc = "unpin"
    /\ Unpinned(forget.record.base)
    /\ forget' = NoForget
    /\ UNCHANGED <<file, record, plan, lastOp, run, fileHistory>>

-----------------------------------------------------------------------------
(* Everybody else.                                                         *)

\* prune: retention drops the snapshots of an operation that are not pinned; which
\* ones are old, and which the newest five, is up to the wall clock.
Prune(n) ==
    /\ Event
    /\ snapshot' = [snapshot EXCEPT ![n] =
                      [f \in Files |-> IF @[f].pinned THEN @[f] ELSE NoSnapshot]]
    /\ snapshot' # snapshot
    /\ lost' = (lost \/ n = run.op)
    /\ UNCHANGED <<file, record, plan, lastOp, run, forget, mine, touched>>

\* The user or the Agent writes a file.
UserEdit(f) ==
    /\ Event
    /\ \E d \in {NoFile, UserDoc, [Managed(file[f], file[f].own) EXCEPT !.rest = "text"]}
               \ {file[f]} :
          file' = [file EXCEPT ![f] = d]
    /\ Disturbs(f)
    /\ UNCHANGED <<snapshot, record, plan, lastOp, run, forget>>

\* Plans, scans and whatever was under way are in memory only.
ProcessEnds ==
    /\ Event
    /\ run' = NoRun /\ forget' = NoForget
    /\ plan' = [n \in Ops |-> NoPlan]
    /\ mine' = {} /\ touched' = {} /\ lost' = FALSE
    /\ UNCHANGED <<file, snapshot, record, lastOp>>

AgentInit ==
    /\ file \in [Files -> {NoFile, UserDoc}]
    /\ snapshot = [n \in Ops |-> [f \in Files |-> NoSnapshot]]
    /\ record = NoRecord
    /\ plan = [n \in Ops |-> NoPlan]
    /\ lastOp = 0 /\ run = NoRun /\ forget = NoForget /\ events = 0
    /\ mine = {} /\ touched = {} /\ lost = FALSE

Transaction ==
    \/ TakeSnapshots \/ WriteFile \/ VerifyFiles \/ CommitOwnership
    \/ UndoFile \/ UnpinFailed \/ Release \/ Answer

Forget ==
    ForgetLooks \/ ForgetStrips \/ ForgetRemoves \/ ForgetRollsBack \/ ForgetUnpins

AgentNext ==
    \/ PlanConnect \/ PlanDisconnect \/ PlanRefresh
    \/ \E n \in Ops : PlanRestore(n) \/ DropPlan(n) \/ Begin(n) \/ Prune(n)
    \/ Transaction \/ Forget
    \/ \E f \in Files : UserEdit(f)
    \/ ProcessEnds

AgentSpec == AgentInit /\ [][AgentNext]_agentVars

-----------------------------------------------------------------------------
Snapshots == [doc : Docs, pinned : BOOLEAN, exists : BOOLEAN]
Records == [revision : Nat \ {0}, base : Ops, owned : [Files -> Values],
            after : [Files -> Docs], orig : [Files -> Values], doubtful : BOOLEAN]
Plans == [kind : {"connect", "disconnect", "restore"}, before : [Files -> Docs],
          after : [Files -> Docs], bound : Records \union {NoRecord}]
Runs == [op : Ops, pc : {"snapshot", "write", "verify", "commit", "undo", "unpin",
                         "release", "done"},
         at : -1..Companions, result : {"untouched", "restored", "repair", "applied"}]
Forgets == [pc : {"strip", "remove", "rollback", "unpin"}, at : 0..(Companions + 1),
            record : Records, before : [Files -> Docs], after : [Files -> Docs],
            wrote : SUBSET Files]

\* Every variable has the shape the code gives it, and a transaction under way has
\* its plan: one that was made for an ownership unless it makes one.
AgentTypeOK ==
    /\ file \in [Files -> Docs]
    /\ snapshot \in [Ops -> [Files -> Snapshots]]
    /\ record \in Records \union {NoRecord}
    /\ plan \in [Ops -> Plans \union {NoPlan}]
    /\ \A n \in Ops : plan[n].kind \in {"disconnect", "restore"} => plan[n].bound # NoRecord
    /\ lastOp \in 0..MaxOps
    /\ run \in Runs \union {NoRun}
    /\ run # NoRun => plan[run.op] # NoPlan
    /\ forget \in Forgets \union {NoForget}
    /\ events \in 0..MaxEvents
    /\ mine \in SUBSET Files /\ touched \in SUBSET Files
    /\ lost \in BOOLEAN

\* What a failed or successful transaction tells the user about the files is
\* true: "not required" and "restored" leave nothing of it behind, and success
\* means that every file nobody else touched is as planned.
OutcomeTellsTruth ==
    run.pc = "done" =>
      CASE run.result \in {"untouched", "restored"} -> mine = {}
        [] run.result = "applied" -> \A f \in Files \ touched : file[f] = running.after[f]
        [] run.result = "repair" -> TRUE

\* The baseline a disconnect needs stays in the store, out of reach of retention,
\* for as long as its ownership is on record.
BaselineKept ==
    record # NoRecord /\ ~record.doubtful =>
      \A f \in Files : snapshot[record.base][f].exists /\ snapshot[record.base][f].pinned

\* A disconnect gives the owned paths back as they were before the connection its
\* plan was made for, whatever restores and refreshes came between.
DisconnectGivesBack ==
    run.pc = "release" /\ running.kind = "disconnect" =>
      \A f \in Files \ touched : file[f].own = running.bound.orig[f]

UserStep == \E f \in Files : UserEdit(f)

\* Text outside the owned paths is never lost to a transaction, its recovery, a
\* force_forget or a crash, however its plan has aged.
UserTextKept ==
    [][UserStep \/ \A f \in Files :
         file'[f].rest = "text" <=> file[f].rest = "text"]_agentVars

\* Bytes the transaction itself wrote, or that equal them.
Undoes(f) == run.pc = "undo" /\ file[f] = running.after[f]

\* A value of the user's own is only overwritten when a snapshot holds it; only
\* force_forget, which says so, strips what was put there later, and only a clock
\* that was set takes the snapshot away first.
UserValueKept ==
    [][UserStep \/ Forget \/ lost \/ \A f \in Files :
         file[f].own = "user" /\ file'[f].own # "user" /\ ~Undoes(f) =>
           \E n \in Ops : snapshot[n][f].exists /\ snapshot[n][f].doc.own = "user"]_agentVars

=============================================================================
