----------------------------- MODULE AgentProofs -----------------------------
(***************************************************************************)
(* Proofs about AgentTransaction, for any number of companion files, of    *)
(* operations and of failures, edits and crashes between them.             *)
(*                                                                         *)
(* The argument: an operation id is used once, so the snapshots of a       *)
(* baseline are never taken again; a transaction snapshots what its plan   *)
(* was made for before it writes, and writes only over that.  What it      *)
(* wrote lies below its position, and the way back starts there.           *)
(***************************************************************************)
EXTENDS AgentTransaction, TLAPS

\* Points of a transaction after its ownership record is written.
Late == {"undo", "unpin", "release", "done"}
Points == {"snapshot", "write", "verify", "commit"} \union Late
Outcomes == {"untouched", "restored", "repair", "applied"}

\* The operation of a baseline is over, or as good as: nothing takes its snapshots
\* again, and those that are left hold what was there before the connection.
BaseSpent(r) ==
    /\ r.base <= lastOp
    /\ plan[r.base] = NoPlan \/ (run.op = r.base /\ run.pc \in Late)
    /\ \A f \in Files : snapshot[r.base][f].exists => snapshot[r.base][f].doc.own = r.orig[f]

BasesSpent ==
    /\ record # NoRecord => BaseSpent(record)
    /\ \A n \in Ops : plan[n] # NoPlan =>
          n <= lastOp /\ (plan[n].bound # NoRecord => BaseSpent(plan[n].bound))
    /\ forget # NoForget => BaseSpent(forget.record)

\* The same files hold text of the user's in both.
SameText(d, e) == \A f \in Files : d[f].rest = "text" <=> e[f].rest = "text"

\* A plan keeps the text, and a disconnect puts back what the record remembers.
PlanSound(p) ==
    /\ SameText(p.before, p.after)
    /\ p.kind = "disconnect" => \A f \in Files : p.after[f].own = p.bound.orig[f]

PlansSound == \A n \in Ops : plan[n] # NoPlan => PlanSound(plan[n])

ForgetSound ==
    forget # NoForget =>
        /\ SameText(forget.before, forget.after)
        /\ forget.pc \in {"strip", "rollback"} => forget.at \in Files

\* What a transaction may write over is in its snapshots, unless retention with a
\* wrong clock took them; those of a connection it cannot take.
RunSnapshots ==
    run # NoRun /\ run.pc # "snapshot" => \A f \in Files :
        LET s == snapshot[run.op][f] IN
        /\ s.exists => s.doc = running.before[f]
        /\ run.pc \in {"write", "verify", "commit"} =>
             /\ s.exists \/ lost
             /\ running.kind = "connect" => s.exists /\ s.pinned

\* Where a transaction is and what of its writing is left, as it will say.
Progress ==
    /\ run.pc \in {"snapshot", "write", "verify", "commit"} => run.result = "untouched"
    /\ run.pc = "snapshot" => mine = {}
    /\ run.pc = "write" => run.at \in Files /\ \A f \in mine : f < run.at
    /\ run.pc = "undo" =>
         /\ run.at \in Files /\ run.result \in {"restored", "repair"}
         /\ run.result = "restored" => \A f \in mine : f <= run.at
    /\ run.pc = "unpin" => run.result # "applied"
    /\ run.pc = "release" => run.result = "applied"
    /\ run.pc \in {"unpin", "done"} /\ run.result \in {"untouched", "restored"} => mine = {}

\* From the verification on, what nobody else touched is as planned.
AsPlanned ==
    run.pc \in {"commit", "release"} \/ (run.pc = "done" /\ run.result = "applied") =>
        \A f \in Files \ touched : file[f] = running.after[f]

\* Nobody who is about to unpin snapshots takes a baseline that is in use.
Unclaimed ==
    /\ forget.pc = "unpin" /\ record # NoRecord /\ ~record.doubtful =>
         record.base # forget.record.base
    /\ run.pc \in {"undo", "unpin"} /\ running.kind = "connect" /\ record # NoRecord
         /\ record.base = run.op => record.doubtful
    /\ run.pc = "release" /\ running.kind = "disconnect" => record = NoRecord

AgentInv ==
    /\ AgentTypeOK
    /\ BasesSpent /\ PlansSound /\ ForgetSound
    /\ RunSnapshots /\ Progress /\ AsPlanned
    /\ Unclaimed /\ BaselineKept

AllRuns == [op : 0..MaxOps, pc : Points \union {"idle"}, at : -1..Companions, result : Outcomes]

-----------------------------------------------------------------------------
(* Documents, records and positions.                                       *)

LEMMA NoFileIs == /\ NoFile \in Docs /\ NoFile.own = "none" /\ NoFile.rest = "missing"
                  /\ \A d \in Docs : d.rest = "missing" => d = NoFile
                  /\ \A d \in Docs : d.own \in Values /\ d.rest \in {"empty", "text", "missing"}
<1>1. NoFile \in [own : {"none"}, rest : {"missing"}]
  BY DEF NoFile
<1>2. \A d \in Docs : d = NoFile \/ (d.own \in Values /\ d.rest \in {"empty", "text"})
  BY DEF Docs
<1> QED BY <1>1, <1>2 DEF Docs, NoFile, Values

LEMMA ManagedIs ==
    ASSUME NEW d \in Docs, NEW v \in Values
    PROVE  /\ Managed(d, v) \in Docs /\ Managed(d, v).own = v
           /\ Managed(d, v).rest = "text" <=> d.rest = "text"
<1>1. (IF d = NoFile THEN "empty" ELSE d.rest) \in {"empty", "text"}
  BY NoFileIs DEF Docs
<1>2. Managed(d, v) \in [own : Values, rest : {"empty", "text"}]
  BY <1>1 DEF Managed
<1> QED BY <1>1, <1>2, NoFileIs DEF Managed, Docs

LEMMA ProjectedIs ==
    ASSUME NEW d \in Docs, NEW s \in Docs, NEW m \in Docs
    PROVE  /\ Projected(d, s, m) \in Docs /\ Projected(d, s, m).own = s.own
           /\ Projected(d, s, m).rest = "text" <=> d.rest = "text"
<1>1. s.own \in Values
  BY NoFileIs
<1>2. CASE s = NoFile /\ d = m /\ d.rest \in {"empty", "missing"}
  BY <1>2, NoFileIs DEF Projected
<1>3. CASE ~(s = NoFile /\ d = m /\ d.rest \in {"empty", "missing"})
  BY <1>1, <1>3, ManagedIs DEF Projected
<1> QED BY <1>2, <1>3

LEMMA StrippedIs ==
    ASSUME NEW d \in Docs
    PROVE  /\ [d EXCEPT !.own = "none"] \in Docs
           /\ [d EXCEPT !.own = "none"].rest = "text" <=> d.rest = "text"
<1>1. CASE d = NoFile
  <2>1. [d EXCEPT !.own = "none"] \in [own : {"none"}, rest : {"missing"}]
    BY <1>1 DEF NoFile
  <2>2. NoFile \in [own : {"none"}, rest : {"missing"}]
    BY DEF NoFile
  <2>3. [d EXCEPT !.own = "none"] = NoFile
    BY <2>1, <2>2
  <2> QED BY <1>1, <2>3, NoFileIs
<1>2. CASE d \in [own : Values, rest : {"empty", "text"}]
  BY <1>2 DEF Docs, Values
<1> QED BY <1>1, <1>2 DEF Docs

LEMMA RunIs ==
    ASSUME AgentTypeOK
    PROVE  /\ run \in AllRuns
           /\ run = NoRun <=> run.pc = "idle"
           /\ run.op \notin Ops <=> run.pc = "idle"
           /\ run.pc # "idle" =>
                 run \in Runs /\ run.op \in Ops /\ plan[run.op] \in Plans /\ plan[run.op] # NoPlan
<1>1. NoRun \in AllRuns /\ NoRun.pc = "idle" /\ NoRun.op = 0
  BY AgentAssumption DEF AgentAssumption, NoRun, AllRuns, Points, Late, Outcomes
<1>2. \A r \in Runs : r \in AllRuns /\ r.pc # "idle" /\ r.op \in Ops
  BY AgentAssumption DEF AgentAssumption, Runs, AllRuns, Points, Late, Outcomes, Ops
<1>3. run \in Runs \/ run = NoRun
  BY DEF AgentTypeOK
<1>4. 0 \notin Ops
  BY DEF Ops
<1>5. run # NoRun => plan[run.op] # NoPlan
  BY DEF AgentTypeOK
<1>6. plan \in [Ops -> Plans \union {NoPlan}]
  BY DEF AgentTypeOK
<1> QED BY <1>1, <1>2, <1>3, <1>4, <1>5, <1>6

LEMMA GotoIs ==
    ASSUME AgentTypeOK, run.pc # "idle", NEW p \in Points, NEW i \in -1..Companions, Goto(p, i)
    PROVE  /\ run' \in Runs /\ run'.op = run.op /\ run'.pc = p /\ run'.at = i
           /\ run'.result = run.result
<1>1. run \in Runs
  BY RunIs
<1> QED BY <1>1 DEF Goto, Runs, Points, Late

LEMMA RecoverIs ==
    ASSUME AgentTypeOK, run.pc # "idle", NEW n \in 0..(Companions + 1), Recover(n)
    PROVE  /\ run' \in Runs /\ run'.op = run.op /\ run'.at = n - 1
           /\ n = 0 => run'.pc = "unpin" /\ run'.result = "untouched"
           /\ n # 0 => run'.pc = "undo" /\ run'.result = "restored" /\ run'.at \in Files
<1>1. run \in Runs
  BY RunIs
<1>2. n - 1 \in -1..Companions /\ (n # 0 => n - 1 \in Files)
  BY AgentAssumption DEF AgentAssumption, Files
<1> QED BY <1>1, <1>2 DEF Recover, Runs

LEMMA RecoverAllIs ==
    ASSUME AgentTypeOK, run.pc # "idle", Recover(Companions + 1)
    PROVE  /\ run' \in Runs /\ run'.op = run.op /\ run'.at = Companions
           /\ run'.pc = "undo" /\ run'.result = "restored" /\ run'.at \in Files
<1> DEFINE n == Companions + 1
<1>1. n \in 0..(Companions + 1) /\ n # 0 /\ n - 1 = Companions
  BY AgentAssumption DEF AgentAssumption
<1> HIDE DEF n
<1>2. Recover(n)
  BY DEF n
<1> QED BY <1>1, <1>2, RecoverIs

LEMMA FaultIs ==
    ASSUME AgentTypeOK, NEW h, Fault(h)
    PROVE  events' \in 0..MaxEvents
BY AgentAssumption DEF AgentAssumption, AgentTypeOK, Fault

LEMMA WriteIs ==
    ASSUME AgentTypeOK, NEW f \in Files, NEW d \in Docs, NEW e \in Docs, NEW result \in Results,
           AtomicWrite(f, d, e, result)
    PROVE  /\ file' \in [Files -> Docs] /\ events' \in 0..MaxEvents
           /\ result = "failed" => file' = file
           /\ result # "failed" => file[f] = d /\ file'[f] = e
           /\ \A g \in Files \ {f} : file'[g] = file[g]
<1>1. file \in [Files -> Docs]
  BY DEF AgentTypeOK
<1>2. events' \in 0..MaxEvents
  BY FaultIs DEF AtomicWrite
<1> QED BY <1>1, <1>2 DEF AtomicWrite, Writable

LEMMA FilesAre == /\ 0 \in Files /\ Files \subseteq Nat /\ Companions \in Files
                  /\ \A f \in Files : f <= Companions
                  /\ \A f \in Files : f < Companions => f + 1 \in Files
                  /\ \A f \in Files : f # 0 => f - 1 \in Files
                  /\ \A f \in Files : f - 1 \in -1..Companions /\ f + 1 \in 0..(Companions + 1)
                  /\ Files \subseteq -1..Companions
BY AgentAssumption DEF AgentAssumption, Files

LEMMA RecordIs ==
    /\ NoRecord.revision = 0 /\ NoRecord \notin Records
    /\ NoPlan \notin Plans /\ NoForget \notin Forgets
    /\ NoForget.pc = "idle" /\ NoPlan.kind = "none"
    /\ \A r \in Records : r # NoRecord /\ r.base \in Ops
<1>1. NoRecord.revision = 0
  BY DEF NoRecord
<1>2. NoPlan.kind = "none" /\ NoForget.pc = "idle"
  BY DEF NoPlan, NoForget
<1> QED BY <1>1, <1>2 DEF Records, Plans, Forgets

-----------------------------------------------------------------------------
(* What most steps have in common.                                         *)

\* Snapshots only go, with plans: what is spent stays spent.
SnapshotsOnlyGo(n) ==
    \A f \in Files :
        snapshot'[n][f].exists => snapshot[n][f].exists /\ snapshot'[n][f].doc = snapshot[n][f].doc

\* Only a transaction that takes them has new ones.
SnapshotsStay == \A n \in Ops : SnapshotsOnlyGo(n) \/ (n = run.op /\ run.pc = "snapshot")

PlansOnlyGo == \A n \in Ops : plan'[n] \in {plan[n], NoPlan}

\* The transaction moves towards its end, or its plan goes.
RunGoesOn ==
    run.pc \in Late => plan'[run.op] = NoPlan \/ (run'.op = run.op /\ run'.pc \in Late)

LEMMA StaysSpent ==
    ASSUME AgentTypeOK, NEW r \in Records, BaseSpent(r),
           SnapshotsStay, PlansOnlyGo, RunGoesOn, lastOp' = lastOp
    PROVE  BaseSpent(r)'
<1>1. r.base \in Ops
  BY RecordIs
<1>2. plan'[r.base] = NoPlan \/ (run'.op = r.base /\ run'.pc \in Late)
  BY <1>1 DEF BaseSpent, PlansOnlyGo, RunGoesOn
<1>3. SnapshotsOnlyGo(r.base)
  BY <1>1, RunIs DEF BaseSpent, SnapshotsStay, Late
<1> QED BY <1>1, <1>2, <1>3 DEF BaseSpent, SnapshotsOnlyGo

\* The record of a plan is one it was made for, and its plan one that was issued.
LEMMA SpentStep ==
    ASSUME AgentInv, AgentTypeOK', SnapshotsStay, PlansOnlyGo, RunGoesOn, lastOp' = lastOp,
           record' # NoRecord => record' = record \/ BaseSpent(record)',
           forget' # NoForget =>
               \/ forget # NoForget /\ forget'.record = forget.record
               \/ record # NoRecord /\ forget'.record = record
    PROVE  BasesSpent' /\ PlansSound'
<1>1. AgentTypeOK /\ BasesSpent
  BY DEF AgentInv
<1>2. record # NoRecord => record \in Records
  BY <1>1 DEF AgentTypeOK
<1>3. record' # NoRecord => BaseSpent(record)'
  BY <1>1, <1>2, StaysSpent DEF BasesSpent
<1>4. ASSUME NEW n \in Ops, plan'[n] # NoPlan
      PROVE  n <= lastOp' /\ (plan'[n].bound # NoRecord => BaseSpent(plan[n].bound)')
  <2>1. plan'[n] = plan[n] /\ plan[n] \in Plans
    BY <1>1, <1>4 DEF PlansOnlyGo, AgentTypeOK
  <2>2. plan[n].bound \in Records \union {NoRecord}
    BY <2>1 DEF Plans
  <2> QED BY <1>1, <1>4, <2>1, <2>2, StaysSpent DEF BasesSpent
<1>5. ASSUME forget' # NoForget
      PROVE  BaseSpent(forget.record)'
  <2>1. CASE forget # NoForget /\ forget'.record = forget.record
    <3>1. forget.record \in Records
      BY <1>1, <2>1 DEF AgentTypeOK, Forgets
    <3> QED BY <1>1, <2>1, <3>1, StaysSpent DEF BasesSpent
  <2>2. CASE record # NoRecord /\ forget'.record = record
    BY <1>1, <1>2, <2>2, StaysSpent DEF BasesSpent
  <2> QED BY <1>5, <2>1, <2>2
<1>6. PlansSound'
  <2> SUFFICES ASSUME NEW n \in Ops, plan'[n] # NoPlan PROVE PlanSound(plan[n])'
    BY DEF PlansSound
  <2>1. plan'[n] = plan[n]
    BY DEF PlansOnlyGo
  <2> QED BY <2>1 DEF AgentInv, PlansSound, PlanSound, SameText
<1> QED BY <1>3, <1>4, <1>5, <1>6 DEF BasesSpent

\* Somebody else's step: what the transaction counts on stays.
LEMMA AsideStep ==
    ASSUME AgentInv, AgentTypeOK', UNCHANGED run,
           run # NoRun => plan'[run.op] = plan[run.op],
           mine' \subseteq mine,
           run # NoRun => touched \subseteq touched' /\ (lost => lost'),
           run # NoRun => \A f \in Files \ touched' : file'[f] = file[f],
           \A n \in Ops : SnapshotsOnlyGo(n),
           run # NoRun => \A f \in Files :
               LET s == snapshot[run.op][f] IN
               /\ s.exists => snapshot'[run.op][f].exists \/ lost'
               /\ s.exists /\ s.pinned /\ run.pc \notin Late =>
                    snapshot'[run.op][f].exists /\ snapshot'[run.op][f].pinned
    PROVE  RunSnapshots' /\ Progress' /\ AsPlanned'
<1>1. AgentTypeOK /\ RunSnapshots /\ Progress /\ AsPlanned
  BY DEF AgentInv
<1>2. run.pc = "idle" <=> run = NoRun
  BY <1>1, RunIs
<1>3. run # NoRun => run.op \in Ops
  BY <1>1, <1>2, RunIs
<1>4. RunSnapshots'
  BY <1>1, <1>3 DEF RunSnapshots, SnapshotsOnlyGo, Late, running
<1>5. Progress'
  BY <1>1 DEF Progress
<1>6. AsPlanned'
  BY <1>1, <1>2 DEF AsPlanned, running
<1> QED BY <1>4, <1>5, <1>6

\* A record that stays has its baseline, if its snapshots stay where they are.
LEMMA BaselineStep ==
    ASSUME AgentInv, record' = NoRecord \/ record' = record,
           record # NoRecord /\ ~record.doubtful => \A f \in Files :
               LET s == snapshot[record.base][f] IN
               s.exists /\ s.pinned => snapshot'[record.base][f].exists
                                        /\ snapshot'[record.base][f].pinned
    PROVE  BaselineKept'
BY DEF AgentInv, BaselineKept

\* The step neither ends an ownership check nor starts an unpinning.
LEMMA UnclaimedStep ==
    ASSUME AgentInv, record' = NoRecord \/ record' = record,
           forget'.pc = "unpin" => forget.pc = "unpin" /\ forget'.record = forget.record,
           run'.pc \in {"undo", "unpin", "release"} =>
               run'.pc = run.pc /\ run'.op = run.op /\ plan'[run.op] = plan[run.op]
    PROVE  Unclaimed'
BY DEF AgentInv, Unclaimed, running

-----------------------------------------------------------------------------
(* Plans.                                                                  *)

\* A new plan has an id of its own, and is made for the record there is.
LEMMA IssuedStep ==
    ASSUME AgentInv, NEW kind \in {"connect", "disconnect", "restore"},
           NEW after \in [Files -> Docs], SameText(file, after),
           kind # "connect" => record # NoRecord,
           kind = "disconnect" => \A f \in Files : after[f].own = record.orig[f],
           Issued(kind, after)
    PROVE  AgentInv'
<1> DEFINE n == lastOp + 1
           p == [kind |-> kind, before |-> file, after |-> after, bound |-> record]
<1>1. /\ lastOp \in Nat /\ n \in Ops /\ lastOp' = n /\ plan' = [plan EXCEPT ![n] = p]
      /\ UNCHANGED <<file, snapshot, record, run, forget, events, mine, touched, lost>>
      /\ n \in 0..MaxOps
  BY AgentAssumption DEF AgentAssumption, AgentInv, AgentTypeOK, Issued, fileHistory, Ops
<1>2. AgentTypeOK /\ BasesSpent
  BY DEF AgentInv
<1>3. /\ p \in Plans /\ p # NoPlan /\ p.bound = record /\ p.kind = kind
      /\ p.before = file /\ p.after = after
  BY <1>2, RecordIs DEF AgentTypeOK, Plans
<1> HIDE DEF p
<1>4. plan[n] = NoPlan /\ (run # NoRun => run.op # n)
  <2>1. plan[n] = NoPlan
    BY <1>1, <1>2 DEF BasesSpent
  <2> QED BY <1>2, <2>1 DEF AgentTypeOK
<1> HIDE DEF n
<1>5. plan'[n] = p /\ \A m \in Ops \ {n} : plan'[m] = plan[m]
  BY <1>1, <1>2 DEF AgentTypeOK
<1>6. AgentTypeOK'
  <2>1. plan' \in [Ops -> Plans \union {NoPlan}]
    BY <1>1, <1>2, <1>3 DEF AgentTypeOK
  <2>2. \A m \in Ops : plan'[m].kind \in {"disconnect", "restore"} => plan'[m].bound # NoRecord
    BY <1>2, <1>3, <1>5 DEF AgentTypeOK
  <2>3. run # NoRun => plan'[run.op] # NoPlan
    BY <1>2, <1>4, <1>5, RunIs DEF AgentTypeOK
  <2> QED BY <1>1, <1>2, <2>1, <2>2, <2>3 DEF AgentTypeOK
<1>7. ASSUME NEW r \in Records, BaseSpent(r) PROVE BaseSpent(r)' /\ r.base # n
  <2>1. r.base \in Ops /\ r.base <= lastOp /\ r.base # n
    BY <1>1, <1>7, RecordIs DEF BaseSpent, n
  <2> QED BY <1>1, <1>5, <1>7, <2>1 DEF BaseSpent, n, Ops
<1>8. BasesSpent'
  <2>1. record # NoRecord => BaseSpent(record)'
    BY <1>1, <1>2, <1>7 DEF BasesSpent, AgentTypeOK
  <2>2. ASSUME NEW m \in Ops, plan'[m] # NoPlan
        PROVE  m <= lastOp' /\ (plan'[m].bound # NoRecord => BaseSpent(plan[m].bound)')
    <3>1. CASE m = n
      BY <1>1, <1>3, <1>5, <2>1, <3>1 DEF BaseSpent, Ops
    <3>2. CASE m # n
      <4>1. plan'[m] = plan[m] /\ plan[m] # NoPlan /\ plan[m] \in Plans
        BY <1>2, <1>5, <2>2, <3>2 DEF AgentTypeOK
      <4>2. m <= lastOp /\ (plan[m].bound # NoRecord => plan[m].bound \in Records
                                                        /\ BaseSpent(plan[m].bound))
        BY <1>2, <4>1 DEF BasesSpent, Plans
      <4>3. m <= lastOp'
        BY <1>1, <4>2 DEF n, Ops
      <4> QED BY <1>7, <4>1, <4>2, <4>3
    <3> QED BY <3>1, <3>2
  <2>3. forget # NoForget => BaseSpent(forget.record)'
    <3>1. forget # NoForget => forget.record \in Records
      BY <1>2 DEF AgentTypeOK, Forgets
    <3>2. forget # NoForget => BaseSpent(forget.record)
      BY <1>2 DEF BasesSpent
    <3>3. forget' = forget
      BY <1>1
    <3> QED BY <1>7, <3>1, <3>2, <3>3
  <2> QED BY <1>1, <2>1, <2>2, <2>3 DEF BasesSpent
<1>9. PlansSound'
  <2> SUFFICES ASSUME NEW m \in Ops, plan'[m] # NoPlan PROVE PlanSound(plan[m])'
    BY DEF PlansSound
  <2>1. CASE m = n
    BY <1>3, <1>5, <2>1 DEF PlanSound
  <2>2. CASE m # n
    BY <1>5, <2>2 DEF AgentInv, PlansSound, PlanSound, SameText
  <2> QED BY <2>1, <2>2
<1>10. RunSnapshots' /\ Progress' /\ AsPlanned'
  BY <1>1, <1>2, <1>4, <1>5, <1>6, AsideStep, RunIs DEF SnapshotsOnlyGo
<1>11. Unclaimed' /\ BaselineKept' /\ ForgetSound'
  <2>1. run.pc # "idle" => plan'[run.op] = plan[run.op]
    BY <1>2, <1>4, <1>5, RunIs
  <2> QED BY <1>1, <2>1, UnclaimedStep, BaselineStep DEF AgentInv, ForgetSound, SameText
<1> QED BY <1>6, <1>8, <1>9, <1>10, <1>11 DEF AgentInv

LEMMA PlanConnectStep ==
    ASSUME AgentInv, PlanConnect
    PROVE  AgentInv'
<1> DEFINE after == [f \in Files |-> Managed(file[f], "station")]
<1>1. file \in [Files -> Docs]
  BY DEF AgentInv, AgentTypeOK
<1>2. after \in [Files -> Docs] /\ SameText(file, after)
  BY <1>1, ManagedIs DEF SameText, Values
<1> QED BY <1>2, IssuedStep DEF PlanConnect

LEMMA PlanRefreshStep ==
    ASSUME AgentInv, PlanRefresh
    PROVE  AgentInv'
<1> DEFINE after == [f \in Files |-> Managed(file[f], "refreshed")]
<1>1. file \in [Files -> Docs]
  BY DEF AgentInv, AgentTypeOK
<1>2. after \in [Files -> Docs] /\ SameText(file, after)
  BY <1>1, ManagedIs DEF SameText, Values
<1> QED BY <1>2, IssuedStep DEF PlanRefresh

\* The owned paths of the snapshots, in the files as they are.
LEMMA PutBackIs ==
    ASSUME AgentTypeOK, record # NoRecord, NEW n \in Ops
    PROVE  /\ PutBack(n) \in [Files -> Docs] /\ SameText(file, PutBack(n))
           /\ \A f \in Files : PutBack(n)[f].own = snapshot[n][f].doc.own
<1>1. file \in [Files -> Docs] /\ record.after \in [Files -> Docs]
  BY DEF AgentTypeOK, Records
<1>2. \A f \in Files : Source(n)[f] = snapshot[n][f].doc /\ Source(n)[f] \in Docs
  BY DEF AgentTypeOK, Source, Snapshots
<1>3. \A f \in Files : PutBack(n)[f] = Projected(file[f], Source(n)[f], record.after[f])
  BY DEF PutBack
<1>4. \A f \in Files : /\ PutBack(n)[f] \in Docs /\ PutBack(n)[f].own = Source(n)[f].own
                       /\ PutBack(n)[f].rest = "text" <=> file[f].rest = "text"
  BY <1>1, <1>2, <1>3, ProjectedIs
<1>5. PutBack(n) \in [Files -> Docs]
  BY <1>4 DEF PutBack
<1> QED BY <1>2, <1>4, <1>5 DEF SameText

LEMMA PlanDisconnectStep ==
    ASSUME AgentInv, PlanDisconnect
    PROVE  AgentInv'
<1>1. /\ record # NoRecord /\ Loaded(record.base)
      /\ Issued("disconnect", PutBack(record.base))
  BY DEF PlanDisconnect
<1>2. AgentTypeOK /\ record \in Records /\ record.base \in Ops /\ BaseSpent(record)
  BY <1>1, RecordIs DEF AgentInv, AgentTypeOK, BasesSpent
<1>3. \A f \in Files : PutBack(record.base)[f].own = record.orig[f]
  BY <1>1, <1>2, PutBackIs DEF BaseSpent, Loaded
<1> QED BY <1>1, <1>2, <1>3, PutBackIs, IssuedStep

LEMMA PlanRestoreStep ==
    ASSUME AgentInv, NEW n \in Ops, PlanRestore(n)
    PROVE  AgentInv'
<1>1. record # NoRecord /\ Issued("restore", PutBack(n))
  BY DEF PlanRestore
<1> QED BY <1>1, PutBackIs, IssuedStep DEF AgentInv

LEMMA DropPlanStep ==
    ASSUME AgentInv, NEW n \in Ops, DropPlan(n)
    PROVE  AgentInv'
<1>1. /\ run.op # n /\ plan' = [plan EXCEPT ![n] = NoPlan]
      /\ UNCHANGED <<file, snapshot, record, lastOp, run, forget, events, mine, touched, lost>>
  BY DEF DropPlan, fileHistory
<1>2. AgentTypeOK
  BY DEF AgentInv
<1>3. /\ plan'[n] = NoPlan /\ plan' \in [Ops -> Plans \union {NoPlan}]
      /\ \A m \in Ops \ {n} : plan'[m] = plan[m]
  BY <1>1, <1>2 DEF AgentTypeOK
<1>4. AgentTypeOK'
  <2>1. \A m \in Ops : plan'[m].kind \in {"disconnect", "restore"} => plan'[m].bound # NoRecord
    BY <1>2, <1>3, RecordIs DEF AgentTypeOK
  <2>2. run # NoRun => plan'[run.op] # NoPlan
    BY <1>1, <1>2, <1>3, RunIs DEF AgentTypeOK
  <2> QED BY <1>1, <1>2, <1>3, <2>1, <2>2 DEF AgentTypeOK
<1>5. (\A m \in Ops : SnapshotsOnlyGo(m)) /\ SnapshotsStay /\ PlansOnlyGo /\ RunGoesOn
  BY <1>1, <1>3 DEF SnapshotsOnlyGo, SnapshotsStay, PlansOnlyGo, RunGoesOn
<1>6. BasesSpent' /\ PlansSound'
  BY <1>1, <1>4, <1>5, SpentStep
<1>7. run.pc # "idle" => plan'[run.op] = plan[run.op]
  BY <1>1, <1>2, <1>3, RunIs
<1>8. RunSnapshots' /\ Progress' /\ AsPlanned'
  BY <1>1, <1>2, <1>4, <1>5, <1>7, AsideStep, RunIs
<1>9. Unclaimed' /\ BaselineKept' /\ ForgetSound'
  BY <1>1, <1>7, UnclaimedStep, BaselineStep DEF AgentInv, ForgetSound, SameText
<1> QED BY <1>4, <1>6, <1>8, <1>9 DEF AgentInv

-----------------------------------------------------------------------------
(* The transaction.                                                        *)

LEMMA BeginStep ==
    ASSUME AgentInv, NEW n \in Ops, Begin(n)
    PROVE  AgentInv'
<1>1. /\ run = NoRun /\ plan[n] # NoPlan
      /\ mine' = {} /\ touched' = {} /\ lost' = FALSE
      /\ run' = [NoRun EXCEPT !.op = n, !.pc = "snapshot"]
      /\ UNCHANGED <<file, snapshot, record, plan, lastOp, forget, events>>
  BY DEF Begin
<1>2. AgentTypeOK /\ run.pc = "idle"
  BY <1>1, RunIs DEF AgentInv
<1>3. run' \in Runs /\ run'.op = n /\ run'.pc = "snapshot" /\ run'.result = "untouched"
  BY <1>1, FilesAre DEF NoRun, Runs, Files
<1>4. AgentTypeOK'
  BY <1>1, <1>2, <1>3 DEF AgentTypeOK
<1>5. (\A m \in Ops : SnapshotsOnlyGo(m)) /\ SnapshotsStay /\ PlansOnlyGo /\ RunGoesOn
  BY <1>1, <1>2 DEF SnapshotsOnlyGo, SnapshotsStay, PlansOnlyGo, RunGoesOn, Late
<1>6. BasesSpent' /\ PlansSound'
  BY <1>1, <1>4, <1>5, SpentStep
<1>7. RunSnapshots' /\ Progress' /\ AsPlanned'
  BY <1>1, <1>3 DEF RunSnapshots, Progress, AsPlanned
<1>8. Unclaimed' /\ BaselineKept' /\ ForgetSound'
  BY <1>1, <1>3, UnclaimedStep, BaselineStep DEF AgentInv, ForgetSound, SameText
<1> QED BY <1>4, <1>6, <1>7, <1>8 DEF AgentInv

\* Until its record is written no baseline is of the transaction's own snapshots.
LEMMA BaseIsNotMine ==
    ASSUME AgentTypeOK, run.pc # "idle", run.pc \notin Late, NEW r \in Records, BaseSpent(r)
    PROVE  r.base # run.op
BY RunIs DEF BaseSpent

LEMMA TakeSnapshotsStep ==
    ASSUME AgentInv, TakeSnapshots
    PROVE  AgentInv'
<1> DEFINE copy(f) == [doc |-> running.before[f], pinned |-> running.kind = "connect",
                       exists |-> TRUE]
           taken(n) == [f \in Files |-> IF f < n THEN copy(f) ELSE NoSnapshot]
<1>1. PICK count \in 0..(Companions + 1) :
          /\ snapshot' = [snapshot EXCEPT ![run.op] = taken(count)]
          /\ \/ count = Companions + 1 /\ Fault(FALSE) /\ Goto("write", 0)
             \/ Event /\ Goto("unpin", 0)
  BY DEF TakeSnapshots
<1>2. /\ run.pc = "snapshot"
      /\ UNCHANGED <<file, record, plan, lastOp, forget, mine, touched, lost>>
  BY DEF TakeSnapshots, fileHistory
<1>3. /\ AgentTypeOK /\ run \in Runs /\ run.op \in Ops /\ running \in Plans
      /\ plan[run.op] # NoPlan
  BY <1>2, RunIs DEF AgentInv, running
<1>4. events' \in 0..MaxEvents
  BY <1>1, <1>3, FaultIs DEF Event
<1>5. /\ run' \in Runs /\ run'.op = run.op /\ run'.result = run.result /\ run'.at = 0
      /\ run'.pc \in {"write", "unpin"} /\ (run'.pc = "write" => count = Companions + 1)
  <2>1. CASE count = Companions + 1 /\ Goto("write", 0)
    BY <1>2, <1>3, <2>1, GotoIs, FilesAre DEF Points
  <2>2. CASE Goto("unpin", 0)
    BY <1>2, <1>3, <2>2, GotoIs, FilesAre DEF Points, Late
  <2> QED BY <1>1, <2>1, <2>2
<1>6. ASSUME NEW f \in Files
      PROVE  LET s == taken(count)[f] IN
             /\ s \in Snapshots
             /\ s.exists => s.doc = running.before[f]
             /\ run'.pc = "write" => s.exists /\ (running.kind = "connect" => s.pinned)
  <2>1. running.before[f] \in Docs
    BY <1>3 DEF Plans
  <2>2. CASE f < count
    <3>1. copy(f) \in Snapshots
      BY <2>1 DEF Snapshots
    <3> QED BY <2>2, <3>1
  <2>3. CASE ~(f < count)
    <3>1. NoSnapshot \in Snapshots /\ NoSnapshot.exists = FALSE
      BY NoFileIs DEF NoSnapshot, Snapshots
    <3>2. run'.pc # "write"
      BY <1>5, <2>3, FilesAre, AgentAssumption DEF AgentAssumption
    <3> QED BY <2>3, <3>1, <3>2
  <2> QED BY <2>2, <2>3
<1>7. taken(count) \in [Files -> Snapshots]
  BY <1>6
<1> HIDE DEF taken
<1>8. /\ snapshot'[run.op] = taken(count) /\ snapshot' \in [Ops -> [Files -> Snapshots]]
      /\ \A n \in Ops \ {run.op} : snapshot'[n] = snapshot[n]
  BY <1>1, <1>3, <1>7 DEF AgentTypeOK
<1>9. AgentTypeOK'
  BY <1>2, <1>3, <1>4, <1>5, <1>8 DEF AgentTypeOK
<1>10. SnapshotsStay /\ PlansOnlyGo /\ RunGoesOn
  BY <1>2, <1>8 DEF SnapshotsOnlyGo, SnapshotsStay, PlansOnlyGo, RunGoesOn, Late
<1>11. BasesSpent' /\ PlansSound'
  BY <1>2, <1>10, <1>9, SpentStep
<1>12. RunSnapshots'
  BY <1>2, <1>5, <1>6, <1>8 DEF RunSnapshots, running
<1>13. mine = {} /\ run.result = "untouched"
  BY <1>2 DEF AgentInv, Progress
<1>14. Progress' /\ AsPlanned'
  BY <1>2, <1>5, <1>13, FilesAre DEF Progress, AsPlanned
<1>15. record # NoRecord => record.base # run.op /\ record.base \in Ops
  BY <1>2, <1>3, BaseIsNotMine, RecordIs DEF AgentInv, AgentTypeOK, BasesSpent, Late
<1>16. BaselineKept'
  BY <1>2, <1>8, <1>15, BaselineStep
<1>17. Unclaimed' /\ ForgetSound'
  BY <1>2, <1>5, <1>15 DEF AgentInv, Unclaimed, ForgetSound, SameText
<1> QED BY <1>11, <1>12, <1>14, <1>16, <1>17, <1>9 DEF AgentInv

\* A step that writes files or goes on to the next.
LEMMA MoveStep ==
    ASSUME AgentInv, AgentTypeOK',
           UNCHANGED <<snapshot, record, plan, lastOp, forget, lost>>,
           run.pc \in {"write", "verify", "undo"}, run'.op = run.op,
           run.pc = "undo" => run'.pc \in {"undo", "unpin"},
           run'.pc \in {"write", "verify", "commit", "undo", "unpin"}
    PROVE  /\ BasesSpent' /\ PlansSound' /\ ForgetSound'
           /\ RunSnapshots' /\ Unclaimed' /\ BaselineKept'
<1>1. SnapshotsStay /\ PlansOnlyGo /\ RunGoesOn
  BY DEF SnapshotsOnlyGo, SnapshotsStay, PlansOnlyGo, RunGoesOn, Late
<1>2. BasesSpent' /\ PlansSound'
  BY <1>1, SpentStep
<1>3. AgentTypeOK /\ run # NoRun
  BY RunIs DEF AgentInv
<1>4. RunSnapshots'
  BY <1>3 DEF AgentInv, RunSnapshots, running
<1>5. run.pc # "undo" /\ record # NoRecord => record.base # run.op
  BY <1>3, BaseIsNotMine DEF AgentInv, AgentTypeOK, BasesSpent, Late
<1>6. Unclaimed'
  BY <1>5 DEF AgentInv, Unclaimed, running
<1>7. BaselineKept' /\ ForgetSound'
  BY BaselineStep DEF AgentInv, ForgetSound, SameText
<1> QED BY <1>2, <1>4, <1>6, <1>7

LEMMA MoveTypes ==
    ASSUME AgentTypeOK, run.pc # "idle", run' \in Runs, run'.op = run.op,
           UNCHANGED <<plan, lastOp, forget, touched, lost>>,
           file' \in [Files -> Docs], snapshot' \in [Ops -> [Files -> Snapshots]],
           record' \in Records \union {NoRecord}, events' \in 0..MaxEvents, mine' \subseteq Files
    PROVE  AgentTypeOK'
BY RunIs DEF AgentTypeOK

LEMMA WriteFileStep ==
    ASSUME AgentInv, WriteFile
    PROVE  AgentInv'
<1> DEFINE f == run.at
<1>1. PICK result \in Results :
          /\ AtomicWrite(f, running.before[f], running.after[f], result)
          /\ mine' = IF result = "failed" THEN mine ELSE mine \union {f}
          /\ IF result # "ok" THEN Recover(WrittenCount(f, result))
             ELSE IF f < Companions THEN Goto("write", f + 1) ELSE Goto("verify", 0)
  BY DEF WriteFile
<1>2. /\ run.pc = "write"
      /\ UNCHANGED <<snapshot, record, plan, lastOp, forget, touched, lost>>
  BY DEF WriteFile
<1>3. /\ AgentTypeOK /\ run \in Runs /\ run.op \in Ops /\ running \in Plans
      /\ f \in Files /\ (\A g \in mine : g < f) /\ run.result = "untouched"
  BY <1>2, RunIs DEF AgentInv, running, Progress
<1>4. /\ running.before[f] \in Docs /\ running.after[f] \in Docs
      /\ mine \subseteq Files /\ Files \subseteq Nat
  BY <1>3, FilesAre DEF Plans, AgentTypeOK
<1>5. file' \in [Files -> Docs] /\ events' \in 0..MaxEvents
  BY <1>1, <1>3, <1>4, WriteIs
<1> DEFINE n == WrittenCount(f, result)
<1>6. /\ n \in {f, f + 1} /\ n \in 0..(Companions + 1) /\ (n = f <=> result # "late")
  BY <1>3, FilesAre, AgentAssumption DEF AgentAssumption, WrittenCount, Files
<1>7. /\ (mine \union {f}) \subseteq Files
      /\ \A g \in mine \union {f} : g \in Nat /\ g < f + 1
  <2> HIDE DEF f
  <2> QED BY <1>3, <1>4
<1>8. CASE result # "ok"
  <2>1. /\ run' \in Runs /\ run'.op = run.op /\ run'.at = n - 1
        /\ n = 0 => run'.pc = "unpin" /\ run'.result = "untouched"
        /\ n # 0 => run'.pc = "undo" /\ run'.result = "restored" /\ run'.at \in Files
    BY <1>1, <1>2, <1>3, <1>6, <1>8, RecoverIs
  <2>2. mine' \subseteq Files /\ \A g \in mine' : g < n
    <3>1. CASE result = "failed"
      <4>1. mine' = mine /\ n = f
        BY <1>1, <1>6, <3>1
      <4> QED BY <1>3, <1>4, <4>1
    <3>2. CASE result = "late"
      <4>1. mine' = mine \union {f} /\ n = f + 1
        BY <1>1, <1>6, <3>2
      <4> QED BY <1>7, <4>1
    <3> QED BY <1>8, <3>1, <3>2 DEF Results
  <2>3. AgentTypeOK'
    BY <1>2, <1>3, <1>5, <2>1, <2>2, MoveTypes DEF AgentTypeOK
  <2>4. Progress' /\ AsPlanned'
    <3>1. CASE n = 0
      <4>1. mine' = {}
        <5>1. \A g \in mine' : g \in Nat /\ g < 0
          BY <1>4, <2>2, <3>1
        <5> QED BY <5>1
      <4> QED BY <2>1, <3>1, <4>1 DEF Progress, AsPlanned
    <3>2. CASE n # 0
      <4>1. \A g \in mine' : g <= n - 1
        BY <1>4, <1>6, <2>2
      <4> QED BY <2>1, <3>2, <4>1 DEF Progress, AsPlanned
    <3> QED BY <3>1, <3>2
  <2>5. run'.pc \in {"undo", "unpin"}
    BY <2>1
  <2> QED BY <1>2, <2>1, <2>3, <2>4, <2>5, MoveStep DEF AgentInv
<1>9. CASE result = "ok"
  <2>1. /\ run' \in Runs /\ run'.op = run.op /\ run'.result = "untouched"
        /\ \/ f < Companions /\ run'.pc = "write" /\ run'.at = f + 1
           \/ run'.pc = "verify"
    <3>1. CASE f < Companions
      <4>1. Goto("write", f + 1) /\ f + 1 \in -1..Companions /\ "write" \in Points
        BY <1>1, <1>3, <1>9, <3>1, FilesAre DEF Points
      <4> QED BY <1>2, <1>3, <3>1, <4>1, GotoIs
    <3>2. CASE ~(f < Companions)
      <4>1. Goto("verify", 0) /\ 0 \in -1..Companions /\ "verify" \in Points
        BY <1>1, <1>9, <3>2, FilesAre DEF Points
      <4> QED BY <1>2, <1>3, <4>1, GotoIs
    <3> QED BY <3>1, <3>2
  <2>2. mine' = mine \union {f} /\ mine' \subseteq Files
    BY <1>1, <1>3, <1>4, <1>9
  <2>3. AgentTypeOK'
    BY <1>2, <1>3, <1>5, <2>1, <2>2, MoveTypes DEF AgentTypeOK
  <2>4. Progress' /\ AsPlanned'
    <3>1. f < Companions => f + 1 \in Files /\ \A g \in mine' : g < f + 1
      BY <1>3, <1>7, <2>2, FilesAre
    <3> QED BY <2>1, <3>1 DEF Progress, AsPlanned
  <2>5. run'.pc \in {"write", "verify"}
    BY <2>1
  <2> QED BY <1>2, <2>1, <2>3, <2>4, <2>5, MoveStep DEF AgentInv
<1> QED BY <1>8, <1>9

LEMMA VerifyFilesStep ==
    ASSUME AgentInv, VerifyFiles
    PROVE  AgentInv'
<1>1. /\ run.pc = "verify"
      /\ UNCHANGED <<file, snapshot, record, plan, lastOp, forget, mine, touched, lost>>
  BY DEF VerifyFiles, fileHistory
<1>2. /\ AgentTypeOK /\ run.result = "untouched" /\ mine \subseteq Files
  BY <1>1 DEF AgentInv, Progress, AgentTypeOK
<1>3. CASE file = running.after /\ Goto("commit", 0) /\ Fault(FALSE)
  <2>1. run' \in Runs /\ run'.op = run.op /\ run'.result = "untouched" /\ run'.pc = "commit"
    BY <1>1, <1>2, <1>3, GotoIs, FilesAre DEF Points
  <2>2. AgentTypeOK'
    BY <1>1, <1>2, <1>3, <2>1, FaultIs, MoveTypes DEF AgentTypeOK
  <2>3. Progress' /\ AsPlanned'
    BY <1>1, <1>3, <2>1 DEF Progress, AsPlanned, running
  <2> QED BY <1>1, <2>1, <2>2, <2>3, MoveStep DEF AgentInv
<1>4. CASE Recover(Companions + 1) /\ Fault(file = running.after)
  <2>1. /\ run' \in Runs /\ run'.op = run.op /\ run'.at = Companions
        /\ run'.pc = "undo" /\ run'.result = "restored" /\ run'.at \in Files
    BY <1>1, <1>2, <1>4, RecoverAllIs
  <2>2. AgentTypeOK'
    BY <1>1, <1>2, <1>4, <2>1, FaultIs, MoveTypes DEF AgentTypeOK
  <2>3. Progress' /\ AsPlanned'
    BY <1>1, <1>2, <2>1, FilesAre DEF Progress, AsPlanned
  <2> QED BY <1>1, <2>1, <2>2, <2>3, MoveStep DEF AgentInv
<1> QED BY <1>3, <1>4 DEF VerifyFiles

LEMMA UndoFileStep ==
    ASSUME AgentInv, UndoFile
    PROVE  AgentInv'
<1> DEFINE f == run.at
           s == snapshot[run.op][f]
<1>1. PICK result \in Results :
          /\ IF s.exists THEN AtomicWrite(f, running.after[f], s.doc, result)
             ELSE result = "failed" /\ UNCHANGED <<file, events>>
          /\ mine' = IF result = "failed" THEN mine ELSE mine \ {f}
          /\ run' = [run EXCEPT !.pc = IF f = 0 THEN "unpin" ELSE "undo", !.at = f - 1,
                       !.result = IF result = "ok" THEN @ ELSE "repair"]
  BY DEF UndoFile
<1>2. /\ run.pc = "undo"
      /\ UNCHANGED <<snapshot, record, plan, lastOp, forget, touched, lost>>
  BY DEF UndoFile
<1>3. /\ AgentTypeOK /\ run \in Runs /\ run.op \in Ops /\ running \in Plans
      /\ f \in Files /\ run.result \in {"restored", "repair"}
      /\ run.result = "restored" => \A g \in mine : g <= f
  BY <1>2, RunIs DEF AgentInv, running, Progress
<1>4. /\ running.after[f] \in Docs /\ s \in Snapshots /\ s.doc \in Docs
      /\ mine \subseteq Files /\ Files \subseteq Nat
  <2>1. s \in Snapshots
    BY <1>3 DEF AgentTypeOK
  <2> QED BY <1>3, <2>1, FilesAre DEF Plans, AgentTypeOK, Snapshots
<1>5. file' \in [Files -> Docs] /\ events' \in 0..MaxEvents
  <2>1. CASE s.exists
    BY <1>1, <1>3, <1>4, <2>1, WriteIs
  <2>2. CASE ~s.exists
    BY <1>1, <1>3, <2>2 DEF AgentTypeOK
  <2> QED BY <2>1, <2>2
<1>6. f - 1 \in -1..Companions /\ (f # 0 => f - 1 \in Files)
  BY <1>3, FilesAre
<1>7. /\ run' \in Runs /\ run'.op = run.op /\ run'.at = f - 1
      /\ run'.pc = IF f = 0 THEN "unpin" ELSE "undo"
      /\ run'.result = IF result = "ok" THEN run.result ELSE "repair"
  <2> HIDE DEF f
  <2> QED BY <1>1, <1>3, <1>6 DEF Runs
<1>8. mine' \subseteq Files /\ (result = "ok" => mine' = mine \ {f})
  BY <1>1, <1>4
<1>9. AgentTypeOK'
  BY <1>2, <1>3, <1>4, <1>5, <1>7, <1>8, MoveTypes DEF AgentTypeOK
<1>10. run'.result = "restored" => \A g \in mine' : g <= f - 1
  <2>1. run'.result = "restored" => result = "ok" /\ run.result = "restored"
    BY <1>7
  <2>2. run'.result = "restored" => \A g \in mine' : g \in Nat /\ g <= f /\ g # f
    BY <1>3, <1>4, <1>8, <2>1
  <2>3. f \in Nat
    BY <1>3, <1>4
  <2> HIDE DEF f
  <2> QED BY <2>2, <2>3
<1>11. run'.result \in {"restored", "repair"}
  BY <1>3, <1>7
<1>12. run'.pc = "unpin" /\ run'.result = "restored" => mine' = {}
  BY <1>4, <1>7, <1>8, <1>10
<1>13. Progress' /\ AsPlanned'
  BY <1>6, <1>7, <1>10, <1>11, <1>12 DEF Progress, AsPlanned
<1>14. run'.pc \in {"undo", "unpin"}
  BY <1>7
<1> QED BY <1>2, <1>7, <1>9, <1>13, <1>14, MoveStep DEF AgentInv

\* The record a plan leads to, and what it takes from the one the plan was made for.
LEMMA NewRecordIs ==
    ASSUME AgentTypeOK, run.pc # "idle"
    PROVE  /\ running.kind = "connect" =>
                /\ NewRecord \in Records /\ NewRecord.base = run.op
                /\ NewRecord.orig = [f \in Files |-> running.before[f].own]
           /\ running.kind = "restore" =>
                /\ running.bound \in Records /\ NewRecord \in Records
                /\ NewRecord.base = running.bound.base /\ NewRecord.orig = running.bound.orig
                /\ NewRecord.doubtful = running.bound.doubtful
           /\ running.kind = "disconnect" => NewRecord = NoRecord
           /\ running.kind \in {"connect", "restore", "disconnect"}
<1>1. running \in Plans /\ run.op \in Ops
  BY RunIs DEF running
<1>2. /\ running.after \in [Files -> Docs] /\ running.before \in [Files -> Docs]
      /\ running.kind \in {"connect", "restore", "disconnect"}
      /\ running.bound \in Records \union {NoRecord}
  BY <1>1 DEF Plans
<1>3. running.kind = "restore" => running.bound \in Records
  BY <1>1, <1>2, RunIs DEF AgentTypeOK, running
<1> DEFINE written == [f \in Files |-> running.after[f].own]
           there == [f \in Files |-> running.before[f].own]
<1>4. written \in [Files -> Values] /\ there \in [Files -> Values]
  BY <1>2, NoFileIs
<1>5. CASE running.kind = "connect"
  <2>1. NewRecord = [revision |-> 1, base |-> run.op, owned |-> written,
                     after |-> running.after, orig |-> there, doubtful |-> FALSE]
    BY <1>5 DEF NewRecord
  <2> HIDE DEF written, there
  <2>2. NewRecord \in Records /\ NewRecord.base = run.op /\ NewRecord.orig = there
    BY <1>1, <1>2, <1>4, <2>1 DEF Records
  <2> QED BY <1>5, <2>2 DEF there
<1>6. CASE running.kind = "restore"
  <2>1. NewRecord = [running.bound EXCEPT !.revision = @ + 1, !.after = running.after,
                                          !.owned = written]
    BY <1>6 DEF NewRecord
  <2> HIDE DEF written, there
  <2>2. /\ NewRecord \in Records /\ NewRecord.base = running.bound.base
        /\ NewRecord.orig = running.bound.orig /\ NewRecord.doubtful = running.bound.doubtful
    <3> DEFINE b == running.bound
    <3>1. /\ b \in Records /\ b.revision + 1 \in Nat \ {0} /\ written \in [Files -> Values]
          /\ running.after \in [Files -> Docs]
      BY <1>2, <1>3, <1>4, <1>6 DEF Records, written
    <3>2. NewRecord = [b EXCEPT !.revision = b.revision + 1, !.after = running.after,
                                !.owned = written]
      BY <2>1
    <3> HIDE DEF b
    <3>3. /\ NewRecord \in Records /\ NewRecord.base = b.base
          /\ NewRecord.orig = b.orig /\ NewRecord.doubtful = b.doubtful
      BY <3>1, <3>2 DEF Records
    <3> QED BY <3>3 DEF b
  <2> QED BY <1>3, <1>6, <2>2
<1>7. CASE running.kind = "disconnect"
  BY <1>7 DEF NewRecord
<1> QED BY <1>2, <1>5, <1>6, <1>7

LEMMA CommitOwnershipStep ==
    ASSUME AgentInv, CommitOwnership
    PROVE  AgentInv'
<1> DEFINE doubt(result) == \/ NewRecord.doubtful \/ record # running.bound
                            \/ running.kind = "connect" /\ result = "late"
<1>1. PICK result \in Results :
          /\ ~SameOwnership(run.op) => result = "failed"
          /\ record' = IF result = "failed" THEN record
                       ELSE IF NewRecord = NoRecord THEN NoRecord
                       ELSE [NewRecord EXCEPT !.doubtful =
                               @ \/ record # running.bound
                                 \/ (running.kind = "connect" /\ result = "late")]
          /\ IF result = "ok"
             THEN run' = [run EXCEPT !.pc = "release", !.result = "applied"]
             ELSE Recover(Companions + 1)
          /\ Fault(result # "ok" /\ SameOwnership(run.op))
  BY DEF CommitOwnership
<1>2. /\ run.pc = "commit"
      /\ UNCHANGED <<file, snapshot, plan, lastOp, forget, mine, touched, lost>>
  BY DEF CommitOwnership, fileHistory
<1>3. /\ AgentTypeOK /\ run \in Runs /\ run.op \in Ops /\ running \in Plans
      /\ plan[run.op] # NoPlan /\ running = plan[run.op] /\ run # NoRun
  BY <1>2, RunIs DEF AgentInv, running
<1>4. /\ run' \in Runs /\ run'.op = run.op
      /\ result = "ok" => run'.pc = "release" /\ run'.result = "applied"
      /\ result # "ok" => run'.pc = "undo" /\ run'.result = "restored" /\ run'.at = Companions
  <2>1. CASE result = "ok"
    BY <1>1, <1>3, <2>1 DEF Runs
  <2>2. CASE result # "ok"
    BY <1>1, <1>2, <1>3, <2>2, RecoverAllIs
  <2> QED BY <2>1, <2>2
\* What is on record now.
<1>5. /\ record' = record \/ result # "failed"
      /\ result # "failed" /\ running.kind = "disconnect" => record' = NoRecord
      /\ result # "failed" /\ running.kind # "disconnect" =>
           /\ record' \in Records /\ record'.base = NewRecord.base
           /\ record'.orig = NewRecord.orig
           /\ ~record'.doubtful => ~doubt(result)
  <2>1. CASE result = "failed"
    BY <1>1, <2>1
  <2>2. CASE result # "failed" /\ running.kind = "disconnect"
    BY <1>1, <1>2, <1>3, <2>2, NewRecordIs
  <2>3. CASE result # "failed" /\ running.kind # "disconnect"
    <3>1. NewRecord \in Records /\ NewRecord # NoRecord
      BY <1>2, <1>3, <2>3, NewRecordIs, RecordIs
    <3>2. record' = [NewRecord EXCEPT !.doubtful = doubt(result)]
      BY <1>1, <2>3, <3>1
    <3>3. doubt(result) \in BOOLEAN
      BY <3>1 DEF Records
    <3> HIDE DEF doubt
    <3>4. /\ record' \in Records /\ record'.base = NewRecord.base
          /\ record'.orig = NewRecord.orig /\ record'.doubtful = doubt(result)
      BY <3>1, <3>2, <3>3 DEF Records
    <3> QED BY <2>3, <3>3, <3>4
  <2> QED BY <2>1, <2>2, <2>3
<1> HIDE DEF doubt
<1>6. events' \in 0..MaxEvents
  BY <1>1, <1>3, FaultIs
<1>7. record' \in Records \union {NoRecord}
  BY <1>3, <1>5 DEF AgentTypeOK
<1>8. AgentTypeOK'
  BY <1>2, <1>3, <1>4, <1>6, <1>7, MoveTypes DEF AgentTypeOK
<1>9. SnapshotsStay /\ PlansOnlyGo /\ RunGoesOn
  BY <1>2 DEF SnapshotsOnlyGo, SnapshotsStay, PlansOnlyGo, RunGoesOn, Late
<1>10. \A f \in Files :
           LET s == snapshot[run.op][f] IN
           /\ s.exists => s.doc = running.before[f]
           /\ running.kind = "connect" => s.exists /\ s.pinned
  BY <1>2, <1>3 DEF AgentInv, RunSnapshots
<1>11. running.bound # NoRecord => BaseSpent(running.bound)
  BY <1>3 DEF AgentInv, BasesSpent
<1>12. record' # NoRecord => record' = record \/ BaseSpent(record)'
  <2> SUFFICES ASSUME record' # NoRecord, record' # record PROVE BaseSpent(record)'
    OBVIOUS
  <2>1. /\ record' \in Records /\ running.kind \in {"connect", "restore"}
        /\ record'.base = NewRecord.base /\ record'.orig = NewRecord.orig
    BY <1>2, <1>3, <1>5, NewRecordIs
  <2>2. CASE running.kind = "connect"
    <3>1. record'.base = run.op /\ record'.orig = [f \in Files |-> running.before[f].own]
      BY <1>2, <1>3, <2>1, <2>2, NewRecordIs
    <3>2. run.op <= lastOp
      BY <1>3 DEF AgentInv, BasesSpent
    <3>3. run'.pc \in Late
      BY <1>4 DEF Late
    <3> QED BY <1>2, <1>4, <1>10, <3>1, <3>2, <3>3 DEF BaseSpent
  <2>3. CASE running.kind = "restore"
    <3>1. /\ running.bound \in Records /\ running.bound # NoRecord
          /\ record'.base = running.bound.base /\ record'.orig = running.bound.orig
      BY <1>2, <1>3, <2>1, <2>3, NewRecordIs, RecordIs
    <3>2. BaseSpent(running.bound)
      BY <1>11, <3>1
    <3>3. run.op # running.bound.base
      BY <1>2, <1>3, <3>1, <3>2, BaseIsNotMine DEF Late
    <3> QED BY <1>2, <3>1, <3>2, <3>3 DEF BaseSpent
  <2> QED BY <2>1, <2>2, <2>3
<1>13. BasesSpent' /\ PlansSound'
  BY <1>2, <1>8, <1>9, <1>12, SpentStep
<1>14. RunSnapshots' /\ ForgetSound'
  BY <1>2, <1>4, <1>10 DEF RunSnapshots, running, AgentInv, ForgetSound, SameText
<1>15. Progress'
  BY <1>2, <1>3, <1>4, FilesAre DEF Progress, AgentTypeOK
<1>16. AsPlanned'
  BY <1>2, <1>4 DEF AgentInv, AsPlanned, running
<1>17. record # NoRecord => record.base # run.op
  BY <1>2, <1>3, BaseIsNotMine DEF AgentInv, AgentTypeOK, BasesSpent, Late
<1>18. CASE record' = record
  <2>1. BaselineKept'
    BY <1>2, <1>18, BaselineStep
  <2>2. result = "ok" /\ running.kind = "disconnect" => record' = NoRecord
    BY <1>5
  <2>3. Unclaimed'
    BY <1>2, <1>4, <1>17, <1>18, <2>2 DEF AgentInv, Unclaimed, running
  <2> QED BY <1>8, <1>13, <1>14, <1>15, <1>16, <2>1, <2>3 DEF AgentInv
<1>19. CASE record' = NoRecord
  <2>1. BaselineKept' /\ Unclaimed'
    BY <1>19 DEF BaselineKept, Unclaimed
  <2> QED BY <1>8, <1>13, <1>14, <1>15, <1>16, <2>1 DEF AgentInv
<1>20. CASE record' # record /\ record' # NoRecord
  <2>1. /\ record' \in Records /\ result # "failed" /\ running.kind \in {"connect", "restore"}
        /\ record'.base = NewRecord.base /\ (~record'.doubtful => ~doubt(result))
    BY <1>2, <1>3, <1>5, <1>20, NewRecordIs
  <2>2. CASE running.kind = "connect"
    <3>1. record'.base = run.op /\ (~record'.doubtful => result = "ok")
      <4>1. ~doubt(result) => result # "late"
        BY <2>2 DEF doubt
      <4>2. NewRecord.base = run.op
        BY <1>2, <1>3, <2>2, NewRecordIs
      <4>3. result \in {"ok", "late"}
        BY <2>1 DEF Results
      <4> QED BY <2>1, <4>1, <4>2, <4>3
    <3>2. forget # NoForget => forget.record.base # run.op
      <4>1. forget # NoForget => forget.record \in Records /\ BaseSpent(forget.record)
        BY <1>3 DEF AgentInv, AgentTypeOK, BasesSpent, Forgets
      <4> QED BY <1>2, <1>3, <4>1, BaseIsNotMine DEF Late
    <3>3. Unclaimed'
      BY <1>2, <1>4, <2>2, <3>1, <3>2, RecordIs DEF Unclaimed, running
    <3>4. BaselineKept'
      BY <1>2, <1>10, <2>2, <3>1 DEF BaselineKept
    <3> QED BY <1>8, <1>13, <1>14, <1>15, <1>16, <3>3, <3>4 DEF AgentInv
  <2>3. CASE running.kind = "restore"
    <3>1. /\ record'.base = running.bound.base
          /\ ~record'.doubtful => record = running.bound /\ ~record.doubtful
                                  /\ record # NoRecord
      <4>1. ~doubt(result) => ~NewRecord.doubtful /\ record = running.bound
        BY DEF doubt
      <4>2. /\ NewRecord.base = running.bound.base /\ running.bound # NoRecord
            /\ NewRecord.doubtful = running.bound.doubtful
        BY <1>2, <1>3, <2>3, NewRecordIs, RecordIs
      <4> QED BY <2>1, <4>1, <4>2
    <3>2. Unclaimed'
      BY <1>2, <1>4, <2>3, <3>1 DEF AgentInv, Unclaimed, running
    <3>3. BaselineKept'
      BY <1>2, <3>1 DEF AgentInv, BaselineKept
    <3> QED BY <1>8, <1>13, <1>14, <1>15, <1>16, <3>2, <3>3 DEF AgentInv
  <2> QED BY <2>1, <2>2, <2>3
<1> QED BY <1>18, <1>19, <1>20

\* Unpinning changes nothing else.
LEMMA UnpinnedIs ==
    ASSUME AgentTypeOK, NEW n \in Ops, Unpinned(n)
    PROVE  /\ snapshot' \in [Ops -> [Files -> Snapshots]] /\ events' \in 0..MaxEvents
           /\ \A m \in Ops \ {n} : snapshot'[m] = snapshot[m]
           /\ \A f \in Files : /\ snapshot'[n][f].exists = snapshot[n][f].exists
                               /\ snapshot'[n][f].doc = snapshot[n][f].doc
           /\ \A m \in Ops : SnapshotsOnlyGo(m)
<1> DEFINE kept(f, left) == snapshot[n][f].pinned /\ f \in left
           row(left) == [f \in Files |-> [snapshot[n][f] EXCEPT !.pinned = @ /\ f \in left]]
<1>1. PICK left \in SUBSET Files :
          snapshot' = [snapshot EXCEPT ![n] = row(left)] /\ Fault(left # {})
  BY DEF Unpinned
<1>2. snapshot \in [Ops -> [Files -> Snapshots]]
  BY DEF AgentTypeOK
<1>3. ASSUME NEW f \in Files
      PROVE  /\ row(left)[f] \in Snapshots
             /\ row(left)[f].exists = snapshot[n][f].exists
             /\ row(left)[f].doc = snapshot[n][f].doc
  <2>1. snapshot[n][f] \in Snapshots
    BY <1>2
  <2>2. kept(f, left) \in BOOLEAN
    BY <2>1 DEF Snapshots
  <2>3. row(left)[f] = [snapshot[n][f] EXCEPT !.pinned = kept(f, left)]
    OBVIOUS
  <2> HIDE DEF kept, row
  <2> QED BY <2>1, <2>2, <2>3 DEF Snapshots
<1>4. row(left) \in [Files -> Snapshots]
  BY <1>3
<1> HIDE DEF row
<1>5. /\ snapshot' \in [Ops -> [Files -> Snapshots]] /\ snapshot'[n] = row(left)
      /\ \A m \in Ops \ {n} : snapshot'[m] = snapshot[m]
  BY <1>1, <1>2, <1>4
<1>6. events' \in 0..MaxEvents
  BY <1>1, FaultIs
<1> QED BY <1>3, <1>5, <1>6 DEF SnapshotsOnlyGo

\* A step of the transaction that only unpins, and ends it.
LEMMA DoneStep ==
    ASSUME AgentInv, run.pc \in {"unpin", "release"}, Goto("done", 0),
           UNCHANGED <<file, record, plan, lastOp, forget, mine, touched, lost>>,
           snapshot' \in [Ops -> [Files -> Snapshots]], events' \in 0..MaxEvents,
           \A m \in Ops : SnapshotsOnlyGo(m),
           record # NoRecord /\ ~record.doubtful => snapshot'[record.base] = snapshot[record.base]
    PROVE  AgentInv'
<1>1. /\ AgentTypeOK /\ run \in Runs /\ run.op \in Ops /\ run # NoRun
  BY RunIs DEF AgentInv
<1>2. run' \in Runs /\ run'.op = run.op /\ run'.pc = "done" /\ run'.result = run.result
  BY <1>1, GotoIs, FilesAre DEF Points, Late
<1>3. AgentTypeOK'
  BY <1>1, <1>2, MoveTypes DEF AgentTypeOK
<1>4. SnapshotsStay /\ PlansOnlyGo /\ RunGoesOn
  BY <1>2 DEF SnapshotsStay, PlansOnlyGo, RunGoesOn, Late
<1>5. BasesSpent' /\ PlansSound'
  BY <1>3, <1>4, SpentStep
<1>6. RunSnapshots'
  BY <1>1, <1>2 DEF AgentInv, RunSnapshots, SnapshotsOnlyGo, running
<1>7. Progress' /\ AsPlanned'
  BY <1>2 DEF AgentInv, Progress, AsPlanned, running
<1>8. Unclaimed' /\ BaselineKept' /\ ForgetSound'
  BY <1>2, UnclaimedStep, BaselineStep DEF AgentInv, ForgetSound, SameText
<1> QED BY <1>3, <1>5, <1>6, <1>7, <1>8 DEF AgentInv

LEMMA UnpinFailedStep ==
    ASSUME AgentInv, UnpinFailed
    PROVE  AgentInv'
<1>1. /\ run.pc = "unpin" /\ Goto("done", 0)
      /\ UNCHANGED <<file, record, plan, lastOp, forget, mine, touched, lost>>
  BY DEF UnpinFailed, fileHistory
<1>2. /\ AgentTypeOK /\ run.op \in Ops
      /\ record # NoRecord => record.base \in Ops
  BY <1>1, RunIs, RecordIs DEF AgentInv, AgentTypeOK
<1>3. CASE running.kind = "connect" /\ Unpinned(run.op)
  <2>1. record # NoRecord /\ ~record.doubtful => record.base # run.op
    BY <1>1, <1>3 DEF AgentInv, Unclaimed
  <2> QED BY <1>1, <1>2, <1>3, <2>1, UnpinnedIs, DoneStep
<1>4. CASE UNCHANGED <<snapshot, events>>
  <2>1. snapshot' \in [Ops -> [Files -> Snapshots]] /\ events' \in 0..MaxEvents
    BY <1>2, <1>4 DEF AgentTypeOK
  <2>2. \A m \in Ops : SnapshotsOnlyGo(m)
    BY <1>4 DEF SnapshotsOnlyGo
  <2> QED BY <1>1, <1>4, <2>1, <2>2, DoneStep
<1> QED BY <1>3, <1>4 DEF UnpinFailed

LEMMA ReleaseStep ==
    ASSUME AgentInv, Release
    PROVE  AgentInv'
<1>1. /\ run.pc = "release" /\ Goto("done", 0)
      /\ UNCHANGED <<file, record, plan, lastOp, forget, mine, touched, lost>>
  BY DEF Release, fileHistory
<1>2. AgentTypeOK /\ run.op \in Ops /\ running = plan[run.op] /\ running \in Plans
  BY <1>1, RunIs DEF AgentInv, running
<1>3. CASE running.kind = "disconnect" /\ Unpinned(running.bound.base)
  <2>1. running.bound.base \in Ops
    <3>1. running.bound # NoRecord
      BY <1>2, <1>3 DEF AgentTypeOK
    <3> QED BY <1>2, <3>1, RecordIs DEF Plans
  <2>2. record = NoRecord
    BY <1>1, <1>3 DEF AgentInv, Unclaimed
  <2> QED BY <1>1, <1>2, <1>3, <2>1, <2>2, UnpinnedIs, DoneStep
<1>4. CASE UNCHANGED <<snapshot, events>>
  <2>1. snapshot' \in [Ops -> [Files -> Snapshots]] /\ events' \in 0..MaxEvents
    BY <1>2, <1>4 DEF AgentTypeOK
  <2>2. \A m \in Ops : SnapshotsOnlyGo(m)
    BY <1>4 DEF SnapshotsOnlyGo
  <2> QED BY <1>1, <1>4, <2>1, <2>2, DoneStep
<1> QED BY <1>3, <1>4 DEF Release

\* Nothing runs any more.
LEMMA EndStep ==
    ASSUME AgentInv, AgentTypeOK', run' = NoRun,
           UNCHANGED <<snapshot, record, lastOp>>,
           PlansOnlyGo, run # NoRun => plan'[run.op] = NoPlan,
           forget' = forget \/ forget' = NoForget
    PROVE  AgentInv'
<1>1. run'.pc = "idle" /\ NoForget.pc = "idle"
  BY RecordIs DEF NoRun
<1>2. SnapshotsStay /\ RunGoesOn
  BY RunIs DEF AgentInv, SnapshotsOnlyGo, SnapshotsStay, RunGoesOn, Late
<1>3. BasesSpent' /\ PlansSound'
  BY <1>2, SpentStep
<1>4. RunSnapshots' /\ Progress' /\ AsPlanned'
  BY <1>1 DEF RunSnapshots, Progress, AsPlanned
<1>5. Unclaimed' /\ BaselineKept' /\ ForgetSound'
  BY <1>1, UnclaimedStep, BaselineStep DEF AgentInv, ForgetSound, SameText
<1> QED BY <1>3, <1>4, <1>5 DEF AgentInv

LEMMA AnswerStep ==
    ASSUME AgentInv, Answer
    PROVE  AgentInv'
<1>1. /\ run.pc = "done" /\ run' = NoRun /\ plan' = [plan EXCEPT ![run.op] = NoPlan]
      /\ mine' = {} /\ touched' = {} /\ lost' = FALSE
      /\ UNCHANGED <<file, snapshot, record, lastOp, forget, events>>
  BY DEF Answer
<1>2. AgentTypeOK /\ run.op \in Ops
  BY <1>1, RunIs DEF AgentInv
<1>3. /\ plan' \in [Ops -> Plans \union {NoPlan}] /\ plan'[run.op] = NoPlan
      /\ \A n \in Ops \ {run.op} : plan'[n] = plan[n]
  BY <1>1, <1>2 DEF AgentTypeOK
<1>4. \A n \in Ops : plan'[n].kind \in {"disconnect", "restore"} => plan'[n].bound # NoRecord
  BY <1>2, <1>3, RecordIs DEF AgentTypeOK
<1>5. AgentTypeOK'
  BY <1>1, <1>2, <1>3, <1>4 DEF AgentTypeOK
<1> QED BY <1>1, <1>3, <1>5, EndStep DEF PlansOnlyGo

LEMMA ProcessEndsStep ==
    ASSUME AgentInv, ProcessEnds
    PROVE  AgentInv'
<1>1. /\ run' = NoRun /\ forget' = NoForget /\ plan' = [n \in Ops |-> NoPlan]
      /\ mine' = {} /\ touched' = {} /\ lost' = FALSE
      /\ UNCHANGED <<file, snapshot, record, lastOp>>
  BY DEF ProcessEnds
<1>2. AgentTypeOK
  BY DEF AgentInv
<1>3. events' \in 0..MaxEvents
  BY <1>2, FaultIs DEF ProcessEnds, Event
<1>4. AgentTypeOK'
  BY <1>1, <1>2, <1>3, RecordIs DEF AgentTypeOK
<1>5. run # NoRun => run.op \in Ops
  BY <1>2, RunIs
<1> QED BY <1>1, <1>4, <1>5, EndStep DEF PlansOnlyGo

-----------------------------------------------------------------------------
(* force_forget and everybody else.                                        *)

\* A step of force_forget or of somebody who writes files.
LEMMA OutsiderStep ==
    ASSUME AgentInv, AgentTypeOK', UNCHANGED <<snapshot, plan, lastOp, run>>,
           record' = NoRecord \/ record' = record,
           \/ forget' = forget \/ forget' = NoForget
           \/ /\ forget # NoForget /\ forget'.record = forget.record
              /\ forget'.before = forget.before /\ forget'.after = forget.after
              /\ forget'.pc \in {"strip", "rollback"} => forget'.at \in Files,
           forget'.pc = "unpin" => forget.pc = "unpin" \/ record' = NoRecord,
           mine' \subseteq mine,
           run # NoRun => touched \subseteq touched' /\ (lost => lost'),
           run # NoRun => \A f \in Files \ touched' : file'[f] = file[f]
    PROVE  AgentInv'
<1>1. (\A n \in Ops : SnapshotsOnlyGo(n)) /\ SnapshotsStay /\ PlansOnlyGo /\ RunGoesOn
  BY DEF SnapshotsOnlyGo, SnapshotsStay, PlansOnlyGo, RunGoesOn
<1>2. BasesSpent' /\ PlansSound'
  BY <1>1, SpentStep
<1>3. RunSnapshots' /\ Progress' /\ AsPlanned'
  BY <1>1, AsideStep
<1>4. BaselineKept'
  BY BaselineStep
<1>5. ForgetSound'
  BY DEF AgentInv, ForgetSound, SameText
<1>6. Unclaimed'
  BY RecordIs DEF AgentInv, Unclaimed, running
<1> QED BY <1>2, <1>3, <1>4, <1>5, <1>6 DEF AgentInv

\* What somebody else's write to one file leaves of the histories.
LEMMA DisturbsIs ==
    ASSUME AgentTypeOK, NEW f \in Files, Disturbs(f)
    PROVE  /\ mine' \subseteq mine /\ mine' \in SUBSET Files /\ touched' \in SUBSET Files
           /\ lost' = lost /\ lost' \in BOOLEAN
           /\ run # NoRun => touched' = touched \union {f}
BY DEF AgentTypeOK, Disturbs

LEMMA ForgetLooksStep ==
    ASSUME AgentInv, ForgetLooks
    PROVE  AgentInv'
<1> DEFINE stripped == [f \in Files |-> [file[f] EXCEPT !.own = "none"]]
<1>1. /\ forget = NoForget /\ record # NoRecord
      /\ forget' = [pc |-> "strip", at |-> 0, record |-> record, before |-> file,
                    after |-> stripped, wrote |-> {}]
      /\ UNCHANGED <<file, snapshot, record, plan, lastOp, run, mine, touched, lost>>
  BY DEF ForgetLooks, fileHistory
<1>2. /\ AgentTypeOK /\ record \in Records /\ file \in [Files -> Docs]
  BY <1>1 DEF AgentInv, AgentTypeOK
<1>3. events' \in 0..MaxEvents
  BY <1>2, FaultIs DEF ForgetLooks, Event
<1>4. \A f \in Files : /\ stripped[f] \in Docs
                       /\ stripped[f].rest = "text" <=> file[f].rest = "text"
  BY <1>2, StrippedIs
<1>5. stripped \in [Files -> Docs] /\ SameText(file, stripped)
  BY <1>4 DEF SameText
<1> HIDE DEF stripped
<1>6. /\ forget' \in Forgets /\ forget'.pc = "strip" /\ forget'.record = record
      /\ forget'.before = file /\ forget'.after = stripped /\ forget'.at = 0
  BY <1>1, <1>2, <1>5, AgentAssumption DEF AgentAssumption, Forgets
<1>7. AgentTypeOK'
  BY <1>1, <1>2, <1>3, <1>6 DEF AgentTypeOK
<1>8. (\A n \in Ops : SnapshotsOnlyGo(n)) /\ SnapshotsStay /\ PlansOnlyGo /\ RunGoesOn
  BY <1>1 DEF SnapshotsOnlyGo, SnapshotsStay, PlansOnlyGo, RunGoesOn
<1>9. BasesSpent' /\ PlansSound'
  BY <1>1, <1>6, <1>7, <1>8, SpentStep
<1>10. RunSnapshots' /\ Progress' /\ AsPlanned'
  BY <1>1, <1>7, <1>8, AsideStep
<1>11. Unclaimed' /\ BaselineKept'
  BY <1>1, <1>6, UnclaimedStep, BaselineStep
<1>12. ForgetSound'
  BY <1>1, <1>5, <1>6, FilesAre DEF ForgetSound, SameText
<1> QED BY <1>7, <1>9, <1>10, <1>11, <1>12 DEF AgentInv

LEMMA ForgetStripsStep ==
    ASSUME AgentInv, ForgetStrips
    PROVE  AgentInv'
<1> DEFINE f == forget.at
           next == IF f < Companions THEN "strip" ELSE "remove"
<1>1. forget.pc = "strip" /\ UNCHANGED <<snapshot, record, plan, lastOp, run>>
  BY DEF ForgetStrips
<1>2. AgentTypeOK /\ forget \in Forgets /\ forget # NoForget /\ f \in Files
  BY <1>1, RecordIs DEF AgentInv, AgentTypeOK, ForgetSound
<1>3. /\ f + 1 \in 0..(Companions + 1) /\ f \in 0..(Companions + 1)
      /\ f < Companions => f + 1 \in Files
  BY <1>2, FilesAre, AgentAssumption DEF AgentAssumption, Files
<1>4. CASE /\ forget' = [forget EXCEPT !.pc = next, !.at = f + 1]
           /\ UNCHANGED <<file, mine, touched, lost, events>>
  <2>1. /\ forget' \in Forgets /\ forget'.record = forget.record
        /\ forget'.before = forget.before /\ forget'.after = forget.after
        /\ forget'.at = f + 1 /\ forget'.pc \in {"strip", "remove"}
        /\ forget'.pc = "strip" => f < Companions
    <3> HIDE DEF f
    <3> QED BY <1>2, <1>3, <1>4 DEF Forgets
  <2>2. AgentTypeOK'
    BY <1>1, <1>2, <1>4, <2>1 DEF AgentTypeOK
  <2> QED BY <1>1, <1>2, <1>3, <1>4, <2>1, <2>2, OutsiderStep
<1>5. ASSUME NEW result \in Results,
             AtomicWrite(f, forget.before[f], forget.after[f], result),
             IF result = "failed" THEN UNCHANGED fileHistory ELSE Disturbs(f),
             forget' = [forget EXCEPT !.pc = IF result = "ok" THEN next ELSE "rollback",
                          !.at = IF result = "ok" THEN f + 1 ELSE f,
                          !.wrote = IF result = "failed" THEN @ ELSE @ \union {f}]
      PROVE  AgentInv'
  <2>1. /\ forget' \in Forgets /\ forget'.record = forget.record
        /\ forget'.before = forget.before /\ forget'.after = forget.after
        /\ forget'.pc \in {"strip", "remove", "rollback"}
        /\ forget'.pc \in {"strip", "rollback"} => forget'.at \in Files
    <3> HIDE DEF f
    <3> QED BY <1>2, <1>3, <1>5 DEF Forgets
  <2>2. forget.before[f] \in Docs /\ forget.after[f] \in Docs
    BY <1>2 DEF Forgets
  <2>3. /\ file' \in [Files -> Docs] /\ events' \in 0..MaxEvents
        /\ result = "failed" => file' = file
        /\ \A g \in Files \ {f} : file'[g] = file[g]
    BY <1>2, <1>5, <2>2, WriteIs
  <2>4. /\ mine' \subseteq mine /\ mine' \in SUBSET Files /\ touched' \in SUBSET Files
        /\ lost' = lost /\ lost' \in BOOLEAN
        /\ result # "failed" /\ run # NoRun => touched' = touched \union {f}
        /\ result = "failed" => touched' = touched
    BY <1>2, <1>5, DisturbsIs DEF fileHistory, AgentTypeOK
  <2>5. AgentTypeOK'
    BY <1>1, <1>2, <2>1, <2>3, <2>4 DEF AgentTypeOK
  <2>6. run # NoRun => touched \subseteq touched' /\ \A g \in Files \ touched' : file'[g] = file[g]
    BY <2>3, <2>4
  <2> QED BY <1>1, <1>2, <2>1, <2>4, <2>5, <2>6, OutsiderStep
<1> QED BY <1>4, <1>5 DEF ForgetStrips, fileHistory

LEMMA ForgetRemovesStep ==
    ASSUME AgentInv, ForgetRemoves
    PROVE  AgentInv'
<1>1. PICK result \in Results :
          /\ record' = IF result = "failed" THEN record ELSE NoRecord
          /\ forget' = [forget EXCEPT !.pc = IF result = "ok" THEN "unpin" ELSE "rollback",
                                     !.at = Companions]
          /\ events' \in 0..MaxEvents
  BY FaultIs DEF ForgetRemoves, AgentInv
<1>2. /\ forget.pc = "remove"
      /\ UNCHANGED <<file, snapshot, plan, lastOp, run, mine, touched, lost>>
  BY DEF ForgetRemoves, fileHistory
<1>3. AgentTypeOK /\ forget \in Forgets /\ forget # NoForget
  BY <1>2, RecordIs DEF AgentInv, AgentTypeOK
<1>4. Companions \in 0..(Companions + 1)
  BY AgentAssumption DEF AgentAssumption
<1>5. /\ forget' \in Forgets /\ forget'.record = forget.record
      /\ forget'.before = forget.before /\ forget'.after = forget.after
      /\ forget'.at = Companions /\ forget'.pc = IF result = "ok" THEN "unpin" ELSE "rollback"
  BY <1>1, <1>3, <1>4 DEF Forgets
<1>6. AgentTypeOK' /\ record' \in {record, NoRecord}
  BY <1>1, <1>2, <1>3, <1>5 DEF AgentTypeOK
<1>7. forget'.pc = "unpin" => record' = NoRecord
  BY <1>1, <1>5
<1> QED BY <1>2, <1>3, <1>5, <1>6, <1>7, FilesAre, OutsiderStep

LEMMA ForgetRollsBackStep ==
    ASSUME AgentInv, ForgetRollsBack
    PROVE  AgentInv'
<1> DEFINE f == forget.at
<1>1. /\ forget.pc = "rollback" /\ UNCHANGED <<snapshot, record, plan, lastOp, run>>
      /\ forget' = IF f = 0 THEN NoForget ELSE [forget EXCEPT !.at = f - 1]
  BY DEF ForgetRollsBack
<1>2. AgentTypeOK /\ forget \in Forgets /\ forget # NoForget /\ f \in Files
  BY <1>1, RecordIs DEF AgentInv, AgentTypeOK, ForgetSound
<1>3. f # 0 => f - 1 \in Files /\ f - 1 \in 0..(Companions + 1)
  BY <1>2, AgentAssumption DEF AgentAssumption, Files
<1>4. \/ forget' = NoForget
      \/ /\ forget' \in Forgets /\ forget'.record = forget.record
         /\ forget'.before = forget.before /\ forget'.after = forget.after
         /\ forget'.at \in Files /\ forget'.pc = "rollback"
  <2> HIDE DEF f
  <2> QED BY <1>1, <1>2, <1>3 DEF Forgets
<1>5. forget'.pc # "unpin"
  BY <1>4, RecordIs
<1>6. CASE UNCHANGED <<file, mine, touched, lost, events>>
  <2>1. AgentTypeOK'
    BY <1>1, <1>2, <1>4, <1>6 DEF AgentTypeOK
  <2> QED BY <1>1, <1>2, <1>4, <1>5, <1>6, <2>1, OutsiderStep
<1>7. ASSUME NEW result \in Results,
             AtomicWrite(f, forget.after[f], forget.before[f], result),
             IF result = "failed" THEN UNCHANGED fileHistory ELSE Disturbs(f)
      PROVE  AgentInv'
  <2>1. forget.before[f] \in Docs /\ forget.after[f] \in Docs
    BY <1>2 DEF Forgets
  <2>2. /\ file' \in [Files -> Docs] /\ events' \in 0..MaxEvents
        /\ result = "failed" => file' = file
        /\ \A g \in Files \ {f} : file'[g] = file[g]
    BY <1>2, <1>7, <2>1, WriteIs
  <2>3. /\ mine' \subseteq mine /\ mine' \in SUBSET Files /\ touched' \in SUBSET Files
        /\ lost' = lost /\ lost' \in BOOLEAN
        /\ result # "failed" /\ run # NoRun => touched' = touched \union {f}
        /\ result = "failed" => touched' = touched
    BY <1>2, <1>7, DisturbsIs DEF fileHistory, AgentTypeOK
  <2>4. AgentTypeOK'
    BY <1>1, <1>2, <1>4, <2>2, <2>3 DEF AgentTypeOK
  <2>5. run # NoRun => touched \subseteq touched' /\ \A g \in Files \ touched' : file'[g] = file[g]
    BY <2>2, <2>3
  <2> QED BY <1>1, <1>2, <1>4, <1>5, <2>3, <2>4, <2>5, OutsiderStep
<1> QED BY <1>6, <1>7 DEF ForgetRollsBack, fileHistory

LEMMA ForgetUnpinsStep ==
    ASSUME AgentInv, ForgetUnpins
    PROVE  AgentInv'
<1>1. /\ forget.pc = "unpin" /\ Unpinned(forget.record.base) /\ forget' = NoForget
      /\ UNCHANGED <<file, record, plan, lastOp, run, mine, touched, lost>>
  BY DEF ForgetUnpins, fileHistory
<1>2. /\ AgentTypeOK /\ forget # NoForget /\ forget.record \in Records
      /\ forget.record.base \in Ops /\ BaseSpent(forget.record)
  BY <1>1, RecordIs DEF AgentInv, AgentTypeOK, Forgets, BasesSpent
<1> DEFINE n == forget.record.base
<1>3. /\ snapshot' \in [Ops -> [Files -> Snapshots]] /\ events' \in 0..MaxEvents
      /\ \A m \in Ops \ {n} : snapshot'[m] = snapshot[m]
      /\ \A f \in Files : snapshot'[n][f].exists = snapshot[n][f].exists
      /\ \A m \in Ops : SnapshotsOnlyGo(m)
  BY <1>1, <1>2, UnpinnedIs
<1>4. AgentTypeOK'
  BY <1>1, <1>2, <1>3 DEF AgentTypeOK
<1>5. SnapshotsStay /\ PlansOnlyGo /\ RunGoesOn
  BY <1>1, <1>3 DEF SnapshotsStay, PlansOnlyGo, RunGoesOn
<1>6. BasesSpent' /\ PlansSound'
  BY <1>1, <1>4, <1>5, SpentStep
<1>7. run # NoRun => run.op \in Ops /\ (run.pc \notin Late => n # run.op)
  BY <1>2, RunIs, BaseIsNotMine
<1>8. RunSnapshots' /\ Progress' /\ AsPlanned'
  <2>1. run # NoRun => \A f \in Files :
            LET s == snapshot[run.op][f] IN
            /\ s.exists => snapshot'[run.op][f].exists
            /\ s.exists /\ s.pinned /\ run.pc \notin Late =>
                 snapshot'[run.op][f].exists /\ snapshot'[run.op][f].pinned
    BY <1>3, <1>7
  <2> QED BY <1>1, <1>3, <1>4, <2>1, AsideStep
<1>9. record # NoRecord /\ ~record.doubtful => record.base # n /\ record.base \in Ops
  BY <1>1, <1>2, RecordIs DEF AgentInv, AgentTypeOK, Unclaimed
<1>10. BaselineKept'
  BY <1>1, <1>3, <1>9, BaselineStep
<1>11. Unclaimed' /\ ForgetSound'
  BY <1>1, RecordIs, UnclaimedStep DEF ForgetSound
<1> QED BY <1>4, <1>6, <1>8, <1>10, <1>11 DEF AgentInv

LEMMA PruneStep ==
    ASSUME AgentInv, NEW n \in Ops, Prune(n)
    PROVE  AgentInv'
<1>1. /\ snapshot' = [snapshot EXCEPT ![n] =
                        [f \in Files |-> IF snapshot[n][f].pinned THEN snapshot[n][f]
                                         ELSE NoSnapshot]]
      /\ lost' = (lost \/ n = run.op)
      /\ UNCHANGED <<file, record, plan, lastOp, run, forget, mine, touched>>
  BY DEF Prune
<1>2. AgentTypeOK /\ snapshot \in [Ops -> [Files -> Snapshots]]
  BY DEF AgentInv, AgentTypeOK
<1>3. events' \in 0..MaxEvents
  BY <1>2, FaultIs DEF Prune, Event
<1>4. NoSnapshot \in Snapshots /\ NoSnapshot.exists = FALSE
  BY NoFileIs DEF NoSnapshot, Snapshots
<1>5. /\ \A f \in Files : /\ snapshot[n][f].pinned => snapshot'[n][f] = snapshot[n][f]
                          /\ ~snapshot[n][f].pinned => snapshot'[n][f] = NoSnapshot
      /\ \A m \in Ops \ {n} : snapshot'[m] = snapshot[m]
  BY <1>1, <1>2
<1>6. snapshot' \in [Ops -> [Files -> Snapshots]]
  BY <1>1, <1>2, <1>4
<1>7. lost' \in BOOLEAN /\ (lost => lost') /\ (n = run.op => lost')
  BY <1>1
<1>8. AgentTypeOK'
  BY <1>1, <1>2, <1>3, <1>6, <1>7 DEF AgentTypeOK
<1>9. (\A m \in Ops : SnapshotsOnlyGo(m)) /\ SnapshotsStay /\ PlansOnlyGo /\ RunGoesOn
  BY <1>1, <1>4, <1>5 DEF SnapshotsOnlyGo, SnapshotsStay, PlansOnlyGo, RunGoesOn
<1>10. BasesSpent' /\ PlansSound'
  BY <1>1, <1>8, <1>9, SpentStep
<1>11. \A m \in Ops : \A f \in Files :
           snapshot[m][f].pinned => snapshot'[m][f] = snapshot[m][f]
  BY <1>5
<1>12. RunSnapshots' /\ Progress' /\ AsPlanned'
  <2>1. run # NoRun => \A f \in Files :
            LET s == snapshot[run.op][f] IN
            /\ s.exists => snapshot'[run.op][f].exists \/ lost'
            /\ s.exists /\ s.pinned /\ run.pc \notin Late =>
                 snapshot'[run.op][f].exists /\ snapshot'[run.op][f].pinned
    BY <1>2, <1>5, <1>7, <1>11, RunIs
  <2> QED BY <1>1, <1>7, <1>8, <1>9, <2>1, AsideStep
<1>13. record # NoRecord => record.base \in Ops
  BY <1>2, RecordIs DEF AgentTypeOK
<1>14. BaselineKept'
  BY <1>1, <1>11, <1>13, BaselineStep
<1>15. Unclaimed' /\ ForgetSound'
  BY <1>1, UnclaimedStep DEF AgentInv, ForgetSound, SameText
<1> QED BY <1>8, <1>10, <1>12, <1>14, <1>15 DEF AgentInv

LEMMA UserEditStep ==
    ASSUME AgentInv, NEW f \in Files, UserEdit(f)
    PROVE  AgentInv'
<1>1. PICK d \in {NoFile, UserDoc, [Managed(file[f], file[f].own) EXCEPT !.rest = "text"]} :
          file' = [file EXCEPT ![f] = d]
  BY DEF UserEdit
<1>2. /\ Disturbs(f) /\ UNCHANGED <<snapshot, record, plan, lastOp, run, forget>>
      /\ AgentTypeOK /\ file \in [Files -> Docs]
  BY DEF UserEdit, AgentInv, AgentTypeOK
<1>3. events' \in 0..MaxEvents
  BY <1>2, FaultIs DEF UserEdit, Event
<1>4. d \in Docs
  <2>1. UserDoc \in Docs
    BY DEF UserDoc, Docs, Values
  <2>2. [Managed(file[f], file[f].own) EXCEPT !.rest = "text"] \in Docs
    <3> DEFINE m == Managed(file[f], file[f].own)
    <3>1. m = [own |-> file[f].own, rest |-> m.rest] /\ file[f].own \in Values
      BY <1>2, NoFileIs DEF Managed
    <3> HIDE DEF m
    <3>2. [m EXCEPT !.rest = "text"] = [own |-> file[f].own, rest |-> "text"]
      BY <3>1
    <3> QED BY <3>1, <3>2 DEF Docs, m
  <2> QED BY <1>1, <2>1, <2>2, NoFileIs
<1>5. /\ file' \in [Files -> Docs] /\ \A g \in Files \ {f} : file'[g] = file[g]
  BY <1>1, <1>2, <1>4
<1>6. /\ mine' \subseteq mine /\ mine' \in SUBSET Files /\ touched' \in SUBSET Files
      /\ lost' = lost /\ lost' \in BOOLEAN
      /\ run # NoRun => touched' = touched \union {f}
  BY <1>2, DisturbsIs
<1>7. AgentTypeOK'
  BY <1>2, <1>3, <1>5, <1>6 DEF AgentTypeOK
<1>8. run # NoRun => touched \subseteq touched' /\ \A g \in Files \ touched' : file'[g] = file[g]
  BY <1>5, <1>6
<1>9. forget'.pc = "unpin" => forget.pc = "unpin"
  BY <1>2
<1> QED BY <1>2, <1>6, <1>7, <1>8, <1>9, OutsiderStep

-----------------------------------------------------------------------------
(* The specification.                                                      *)

LEMMA InitAgent == AgentInit => AgentInv
<1> SUFFICES ASSUME AgentInit PROVE AgentInv
  OBVIOUS
<1> USE DEF AgentInit
<1>1. run.pc = "idle" /\ run = NoRun /\ forget.pc = "idle" /\ forget = NoForget
  BY RecordIs DEF NoRun
<1>2. file \in [Files -> Docs]
  <2>1. UserDoc \in Docs
    BY DEF UserDoc, Docs, Values
  <2> QED BY <2>1, NoFileIs
<1>3. snapshot \in [Ops -> [Files -> Snapshots]]
  <2>1. NoSnapshot \in Snapshots
    BY NoFileIs DEF NoSnapshot, Snapshots
  <2> QED BY <2>1
<1>4. /\ plan \in [Ops -> Plans \union {NoPlan}] /\ \A n \in Ops : plan[n] = NoPlan
      /\ \A n \in Ops : plan[n].kind \notin {"disconnect", "restore"}
  BY RecordIs
<1>5. AgentTypeOK
  <2>1. lastOp \in 0..MaxOps /\ events \in 0..MaxEvents
    BY AgentAssumption DEF AgentAssumption
  <2>2. /\ mine \in SUBSET Files /\ touched \in SUBSET Files /\ lost \in BOOLEAN
        /\ record \in Records \union {NoRecord}
    OBVIOUS
  <2> HIDE DEF AgentInit
  <2> QED BY <1>1, <1>2, <1>3, <1>4, <2>1, <2>2 DEF AgentTypeOK
<1>6. BasesSpent /\ PlansSound /\ ForgetSound
  BY <1>1, <1>4 DEF BasesSpent, PlansSound, ForgetSound
<1>7. RunSnapshots /\ Progress /\ AsPlanned /\ Unclaimed /\ BaselineKept
  BY <1>1 DEF RunSnapshots, Progress, AsPlanned, Unclaimed, BaselineKept
<1> QED BY <1>5, <1>6, <1>7 DEF AgentInv

LEMMA NextAgent == AgentInv /\ [AgentNext]_agentVars => AgentInv'
<1> SUFFICES ASSUME AgentInv, [AgentNext]_agentVars PROVE AgentInv'
  OBVIOUS
<1>1. CASE UNCHANGED agentVars
  <2>1. /\ UNCHANGED <<file, snapshot, record, plan, lastOp, run, forget, events>>
        /\ UNCHANGED <<mine, touched, lost>>
    BY <1>1 DEF agentVars, fileHistory
  <2>2. AgentTypeOK'
    BY <2>1 DEF AgentInv, AgentTypeOK
  <2>3. forget'.pc = "unpin" => forget.pc = "unpin"
    BY <2>1
  <2> QED BY <2>1, <2>2, <2>3, OutsiderStep
<1>2. CASE PlanConnect \/ PlanDisconnect \/ PlanRefresh
  BY <1>2, PlanConnectStep, PlanDisconnectStep, PlanRefreshStep
<1>3. CASE \E n \in Ops : PlanRestore(n) \/ DropPlan(n) \/ Begin(n) \/ Prune(n)
  BY <1>3, PlanRestoreStep, DropPlanStep, BeginStep, PruneStep
<1>4. CASE Transaction
  BY <1>4, TakeSnapshotsStep, WriteFileStep, VerifyFilesStep, CommitOwnershipStep,
     UndoFileStep, UnpinFailedStep, ReleaseStep, AnswerStep DEF Transaction
<1>5. CASE Forget
  BY <1>5, ForgetLooksStep, ForgetStripsStep, ForgetRemovesStep, ForgetRollsBackStep,
     ForgetUnpinsStep DEF Forget
<1>6. CASE (\E f \in Files : UserEdit(f)) \/ ProcessEnds
  BY <1>6, UserEditStep, ProcessEndsStep
<1> QED BY <1>1, <1>2, <1>3, <1>4, <1>5, <1>6 DEF AgentNext

\* The transactions keep their invariant.
THEOREM AgentInvariant == AgentSpec => []AgentInv
BY InitAgent, NextAgent, PTL DEF AgentSpec

\* Every variable has the shape the code gives it, and a transaction under way has
\* the plan apply_prepared took.
THEOREM AgentTypes == AgentSpec => []AgentTypeOK
<1>1. AgentInv => AgentTypeOK
  BY DEF AgentInv
<1> QED BY <1>1, AgentInvariant, PTL

\* What apply_prepared answers of the files is true: after "not required" and
\* "restored" nothing of it is left, after success all is as planned.
THEOREM OutcomesAreTold == AgentSpec => []OutcomeTellsTruth
<1>1. AgentInv => OutcomeTellsTruth
  <2> SUFFICES ASSUME AgentInv, run.pc = "done"
               PROVE  CASE run.result \in {"untouched", "restored"} -> mine = {}
                        [] run.result = "applied" ->
                             \A f \in Files \ touched : file[f] = running.after[f]
                        [] run.result = "repair" -> TRUE
    BY DEF OutcomeTellsTruth
  <2>1. run.result \in {"untouched", "restored", "applied", "repair"}
    BY RunIs DEF AgentInv, Runs
  <2>2. run.result \in {"untouched", "restored"} => mine = {}
    BY DEF AgentInv, Progress
  <2>3. run.result = "applied" => \A f \in Files \ touched : file[f] = running.after[f]
    BY DEF AgentInv, AsPlanned
  <2> QED BY <2>1, <2>2, <2>3
<1> QED BY <1>1, AgentInvariant, PTL

\* The pinned baseline of an ownership is there for as long as it is on record,
\* whatever retention, failed transactions and force_forget unpin or drop.
THEOREM BaselinesAreKept == AgentSpec => []BaselineKept
<1>1. AgentInv => BaselineKept
  BY DEF AgentInv
<1> QED BY <1>1, AgentInvariant, PTL

\* A disconnect gives the owned paths back as they were before the connection.
THEOREM DisconnectsGiveBack == AgentSpec => []DisconnectGivesBack
<1>1. AgentInv => DisconnectGivesBack
  <2> SUFFICES ASSUME AgentInv, run.pc = "release", running.kind = "disconnect",
                      NEW f \in Files \ touched
               PROVE  file[f].own = running.bound.orig[f]
    BY DEF DisconnectGivesBack
  <2>1. file[f] = running.after[f]
    BY DEF AgentInv, AsPlanned
  <2>2. PlanSound(running)
    BY RunIs DEF AgentInv, PlansSound, running
  <2> QED BY <2>1, <2>2 DEF PlanSound
<1> QED BY <1>1, AgentInvariant, PTL

-----------------------------------------------------------------------------
(* What a step may never do to a file.                                     *)

\* One file is written, with the same text as what it is written over.
LEMMA WriteKeepsText ==
    ASSUME AgentTypeOK, NEW f \in Files, NEW d \in Docs, NEW e \in Docs, NEW result \in Results,
           AtomicWrite(f, d, e, result), d.rest = "text" <=> e.rest = "text"
    PROVE  \A g \in Files : file'[g].rest = "text" <=> file[g].rest = "text"
BY WriteIs

\* Every step but the user's keeps the text in every file.
LEMMA TextStep ==
    ASSUME AgentInv, AgentNext, ~UserStep
    PROVE  \A f \in Files : file'[f].rest = "text" <=> file[f].rest = "text"
<1>1. CASE file' = file
  BY <1>1
<1>2. CASE WriteFile
  <2>1. /\ run.pc = "write" /\ AgentTypeOK /\ running \in Plans /\ run.at \in Files
        /\ PlanSound(running)
    BY <1>2, RunIs DEF AgentInv, Progress, PlansSound, running, WriteFile
  <2>2. running.before[run.at] \in Docs /\ running.after[run.at] \in Docs
    BY <2>1 DEF Plans
  <2> QED BY <1>2, <2>1, <2>2, WriteKeepsText DEF WriteFile, PlanSound, SameText
<1>3. CASE UndoFile
  <2> DEFINE s == snapshot[run.op][run.at]
  <2>1. /\ run.pc = "undo" /\ AgentTypeOK /\ running \in Plans /\ run.at \in Files
        /\ PlanSound(running) /\ (s.exists => s.doc = running.before[run.at])
    BY <1>3, RunIs DEF AgentInv, Progress, PlansSound, RunSnapshots, running, UndoFile
  <2>2. running.before[run.at] \in Docs /\ running.after[run.at] \in Docs
    BY <2>1 DEF Plans
  <2>3. running.after[run.at].rest = "text" <=> running.before[run.at].rest = "text"
    BY <2>1 DEF PlanSound, SameText
  <2>4. PICK result \in Results :
            IF s.exists THEN AtomicWrite(run.at, running.after[run.at], s.doc, result)
            ELSE UNCHANGED file
    BY <1>3 DEF UndoFile
  <2> QED BY <2>1, <2>2, <2>3, <2>4, WriteKeepsText
<1>4. CASE ForgetStrips
  <2>1. /\ forget # NoForget /\ AgentTypeOK /\ forget \in Forgets /\ forget.at \in Files
        /\ SameText(forget.before, forget.after)
    BY <1>4, RecordIs DEF AgentInv, AgentTypeOK, ForgetSound, ForgetStrips
  <2>2. forget.before[forget.at] \in Docs /\ forget.after[forget.at] \in Docs
    BY <2>1 DEF Forgets
  <2> QED BY <1>4, <2>1, <2>2, WriteKeepsText DEF ForgetStrips, SameText
<1>5. CASE ForgetRollsBack
  <2>1. /\ forget # NoForget /\ AgentTypeOK /\ forget \in Forgets /\ forget.at \in Files
        /\ SameText(forget.before, forget.after)
    BY <1>5, RecordIs DEF AgentInv, AgentTypeOK, ForgetSound, ForgetRollsBack
  <2>2. forget.before[forget.at] \in Docs /\ forget.after[forget.at] \in Docs
    BY <2>1 DEF Forgets
  <2> QED BY <1>5, <2>1, <2>2, WriteKeepsText DEF ForgetRollsBack, SameText
<1>6. file' = file \/ WriteFile \/ UndoFile \/ ForgetStrips \/ ForgetRollsBack
  <2>1. CASE PlanConnect \/ PlanDisconnect \/ PlanRefresh \/ \E n \in Ops : PlanRestore(n)
    BY <2>1 DEF PlanConnect, PlanDisconnect, PlanRefresh, PlanRestore, Issued
  <2>2. CASE \E n \in Ops : DropPlan(n) \/ Begin(n) \/ Prune(n)
    BY <2>2 DEF DropPlan, Begin, Prune
  <2>3. CASE TakeSnapshots \/ VerifyFiles \/ CommitOwnership \/ UnpinFailed \/ Release \/ Answer
    BY <2>3 DEF TakeSnapshots, VerifyFiles, CommitOwnership, UnpinFailed, Release, Answer
  <2>4. CASE ForgetLooks \/ ForgetRemoves \/ ForgetUnpins \/ ProcessEnds
    BY <2>4 DEF ForgetLooks, ForgetRemoves, ForgetUnpins, ProcessEnds
  <2> QED BY <2>1, <2>2, <2>3, <2>4 DEF AgentNext, Transaction, Forget, UserStep
<1> QED BY <1>1, <1>2, <1>3, <1>4, <1>5, <1>6

\* Text outside the owned paths is never lost, whatever fails and however a plan
\* has aged.
THEOREM TextIsKept == AgentSpec => UserTextKept
<1>1. AgentInv /\ [AgentNext]_agentVars =>
          [UserStep \/ \A f \in Files : file'[f].rest = "text" <=> file[f].rest = "text"]_agentVars
  BY TextStep
<1> QED BY <1>1, AgentInvariant, PTL DEF AgentSpec, UserTextKept

\* The transaction and its way back overwrite only what a snapshot holds, or what
\* the transaction wrote.
LEMMA ValueStep ==
    ASSUME AgentInv, AgentNext, ~UserStep, ~Forget, ~lost, NEW f \in Files,
           file[f].own = "user", file'[f].own # "user", ~Undoes(f)
    PROVE  \E n \in Ops : snapshot[n][f].exists /\ snapshot[n][f].doc.own = "user"
<1>1. CASE WriteFile
  <2>1. /\ run.pc = "write" /\ AgentTypeOK /\ running \in Plans /\ run.op \in Ops
        /\ run.at \in Files
    BY <1>1, RunIs DEF AgentInv, Progress, running, WriteFile
  <2>2. running.before[run.at] \in Docs /\ running.after[run.at] \in Docs
    BY <2>1 DEF Plans
  <2>3. f = run.at /\ file[f] = running.before[f]
    BY <1>1, <2>1, <2>2, WriteIs DEF WriteFile
  <2>4. snapshot[run.op][f].exists /\ snapshot[run.op][f].doc = running.before[f]
    BY <2>1, RunIs DEF AgentInv, RunSnapshots
  <2> QED BY <2>1, <2>3, <2>4
<1>2. CASE UndoFile
  <2> DEFINE s == snapshot[run.op][run.at]
  <2>1. /\ run.pc = "undo" /\ AgentTypeOK /\ running \in Plans /\ run.at \in Files
        /\ s.exists => s.doc = running.before[run.at]
    BY <1>2, RunIs DEF AgentInv, Progress, RunSnapshots, running, UndoFile
  <2>2. running.before[run.at] \in Docs /\ running.after[run.at] \in Docs
    BY <2>1 DEF Plans
  <2>3. PICK result \in Results :
            IF s.exists THEN AtomicWrite(run.at, running.after[run.at], s.doc, result)
            ELSE UNCHANGED file
    BY <1>2 DEF UndoFile
  <2>4. f = run.at /\ file[f] = running.after[f]
    BY <2>1, <2>2, <2>3, WriteIs
  <2> QED BY <2>1, <2>4 DEF Undoes
<1>3. file' = file \/ WriteFile \/ UndoFile
  <2>1. CASE PlanConnect \/ PlanDisconnect \/ PlanRefresh \/ \E n \in Ops : PlanRestore(n)
    BY <2>1 DEF PlanConnect, PlanDisconnect, PlanRefresh, PlanRestore, Issued
  <2>2. CASE \E n \in Ops : DropPlan(n) \/ Begin(n) \/ Prune(n)
    BY <2>2 DEF DropPlan, Begin, Prune
  <2>3. CASE TakeSnapshots \/ VerifyFiles \/ CommitOwnership \/ UnpinFailed \/ Release \/ Answer
    BY <2>3 DEF TakeSnapshots, VerifyFiles, CommitOwnership, UnpinFailed, Release, Answer
  <2>4. CASE ProcessEnds
    BY <2>4 DEF ProcessEnds
  <2> QED BY <2>1, <2>2, <2>3, <2>4 DEF AgentNext, Transaction, UserStep
<1> QED BY <1>1, <1>2, <1>3

\* A value of the user's own goes only when a snapshot of it is in the store.
THEOREM ValuesAreKept == AgentSpec => UserValueKept
<1>1. AgentInv /\ [AgentNext]_agentVars =>
          [UserStep \/ Forget \/ lost \/ \A f \in Files :
             file[f].own = "user" /\ file'[f].own # "user" /\ ~Undoes(f) =>
               \E n \in Ops : snapshot[n][f].exists /\ snapshot[n][f].doc.own = "user"]_agentVars
  BY ValueStep
<1> QED BY <1>1, AgentInvariant, PTL DEF AgentSpec, UserValueKept

=============================================================================
