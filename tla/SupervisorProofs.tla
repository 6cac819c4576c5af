-------------------------- MODULE SupervisorProofs --------------------------
(***************************************************************************)
(* Proofs about ServeSupervisor and EnsureRunning, for any addresses and   *)
(* any number of starts.                                                   *)
(***************************************************************************)
EXTENDS EnsureRunning, TLAPS

\* A start task that has not published: its generation has no server yet.
Before == {"none", "prepare", "stage", "handoff", "bind", "reserve", "commit"}

\* A drain task that a stop waits for.
Stops == {"stop", "stopping", "drained"}

\* Generations to come have no task, and no generation has a server or a drain
\* task before its start task publishes it.
GenerationsInOrder ==
    \A g \in Gens :
        /\ g > gen => task[g] = "none"
        /\ task[g] \in Before => server[g] = "none" /\ drain[g] = "none"
        /\ task[g] = "reserve" => ~ok[g]

\* The server the lifecycle owns was published and nobody drains it.
OwnedPublished ==
    phase \in {"Running", "Applying"} => task[owned] \notin Before /\ drain[owned] = "none"

\* A stop waits for one drain task, and that task completes this stop.
StopsBelong ==
    \A s \in Gens :
        drain[s] \in Stops =>
            /\ phase = "Stopping" /\ draining /\ stopGen[s] = gen
            /\ \A t \in Gens : drain[t] \in Stops => s = t

\* A socket of a generation is on its address and somebody has it; a server that
\* accepts and a candidate that is bound have theirs.
SocketsHeld ==
    /\ \A p \in Ports, g \in Gens :
        /\ holder[p] = <<"gen", g>> => p = port[g] /\ (task[g] = "commit" \/ Alive(g))
        /\ holder[p] = <<"resume", g>> => task[g] = "commit" /\ ~ok[g]
    /\ \A g \in Gens :
        server[g] = "accepting" \/ (task[g] = "commit" /\ ok[g])
            => holder[port[g]] = <<"gen", g>>

\* A quiet server is Running only after an apply that failed, and that is noted.
QuietNoted == phase = "Running" /\ server[owned] = "quiet" => applyErr

\* The start task of the newest generation has yet to commit.
Underway == gen \in Gens /\ task[gen] \in Before \ {"none"}

\* A start waits for a task that will commit, a stop for a drain task or, when no
\* server was up, for the start task it overtook.
TransitionAwaited ==
    /\ phase \in {"Starting", "Applying"} => Underway
    /\ phase = "Stopping" /\ draining => \E s \in Gens : drain[s] \in Stops
    /\ phase = "Stopping" /\ ~draining => Underway

SupervisorInv ==
    /\ TypeOK /\ GenerationsInOrder /\ OwnedPublished /\ StopsBelong /\ SocketsHeld
    /\ NoOrphanServer /\ StopSticks /\ QuietNoted /\ TransitionAwaited

-----------------------------------------------------------------------------
(* Types.                                                                  *)

LEMMA Bounds == 0 \in 0..MaxGeneration /\ NoPort \in Ports /\ Gens \subseteq 0..MaxGeneration
<1>1. NoPort \in Ports
  BY SupervisorAssumption DEF SupervisorAssumption, NoPort
<1> QED BY <1>1, SupervisorAssumption DEF SupervisorAssumption, Gens

LEMMA InitTypes == Init => TypeOK
BY Bounds DEF Init, TypeOK, Free

\* What each part of a step does to the parts of the state it may touch.
LEMMA TaskTypes ==
    ASSUME TypeOK, NEW g \in Gens, StartTask(g)
    PROVE  TypeOK'
<1> USE Bounds DEF TypeOK, lifecycle, drains, tasks, TaskStep
<1>1. CASE Prepare(g)
  BY <1>1 DEF Prepare
<1>2. CASE Stage(g)
  BY <1>2 DEF Stage
<1>3. CASE Handoff(g)
  BY <1>3 DEF Handoff, Quieted
<1>4. CASE Bind(g)
  BY <1>4 DEF Bind
<1>5. CASE BindFails(g)
  BY <1>5 DEF BindFails
<1>6. CASE Reserve(g)
  BY <1>6 DEF Reserve
<1>d. \A p \in Ports : Dropped(g)[p] \in {Free, Other} \union ({"gen", "resume"} \X Gens)
  BY DEF Dropped
<1>7. CASE CommitPublishes(g)
  <2>1. g # 0
    BY SupervisorAssumption DEF SupervisorAssumption, Gens
  <2>2. (IF phase = "Applying" THEN Quieted(owned) ELSE server)
            \in [Gens -> {"none", "accepting", "quiet", "dead", "crashed"}]
    BY DEF Quieted
  <2>3. server' \in [Gens -> {"none", "accepting", "quiet", "dead", "crashed"}]
    BY <1>7, <2>2 DEF CommitPublishes
  <2> QED BY <1>7, <2>1, <2>3 DEF CommitPublishes, DropLocals, Running
<1>8. CASE CommitPublishFails(g)
  BY <1>8, <1>d DEF CommitPublishFails, DropLocals, Running, Failed, Dropped
<1>9. CASE CommitError(g)
  BY <1>9, <1>d DEF CommitError, DropLocals, Running, Failed, Dropped
<1>10. CASE CommitStale(g)
  BY <1>10, <1>d DEF CommitStale, DropLocals, Dropped
<1>11. CASE AfterPublish(g)
  BY <1>11 DEF AfterPublish
<1> QED
  BY <1>1, <1>2, <1>3, <1>4, <1>5, <1>6, <1>7, <1>8, <1>9, <1>10, <1>11 DEF StartTask

LEMMA TypesStep == TypeOK /\ [Next]_vars => TypeOK'
<1> SUFFICES ASSUME TypeOK, [Next]_vars PROVE TypeOK'
  OBVIOUS
<1> USE Bounds DEF TypeOK, lifecycle, drains, tasks
<1>1. ASSUME NEW p \in Ports, BeginStart(p), seen' \in 0..MaxGeneration, stopped' \in BOOLEAN
      PROVE  TypeOK'
  <2>1. gen + 1 \in 0..MaxGeneration
    BY <1>1, SupervisorAssumption DEF SupervisorAssumption, BeginStart, Startable
  <2> QED BY <1>1, <2>1 DEF BeginStart, Startable
<1>2. CASE \E p \in Ports : Start(p)
  BY <1>1, <1>2 DEF Start
<1>3. CASE \E p \in Ports : RefreshApplies(p)
  BY <1>1, <1>3 DEF RefreshApplies
<1>4. CASE \E p \in Ports : OtherProgram(p)
  BY <1>4 DEF OtherProgram
<1>5. CASE RefreshLooks \/ RefreshRefused
  BY <1>5 DEF RefreshLooks, RefreshRefused
<1>6. CASE Stop
  <2>1. draining' \in BOOLEAN
    BY <1>6 DEF Stop
  <2>2. drain' \in [Gens -> {"none", "stop", "retire", "stopping", "retiring", "drained",
                             "done"}]
        /\ stopGen' \in [Gens -> 0..MaxGeneration]
    BY <1>6 DEF Stop
  <2>3. phase' \in {"Stopped", "Stopping"} /\ owned' = 0
    BY <1>6 DEF Stop
  <2>4. applyErr' = FALSE /\ stopped' = TRUE
        /\ UNCHANGED <<gen, task, port, ok, resume, server, holder, seen>>
    BY <1>6 DEF Stop
  <2> QED BY <2>1, <2>2, <2>3, <2>4
<1>7. ASSUME NEW g \in Gens, StartTask(g) PROVE TypeOK'
  BY <1>7, TaskTypes
<1>8. ASSUME NEW s \in Gens, DrainBegins(s) PROVE TypeOK'
  BY <1>8 DEF DrainBegins, Quieted
<1>9. ASSUME NEW s \in Gens, DrainEnds(s) PROVE TypeOK'
  BY <1>9 DEF DrainEnds
<1>10. ASSUME NEW s \in Gens, CompleteStop(s) PROVE TypeOK'
  BY <1>10 DEF CompleteStop
<1>11. ASSUME NEW s \in Gens, QuietReleases(s) \/ QuietEnds(s) \/ Crashes(s) PROVE TypeOK'
  BY <1>11 DEF QuietReleases, QuietEnds, Crashes
<1>12. CASE UNCHANGED vars
  BY <1>12 DEF vars
<1> QED
  BY <1>2, <1>3, <1>4, <1>5, <1>6, <1>7, <1>8, <1>9, <1>10, <1>11, <1>12
  DEF Next, DrainTask

-----------------------------------------------------------------------------
(* The generations.                                                        *)

LEMMA GenerationsStep ==
    ASSUME TypeOK, GenerationsInOrder, OwnedPublished, [Next]_vars
    PROVE  GenerationsInOrder'
<1> USE SupervisorAssumption
    DEF SupervisorAssumption, TypeOK, GenerationsInOrder, Before, Gens, lifecycle, drains,
        tasks
<1>1. ASSUME NEW p \in Ports, BeginStart(p) PROVE GenerationsInOrder'
  BY <1>1 DEF BeginStart, Startable
<1>2. CASE \E p \in Ports : Start(p) \/ RefreshApplies(p)
  BY <1>1, <1>2 DEF Start, RefreshApplies
<1>3. CASE RefreshLooks \/ RefreshRefused \/ \E p \in Ports : OtherProgram(p)
  BY <1>3 DEF RefreshLooks, RefreshRefused, OtherProgram
<1>4. CASE Stop
  BY <1>4 DEF Stop, OwnedPublished
<1>5. ASSUME NEW g \in Gens, StartTask(g) PROVE GenerationsInOrder'
  <2>1. CASE Prepare(g) \/ Stage(g)
    BY <2>1 DEF Prepare, Stage, TaskStep
  <2>2. CASE Handoff(g)
    BY <2>2 DEF Handoff, TaskStep, Quieted
  <2>3. CASE Bind(g) \/ BindFails(g)
    BY <2>3 DEF Bind, BindFails, TaskStep
  <2>4. CASE Reserve(g)
    BY <2>4 DEF Reserve, TaskStep
  <2>8. CASE AfterPublish(g)
    BY <2>8 DEF AfterPublish, TaskStep
  <2>5. CASE CommitPublishes(g)
    BY <2>5 DEF CommitPublishes, TaskStep, DropLocals, Quieted, OwnedPublished
  <2>6. CASE CommitPublishFails(g)
    BY <2>6 DEF CommitPublishFails, TaskStep, DropLocals, OwnedPublished
  <2>7. CASE CommitError(g)
    BY <2>7 DEF CommitError, TaskStep, DropLocals
  <2>9. CASE CommitStale(g)
    BY <2>9 DEF CommitStale, TaskStep, DropLocals
  <2> QED
    BY <1>5, <2>1, <2>2, <2>3, <2>4, <2>5, <2>6, <2>7, <2>8, <2>9 DEF StartTask
<1>6. ASSUME NEW s \in Gens, DrainTask(s) PROVE GenerationsInOrder'
  BY <1>6 DEF DrainTask, DrainBegins, DrainEnds, CompleteStop, Quieted
<1>7. ASSUME NEW s \in Gens, QuietReleases(s) \/ QuietEnds(s) \/ Crashes(s)
      PROVE  GenerationsInOrder'
  BY <1>7 DEF QuietReleases, QuietEnds, Crashes
<1>8. CASE UNCHANGED vars
  BY <1>8 DEF vars
<1> QED BY <1>2, <1>3, <1>4, <1>5, <1>6, <1>7, <1>8 DEF Next

LEMMA OwnedStep ==
    ASSUME TypeOK, GenerationsInOrder, OwnedPublished, [Next]_vars
    PROVE  OwnedPublished'
<1> USE SupervisorAssumption
    DEF SupervisorAssumption, TypeOK, OwnedPublished, Before, Gens, lifecycle, drains, tasks
<1>1. ASSUME NEW p \in Ports, BeginStart(p) PROVE OwnedPublished'
  BY <1>1 DEF BeginStart, Startable, GenerationsInOrder
<1>2. CASE \E p \in Ports : Start(p) \/ RefreshApplies(p)
  BY <1>1, <1>2 DEF Start, RefreshApplies
<1>3. CASE RefreshLooks \/ RefreshRefused \/ \E p \in Ports : OtherProgram(p)
  BY <1>3 DEF RefreshLooks, RefreshRefused, OtherProgram
<1>4. CASE Stop
  BY <1>4 DEF Stop
<1>5. ASSUME NEW g \in Gens, StartTask(g) PROVE OwnedPublished'
  <2>1. CASE Prepare(g)
    BY <2>1 DEF Prepare, TaskStep
  <2>10. CASE Stage(g)
    BY <2>10 DEF Stage, TaskStep
  <2>2. CASE Handoff(g)
    BY <2>2 DEF Handoff, TaskStep
  <2>3. CASE Bind(g) \/ BindFails(g)
    BY <2>3 DEF Bind, BindFails, TaskStep
  <2>4. CASE Reserve(g)
    BY <2>4 DEF Reserve, TaskStep
  <2>8. CASE AfterPublish(g)
    BY <2>8 DEF AfterPublish, TaskStep
  <2>5. CASE CommitPublishes(g)
    BY <2>5 DEF CommitPublishes, TaskStep, DropLocals, Running, GenerationsInOrder
  <2>6. CASE CommitPublishFails(g)
    BY <2>6 DEF CommitPublishFails, TaskStep, DropLocals, Running, Failed
  <2>7. CASE CommitError(g)
    BY <2>7 DEF CommitError, TaskStep, DropLocals, Running, Failed
  <2>9. CASE CommitStale(g)
    BY <2>9 DEF CommitStale, TaskStep, DropLocals
  <2> QED BY <1>5, <2>1, <2>2, <2>3, <2>4, <2>5, <2>6, <2>7, <2>8, <2>9, <2>10 DEF StartTask
<1>6. ASSUME NEW s \in Gens, DrainTask(s) PROVE OwnedPublished'
  BY <1>6 DEF DrainTask, DrainBegins, DrainEnds, CompleteStop
<1>7. ASSUME NEW s \in Gens, QuietReleases(s) \/ QuietEnds(s) \/ Crashes(s)
      PROVE  OwnedPublished'
  BY <1>7 DEF QuietReleases, QuietEnds, Crashes
<1>8. CASE UNCHANGED vars
  BY <1>8 DEF vars
<1> QED BY <1>2, <1>3, <1>4, <1>5, <1>6, <1>7, <1>8 DEF Next

LEMMA StopsStep ==
    ASSUME TypeOK, OwnedPublished, StopsBelong, [Next]_vars
    PROVE  StopsBelong'
<1> USE SupervisorAssumption
    DEF SupervisorAssumption, TypeOK, StopsBelong, Stops, Gens, lifecycle, drains, tasks
<1>1. ASSUME NEW p \in Ports, BeginStart(p) PROVE StopsBelong'
  BY <1>1 DEF BeginStart, Startable
<1>2. CASE \E p \in Ports : Start(p) \/ RefreshApplies(p)
  BY <1>1, <1>2 DEF Start, RefreshApplies
<1>3. CASE RefreshLooks \/ RefreshRefused \/ \E p \in Ports : OtherProgram(p)
  BY <1>3 DEF RefreshLooks, RefreshRefused, OtherProgram
<1>4. CASE Stop
  <2>1. \A s \in Gens : drain[s] \notin Stops
    BY <1>4 DEF Stop
  <2>2. CASE phase \in {"Running", "Applying"}
    <3>0. owned # 0
      BY <2>2
    <3>1. owned \in Gens /\ phase' = "Stopping" /\ gen' = gen
      BY <1>4, <2>2, <3>0 DEF Stop
    <3>2. \A s \in Gens : drain'[s] \in Stops => s = owned /\ stopGen'[s] = gen
      BY <1>4, <2>1, <2>2, <3>1 DEF Stop
    <3>3. draining'
      BY <1>4, <2>2 DEF Stop
    <3> QED BY <3>1, <3>2, <3>3
  <2>3. CASE phase \notin {"Running", "Applying"}
    BY <1>4, <2>1, <2>3 DEF Stop
  <2> QED BY <2>2, <2>3
<1>5. ASSUME NEW g \in Gens, StartTask(g) PROVE StopsBelong'
  <2>1. CASE Prepare(g)
    BY <2>1 DEF Prepare, TaskStep
  <2>10. CASE Stage(g)
    BY <2>10 DEF Stage, TaskStep
  <2>2. CASE Handoff(g)
    BY <2>2 DEF Handoff, TaskStep
  <2>3. CASE Bind(g) \/ BindFails(g)
    BY <2>3 DEF Bind, BindFails, TaskStep
  <2>4. CASE Reserve(g)
    BY <2>4 DEF Reserve, TaskStep
  <2>8. CASE AfterPublish(g)
    BY <2>8 DEF AfterPublish, TaskStep
  <2>5. CASE CommitPublishes(g)
    BY <2>5 DEF CommitPublishes, TaskStep, DropLocals, Running
  <2>6. CASE CommitPublishFails(g)
    BY <2>6 DEF CommitPublishFails, TaskStep, DropLocals, Running, Failed
  <2>7. CASE CommitError(g)
    BY <2>7 DEF CommitError, TaskStep, DropLocals, Running, Failed
  <2>9. CASE CommitStale(g)
    BY <2>9 DEF CommitStale, TaskStep, DropLocals
  <2> QED BY <1>5, <2>1, <2>2, <2>3, <2>4, <2>5, <2>6, <2>7, <2>8, <2>9, <2>10 DEF StartTask
<1>6. ASSUME NEW s \in Gens, DrainTask(s) PROVE StopsBelong'
  <2>1. CASE DrainBegins(s)
    BY <2>1 DEF DrainBegins
  <2>2. CASE DrainEnds(s)
    BY <2>2 DEF DrainEnds
  <2>3. CASE CompleteStop(s)
    BY <2>3 DEF CompleteStop
  <2> QED BY <1>6, <2>1, <2>2, <2>3 DEF DrainTask
<1>7. ASSUME NEW s \in Gens, QuietReleases(s) \/ QuietEnds(s) \/ Crashes(s)
      PROVE  StopsBelong'
  BY <1>7 DEF QuietReleases, QuietEnds, Crashes
<1>8. CASE UNCHANGED vars
  BY <1>8 DEF vars
<1> QED BY <1>2, <1>3, <1>4, <1>5, <1>6, <1>7, <1>8 DEF Next

-----------------------------------------------------------------------------
(* The sockets.                                                            *)

LEMMA Quieting ==
    ASSUME TypeOK, NEW t
    PROVE  /\ Quieted(t) \in [Gens -> {"none", "accepting", "quiet", "dead", "crashed"}]
           /\ \A s \in Gens : Quieted(t)[s] \in
                {server[s], IF server[s] = "accepting" THEN "quiet" ELSE server[s]}
<1> DEFINE States == {"none", "accepting", "quiet", "dead", "crashed"}
<1>1. server \in [Gens -> States]
  BY DEF TypeOK
<1>2. Quieted(t) \in [Gens -> States]
  BY <1>1 DEF Quieted
<1>3. \A s \in Gens : Quieted(t)[s] \in
                {server[s], IF server[s] = "accepting" THEN "quiet" ELSE server[s]}
  BY <1>1 DEF Quieted
<1> QED BY <1>2, <1>3

LEMMA TaskSockets ==
    ASSUME TypeOK, GenerationsInOrder, SocketsHeld, NEW g \in Gens, StartTask(g)
    PROVE  SocketsHeld'
<1> USE DEF TypeOK, SocketsHeld, Alive, Free, Other, lifecycle, drains, tasks
<1>o. server[g] = "none" \/ task[g] \notin Before
  BY DEF GenerationsInOrder
<1>1. CASE Prepare(g)
  BY <1>1, <1>o DEF Prepare, TaskStep, Before
<1>2. CASE Stage(g)
  BY <1>2, <1>o DEF Stage, TaskStep, Before
<1>3. CASE Handoff(g)
  BY <1>3, <1>o DEF Handoff, TaskStep, Before, Quieted
<1>4. CASE Bind(g)
  <2>1. CASE ok[g]
    BY <1>4, <2>1, <1>o DEF Bind, TaskStep, Before
  <2>2. CASE ~ok[g]
    BY <1>4, <2>2, <1>o DEF Bind, TaskStep, Before
  <2> QED BY <2>1, <2>2
<1>5. CASE BindFails(g)
  BY <1>5, <1>o DEF BindFails, TaskStep, Before
<1>6. CASE Reserve(g)
  <2>0. ~ok[g]
    BY <1>6 DEF Reserve, TaskStep, GenerationsInOrder
  <2>1. CASE holder' = holder
    <3>1. task' = [task EXCEPT ![g] = "commit"] /\ UNCHANGED <<port, ok, server>>
          /\ task[g] = "reserve"
      BY <1>6 DEF Reserve, TaskStep
    <3>2. \A h \in Gens : task[h] = "commit" <=> task'[h] = "commit" /\ h # g
      BY <3>1
    <3> QED BY <2>0, <2>1, <3>1, <3>2
  <2>2. CASE holder[port[g]] = Free /\ holder' = [holder EXCEPT ![port[g]] = <<"resume", g>>]
    <3>1. \A h \in Gens : port[h] = port[g] => holder[port[h]] # <<"gen", h>>
      BY <2>2
    <3>2. \A p \in Ports : holder'[p] = IF p = port[g] THEN <<"resume", g>> ELSE holder[p]
      BY <2>2
    <3>3. task' = [task EXCEPT ![g] = "commit"] /\ UNCHANGED <<port, ok, server>>
      BY <1>6 DEF Reserve, TaskStep
    <3>4. \A h \in Gens : task'[h] = "commit" /\ h # g => task[h] = "commit"
      BY <3>3
    <3>5. \A p \in Ports, h \in Gens : holder'[p] = <<"gen", h>> => holder[p] = <<"gen", h>>
      BY <3>2
    <3>6. \A p \in Ports, h \in Gens :
             holder'[p] = <<"resume", h>> => task'[h] = "commit" /\ ~ok[h]
      BY <2>0, <3>2, <3>3
    <3>7. ASSUME NEW h \in Gens, server[h] = "accepting" \/ (task'[h] = "commit" /\ ok[h])
          PROVE  holder'[port[h]] = <<"gen", h>>
      <4>1. holder[port[h]] = <<"gen", h>>
        BY <3>4, <3>7, <2>0
      <4> QED BY <4>1, <3>1, <3>2
    <3>8. \A p \in Ports, h \in Gens : holder'[p] = <<"gen", h>> =>
             p = port[h] /\ (task'[h] = "commit" \/ server[h] \in {"accepting", "quiet"})
      BY <3>5, <3>3
    <3> QED BY <3>3, <3>6, <3>7, <3>8
  <2> QED BY <1>6, <2>1, <2>2 DEF Reserve
<1>7. CASE CommitPublishes(g)
  <2>1. \A s \in Gens : s # g => server'[s] \in
            {server[s], IF server[s] = "accepting" THEN "quiet" ELSE server[s]}
    <3>1. CASE phase = "Applying"
      BY <1>7, <3>1, Quieting DEF CommitPublishes
    <3>2. CASE phase # "Applying"
      BY <1>7, <3>2 DEF CommitPublishes
    <3> QED BY <3>1, <3>2
  <2>2. server'[g] = "accepting" /\ holder' = holder /\ port' = port
    <3>1. CASE phase = "Applying"
      BY <1>7, <3>1, Quieting DEF CommitPublishes, DropLocals
    <3>2. CASE phase # "Applying"
      BY <1>7, <3>2 DEF CommitPublishes, DropLocals
    <3> QED BY <3>1, <3>2
  <2>3. task' = [task EXCEPT ![g] = "after"] /\ ok' = [ok EXCEPT ![g] = FALSE]
        /\ task[g] = "commit" /\ ok[g]
    BY <1>7 DEF CommitPublishes, DropLocals, TaskStep
  <2>4. \A h \in Gens :
           /\ h # g => task'[h] = task[h] /\ (ok'[h] <=> ok[h])
           /\ server[h] \in {"accepting", "quiet"} => server'[h] \in {"accepting", "quiet"}
           /\ server'[h] = "accepting" => h = g \/ server[h] = "accepting"
    BY <2>1, <2>2, <2>3
  <2>5. \A p \in Ports, h \in Gens : holder[p] = <<"gen", h>> =>
           p = port[h] /\ (task'[h] = "commit" \/ server'[h] \in {"accepting", "quiet"})
    BY <2>2, <2>4
  <2>6. \A p \in Ports, h \in Gens : holder[p] = <<"resume", h>> =>
           task'[h] = "commit" /\ ~ok'[h]
    BY <2>3, <2>4
  <2>7. ASSUME NEW h \in Gens, server'[h] = "accepting" \/ (task'[h] = "commit" /\ ok'[h])
        PROVE  holder[port[h]] = <<"gen", h>>
    <3>1. h = g \/ server[h] = "accepting" \/ (task[h] = "commit" /\ ok[h])
      BY <2>4, <2>7
    <3> QED BY <2>3, <3>1
  <2> QED BY <2>2, <2>5, <2>6, <2>7
<1>8. ASSUME TaskStep(g, "commit", "done"), holder' = Dropped(g), DropLocals(g, FALSE),
             server' = server
      PROVE  SocketsHeld'
  BY <1>8, <1>o DEF TaskStep, Before, DropLocals, Dropped
<1>9. CASE CommitPublishFails(g) \/ CommitError(g) \/ CommitStale(g)
  BY <1>8, <1>9 DEF CommitPublishFails, CommitError, CommitStale
<1>10. CASE AfterPublish(g)
  BY <1>10 DEF AfterPublish, TaskStep
<1> QED
  BY <1>1, <1>2, <1>3, <1>4, <1>5, <1>6, <1>7, <1>9, <1>10 DEF StartTask

LEMMA SocketsStep ==
    ASSUME TypeOK, GenerationsInOrder, SocketsHeld, [Next]_vars
    PROVE  SocketsHeld'
<1> USE DEF TypeOK, SocketsHeld, Alive, Free, Other, lifecycle, drains, tasks
<1>1. ASSUME NEW p \in Ports, BeginStart(p) PROVE SocketsHeld'
  <2>1. gen + 1 \in Gens /\ task[gen + 1] = "none" /\ server[gen + 1] = "none"
    BY <1>1, SupervisorAssumption
    DEF SupervisorAssumption, BeginStart, Startable, GenerationsInOrder, Gens, Before
  <2>2. \A q \in Ports :
           holder[q] # <<"gen", gen + 1>> /\ holder[q] # <<"resume", gen + 1>>
    BY <2>1
  <2>3. /\ UNCHANGED <<ok, server, holder>>
        /\ task' = [task EXCEPT ![gen + 1] = "prepare"]
        /\ port' = [port EXCEPT ![gen + 1] = p]
    BY <1>1 DEF BeginStart
  <2>4. \A h \in Gens : h # gen + 1 => task'[h] = task[h] /\ port'[h] = port[h]
    BY <2>3
  <2> QED BY <2>1, <2>2, <2>3, <2>4
<1>2. CASE \E p \in Ports : Start(p) \/ RefreshApplies(p)
  BY <1>1, <1>2 DEF Start, RefreshApplies
<1>3. ASSUME NEW p \in Ports, OtherProgram(p) PROVE SocketsHeld'
  <2>1. UNCHANGED <<task, port, ok, server>>
    BY <1>3 DEF OtherProgram
  <2>2. \A q \in Ports, g \in Gens :
           /\ holder'[q] = <<"gen", g>> <=> holder[q] = <<"gen", g>>
           /\ holder'[q] = <<"resume", g>> <=> holder[q] = <<"resume", g>>
    BY <1>3 DEF OtherProgram
  <2> QED BY <2>1, <2>2
<1>4. CASE RefreshLooks \/ RefreshRefused \/ Stop
  BY <1>4 DEF RefreshLooks, RefreshRefused, Stop
<1>5. ASSUME NEW g \in Gens, StartTask(g) PROVE SocketsHeld'
  BY <1>5, TaskSockets
<1>6. ASSUME NEW s \in Gens, DrainTask(s) PROVE SocketsHeld'
  <2>1. CASE DrainBegins(s)
    BY <2>1 DEF DrainBegins, Quieted
  <2>2. CASE DrainEnds(s)
    BY <2>2 DEF DrainEnds, GenerationsInOrder, Before
  <2>3. CASE CompleteStop(s)
    BY <2>3 DEF CompleteStop
  <2> QED BY <1>6, <2>1, <2>2, <2>3 DEF DrainTask
<1>7. ASSUME NEW s \in Gens, QuietReleases(s) PROVE SocketsHeld'
  BY <1>7 DEF QuietReleases, GenerationsInOrder, Before
<1>8. ASSUME NEW s \in Gens, QuietEnds(s) PROVE SocketsHeld'
  BY <1>8 DEF QuietEnds, GenerationsInOrder, Before
<1>9. ASSUME NEW s \in Gens, Crashes(s) PROVE SocketsHeld'
  <2>1. holder[port[s]] = <<"gen", s>> /\ task[s] # "commit"
    BY <1>9 DEF Crashes, GenerationsInOrder, Before
  <2>2. \A p \in Ports : holder'[p] = IF p = port[s] THEN Free ELSE holder[p]
    BY <1>9 DEF Crashes
  <2>3. \A t \in Gens : server'[t] = IF t = s THEN "crashed" ELSE server[t]
    BY <1>9 DEF Crashes
  <2> QED BY <1>9, <2>1, <2>2, <2>3 DEF Crashes
<1>10. CASE UNCHANGED vars
  BY <1>10 DEF vars
<1> QED
  BY <1>2, <1>3, <1>4, <1>5, <1>6, <1>7, <1>8, <1>9, <1>10 DEF Next

-----------------------------------------------------------------------------
(* The servers.                                                            *)

LEMMA OrphansStep ==
    ASSUME TypeOK, GenerationsInOrder, OwnedPublished, SocketsHeld, NoOrphanServer,
           [Next]_vars
    PROVE  NoOrphanServer'
<1> USE DEF TypeOK, NoOrphanServer, lifecycle, drains, tasks
<1>1. ASSUME NEW p \in Ports, BeginStart(p) PROVE NoOrphanServer'
  BY <1>1 DEF BeginStart
<1>2. CASE \E p \in Ports : Start(p) \/ RefreshApplies(p)
  BY <1>1, <1>2 DEF Start, RefreshApplies
<1>3. CASE RefreshLooks \/ RefreshRefused \/ \E p \in Ports : OtherProgram(p)
  BY <1>3 DEF RefreshLooks, RefreshRefused, OtherProgram
<1>4. CASE Stop
  <2>1. \A s \in Gens : s = owned => phase \in {"Running", "Applying"}
    BY SupervisorAssumption DEF SupervisorAssumption, Gens
  <2> QED BY <1>4, <2>1 DEF Stop
<1>5. ASSUME NEW g \in Gens, StartTask(g) PROVE NoOrphanServer'
  <2>1. CASE Prepare(g) \/ Stage(g)
    BY <2>1 DEF Prepare, Stage
  <2>2. CASE Handoff(g)
    BY <2>2 DEF Handoff, Quieted
  <2>3. CASE Bind(g) \/ BindFails(g)
    BY <2>3 DEF Bind, BindFails
  <2>4. CASE Reserve(g)
    BY <2>4 DEF Reserve
  <2>5. CASE AfterPublish(g)
    BY <2>5 DEF AfterPublish
  <2>6. CASE CommitPublishes(g)
    <3>1. CASE phase = "Applying"
      <4>1. server'[g] = "accepting" /\ owned' = g
            /\ drain' = [drain EXCEPT ![owned] = "retire"]
            /\ \A s \in Gens : s # g => server'[s] = Quieted(owned)[s]
        BY <2>6, <3>1, Quieting DEF CommitPublishes, Running
      <4>2. Quieted(owned)[owned] # "accepting"
        <5>1. owned \in Gens
          BY <3>1, SupervisorAssumption DEF SupervisorAssumption, Gens
        <5> QED BY <5>1 DEF Quieted
      <4>3. \A s \in Gens : Quieted(owned)[s] = "accepting" => server[s] = "accepting"
        BY Quieting
      <4> QED BY <4>1, <4>2, <4>3
    <3>2. CASE phase # "Applying"
      <4>1. \A s \in Gens : s = owned => phase \in {"Running", "Applying"}
        BY SupervisorAssumption DEF SupervisorAssumption, Gens
      <4> QED BY <2>6, <3>2, <4>1 DEF CommitPublishes, Running
    <3> QED BY <3>1, <3>2
  <2>7. CASE CommitPublishFails(g)
    <3>1. CASE phase = "Starting"
      BY <2>7, <3>1 DEF CommitPublishFails, Failed
    <3>2. CASE phase = "Applying" /\ port[owned] = port[g]
      <4>1. owned \in Gens /\ owned # g
        BY <2>7, <3>2, SupervisorAssumption
        DEF SupervisorAssumption, Gens, CommitPublishFails, TaskStep, OwnedPublished, Before
      <4>2. holder[port[g]] = <<"gen", g>>
        BY <2>7 DEF CommitPublishFails, TaskStep, SocketsHeld
      <4>3. server[owned] # "accepting"
        BY <3>2, <4>1, <4>2 DEF SocketsHeld
      <4> QED BY <2>7, <3>2, <4>1, <4>3 DEF CommitPublishFails, Failed
    <3>3. CASE phase = "Applying" /\ port[owned] # port[g]
      BY <2>7, <3>3 DEF CommitPublishFails, Running
    <3> QED BY <2>7, <3>1, <3>2, <3>3 DEF CommitPublishFails
  <2>8. CASE CommitError(g)
    BY <2>8 DEF CommitError, Running, Failed
  <2>9. CASE CommitStale(g)
    BY <2>9 DEF CommitStale
  <2> QED
    BY <1>5, <2>1, <2>2, <2>3, <2>4, <2>5, <2>6, <2>7, <2>8, <2>9 DEF StartTask
<1>6. ASSUME NEW s \in Gens, DrainTask(s) PROVE NoOrphanServer'
  BY <1>6 DEF DrainTask, DrainBegins, DrainEnds, CompleteStop, Quieted
<1>7. ASSUME NEW s \in Gens, QuietReleases(s) \/ QuietEnds(s) \/ Crashes(s)
      PROVE  NoOrphanServer'
  BY <1>7 DEF QuietReleases, QuietEnds, Crashes
<1>8. CASE UNCHANGED vars
  BY <1>8 DEF vars
<1> QED BY <1>2, <1>3, <1>4, <1>5, <1>6, <1>7, <1>8 DEF Next

LEMMA StickStep ==
    ASSUME TypeOK, StopSticks, [Next]_vars
    PROVE  StopSticks'
<1> USE DEF TypeOK, StopSticks, lifecycle, drains, tasks
<1>1. ASSUME NEW p \in Ports, Start(p) \/ RefreshApplies(p) \/ OtherProgram(p)
      PROVE  StopSticks'
  BY <1>1 DEF Start, RefreshApplies, RefreshStillCurrent, OtherProgram
<1>2. CASE RefreshLooks \/ RefreshRefused
  BY <1>2 DEF RefreshLooks, RefreshRefused
<1>3. CASE Stop
  BY <1>3 DEF Stop
<1>4. ASSUME NEW g \in Gens, StartTask(g) PROVE StopSticks'
  BY <1>4
  DEF StartTask, Prepare, Stage, Handoff, Bind, BindFails, Reserve, CommitPublishes,
      CommitPublishFails, CommitError, CommitStale, AfterPublish
<1>5. ASSUME NEW s \in Gens, DrainTask(s) PROVE StopSticks'
  BY <1>5 DEF DrainTask, DrainBegins, DrainEnds, CompleteStop
<1>6. ASSUME NEW s \in Gens, QuietReleases(s) \/ QuietEnds(s) \/ Crashes(s)
      PROVE  StopSticks'
  BY <1>6 DEF QuietReleases, QuietEnds, Crashes
<1>7. CASE UNCHANGED vars
  BY <1>7 DEF vars
<1> QED BY <1>1, <1>2, <1>3, <1>4, <1>5, <1>6, <1>7 DEF Next

LEMMA QuietStep ==
    ASSUME TypeOK, OwnedPublished, QuietNoted, [Next]_vars
    PROVE  QuietNoted'
<1> USE DEF TypeOK, QuietNoted, lifecycle, drains, tasks
<1>o. phase = "Running" => owned \in Gens
  BY SupervisorAssumption DEF SupervisorAssumption, Gens
<1>1. ASSUME NEW p \in Ports, Start(p) \/ RefreshApplies(p) \/ OtherProgram(p)
      PROVE  QuietNoted'
  BY <1>1 DEF Start, RefreshApplies, BeginStart, OtherProgram
<1>2. CASE RefreshLooks \/ RefreshRefused
  BY <1>2 DEF RefreshLooks, RefreshRefused
<1>3. CASE Stop
  BY <1>3 DEF Stop
<1>4. ASSUME NEW g \in Gens, StartTask(g) PROVE QuietNoted'
  <2>1. CASE Prepare(g) \/ Stage(g)
    BY <2>1 DEF Prepare, Stage
  <2>2. CASE Handoff(g)
    BY <2>2 DEF Handoff, ApplyingThis, Quieted
  <2>3. CASE Bind(g) \/ BindFails(g)
    BY <2>3 DEF Bind, BindFails
  <2>4. CASE Reserve(g)
    BY <2>4 DEF Reserve
  <2>5. CASE AfterPublish(g)
    <3>1. applyErr => applyErr'
      BY <2>5 DEF AfterPublish
    <3> QED BY <2>5, <3>1 DEF AfterPublish
  <2>6. CASE CommitPublishes(g)
    <3>1. server'[g] = "accepting"
      BY <2>6, Quieting DEF CommitPublishes
    <3> QED BY <2>6, <3>1 DEF CommitPublishes, Running
  <2>7. CASE CommitPublishFails(g)
    BY <2>7 DEF CommitPublishFails, Running, Failed
  <2>8. CASE CommitError(g)
    BY <2>8 DEF CommitError, Running, Failed
  <2>9. CASE CommitStale(g)
    BY <2>9 DEF CommitStale
  <2> QED
    BY <1>4, <2>1, <2>2, <2>3, <2>4, <2>5, <2>6, <2>7, <2>8, <2>9 DEF StartTask
<1>5. ASSUME NEW s \in Gens, DrainTask(s) PROVE QuietNoted'
  <2>1. CASE DrainBegins(s)
    BY <1>o, <2>1 DEF DrainBegins, Quieted, OwnedPublished
  <2>2. CASE DrainEnds(s)
    BY <1>o, <2>2 DEF DrainEnds
  <2>3. CASE CompleteStop(s)
    BY <2>3 DEF CompleteStop
  <2> QED BY <1>5, <2>1, <2>2, <2>3 DEF DrainTask
<1>6. ASSUME NEW s \in Gens, QuietReleases(s) \/ QuietEnds(s) \/ Crashes(s)
      PROVE  QuietNoted'
  BY <1>o, <1>6 DEF QuietReleases, QuietEnds, Crashes
<1>7. CASE UNCHANGED vars
  BY <1>7 DEF vars
<1> QED BY <1>1, <1>2, <1>3, <1>4, <1>5, <1>6, <1>7 DEF Next

LEMMA AwaitedStep ==
    ASSUME TypeOK, StopsBelong, TransitionAwaited, [Next]_vars
    PROVE  TransitionAwaited'
<1> USE SupervisorAssumption
    DEF SupervisorAssumption, TypeOK, TransitionAwaited, Underway, Before, Stops, Gens,
        lifecycle, drains, tasks
<1>1. ASSUME NEW p \in Ports, BeginStart(p) PROVE TransitionAwaited'
  BY <1>1 DEF BeginStart, Startable
<1>2. CASE \E p \in Ports : Start(p) \/ RefreshApplies(p)
  BY <1>1, <1>2 DEF Start, RefreshApplies
<1>3. CASE RefreshLooks \/ RefreshRefused \/ \E p \in Ports : OtherProgram(p)
  BY <1>3 DEF RefreshLooks, RefreshRefused, OtherProgram
<1>4. CASE Stop
  <2>1. CASE phase \in {"Running", "Applying"}
    <3>1. owned \in Gens
      BY <2>1
    <3>2. drain'[owned] = "stop" /\ draining'
      BY <1>4, <2>1, <3>1 DEF Stop
    <3> QED BY <1>4, <2>1, <3>1, <3>2 DEF Stop
  <2>2. CASE phase \notin {"Running", "Applying"}
    BY <1>4, <2>2 DEF Stop
  <2> QED BY <2>1, <2>2
<1>5. ASSUME NEW g \in Gens, StartTask(g) PROVE TransitionAwaited'
  <2>1. CASE Prepare(g)
    BY <2>1 DEF Prepare, TaskStep
  <2>2. CASE Stage(g)
    BY <2>2 DEF Stage, TaskStep
  <2>3. CASE Handoff(g)
    BY <2>3 DEF Handoff, TaskStep
  <2>4. CASE Bind(g)
    BY <2>4 DEF Bind, TaskStep
  <2>5. CASE BindFails(g)
    BY <2>5 DEF BindFails, TaskStep
  <2>6. CASE Reserve(g)
    BY <2>6 DEF Reserve, TaskStep
  <2>7. CASE AfterPublish(g)
    BY <2>7 DEF AfterPublish, TaskStep
  <2>8. CASE CommitPublishes(g)
    BY <2>8 DEF CommitPublishes, Running
  <2>9. CASE CommitPublishFails(g)
    BY <2>9 DEF CommitPublishFails, Running, Failed
  <2>10. CASE CommitError(g)
    BY <2>10 DEF CommitError, Running, Failed
  <2>11. CASE CommitStale(g)
    BY <2>11 DEF CommitStale, TaskStep
  <2> QED
    BY <1>5, <2>1, <2>2, <2>3, <2>4, <2>5, <2>6, <2>7, <2>8, <2>9, <2>10, <2>11
    DEF StartTask
<1>6. ASSUME NEW s \in Gens, DrainTask(s) PROVE TransitionAwaited'
  <2>1. CASE DrainBegins(s)
    BY <2>1 DEF DrainBegins
  <2>2. CASE DrainEnds(s)
    BY <2>2 DEF DrainEnds
  <2>3. CASE CompleteStop(s)
    BY <2>3 DEF CompleteStop, StopsBelong
  <2> QED BY <1>6, <2>1, <2>2, <2>3 DEF DrainTask
<1>7. ASSUME NEW s \in Gens, QuietReleases(s) \/ QuietEnds(s) \/ Crashes(s)
      PROVE  TransitionAwaited'
  BY <1>7 DEF QuietReleases, QuietEnds, Crashes
<1>8. CASE UNCHANGED vars
  BY <1>8 DEF vars
<1> QED BY <1>2, <1>3, <1>4, <1>5, <1>6, <1>7, <1>8 DEF Next

-----------------------------------------------------------------------------
(* The invariant and what it says.                                         *)

LEMMA InitInv == Init => SupervisorInv
<1> SUFFICES ASSUME Init PROVE SupervisorInv
  OBVIOUS
<1>1. TypeOK
  BY InitTypes
<1>2. GenerationsInOrder /\ OwnedPublished /\ StopsBelong
  BY DEF Init, GenerationsInOrder, OwnedPublished, StopsBelong, Stops
<1>3. SocketsHeld
  BY DEF Init, SocketsHeld, Free
<1>4. NoOrphanServer /\ StopSticks /\ QuietNoted /\ TransitionAwaited
  BY DEF Init, NoOrphanServer, StopSticks, QuietNoted, TransitionAwaited
<1> QED BY <1>1, <1>2, <1>3, <1>4 DEF SupervisorInv

LEMMA InvStep == SupervisorInv /\ [Next]_vars => SupervisorInv'
BY TypesStep, GenerationsStep, OwnedStep, StopsStep, SocketsStep, OrphansStep, StickStep,
   QuietStep, AwaitedStep
DEF SupervisorInv

\* Two servers that accept would both be owned, or one of them be stopped by a
\* stop that the other outlives.
LEMMA OneAccepts == SupervisorInv => OneAcceptingServer /\ NoLeakedSocket
<1> SUFFICES ASSUME SupervisorInv PROVE OneAcceptingServer /\ NoLeakedSocket
  OBVIOUS
<1>1. ASSUME NEW s \in Gens, NEW t \in Gens, server[s] = "accepting", server[t] = "accepting"
      PROVE  s = t
  <2>1. \A r \in Gens : owned = r => phase # "Stopping"
    BY SupervisorAssumption DEF SupervisorAssumption, SupervisorInv, TypeOK, Gens
  <2>2. \A r \in Gens : drain[r] = "stop" => phase = "Stopping"
    BY DEF SupervisorInv, StopsBelong, Stops
  <2>3. drain[s] = "stop" /\ drain[t] = "stop" => s = t
    BY DEF SupervisorInv, StopsBelong, Stops
  <2> QED BY <1>1, <2>1, <2>2, <2>3 DEF SupervisorInv, NoOrphanServer
<1>2. NoLeakedSocket
  BY DEF SupervisorInv, SocketsHeld, NoLeakedSocket
<1> QED BY <1>1, <1>2 DEF OneAcceptingServer

\* The supervisor's states are what serve_supervisor.rs's types say, and a server
\* is owned exactly in Running and Applying.
THEOREM SupervisorTypes == Spec => []TypeOK
<1>1. SupervisorInv => TypeOK
  BY DEF SupervisorInv
<1> QED BY <1>1, InitInv, InvStep, PTL DEF Spec

\* A manual stop is final until the user starts the proxy again, however many
\* refreshes and start tasks were on their way.
THEOREM StopIsFinal == Spec => []StopSticks
<1>1. SupervisorInv => StopSticks
  BY DEF SupervisorInv
<1> QED BY <1>1, InitInv, InvStep, PTL DEF Spec

\* begin_serve_start, commit and the drain tasks hand the servers on so that no two
\* accept at once.
THEOREM OneServer == Spec => []OneAcceptingServer
<1>1. SupervisorInv => OneAcceptingServer
  BY OneAccepts
<1> QED BY <1>1, InitInv, InvStep, PTL DEF Spec

\* No late completion leaves a server accepting that nobody can stop.
THEOREM NoServerIsOrphaned == Spec => []NoOrphanServer
<1>1. SupervisorInv => NoOrphanServer
  BY DEF SupervisorInv
<1> QED BY <1>1, InitInv, InvStep, PTL DEF Spec

\* Every listener that is bound or reserved is closed by the task or the server that
\* has it.
THEOREM SocketsAreOwned == Spec => []NoLeakedSocket
<1>1. SupervisorInv => NoLeakedSocket
  BY OneAccepts
<1> QED BY <1>1, InitInv, InvStep, PTL DEF Spec

\* A start or a stop under way always has the task that will end it, the safety
\* half of TransitionsEnd.
THEOREM SomebodyEndsIt == Spec => []TransitionAwaited
<1>1. SupervisorInv => TransitionAwaited
  BY DEF SupervisorInv
<1> QED BY <1>1, InitInv, InvStep, PTL DEF Spec

-----------------------------------------------------------------------------
(* ensure_serve_running.                                                   *)

\* A call takes no step of the supervisor that the supervisor does not have.
LEMMA EnsureStep == [EnsureNext]_allVars => [Next]_vars
<1> SUFFICES ASSUME [EnsureNext]_allVars PROVE [Next]_vars
  OBVIOUS
<1>1. ASSUME NEW p \in Ports, EnsureStarts(p) PROVE Next
  BY <1>1 DEF EnsureStarts, Start, Next
<1>2. CASE EnsureLooks \/ EnsureJoins \/ EnsureObserves \/ EnsureProbes \/ EnsureChecks
             \/ EnsureTimesOut
  BY <1>2
  DEF EnsureLooks, EnsureJoins, EnsureObserves, EnsureProbes, EnsureChecks, EnsureTimesOut
<1> QED BY <1>1, <1>2 DEF EnsureNext, EnsureTurn, allVars

\* The supervisor beside a caller is the supervisor.
THEOREM EnsureIsSupervisor == EnsureSpec => Init /\ [][Next]_vars
BY EnsureStep, PTL DEF EnsureSpec, EnsureInit

\* A call is told Ok only of a server that accepts, unless it tolerates an apply
\* error that is on display: a server that is Running and quiet has one.
THEOREM OkIsTrue == EnsureSpec => OkMeansServing
<1>1. ASSUME SupervisorInv, [EnsureNext]_allVars
      PROVE  [(ens # "idle" /\ ens' = "idle" /\ answer' # 0)
                => server[answer'] = "accepting" \/ applyErr]_allVars
  <2> SUFFICES ASSUME ens # "idle", ens' = "idle", answer' # 0, EnsureNext
               PROVE  server[answer'] = "accepting" \/ applyErr
    BY <1>1 DEF allVars, ensure
  <2>1. EnsureChecks /\ StillRunning /\ answer' = owned
    BY DEF EnsureNext, EnsureTurn, ensure, EnsureLooks, EnsureStarts, EnsureJoins,
           EnsureObserves, EnsureProbes, EnsureChecks, EnsureTimesOut, Return, Await
  <2>2. server[owned] \in {"accepting", "quiet"} /\ phase = "Running"
    BY <2>1 DEF StillRunning, Alive
  <2> QED BY <1>1, <2>1, <2>2 DEF SupervisorInv, QuietNoted
<1>2. EnsureSpec => []SupervisorInv
  BY InitInv, InvStep, EnsureIsSupervisor, PTL
<1> QED BY <1>1, <1>2, PTL DEF EnsureSpec, OkMeansServing

=============================================================================
