-------------------------- MODULE ServeSupervisor --------------------------
(***************************************************************************)
(* The desktop's runtime supervisor (serve_supervisor.rs): one lifecycle   *)
(* value under the app mutex, a background start task per generation, a    *)
(* drain task per server that is retired or stopped, and the sockets they  *)
(* hand to one another.  A generation names the start task it began, the   *)
(* candidate that task prepares and the server it publishes.               *)
(*                                                                         *)
(* A start task walks prepare -> stage -> handoff -> bind -> reserve ->    *)
(* commit -> after; only stage, handoff and commit take the mutex, so a    *)
(* stop, another task's commit and other programs run in between.          *)
(***************************************************************************)
EXTENDS Naturals

CONSTANTS Ports,        \* listen addresses a configuration may name
          MaxGeneration \* bound on the starts of an instance

ASSUME SupervisorAssumption == MaxGeneration \in Nat \ {0} /\ Ports # {}

Gens == 1..MaxGeneration

VARIABLES
    phase,      \* the variant of ServerLifecycle
    gen,        \* its generation
    owned,      \* the RunningServer in Running or Applying, 0 for none
    draining,   \* Stopping.draining
    applyErr,   \* Running.apply_error is set
    task,       \* where a generation's start task is
    port,       \* the address of a generation's candidate or server
    ok,         \* the start task's result so far
    resume,     \* resume_listen: the task made the old server let go of it
    server,     \* the published server of a generation
    holder,     \* the socket bound to an address
    drain,      \* the drain task of a server
    stopGen,    \* the generation complete_serve_stop will be given
    seen,       \* the generation apply_saved_capabilities saw Running
    stopped     \* history: the user stopped the proxy and has not started it

lifecycle == <<phase, gen, owned, draining, applyErr>>
tasks == <<task, port, ok, resume>>
drains == <<drain, stopGen>>
vars == <<lifecycle, tasks, server, holder, drains, seen, stopped>>

Free == <<"free", 0>>
Other == <<"other", 0>>

\* is_task_alive.
Alive(s) == server[s] \in {"accepting", "quiet"}

\* stop_accepting: the accept loop is told; it lets the socket go by itself.
Quieted(s) == [server EXCEPT ![s] = IF @ = "accepting" THEN "quiet" ELSE @]

-----------------------------------------------------------------------------
(* Starting (begin_serve_start_inner).                                     *)

\* Stopped and Failed start afresh, Running starts an apply beside the old
\* server; Starting, Applying and Stopping are refused.
Startable == phase \in {"Stopped", "Failed", "Running"} /\ gen < MaxGeneration

BeginStart(p) ==
    /\ Startable
    /\ gen' = gen + 1
    /\ phase' = IF phase = "Running" THEN "Applying" ELSE "Starting"
    /\ draining' = FALSE /\ applyErr' = FALSE
    /\ task' = [task EXCEPT ![gen + 1] = "prepare"]
    /\ port' = [port EXCEPT ![gen + 1] = p]
    /\ UNCHANGED <<owned, ok, resume, server, holder, drains>>

\* serve_start, the menu's Start on a fresh snapshot.
Start(p) ==
    /\ BeginStart(p)
    /\ stopped' = FALSE
    /\ UNCHANGED seen

\* apply_saved_capabilities: it looks, lets go of the mutex, and applies only if
\* the generation it saw is still Running.
RefreshLooks ==
    /\ seen = 0 /\ phase = "Running"
    /\ seen' = gen
    /\ UNCHANGED <<lifecycle, tasks, server, holder, drains, stopped>>

\* Mutant of RefreshStillCurrent: what was seen before the mutex was let go is
\* not looked at again.
RefreshNotRechecked == TRUE

RefreshStillCurrent == phase = "Running" /\ gen = seen

RefreshApplies(p) ==
    /\ seen # 0
    /\ RefreshStillCurrent
    /\ BeginStart(p)
    /\ seen' = 0
    /\ UNCHANGED stopped

\* The generation it saw is over, or the draft could not be saved.
RefreshRefused ==
    /\ seen # 0
    /\ seen' = 0
    /\ UNCHANGED <<lifecycle, tasks, server, holder, drains, stopped>>

-----------------------------------------------------------------------------
(* The start task.                                                         *)

TaskStep(g, from, to) == task[g] = from /\ task' = [task EXCEPT ![g] = to]

\* prepare_server, and catch_unwind around it.
Prepare(g) ==
    /\ TaskStep(g, "prepare", "stage")
    /\ \E b \in BOOLEAN : ok' = [ok EXCEPT ![g] = b]
    /\ UNCHANGED <<lifecycle, port, resume, server, holder, drains, seen, stopped>>

ApplyingThis(g) == phase = "Applying" /\ gen = g

\* The Agent metadata transition of an apply, which may fail.
Stage(g) ==
    /\ TaskStep(g, "stage", "handoff")
    /\ \E b \in BOOLEAN : ok' = [ok EXCEPT ![g] = @ /\ (ApplyingThis(g) => b)]
    /\ UNCHANGED <<lifecycle, port, resume, server, holder, drains, seen, stopped>>

\* Same-port handoff: the old server lets its accept socket go.
Handoff(g) ==
    LET same == ok[g] /\ ApplyingThis(g) /\ port[owned] = port[g] IN
    /\ TaskStep(g, "handoff", "bind")
    /\ server' = IF same THEN Quieted(owned) ELSE server
    /\ resume' = [resume EXCEPT ![g] = same]
    /\ UNCHANGED <<lifecycle, port, ok, holder, drains, seen, stopped>>

\* PreparedServer::bind: retried until the address is free, or given up.
Bind(g) ==
    /\ TaskStep(g, "bind", IF ok[g] THEN "commit" ELSE "reserve")
    /\ ok[g] => holder[port[g]] = Free
    /\ holder' = IF ok[g] THEN [holder EXCEPT ![port[g]] = <<"gen", g>>] ELSE holder
    /\ UNCHANGED <<lifecycle, port, ok, resume, server, drains, seen, stopped>>

BindFails(g) ==
    /\ ok[g]
    /\ TaskStep(g, "bind", "reserve")
    /\ ok' = [ok EXCEPT ![g] = FALSE]
    /\ UNCHANGED <<lifecycle, port, resume, server, holder, drains, seen, stopped>>

\* resume_listener: the address is bound again for the old server, if it can be.
Reserve(g) ==
    /\ TaskStep(g, "reserve", "commit")
    /\ \E b \in BOOLEAN :
         holder' = IF b /\ resume[g] /\ holder[port[g]] = Free
                   THEN [holder EXCEPT ![port[g]] = <<"resume", g>>] ELSE holder
    /\ UNCHANGED <<lifecycle, port, ok, resume, server, drains, seen, stopped>>

NoPort == CHOOSE p \in Ports : TRUE

\* The task's locals die with it, and with a candidate that was not published
\* its address.
DropLocals(g, published) ==
    /\ ok' = [ok EXCEPT ![g] = FALSE]
    /\ resume' = [resume EXCEPT ![g] = FALSE]
    /\ port' = IF published THEN port ELSE [port EXCEPT ![g] = NoPort]

\* Mutant of Dropped: the reserved listener is forgotten, not closed.
DroppedCandidateOnly(g) ==
    [p \in Ports |-> IF holder[p] = <<"gen", g>> THEN Free ELSE holder[p]]

\* The sockets a finished task still holds are closed.
Dropped(g) ==
    [p \in Ports |-> IF holder[p] \in {<<"gen", g>>, <<"resume", g>>} THEN Free
                                                                     ELSE holder[p]]

Running(s, e) == phase' = "Running" /\ owned' = s /\ applyErr' = e
Failed == phase' = "Failed" /\ owned' = 0 /\ applyErr' = FALSE

\* Mutant of CommitPublishes: the old server is left accepting.
CommitPublishesBeside(g) ==
    /\ TaskStep(g, "commit", "after")
    /\ ok[g] /\ gen = g /\ phase \in {"Starting", "Applying"}
    /\ Running(g, FALSE)
    /\ server' = [server EXCEPT ![g] = "accepting"]
    /\ drain' = IF phase = "Applying" THEN [drain EXCEPT ![owned] = "retire"] ELSE drain
    /\ DropLocals(g, TRUE)
    /\ UNCHANGED <<gen, draining, holder, stopGen, seen, stopped>>

\* Starting or Applying of this generation, and the candidate is published.
CommitPublishes(g) ==
    /\ TaskStep(g, "commit", "after")
    /\ ok[g] /\ gen = g /\ phase \in {"Starting", "Applying"}
    /\ Running(g, FALSE)
    /\ server' = [(IF phase = "Applying" THEN Quieted(owned) ELSE server)
                  EXCEPT ![g] = "accepting"]
    /\ drain' = IF phase = "Applying" THEN [drain EXCEPT ![owned] = "retire"] ELSE drain
    /\ DropLocals(g, TRUE)
    /\ UNCHANGED <<gen, draining, holder, stopGen, seen, stopped>>

\* Publishing fails. The listener to restore is only reserved when the bind
\* failed, so on the same address there is none and the old server is retired.
CommitPublishFails(g) ==
    /\ TaskStep(g, "commit", "done")
    /\ ok[g] /\ gen = g /\ phase \in {"Starting", "Applying"}
    /\ IF phase = "Starting"
       THEN Failed /\ UNCHANGED drain
       ELSE IF port[owned] = port[g]
            THEN Failed /\ drain' = [drain EXCEPT ![owned] = "retire"]
            ELSE Running(owned, TRUE) /\ UNCHANGED drain
    /\ holder' = Dropped(g)
    /\ DropLocals(g, FALSE)
    /\ UNCHANGED <<gen, draining, server, stopGen, seen, stopped>>

\* The result is an error: a start fails, an apply goes back to the old server
\* as it is now; a listener reserved for it is dropped.
CommitError(g) ==
    /\ TaskStep(g, "commit", "done")
    /\ ~ok[g] /\ gen = g /\ phase \in {"Starting", "Applying"}
    /\ IF phase = "Starting" THEN Failed ELSE Running(owned, TRUE)
    /\ holder' = Dropped(g)
    /\ DropLocals(g, FALSE)
    /\ UNCHANGED <<gen, draining, server, drains, seen, stopped>>

\* Mutant of CommitStale: a stop that waits for this task is never completed.
CommitStaleForgetsStop(g) ==
    /\ TaskStep(g, "commit", "done")
    /\ gen # g \/ phase \notin {"Starting", "Applying"}
    /\ holder' = Dropped(g)
    /\ DropLocals(g, FALSE)
    /\ UNCHANGED <<lifecycle, server, drains, seen, stopped>>

\* The generation was stopped, or is over: the candidate is discarded, and a
\* stop that waited for this task alone is complete.
CommitStale(g) ==
    /\ TaskStep(g, "commit", "done")
    /\ gen # g \/ phase \notin {"Starting", "Applying"}
    /\ phase' = IF gen = g /\ phase = "Stopping" /\ ~draining THEN "Stopped" ELSE phase
    /\ holder' = Dropped(g)
    /\ DropLocals(g, FALSE)
    /\ UNCHANGED <<gen, owned, draining, applyErr, server, drains, seen, stopped>>

\* The Agent metadata refresh after publication may fail; it is noted on the
\* lifecycle if this generation is still Running.
AfterPublish(g) ==
    /\ TaskStep(g, "after", "done")
    /\ \E b \in BOOLEAN :
         applyErr' = IF b /\ phase = "Running" /\ gen = g THEN TRUE ELSE applyErr
    /\ UNCHANGED <<phase, gen, owned, draining, port, ok, resume, server, holder,
                   drains, seen, stopped>>

-----------------------------------------------------------------------------
(* Stopping (begin_serve_stop_inner, complete_serve_stop).                 *)

\* Mutant of Stop: during an apply the old server is not handed to a drain task.
StopForgetsOld ==
    /\ phase \notin {"Stopped", "Stopping"}
    /\ phase' = IF phase = "Failed" THEN "Stopped" ELSE "Stopping"
    /\ draining' = (phase = "Running")
    /\ IF phase = "Running"
       THEN /\ drain' = [drain EXCEPT ![owned] = "stop"]
            /\ stopGen' = [stopGen EXCEPT ![owned] = gen]
       ELSE UNCHANGED drains
    /\ owned' = 0 /\ applyErr' = FALSE
    /\ stopped' = TRUE
    /\ UNCHANGED <<gen, tasks, server, holder, seen>>

Stop ==
    /\ phase \notin {"Stopped", "Stopping"}
    /\ phase' = IF phase = "Failed" THEN "Stopped" ELSE "Stopping"
    /\ draining' = (phase \in {"Running", "Applying"})
    /\ IF phase \in {"Running", "Applying"}
       THEN /\ drain' = [drain EXCEPT ![owned] = "stop"]
            /\ stopGen' = [stopGen EXCEPT ![owned] = gen]
       ELSE UNCHANGED drains
    /\ owned' = 0 /\ applyErr' = FALSE
    /\ stopped' = TRUE
    /\ UNCHANGED <<gen, tasks, server, holder, seen>>

\* drain_and_shutdown: stop accepting, wait for the requests in flight (cancel
\* what is left after the grace period), shut the runtime down.
DrainBegins(s) ==
    /\ drain[s] \in {"stop", "retire"}
    /\ server' = Quieted(s)
    /\ drain' = [drain EXCEPT ![s] = IF @ = "stop" THEN "stopping" ELSE "retiring"]
    /\ UNCHANGED <<lifecycle, tasks, holder, stopGen, seen, stopped>>

DrainEnds(s) ==
    /\ drain[s] \in {"stopping", "retiring"}
    /\ server' = [server EXCEPT ![s] = "dead"]
    /\ holder' = [p \in Ports |-> IF holder[p] = <<"gen", s>> THEN Free ELSE holder[p]]
    /\ drain' = [drain EXCEPT ![s] = IF @ = "stopping" THEN "drained" ELSE "done"]
    /\ port' = [port EXCEPT ![s] = NoPort]
    /\ UNCHANGED <<lifecycle, task, ok, resume, stopGen, seen, stopped>>

CompleteStop(s) ==
    /\ drain[s] = "drained"
    /\ drain' = [drain EXCEPT ![s] = "done"]
    /\ phase' = IF phase = "Stopping" /\ gen = stopGen[s] THEN "Stopped" ELSE phase
    /\ stopGen' = [stopGen EXCEPT ![s] = 0]
    /\ UNCHANGED <<gen, owned, draining, applyErr, tasks, server, holder, seen, stopped>>

-----------------------------------------------------------------------------
(* The environment.                                                        *)

\* The accept loop of a quieted server drops its socket; its task ends with the
\* last connection.
QuietReleases(s) ==
    /\ server[s] = "quiet" /\ holder[port[s]] = <<"gen", s>>
    /\ holder' = [holder EXCEPT ![port[s]] = Free]
    /\ UNCHANGED <<lifecycle, tasks, server, drains, seen, stopped>>

QuietEnds(s) ==
    /\ server[s] = "quiet" /\ holder[port[s]] # <<"gen", s>>
    /\ server' = [server EXCEPT ![s] = "dead"]
    /\ UNCHANGED <<lifecycle, tasks, holder, drains, seen, stopped>>

\* The accept loop fails by itself.
Crashes(s) ==
    /\ server[s] = "accepting"
    /\ server' = [server EXCEPT ![s] = "crashed"]
    /\ holder' = [holder EXCEPT ![port[s]] = Free]
    /\ UNCHANGED <<lifecycle, tasks, drains, seen, stopped>>

\* Another program binds or leaves an address.
OtherProgram(p) ==
    /\ holder[p] \in {Free, Other}
    /\ holder' = [holder EXCEPT ![p] = IF @ = Free THEN Other ELSE Free]
    /\ UNCHANGED <<lifecycle, tasks, server, drains, seen, stopped>>

-----------------------------------------------------------------------------
Init ==
    /\ phase = "Stopped" /\ gen = 0 /\ owned = 0
    /\ draining = FALSE /\ applyErr = FALSE
    /\ task = [g \in Gens |-> "none"]
    /\ port \in [Gens -> {NoPort}]
    /\ ok = [g \in Gens |-> FALSE]
    /\ resume = [g \in Gens |-> FALSE]
    /\ server = [g \in Gens |-> "none"]
    /\ holder = [p \in Ports |-> Free]
    /\ drain = [g \in Gens |-> "none"]
    /\ stopGen = [g \in Gens |-> 0]
    /\ seen = 0
    /\ stopped = FALSE

StartTask(g) ==
    \/ Prepare(g) \/ Stage(g) \/ Handoff(g) \/ Bind(g) \/ BindFails(g) \/ Reserve(g)
    \/ CommitPublishes(g) \/ CommitPublishFails(g) \/ CommitError(g)
    \/ CommitStale(g) \/ AfterPublish(g)

DrainTask(s) == DrainBegins(s) \/ DrainEnds(s) \/ CompleteStop(s)

Next ==
    \/ \E p \in Ports : Start(p) \/ RefreshApplies(p) \/ OtherProgram(p)
    \/ RefreshLooks \/ RefreshRefused \/ Stop
    \/ \E g \in Gens : \/ StartTask(g) \/ DrainTask(g)
                       \/ QuietReleases(g) \/ QuietEnds(g) \/ Crashes(g)

\* Blocking tasks are scheduled and every wait in them is bounded: the bind
\* retries for a second, the drain for five.
Fairness ==
    \A g \in Gens : WF_vars(StartTask(g)) /\ WF_vars(DrainTask(g))

Spec == Init /\ [][Next]_vars /\ Fairness

-----------------------------------------------------------------------------
TypeOK ==
    /\ phase \in {"Stopped", "Starting", "Applying", "Stopping", "Running", "Failed"}
    /\ gen \in 0..MaxGeneration /\ owned \in 0..MaxGeneration
    /\ owned # 0 <=> phase \in {"Running", "Applying"}
    /\ draining \in BOOLEAN /\ applyErr \in BOOLEAN
    /\ task \in [Gens -> {"none", "prepare", "stage", "handoff", "bind", "reserve",
                          "commit", "after", "done"}]
    /\ port \in [Gens -> Ports]
    /\ ok \in [Gens -> BOOLEAN] /\ resume \in [Gens -> BOOLEAN]
    /\ server \in [Gens -> {"none", "accepting", "quiet", "dead", "crashed"}]
    /\ holder \in [Ports -> {Free, Other} \union ({"gen", "resume"} \X Gens)]
    /\ drain \in [Gens -> {"none", "stop", "retire", "stopping", "retiring",
                           "drained", "done"}]
    /\ stopGen \in [Gens -> 0..MaxGeneration]
    /\ seen \in 0..MaxGeneration
    /\ stopped \in BOOLEAN

\* "A capability refresh must never turn a completed manual stop into a start":
\* after a stop nothing runs or starts until the user asks again, whatever late
\* start tasks and refreshes do.
StopSticks == stopped => phase \in {"Stopping", "Stopped"}

\* At most one published server accepts at any time, through every handoff.
OneAcceptingServer ==
    \A s, t \in Gens : server[s] = "accepting" /\ server[t] = "accepting" => s = t

\* A server that accepts is owned by the lifecycle, or a drain task has it: no
\* late completion leaves one running that nobody can stop.
NoOrphanServer ==
    \A s \in Gens : server[s] = "accepting" => owned = s \/ drain[s] = "stop"

\* A bound socket belongs to a server that is up or a start task on its way.
NoLeakedSocket ==
    \A p \in Ports, g \in Gens :
        /\ holder[p] = <<"gen", g>> => task[g] \in {"commit", "after"} \/ Alive(g)
        /\ holder[p] = <<"resume", g>> => task[g] = "commit"

\* No start and no stop hangs.
TransitionsEnd ==
    /\ phase \in {"Starting", "Applying"} ~> phase \notin {"Starting", "Applying"}
    /\ phase = "Stopping" ~> phase # "Stopping"

\* "A failed candidate bind must restore the old listener": the server that is
\* Running accepts, unless its accept loop failed by itself.
RunningServerAccepts ==
    phase = "Running" => server[owned] \in {"accepting", "crashed"}

=============================================================================
