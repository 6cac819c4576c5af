--------------------------- MODULE EnsureRunning ---------------------------
(***************************************************************************)
(* ensure_serve_running beside the supervisor: a caller looks at the       *)
(* lifecycle under the mutex, lets go, starts the proxy or waits for a     *)
(* generation, and probes its listener without the mutex.  Calls follow    *)
(* one another; an Err answer is a return to "idle" with answer = 0.       *)
(***************************************************************************)
EXTENDS ServeSupervisor

VARIABLES ens,        \* where the call is
          ensGen,     \* expected_generation
          ensStrict,  \* fail_on_apply_error
          ensPort,    \* the address the wait loop read, then probed
          answer      \* the server an Ok answer vouches for

ensure == <<ens, ensGen, ensStrict, ensPort, answer>>

\* A TCP connect succeeds when anybody listens on the address.
Answers(p) == holder[p] # Free

Return(s) ==
    /\ ens' = "idle" /\ ensGen' = 0 /\ ensStrict' = FALSE /\ ensPort' = NoPort
    /\ answer' = s

Await(pc, g, strict) ==
    /\ ens' = pc /\ ensGen' = g /\ ensStrict' = strict
    /\ UNCHANGED <<ensPort, answer>>

\* The first look, under the mutex: Ready, Wait, Start, or an error for a dead
\* task and for Stopping.
EnsureLooks ==
    /\ ens = "idle"
    /\ CASE phase = "Running" ->
              IF ~Alive(owned) THEN Return(0)
              ELSE IF Answers(port[owned]) THEN Return(owned)
              ELSE Await("wait", gen, FALSE)
         [] phase = "Starting" -> Await("wait", gen, FALSE)
         [] phase = "Applying" -> Await("wait", gen, TRUE)
         [] phase \in {"Stopped", "Failed"} -> Await("start", gen + 1, FALSE)
         [] phase = "Stopping" -> Return(0)
    /\ UNCHANGED vars

\* begin_serve_start, without an expectation.
EnsureStarts(p) ==
    /\ ens = "start"
    /\ BeginStart(p)
    /\ stopped' = FALSE
    /\ UNCHANGED seen
    /\ Await("wait", ensGen, ensStrict)

\* A start that was refused, or whose draft could not be saved, joins the one
\* under way if it has the expected generation.
EnsureJoins ==
    /\ ens = "start"
    /\ IF gen = ensGen /\ phase \in {"Starting", "Applying"}
       THEN Await("wait", ensGen, ensStrict) ELSE Return(0)
    /\ UNCHANGED vars

\* A turn of the wait loop: superseded, failed or stopped end the call; a
\* Running server is probed.
EnsureObserves ==
    /\ ens = "wait"
    /\ ~(gen = ensGen /\ phase \in {"Starting", "Applying"})
    /\ IF gen = ensGen /\ phase = "Running" /\ Alive(owned) /\ ~(ensStrict /\ applyErr)
       THEN /\ ens' = "probe" /\ ensPort' = port[owned]
            /\ UNCHANGED <<ensGen, ensStrict, answer>>
       ELSE Return(0)
    /\ UNCHANGED vars

EnsureProbes ==
    /\ ens = "probe"
    /\ ens' = IF Answers(ensPort) THEN "check" ELSE "wait"
    /\ UNCHANGED <<vars, ensGen, ensStrict, ensPort, answer>>

\* Mutant of StillRunning: the accept loop is not asked for again.
StillRunningByPhase ==
    /\ gen = ensGen /\ phase = "Running"
    /\ port[owned] = ensPort
    /\ ~(ensStrict /\ applyErr)

\* What EnsureChecks asks again of the lifecycle once the probe was answered.
StillRunning ==
    /\ gen = ensGen /\ phase = "Running"
    /\ port[owned] = ensPort /\ Alive(owned)
    /\ ~(ensStrict /\ applyErr)

EnsureChecks ==
    /\ ens = "check"
    /\ IF StillRunning THEN Return(owned) ELSE Await("wait", ensGen, ensStrict)
    /\ UNCHANGED vars

\* Mutant of EnsureTimesOut: the deadline is only for a start under way.
EnsureTimesOutStarting ==
    /\ ens = "wait" /\ phase \in {"Starting", "Applying"}
    /\ Return(0)
    /\ UNCHANGED vars

\* The deadline, looked at between two turns of the loop.
EnsureTimesOut ==
    /\ ens = "wait"
    /\ Return(0)
    /\ UNCHANGED vars

-----------------------------------------------------------------------------
EnsureInit ==
    /\ Init
    /\ ens = "idle" /\ ensGen = 0 /\ ensStrict = FALSE /\ ensPort = NoPort
    /\ answer = 0

EnsureTurn ==
    EnsureJoins \/ EnsureObserves \/ EnsureProbes \/ EnsureChecks
    \/ \E p \in Ports : EnsureStarts(p)

EnsureNext ==
    \/ Next /\ UNCHANGED ensure
    \/ EnsureLooks \/ EnsureTurn \/ EnsureTimesOut

allVars == <<vars, ensure>>

\* As in the supervisor; a call that was made keeps turning, and its deadline
\* comes even if the loop is always busy with a probe that is not answered.
EnsureSpec ==
    /\ EnsureInit /\ [][EnsureNext]_allVars
    /\ \A g \in Gens : WF_allVars(StartTask(g) /\ UNCHANGED ensure)
                       /\ WF_allVars(DrainTask(g) /\ UNCHANGED ensure)
    /\ WF_allVars(EnsureTurn) /\ SF_allVars(EnsureTimesOut)

-----------------------------------------------------------------------------
EnsureTypeOK ==
    /\ TypeOK
    /\ ens \in {"idle", "start", "wait", "probe", "check"}
    /\ ensGen \in 0..(MaxGeneration + 1)
    /\ ensStrict \in BOOLEAN
    /\ ensPort \in Ports
    /\ answer \in 0..MaxGeneration

\* A caller told that the proxy runs can use it: the server it was told of was
\* published by then and, unless an apply error is on display, accepts; the
\* probe it rests on may have been answered by another program or another server.
OkMeansServing ==
    [][(ens # "idle" /\ ens' = "idle" /\ answer' # 0)
       => server[answer'] = "accepting" \/ applyErr]_allVars

\* Every call returns: it never waits for a generation that cannot come.
EnsureReturns == ens # "idle" ~> ens = "idle"

=============================================================================
