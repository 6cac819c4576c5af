-------------------------- MODULE ProcedureProofs --------------------------
(***************************************************************************)
(* Proofs about the two procedures that change several files in a row:     *)
(* BackupRestore, for any versions and any number of restores, and         *)
(* CursorConnection, for any number of threads, commands and changes of    *)
(* the user.                                                               *)
(***************************************************************************)
EXTENDS BackupRestore, CursorConnection, TLAPS

-----------------------------------------------------------------------------
(* BackupRestore.                                                          *)

Points == {"idle", "stash config", "stash metrics", "move config", "publish config",
           "move metrics", "publish metrics", "roll back", "put back", "clean up"}

RestoreTypeOK ==
    /\ live \in [Kinds -> Nat] /\ aside \in [Kinds -> Nat] /\ staged \in [Kinds -> Nat]
    /\ before \in [Kinds -> Nat] /\ wanted \in [Kinds -> Nat]
    /\ stash \in [Kinds -> Nat \union {Torn}]
    /\ pc \in Points
    /\ result \in {"none", "ok", "error", "crash", "undone"}
    /\ restores \in Nat

Untouched(f) == live[f] = before[f]
Copied(f) == before[f] = Gone \/ stash[f] = before[f]
Covered(f) == Copied(f) \/ (staged[f] = Gone /\ Untouched(f))

\* What there is of the copies at each operation: a live path is first touched
\* when every file that will be replaced has its copy.
CopiesInv ==
    /\ pc # "idle" => result # "undone"
    /\ At("stash config") =>
         Untouched("config") /\ Untouched("metrics") /\ staged["config"] # Gone
    /\ At("stash metrics") =>
         Untouched("config") /\ Untouched("metrics") /\ Copied("config")
    /\ pc \notin {"idle", "stash config", "stash metrics"} =>
         Copied("config") /\ Covered("metrics")
    /\ RestoreReversible

LEMMA InitCopies == RestoreInit => RestoreTypeOK /\ CopiesInv
BY RestoreAssumption
   DEF RestoreInit, RestoreTypeOK, CopiesInv, RestoreReversible, At, Points, Kinds,
       NoFiles, Gone

Files == [Kinds -> Nat]

LEMMA FileReplaced ==
    ASSUME NEW g \in Files, NEW f \in Kinds, NEW x \in Nat
    PROVE  [g EXCEPT ![f] = x] \in Files
BY DEF Files

\* Every step of a restore, crashes and the user's undo included, keeps the types
\* of the files ...
LEMMA FilesStep ==
    ASSUME RestoreTypeOK, [RestoreNext]_restoreVars
    PROVE  /\ live' \in Files /\ aside' \in Files /\ staged' \in Files
           /\ before' \in Files /\ wanted' \in Files
<1>k. /\ "config" \in Kinds /\ "metrics" \in Kinds
      /\ live \in Files /\ aside \in Files /\ staged \in Files
      /\ before \in Files /\ wanted \in Files
  BY DEF Kinds, RestoreTypeOK, Files
<1>g. Gone \in Nat /\ \A g \in Files : \A f \in Kinds : g[f] \in Nat
  BY DEF Gone, Files
<1>b. ASSUME NEW f \in Kinds, MoveBack(f)
      PROVE  live' \in Files /\ aside' \in Files
  <2>1. CASE UNCHANGED <<live, aside>>
    BY <2>1, <1>k
  <2>2. CASE /\ live' = [live EXCEPT ![f] = aside[f]]
             /\ aside' = [aside EXCEPT ![f] = Gone]
    BY <2>2, <1>k, <1>g, FileReplaced
  <2> QED BY <2>1, <2>2, <1>b DEF MoveBack
<1>m. ASSUME NEW f \in Kinds, NEW here, NEW next, MoveAside(f, here, next)
      PROVE  live' \in Files /\ aside' \in Files
  <2>1. CASE UNCHANGED <<live, aside>>
    BY <2>1, <1>k
  <2>2. CASE /\ aside' = [aside EXCEPT ![f] = live[f]]
             /\ live' = [live EXCEPT ![f] = Gone]
    BY <2>2, <1>k, <1>g, FileReplaced
  <2> QED BY <2>1, <2>2, <1>m DEF MoveAside
<1>p. ASSUME NEW f \in Kinds, NEW here, NEW next, Publish(f, here, next)
      PROVE  live' \in Files /\ aside' \in Files /\ staged' \in Files
  <2>1. CASE UNCHANGED <<live, aside, staged>>
    BY <2>1, <1>k
  <2>2. CASE /\ live' = [live EXCEPT ![f] = staged[f]]
             /\ staged' = [staged EXCEPT ![f] = Gone]
             /\ UNCHANGED aside
    BY <2>2, <1>k, <1>g, FileReplaced
  <2>3. CASE MoveBack(f) /\ UNCHANGED staged
    BY <2>3, <1>b, <1>k
  <2> QED BY <2>1, <2>2, <2>3, <1>p DEF Publish
<1>1. CASE StageRestore
  <2>1. PICK config \in Versions, metrics \in Versions \union {Gone} :
             staged' = [f \in Kinds |-> IF f = "config" THEN config ELSE metrics]
    BY <1>1 DEF StageRestore
  <2>2. staged' \in Files
    BY <2>1, RestoreAssumption DEF Files, Gone
  <2>3. /\ UNCHANGED live /\ before' = live
        /\ aside' = NoFiles
        /\ wanted' = [f \in Kinds |-> IF staged'[f] = Gone THEN live[f] ELSE staged'[f]]
    BY <1>1 DEF StageRestore
  <2> QED BY <2>2, <2>3, <1>k DEF Files, NoFiles, Gone
<1>2. CASE UNCHANGED <<live, aside, staged, before, wanted>>
  BY <1>2, <1>k
<1>3. ASSUME NEW f \in Kinds, NEW here, NEW next,
             MoveAside(f, here, next) \/ Publish(f, here, next)
      PROVE  /\ live' \in Files /\ aside' \in Files /\ staged' \in Files
             /\ before' \in Files /\ wanted' \in Files
  BY <1>3, <1>m, <1>p, <1>k DEF MoveAside, Publish
<1>4. CASE RollBack
  <2>1. CASE live' = [live EXCEPT !["config"] = Gone]
    <3>1. live' \in Files
      BY <2>1, <1>k, <1>g, FileReplaced
    <3> QED BY <3>1, <1>4, <1>k DEF RollBack
  <2>2. CASE UNCHANGED live
    BY <2>2, <1>4, <1>k DEF RollBack
  <2> QED BY <2>1, <2>2, <1>4 DEF RollBack
<1>5. CASE RollBackEnds
  BY <1>5, <1>b, <1>k DEF RollBackEnds
<1>6. CASE CleanUp
  <2>1. aside' \in Files
    <3>1. CASE aside' = NoFiles
      BY <3>1 DEF Files, NoFiles, Gone
    <3>2. CASE UNCHANGED aside
      BY <3>2, <1>k
    <3>3. CASE aside' = [aside EXCEPT !["config"] = Gone]
      BY <3>3, <1>k, <1>g, FileReplaced
    <3> QED BY <3>1, <3>2, <3>3, <1>6 DEF CleanUp
  <2> QED BY <2>1, <1>6, <1>k DEF CleanUp
<1>7. CASE Undo
  <2>1. live' \in Files
    BY <1>7 DEF Undo, RestoreTypeOK, Files
  <2> QED BY <2>1, <1>7, <1>k DEF Undo
<1> QED
  BY <1>1, <1>2, <1>3, <1>4, <1>5, <1>6, <1>7, <1>k
  DEF RestoreNext, restoreVars, StashCurrent, RestoreCrash

\* ... and of the rest.
LEMMA TypeStep ==
    ASSUME RestoreTypeOK, [RestoreNext]_restoreVars
    PROVE  RestoreTypeOK'
<1>1. pc' \in Points
  BY DEF RestoreTypeOK, RestoreNext, restoreVars, Points, Returns, Continues, StageRestore,
         StashCurrent, MoveAside, SwapFails, Publish, RollBack, RollBackEnds, CleanUp,
         RestoreCrash, Undo
<1>2. result' \in {"none", "ok", "error", "crash", "undone"}
  BY DEF RestoreTypeOK, RestoreNext, restoreVars, Returns, Continues, StageRestore,
         StashCurrent, MoveAside, SwapFails, Publish, RollBack, RollBackEnds, CleanUp,
         RestoreCrash, Undo
<1>3. restores' \in Nat
  <2>1. CASE restores' = restores + 1
    BY <2>1 DEF RestoreTypeOK
  <2>2. CASE UNCHANGED restores
    BY <2>2 DEF RestoreTypeOK
  <2> QED
    BY <2>1, <2>2
    DEF RestoreNext, restoreVars, StageRestore, StashCurrent, MoveAside, Publish, RollBack,
        RollBackEnds, CleanUp, RestoreCrash, Undo
<1>4. stash' \in [Kinds -> Nat \union {Torn}]
  <2>1. CASE UNCHANGED stash
    BY <2>1 DEF RestoreTypeOK
  <2>2. ASSUME NEW f \in Kinds, NEW here, NEW next, StashCurrent(f, here, next)
        PROVE  stash' \in [Kinds -> Nat \union {Torn}]
    <3>1. CASE UNCHANGED stash
      BY <3>1 DEF RestoreTypeOK
    <3>2. CASE stash' = [stash EXCEPT ![f] = live[f]]
      BY <3>2 DEF RestoreTypeOK
    <3>3. CASE \E left \in {stash[f], Torn} : stash' = [stash EXCEPT ![f] = left]
      BY <3>3 DEF RestoreTypeOK
    <3> QED BY <3>1, <3>2, <3>3, <2>2 DEF StashCurrent
  <2>3. "config" \in Kinds /\ "metrics" \in Kinds
    BY DEF Kinds
  <2> QED
    BY <2>1, <2>2, <2>3
    DEF RestoreNext, restoreVars, StageRestore, MoveAside, Publish, RollBack, RollBackEnds,
        CleanUp, RestoreCrash, Undo
<1> QED BY <1>1, <1>2, <1>3, <1>4, FilesStep DEF RestoreTypeOK, Files

LEMMA CopiesStep ==
    ASSUME RestoreTypeOK, RestoreTypeOK', CopiesInv, [RestoreNext]_restoreVars
    PROVE  CopiesInv'
<1> USE RestoreAssumption DEF RestoreTypeOK, Points, Kinds, Gone, At, Returns, Continues,
        NoFiles, CopiesInv, Untouched, Copied, Covered, RestoreReversible
<1>1. CASE StageRestore
  BY <1>1 DEF StageRestore
<1>2. CASE StashCurrent("config", "stash config", "stash metrics")
  BY <1>2 DEF StashCurrent, Stashed
<1>3. CASE StashCurrent("metrics", "stash metrics", "move config")
  BY <1>3 DEF StashCurrent, Stashed
<1>4. CASE MoveAside("config", "move config", "publish config")
  BY <1>4 DEF MoveAside, SwapFails
<1>5. CASE Publish("config", "publish config", "move metrics")
  BY <1>5 DEF Publish, MoveBack, SwapFails
<1>6. CASE MoveAside("metrics", "move metrics", "publish metrics")
  BY <1>6 DEF MoveAside, SwapFails
<1>7. CASE Publish("metrics", "publish metrics", "clean up")
  BY <1>7 DEF Publish, MoveBack, SwapFails
<1>8. CASE RollBack
  BY <1>8 DEF RollBack
<1>9. CASE RollBackEnds
  BY <1>9 DEF RollBackEnds, MoveBack
<1>10. CASE CleanUp
  BY <1>10 DEF CleanUp
<1>11. CASE RestoreCrash
  BY <1>11 DEF RestoreCrash
<1>12. CASE Undo
  BY <1>12 DEF Undo
<1>13. CASE UNCHANGED restoreVars
  BY <1>13 DEF restoreVars
<1> QED
  BY <1>1, <1>2, <1>3, <1>4, <1>5, <1>6, <1>7, <1>8, <1>9, <1>10, <1>11, <1>12, <1>13
  DEF RestoreNext

Aside(f) == aside[f] = before[f]
Due(f) == wanted[f] = IF staged[f] = Gone THEN before[f] ELSE staged[f]

\* Where the two files are at each operation, in live and aside.
MovesInv ==
    /\ pc \in {"stash config", "stash metrics", "move config"} =>
         /\ \A f \in Kinds : Untouched(f) /\ aside[f] = Gone /\ Due(f)
         /\ staged["config"] # Gone
    /\ At("publish config") =>
         /\ Aside("config") /\ Due("config") /\ staged["config"] # Gone
         /\ Untouched("metrics") /\ aside["metrics"] = Gone /\ Due("metrics")
    /\ pc \in {"move metrics", "publish metrics"} =>
         Aside("config") /\ live["config"] = wanted["config"] /\ Due("metrics")
    /\ At("move metrics") => Untouched("metrics") /\ aside["metrics"] = Gone
    /\ At("publish metrics") =>
         IF staged["metrics"] = Gone THEN Untouched("metrics") ELSE Aside("metrics")
    /\ pc \in {"roll back", "put back"} =>
         Aside("config") /\ (Untouched("metrics") \/ unmended)
    /\ At("clean up") => \A f \in Kinds : live[f] = wanted[f]
    /\ PairMovesTogether

LEMMA InitMoves == RestoreInit => MovesInv
BY DEF RestoreInit, MovesInv, PairMovesTogether, At

\* Two files are all a function on Kinds has.
LEMMA SameFiles ==
    ASSUME NEW g \in Files, NEW h \in Files, g["config"] = h["config"], g["metrics"] = h["metrics"]
    PROVE  g = h
BY DEF Files, Kinds

LEMMA MovesStep ==
    ASSUME RestoreTypeOK, RestoreTypeOK', MovesInv, [RestoreNext]_restoreVars
    PROVE  MovesInv'
<1>a. /\ live' \in Files /\ before' \in Files /\ wanted' \in Files
  BY DEF RestoreTypeOK, Files
<1>b. live' = before' \/ live'["config"] # before'["config"] \/ live'["metrics"] # before'["metrics"]
  BY <1>a, SameFiles
<1>w. live' = wanted' \/ live'["config"] # wanted'["config"] \/ live'["metrics"] # wanted'["metrics"]
  BY <1>a, SameFiles
<1> USE <1>b, <1>w, RestoreAssumption DEF RestoreTypeOK, Points, Kinds, Gone, At, Returns, Continues,
        NoFiles, MovesInv, Untouched, Aside, Due, PairMovesTogether
<1>1. CASE StageRestore
  BY <1>1 DEF StageRestore
<1>2. CASE StashCurrent("config", "stash config", "stash metrics")
  BY <1>2 DEF StashCurrent, Stashed
<1>3. CASE StashCurrent("metrics", "stash metrics", "move config")
  BY <1>3 DEF StashCurrent, Stashed
<1>4. CASE MoveAside("config", "move config", "publish config")
  BY <1>4 DEF MoveAside, SwapFails
<1>5. CASE Publish("config", "publish config", "move metrics")
  BY <1>5 DEF Publish, MoveBack, SwapFails
<1>6. CASE MoveAside("metrics", "move metrics", "publish metrics")
  BY <1>6 DEF MoveAside, SwapFails
<1>7. CASE Publish("metrics", "publish metrics", "clean up")
  BY <1>7 DEF Publish, MoveBack, SwapFails
<1>8. CASE RollBack
  BY <1>8 DEF RollBack
<1>9. CASE RollBackEnds
  BY <1>9 DEF RollBackEnds, MoveBack
<1>10. CASE CleanUp
  BY <1>10 DEF CleanUp
<1>11. CASE RestoreCrash
  BY <1>11 DEF RestoreCrash
<1>12. CASE Undo
  BY <1>12 DEF Undo
<1>13. CASE UNCHANGED restoreVars
  BY <1>13 DEF restoreVars
<1> QED
  BY <1>1, <1>2, <1>3, <1>4, <1>5, <1>6, <1>7, <1>8, <1>9, <1>10, <1>11, <1>12, <1>13
  DEF RestoreNext

\* The variables of restore keep their types.
THEOREM RestoreTypes == RestoreSpec => []RestoreTypeOK
<1>1. RestoreInit => RestoreTypeOK
  BY InitCopies
<1>2. RestoreTypeOK /\ [RestoreNext]_restoreVars => RestoreTypeOK'
  BY TypeStep
<1> QED BY <1>1, <1>2, PTL DEF RestoreSpec

\* "A restore backs the current files up first, so restoring is itself
\* reversible", however many restores there were and wherever each was cut off.
THEOREM RestoreIsReversible == RestoreSpec => []RestoreReversible
<1>1. RestoreInit => CopiesInv
  BY InitCopies
<1>2. RestoreTypeOK /\ RestoreTypeOK' /\ CopiesInv /\ [RestoreNext]_restoreVars => CopiesInv'
  BY CopiesStep
<1>3. CopiesInv => RestoreReversible
  BY DEF CopiesInv
<1> QED BY <1>1, <1>2, <1>3, RestoreTypes, PTL DEF RestoreSpec

\* "Replaced as a pair": what restore calls done is, and a restore that fails leaves
\* both files old or both new, unless putting a file back fails too.
THEOREM PairMoves == RestoreSpec => []PairMovesTogether
<1>1. RestoreInit => MovesInv
  BY InitMoves
<1>2. RestoreTypeOK /\ RestoreTypeOK' /\ MovesInv /\ [RestoreNext]_restoreVars => MovesInv'
  BY MovesStep
<1>3. MovesInv => PairMovesTogether
  BY DEF MovesInv
<1> QED BY <1>1, <1>2, <1>3, RestoreTypes, PTL DEF RestoreSpec


-----------------------------------------------------------------------------
(* CursorConnection.                                                       *)

Threads == [pc : CursorPoints, tunnel : 0..MaxClicks, kept : Choices]

LEMMA Idle == Nobody \in Choices /\ Ready \in Threads
<1>1. 0 \in 0..(MaxChanges + 1) /\ 0 \in 0..MaxClicks
  BY CursorAssumption DEF CursorAssumption
<1>2. Nobody \in Choices
  BY <1>1 DEF Nobody, Choices
<1>3. "idle" \in CursorPoints
  BY DEF CursorPoints
<1> QED BY <1>1, <1>2, <1>3 DEF Ready, Threads

LEMMA InitCursorTypes == CursorInit => CursorTypeOK
<1> SUFFICES ASSUME CursorInit PROVE CursorTypeOK
  OBVIOUS
<1>1. Official \in Choices
  <2>1. 1 \in 0..(MaxChanges + 1) /\ 0 \in 0..MaxClicks
    BY CursorAssumption DEF CursorAssumption
  <2> QED BY <2>1 DEF Official, Choices
<1>2. {settings, cursor, taken, backup} \subseteq Choices
  BY <1>1, Idle DEF CursorInit
<1>3. slot \in 0..MaxClicks /\ clicks \in 0..MaxClicks /\ changes \in 0..MaxChanges
  BY CursorAssumption DEF CursorAssumption, CursorInit
<1>4. click \in [Clicks -> Threads]
  BY Idle DEF CursorInit
<1> QED BY <1>2, <1>3, <1>4 DEF CursorInit, CursorTypeOK, Threads

\* A thread that goes on, with or without other settings in hand.
LEMMA ThreadMoves ==
    ASSUME CursorTypeOK, NEW c \in Clicks, NEW point \in CursorPoints
    PROVE  /\ Reaches(c, point) => click' \in [Clicks -> Threads]
           /\ Ends(c) => click' \in [Clicks -> Threads]
           /\ \A s \in Choices :
                click' = [click EXCEPT ![c].pc = point, ![c].kept = s]
                   => click' \in [Clicks -> Threads]
<1>1. click \in [Clicks -> Threads]
  BY DEF CursorTypeOK, Threads
<1>3. Reaches(c, point) => click' \in [Clicks -> Threads]
  BY <1>1 DEF Reaches, Threads
<1>4. Ends(c) => click' \in [Clicks -> Threads]
  BY <1>1, Idle DEF Ends
<1>5. ASSUME NEW s \in Choices, click' = [click EXCEPT ![c].pc = point, ![c].kept = s]
      PROVE  click' \in [Clicks -> Threads]
  BY <1>1, <1>5 DEF Threads
<1> QED BY <1>3, <1>4, <1>5

LEMMA CursorTypesStep ==
    ASSUME CursorTypeOK, [CursorNext]_cursorVars
    PROVE  CursorTypeOK'
<1> USE CursorAssumption DEF CursorAssumption, CursorTypeOK
<1>t. click \in [Clicks -> Threads]
  BY DEF Threads
<1>1. {settings, cursor, taken, backup}' \subseteq Choices
  <2>k. \A c \in Clicks : click[c].kept \in Choices /\ click[c].tunnel \in 0..MaxClicks
    BY <1>t DEF Threads
  <2>1. ASSUME NEW c \in Clicks, Command(c)
        PROVE  {settings, cursor, taken, backup}' \subseteq Choices
    <3>1. [click[c].kept EXCEPT !.ours = click[c].tunnel] \in Choices
      BY <2>k DEF Choices
    <3> QED
      BY <2>1, <2>k, <3>1, Idle
      DEF Command, Clicked, ConnectBegins, OpenTunnel, ReadRecord, ReadSettings, WriteBackup,
          WriteRecord, WriteSettings, LaunchCursor, UndoConnect, PublishTunnel,
          RestoreBegins, GiveBack, CloseTunnel, ForgetRecord
  <2>2. ASSUME UserChanges
        PROVE  {settings, cursor, taken, backup}' \subseteq Choices
    <3>1. cursor.ours \in 0..MaxClicks /\ changes + 2 \in 0..(MaxChanges + 1)
      BY <2>2 DEF UserChanges, Choices
    <3> QED BY <2>2, <3>1 DEF UserChanges, Choices
  <2>3. ASSUME StatusLooks \/ CursorOpens \/ CursorSaves \/ CursorCloses \/ DesktopEnds
        PROVE  {settings, cursor, taken, backup}' \subseteq Choices
    BY <2>3, Idle DEF StatusLooks, CursorOpens, CursorSaves, CursorCloses, DesktopEnds
  <2> QED BY <2>1, <2>2, <2>3 DEF CursorNext, cursorVars
<1>2. clicks' \in 0..MaxClicks /\ changes' \in 0..MaxChanges /\ disturbed' \in BOOLEAN
  <2>1. CASE clicks' = clicks + 1 /\ clicks < MaxClicks /\ changes' = changes
                 /\ disturbed' \in BOOLEAN
    BY <2>1
  <2>2. CASE changes' = changes + 1 /\ changes < MaxChanges /\ clicks' = clicks
                 /\ disturbed' = disturbed
    BY <2>2
  <2>3. CASE clicks' = clicks /\ changes' = changes /\ disturbed' \in BOOLEAN
    BY <2>3
  <2> HIDE CursorAssumption DEF CursorTypeOK
  <2>4. disturbed \in BOOLEAN
    BY DEF CursorTypeOK
  <2>5. ASSUME NEW c \in Clicks, Clicked(c)
        PROVE  clicks' = clicks + 1 /\ clicks < MaxClicks /\ disturbed' \in BOOLEAN
    BY <2>5, <2>4 DEF Clicked
  <2>6. ASSUME NEW c \in Clicks, ConnectBegins(c) \/ RestoreBegins(c)
        PROVE  changes' = changes /\ Clicked(c)
    BY <2>6 DEF ConnectBegins, RestoreBegins
  <2>7. ASSUME NEW c \in Clicks, Command(c), ~(ConnectBegins(c) \/ RestoreBegins(c))
        PROVE  clicks' = clicks /\ changes' = changes /\ disturbed' = disturbed
    BY <2>7
    DEF Command, OpenTunnel, ReadRecord, ReadSettings, WriteBackup, WriteRecord,
        WriteSettings, LaunchCursor, UndoConnect, PublishTunnel, GiveBack, CloseTunnel,
        ForgetRecord
  <2>8. CASE UserChanges
    BY <2>8, <2>2 DEF UserChanges
  <2>9. CASE CursorOpens
    BY <2>9, <2>4, <2>3 DEF CursorOpens
  <2>10. CASE StatusLooks \/ CursorSaves \/ CursorCloses \/ DesktopEnds
                \/ UNCHANGED cursorVars
    BY <2>10, <2>4, <2>3 DEF StatusLooks, CursorSaves, CursorCloses, DesktopEnds, cursorVars
  <2> QED BY <2>1, <2>3, <2>4, <2>5, <2>6, <2>7, <2>8, <2>9, <2>10 DEF CursorNext
<1>3. slot' \in 0..MaxClicks /\ tunnels' \subseteq 1..MaxClicks
  <2>0. 0 \in 0..MaxClicks
    BY DEF CursorAssumption
  <2>1. ASSUME NEW c \in Clicks, ConnectBegins(c)
        PROVE  slot' \in 0..MaxClicks /\ tunnels' \subseteq 1..MaxClicks
    BY <2>1 DEF ConnectBegins, Clicked
  <2>2. ASSUME NEW c \in Clicks, PublishTunnel(c)
        PROVE  slot' \in 0..MaxClicks /\ tunnels' \subseteq 1..MaxClicks
    BY <2>2 DEF PublishTunnel
  <2>3. ASSUME NEW c \in Clicks, Command(c), ~ConnectBegins(c), ~PublishTunnel(c)
        PROVE  slot' \in {0, slot} /\ tunnels' \subseteq tunnels
    BY <2>3
    DEF Command, OpenTunnel, GiveUp, ReadRecord, ReadSettings, WriteBackup, WriteRecord,
        WriteSettings, LaunchCursor, UndoConnect, RestoreBegins, GiveBack, CloseTunnel,
        ForgetRecord
  <2>4. ASSUME ~\E c \in Clicks : Command(c)
        PROVE  slot' \in {0, slot} /\ tunnels' \subseteq tunnels
    BY <2>4
    DEF CursorNext, cursorVars, StatusLooks, CursorOpens, UserChanges, CursorSaves,
        CursorCloses, DesktopEnds
  <2> QED BY <2>0, <2>1, <2>2, <2>3, <2>4
<1>4. click' \in [Clicks -> Threads]
  <2>1. ASSUME NEW c \in Clicks, ConnectBegins(c) \/ RestoreBegins(c)
        PROVE  click' \in [Clicks -> Threads]
    <3>1. clicks' \in 0..MaxClicks
      BY <1>2
    <3>2. [Ready EXCEPT !.pc = "tunnel", !.tunnel = clicks'] \in Threads
      BY <3>1, Idle DEF Threads, CursorPoints
    <3>3. [Ready EXCEPT !.pc = "restore", !.kept = taken] \in Threads
      BY Idle DEF Threads, CursorPoints
    <3> QED BY <2>1, <3>2, <3>3, <1>t DEF ConnectBegins, RestoreBegins
  <2>2. ASSUME NEW c \in Clicks,
               OpenTunnel(c) \/ WriteBackup(c) \/ WriteRecord(c) \/ WriteSettings(c)
                 \/ LaunchCursor(c) \/ UndoConnect(c) \/ PublishTunnel(c) \/ GiveBack(c)
                 \/ CloseTunnel(c) \/ ForgetRecord(c)
        PROVE  click' \in [Clicks -> Threads]
    <3>1. Ends(c) \/ \E point \in CursorPoints : Reaches(c, point)
      BY <2>2
      DEF OpenTunnel, GiveUp, WriteBackup, WriteRecord, WriteSettings, LaunchCursor,
          UndoConnect, PublishTunnel, GiveBack, CloseTunnel, ForgetRecord, CursorPoints
    <3> QED BY <3>1, ThreadMoves, Idle DEF CursorPoints
  <2>3. ASSUME NEW c \in Clicks, ReadRecord(c) \/ ReadSettings(c)
        PROVE  click' \in [Clicks -> Threads]
    <3>1. \/ Ends(c) \/ Reaches(c, "read")
          \/ click' = [click EXCEPT ![c].pc = "save", ![c].kept = taken]
          \/ click' = [click EXCEPT ![c].pc = "save", ![c].kept = settings]
      BY <2>3 DEF ReadRecord, ReadSettings, GiveUp, EarlierBackup
    <3>2. "save" \in CursorPoints /\ "read" \in CursorPoints
      BY DEF CursorPoints
    <3> QED BY <3>1, <3>2, ThreadMoves
  <2>4. ASSUME StatusLooks \/ CursorOpens \/ UserChanges \/ CursorSaves \/ CursorCloses
                 \/ UNCHANGED click
        PROVE  click' \in [Clicks -> Threads]
    BY <2>4, <1>t DEF StatusLooks, CursorOpens, UserChanges, CursorSaves, CursorCloses
  <2>5. ASSUME DesktopEnds
        PROVE  click' \in [Clicks -> Threads]
    BY <2>5, Idle DEF DesktopEnds
  <2> QED BY <2>1, <2>2, <2>3, <2>4, <2>5 DEF CursorNext, cursorVars, Command
<1> QED BY <1>1, <1>2, <1>3, <1>4 DEF Threads

\* The settings, the record, the backup, the tunnels and the threads keep their types.
THEOREM CursorTypes == CursorSpec => []CursorTypeOK
<1>1. CursorTypeOK /\ UNCHANGED cursorVars => CursorTypeOK'
  BY CursorTypesStep
<1> QED BY InitCursorTypes, CursorTypesStep, PTL DEF CursorSpec

-----------------------------------------------------------------------------
(* Tunnels: one that was opened has one owner, and a later one is new.     *)

OwnersApart ==
    /\ slot <= clicks
    /\ \A c \in Clicks :
        /\ click[c].tunnel <= clicks
        /\ click[c].pc = "restore" => click[c].tunnel = 0
        /\ click[c].tunnel # 0 =>
            /\ click[c].tunnel # slot
            /\ \A d \in Clicks : d # c => click[d].tunnel # click[c].tunnel

\* TunnelsOwned, tunnel by tunnel.
EachOwned ==
    \A n : n \in tunnels <=> n # 0 /\ (n = slot \/ \E c \in Clicks : n = click[c].tunnel)

TunnelInv == CursorTypeOK /\ OwnersApart /\ EachOwned

\* What a thread's step may do to the tunnel it holds: keep it or stop it.
Keeps(c) ==
    /\ UNCHANGED <<slot, tunnels, clicks>>
    /\ \E r \in Threads :
        /\ click' = [click EXCEPT ![c] = r]
        /\ r.tunnel = click[c].tunnel /\ r.pc # "restore"

LEMMA CommandTunnels ==
    ASSUME CursorTypeOK, NEW c \in Clicks, Command(c)
    PROVE  \/ Keeps(c)
           \/ GiveUp(c) /\ UNCHANGED <<slot, clicks>>
           \/ ConnectBegins(c) \/ PublishTunnel(c) \/ RestoreBegins(c) \/ GiveBack(c)
           \/ CloseTunnel(c)
<1>1. click \in [Clicks -> Threads]
  BY DEF CursorTypeOK, Threads
<1>2. ASSUME NEW point \in CursorPoints \ {"restore"}, Reaches(c, point),
             UNCHANGED <<slot, tunnels, clicks>>
      PROVE  Keeps(c)
  <2>1. [click[c] EXCEPT !.pc = point] \in Threads
    BY <1>1 DEF Threads
  <2>2. click' = [click EXCEPT ![c] = [click[c] EXCEPT !.pc = point]]
    BY <1>2 DEF Reaches
  <2>3. [click[c] EXCEPT !.pc = point].tunnel = click[c].tunnel
        /\ [click[c] EXCEPT !.pc = point].pc # "restore"
    BY <1>1 DEF Threads
  <2> QED BY <1>2, <2>1, <2>2, <2>3 DEF Keeps
<1>3. ASSUME NEW s \in Choices, click' = [click EXCEPT ![c].pc = "save", ![c].kept = s],
             UNCHANGED <<slot, tunnels, clicks>>
      PROVE  Keeps(c)
  <2> DEFINE r == [click[c] EXCEPT !.pc = "save", !.kept = s]
  <2>1. r \in Threads /\ r.tunnel = click[c].tunnel /\ r.pc # "restore"
    BY <1>1 DEF Threads, CursorPoints
  <2>2. click' = [click EXCEPT ![c] = r]
    BY <1>1, <1>3 DEF Threads
  <2> QED BY <1>3, <2>1, <2>2 DEF Keeps
<1>4. {"look", "read", "record", "write", "launch",
       "undo", "publish", "close", "forget"} \subseteq CursorPoints \ {"restore"}
  BY DEF CursorPoints
<1>5. settings \in Choices /\ taken \in Choices
  BY DEF CursorTypeOK
<1>6. CASE OpenTunnel(c)
  BY <1>6, <1>2, <1>4 DEF OpenTunnel
<1>7. CASE ReadRecord(c)
  BY <1>7, <1>2, <1>3, <1>4, <1>5 DEF ReadRecord, EarlierBackup
<1>8. CASE ReadSettings(c)
  BY <1>8, <1>3, <1>5 DEF ReadSettings
<1>9. CASE WriteBackup(c) \/ WriteRecord(c) \/ WriteSettings(c) \/ LaunchCursor(c)
              \/ UndoConnect(c)
  BY <1>9, <1>2, <1>4
  DEF WriteBackup, WriteRecord, WriteSettings, LaunchCursor, UndoConnect
<1>10. CASE ForgetRecord(c)
  BY <1>10 DEF ForgetRecord
<1> QED BY <1>6, <1>7, <1>8, <1>9, <1>10 DEF Command

LEMMA TunnelStep ==
    ASSUME TunnelInv, [CursorNext]_cursorVars
    PROVE  TunnelInv'
<1>t. CursorTypeOK'
  BY CursorTypesStep DEF TunnelInv
<1>n. /\ clicks \in Nat /\ slot \in Nat /\ clicks' \in Nat
      /\ \A d \in Clicks : click[d].tunnel \in Nat
      /\ click \in [Clicks -> Threads]
  BY <1>t, CursorAssumption DEF CursorAssumption, TunnelInv, CursorTypeOK, Threads
<1>r. Ready.tunnel = 0 /\ Ready.pc = "idle"
  BY DEF Ready
<1> USE DEF OwnersApart, EachOwned
<1>i. OwnersApart /\ EachOwned
  BY DEF TunnelInv
<1> SUFFICES OwnersApart' /\ EachOwned'
  BY <1>t DEF TunnelInv
<1>1. ASSUME NEW c \in Clicks, Keeps(c)
      PROVE  OwnersApart' /\ EachOwned'
  <2>1. PICK r \in Threads : /\ click' = [click EXCEPT ![c] = r]
                            /\ r.tunnel = click[c].tunnel /\ r.pc # "restore"
    BY <1>1 DEF Keeps
  <2>2. \A d \in Clicks : click'[d].tunnel = click[d].tunnel
    BY <2>1, <1>n
  <2>3. \A d \in Clicks : click'[d].pc = "restore" => click[d].pc = "restore"
    BY <2>1, <1>n
  <2>4. slot' = slot /\ clicks' = clicks /\ tunnels' = tunnels
    BY <1>1 DEF Keeps
  <2>5. OwnersApart'
    BY <2>2, <2>3, <2>4, <1>i
  <2>6. EachOwned'
    BY <2>2, <2>4, <1>i
  <2> QED BY <2>5, <2>6
<1>2. ASSUME NEW c \in Clicks, GiveUp(c), UNCHANGED <<slot, clicks>>
      PROVE  OwnersApart' /\ EachOwned'
  <2>1. \A d \in Clicks : click'[d] = IF d = c THEN Ready ELSE click[d]
    BY <1>2, <1>n DEF GiveUp, Ends
  <2>2. tunnels' = tunnels \ {click[c].tunnel}
    BY <1>2 DEF GiveUp
  <2>3. OwnersApart'
    BY <2>1, <1>2, <1>i, <1>n, <1>r
  <2> QED BY <2>1, <2>2, <2>3, <1>2, <1>i, <1>r
<1>3. ASSUME NEW c \in Clicks, ConnectBegins(c)
      PROVE  OwnersApart' /\ EachOwned'
  <2> DEFINE r == [Ready EXCEPT !.pc = "tunnel", !.tunnel = clicks']
  <2>1. r.tunnel = clicks' /\ r.pc = "tunnel"
    BY DEF Ready
  <2>2. \A d \in Clicks : click'[d] = IF d = c THEN r ELSE click[d]
    BY <1>3, <1>n DEF ConnectBegins
  <2> HIDE DEF r
  <2>3. /\ clicks' = clicks + 1 /\ click[c].tunnel = 0
        /\ slot' = 0 /\ tunnels' = (tunnels \ {slot}) \union {clicks'}
    BY <1>3, <1>r DEF ConnectBegins, Clicked
  <2>4. OwnersApart'
    BY <2>1, <2>2, <2>3, <1>i, <1>n
  <2> QED BY <2>1, <2>2, <2>3, <2>4, <1>i, <1>n
<1>4. ASSUME NEW c \in Clicks, PublishTunnel(c)
      PROVE  OwnersApart' /\ EachOwned'
  <2>1. \A d \in Clicks : click'[d] = IF d = c THEN Ready ELSE click[d]
    BY <1>4, <1>n DEF PublishTunnel, Ends
  <2>2. slot' = click[c].tunnel /\ tunnels' = tunnels \ {slot} /\ clicks' = clicks
    BY <1>4 DEF PublishTunnel
  <2>3. OwnersApart'
    BY <2>1, <2>2, <1>i, <1>n, <1>r
  <2> QED BY <2>1, <2>2, <2>3, <1>i, <1>r
<1>5. ASSUME NEW c \in Clicks, RestoreBegins(c)
      PROVE  OwnersApart' /\ EachOwned'
  <2> DEFINE r == [Ready EXCEPT !.pc = "restore", !.kept = taken]
  <2>1. r.tunnel = 0
    BY DEF Ready
  <2>2. \A d \in Clicks : click'[d] = IF d = c THEN r ELSE click[d]
    BY <1>5, <1>n DEF RestoreBegins
  <2> HIDE DEF r
  <2>3. /\ clicks' = clicks + 1 /\ click[c].tunnel = 0
        /\ slot' = slot /\ tunnels' = tunnels
    BY <1>5, <1>r DEF RestoreBegins, Clicked
  <2>4. OwnersApart'
    BY <2>1, <2>2, <2>3, <1>i, <1>n
  <2> QED BY <2>1, <2>2, <2>3, <2>4, <1>i
<1>6. ASSUME NEW c \in Clicks, GiveBack(c) \/ CloseTunnel(c)
      PROVE  OwnersApart' /\ EachOwned'
  <2>1. \A d \in Clicks : click'[d].tunnel = IF d = c /\ click'[c] = Ready THEN 0
                                             ELSE click[d].tunnel
    BY <1>6, <1>n, <1>r DEF GiveBack, CloseTunnel, Reaches, Ends, Threads
  <2>2. \A d \in Clicks : click'[d].pc = "restore" => click[d].pc = "restore"
    BY <1>6, <1>n, <1>r DEF GiveBack, CloseTunnel, Reaches, Ends, Threads
  <2>3. CASE GiveBack(c)
    <3>1. click[c].tunnel = 0
      BY <2>3, <1>i DEF GiveBack
    <3>2. \A d \in Clicks : click'[d].tunnel = click[d].tunnel
      BY <2>1, <3>1
    <3>3. UNCHANGED <<slot, tunnels, clicks>>
      BY <2>3 DEF GiveBack
    <3> QED BY <3>2, <3>3, <2>2, <1>i
  <2>4. CASE CloseTunnel(c)
    <3>1. \A d \in Clicks : click'[d].tunnel = click[d].tunnel
      BY <2>4, <1>n DEF CloseTunnel, Reaches, Threads
    <3>2. slot' = 0 /\ tunnels' = tunnels \ {slot} /\ clicks' = clicks
      BY <2>4 DEF CloseTunnel
    <3> QED BY <3>1, <3>2, <2>2, <1>i, <1>n
  <2> QED BY <1>6, <2>3, <2>4
<1>7. ASSUME StatusLooks
      PROVE  OwnersApart' /\ EachOwned'
  BY <1>7, <1>i, <1>n DEF StatusLooks
<1>8. ASSUME DesktopEnds
      PROVE  OwnersApart' /\ EachOwned'
  BY <1>8, <1>i, <1>n, <1>r DEF DesktopEnds
<1>9. ASSUME UNCHANGED <<slot, tunnels, click, clicks>>
      PROVE  OwnersApart' /\ EachOwned'
  BY <1>9, <1>i
<1>10. ASSUME CursorOpens \/ UserChanges \/ CursorSaves \/ CursorCloses
                \/ UNCHANGED cursorVars
       PROVE  UNCHANGED <<slot, tunnels, click, clicks>>
  BY <1>10 DEF CursorOpens, UserChanges, CursorSaves, CursorCloses, cursorVars
<1>11. ASSUME NEW c \in Clicks, Command(c)
       PROVE  OwnersApart' /\ EachOwned'
  BY <1>1, <1>2, <1>3, <1>4, <1>5, <1>6, <1>11, CommandTunnels DEF TunnelInv
<1> QED BY <1>7, <1>8, <1>9, <1>10, <1>11 DEF CursorNext

\* Every open tunnel is the current one or belongs to a connect under way.
THEOREM TunnelsAreOwned == CursorSpec => []TunnelsOwned
<1>1. CursorInit => TunnelInv
  BY InitCursorTypes, CursorAssumption
  DEF CursorInit, CursorAssumption, TunnelInv, OwnersApart, EachOwned, Ready
<1>2. TunnelInv /\ [CursorNext]_cursorVars => TunnelInv'
  BY TunnelStep
<1>3. TunnelInv => TunnelsOwned
  BY DEF TunnelInv, EachOwned, TunnelsOwned
<1> QED BY <1>1, <1>2, <1>3, PTL DEF CursorSpec

-----------------------------------------------------------------------------
(* The record: as long as commands do not overlap and Cursor stays closed  *)
(* beside them, what is taken over is the user's own.                      *)

Records ==
    /\ settings.own # 0
    /\ cursor # Nobody => cursor.own # 0
    /\ taken # Nobody => taken.own # 0
    /\ taken.ours = 0
    /\ settings.ours # 0 \/ cursor.ours # 0 => taken # Nobody

Handles(r) ==
    /\ r.pc = "read" => taken = Nobody
    /\ r.pc \in {"save", "record", "write", "launch", "undo", "restore"} =>
        r.kept.own # 0 /\ r.kept.ours = 0
    /\ r.pc \in {"write", "launch", "undo", "restore"} => taken = r.kept
    /\ r.pc \in {"close", "forget"} => settings.ours = 0
    /\ r.pc \notin {"idle", "publish"} => cursor = Nobody

OneAtATime ==
    \A c, d \in Clicks : click[c] = Ready \/ click[d] = Ready \/ c = d

CalmInv ==
    CursorTypeOK /\ (~disturbed => Records /\ OneAtATime /\ \A c \in Clicks : Handles(click[c]))

\* What a thread has in hand after it went on.
LEMMA Moved ==
    ASSUME CursorTypeOK, NEW c \in Clicks, NEW point \in CursorPoints
    PROVE  /\ Reaches(c, point) => click'[c].pc = point /\ click'[c].kept = click[c].kept
           /\ Ends(c) => click'[c] = Ready
BY DEF CursorTypeOK, Reaches, Ends

LEMMA CalmCommand ==
    ASSUME CursorTypeOK, Records, NEW c \in Clicks, Command(c), Handles(click[c])
    PROVE  Records' /\ Handles(click[c])'
<1>t. /\ settings \in Choices /\ cursor \in Choices /\ taken \in Choices
      /\ click[c].kept \in Choices /\ click \in [Clicks -> Threads]
  BY DEF CursorTypeOK, Threads
<1>n. Nobody.own = 0 /\ Nobody.ours = 0 /\ Ready.pc = "idle"
  BY DEF Nobody, Ready
<1>e. ASSUME Ends(c)
      PROVE  Handles(click[c])'
  BY <1>e, <1>n, Moved DEF Handles, CursorPoints
<1>r. ASSUME UNCHANGED <<settings, cursor, taken>>
      PROVE  Records'
  BY <1>r DEF Records
<1>m. \A point \in CursorPoints :
        Reaches(c, point) => click'[c].pc = point /\ click'[c].kept = click[c].kept
  BY Moved
<1>p. {"look", "read", "record", "write", "launch", "undo", "publish", "close",
       "forget"} \subseteq CursorPoints
  BY DEF CursorPoints
<1>1. CASE ConnectBegins(c)
  <2>1. click'[c].pc = "tunnel"
    BY <1>1, <1>t DEF ConnectBegins, Ready
  <2>2. UNCHANGED <<settings, cursor, taken>> /\ cursor = Nobody
    BY <1>1 DEF ConnectBegins, Clicked
  <2> QED BY <2>1, <2>2, <1>r DEF Handles
<1>2. CASE OpenTunnel(c)
  <2>1. UNCHANGED <<settings, cursor, taken>> /\ click[c].pc = "tunnel"
    BY <1>2 DEF OpenTunnel
  <2>2. Ends(c) \/ click'[c].pc = "look"
    BY <1>2, <1>m, <1>p DEF OpenTunnel, GiveUp
  <2> QED BY <2>1, <2>2, <1>e, <1>r DEF Handles
<1>3. CASE ReadRecord(c)
  <2>1. UNCHANGED <<settings, cursor, taken>> /\ click[c].pc = "look"
    BY <1>3 DEF ReadRecord
  <2>2. \/ Ends(c)
        \/ click'[c].pc = "read" /\ taken = Nobody
        \/ click'[c].pc = "save" /\ click'[c].kept = taken /\ taken # Nobody
    BY <1>3, <1>m, <1>p, <1>t DEF ReadRecord, GiveUp, EarlierBackup, Threads
  <2> QED BY <2>1, <2>2, <1>e, <1>r DEF Handles, Records
<1>4. CASE ReadSettings(c)
  <2>1. UNCHANGED <<settings, cursor, taken>> /\ click[c].pc = "read"
    BY <1>4 DEF ReadSettings
  <2>2. \/ Ends(c)
        \/ click'[c].pc = "save" /\ click'[c].kept = settings
    BY <1>4, <1>t DEF ReadSettings, GiveUp, Threads
  <2> QED BY <2>1, <2>2, <1>e, <1>r DEF Handles, Records
<1>5. CASE WriteBackup(c)
  <2>1. UNCHANGED <<settings, cursor, taken>> /\ click[c].pc = "save"
    BY <1>5 DEF WriteBackup
  <2>2. \/ Ends(c)
        \/ click'[c].pc = "record" /\ click'[c].kept = click[c].kept
    BY <1>5, <1>m, <1>p DEF WriteBackup, GiveUp
  <2> QED BY <2>1, <2>2, <1>e, <1>r DEF Handles
<1>6. CASE WriteRecord(c)
  <2>1. UNCHANGED <<settings, cursor>> /\ click[c].pc = "record"
    BY <1>6 DEF WriteRecord
  <2>2. \/ Ends(c) /\ taken' \in {taken, click[c].kept}
        \/ /\ click'[c].pc = "write" /\ click'[c].kept = click[c].kept
           /\ taken' = click[c].kept
    BY <1>6, <1>m, <1>p DEF WriteRecord, GiveUp
  <2>3. click[c].kept.own # 0 /\ click[c].kept.ours = 0 /\ cursor = Nobody
    BY <2>1 DEF Handles
  <2>4. click[c].kept # Nobody
    BY <2>3, <1>n
  <2>5. Records'
    <3>1. taken' \in {taken, click[c].kept} /\ taken.ours = 0
      BY <2>2 DEF Records
    <3>2. taken' = click[c].kept \/ taken' = taken
      BY <3>1
    <3> QED BY <2>1, <2>3, <2>4, <3>2 DEF Records
  <2>6. CASE Ends(c)
    BY <2>5, <2>6, <1>e
  <2>7. CASE /\ click'[c].pc = "write" /\ click'[c].kept = click[c].kept
             /\ taken' = click[c].kept
    BY <2>1, <2>3, <2>5, <2>7 DEF Handles
  <2> QED BY <2>2, <2>6, <2>7
<1>7. CASE WriteSettings(c)
  <2>1. UNCHANGED <<cursor, taken>> /\ click[c].pc = "write"
    BY <1>7 DEF WriteSettings
  <2>2. settings' = settings \/ settings'.own = click[c].kept.own
    <3>1. [click[c].kept EXCEPT !.ours = click[c].tunnel].own = click[c].kept.own
      BY <1>t DEF Choices
    <3> QED BY <1>7, <3>1 DEF WriteSettings
  <2>3. click'[c].pc \in {"launch", "undo"} /\ click'[c].kept = click[c].kept
    BY <1>7, <1>m, <1>p DEF WriteSettings
  <2>4. /\ click[c].kept.own # 0 /\ click[c].kept.ours = 0 /\ taken = click[c].kept
        /\ cursor = Nobody
    BY <2>1 DEF Handles
  <2>5. Records'
    BY <2>1, <2>2, <2>4, <1>n DEF Records
  <2> QED BY <2>1, <2>3, <2>4, <2>5 DEF Handles
<1>8. CASE LaunchCursor(c)
  <2>1. UNCHANGED <<settings, taken>> /\ click[c].pc = "launch"
    BY <1>8 DEF LaunchCursor
  <2>2. \/ cursor' \in {cursor, settings} /\ click'[c].pc = "publish"
        \/ cursor' = cursor /\ click'[c].pc = "undo" /\ click'[c].kept = click[c].kept
    BY <1>8, <1>m, <1>p DEF LaunchCursor
  <2>3. Records'
    BY <2>1, <2>2 DEF Records
  <2>4. CASE click'[c].pc = "publish"
    BY <2>3, <2>4 DEF Handles
  <2>5. CASE cursor' = cursor /\ click'[c].pc = "undo" /\ click'[c].kept = click[c].kept
    BY <2>1, <2>3, <2>5 DEF Handles
  <2> QED BY <2>2, <2>4, <2>5
<1>9. CASE UndoConnect(c)
  <2>1. UNCHANGED <<cursor, taken>> /\ click[c].pc = "undo"
    BY <1>9 DEF UndoConnect
  <2>2. \/ settings' = settings /\ Ends(c)
        \/ settings' = click[c].kept /\ click'[c].pc = "forget"
    BY <1>9, <1>m, <1>p DEF UndoConnect, GiveUp
  <2>3. click[c].kept.own # 0 /\ click[c].kept.ours = 0 /\ cursor = Nobody
    BY <2>1 DEF Handles
  <2>4. Records'
    BY <2>1, <2>2, <2>3, <1>n DEF Records
  <2> QED BY <2>1, <2>2, <2>3, <2>4, <1>e DEF Handles
<1>10. CASE PublishTunnel(c)
  BY <1>10, <1>e, <1>r DEF PublishTunnel
<1>11. CASE RestoreBegins(c)
  <2>1. UNCHANGED <<settings, cursor, taken>> /\ cursor = Nobody /\ taken # Nobody
    BY <1>11 DEF RestoreBegins, Clicked
  <2>2. click'[c].pc = "restore" /\ click'[c].kept = taken
    BY <1>11, <1>t DEF RestoreBegins, Ready
  <2> QED BY <2>1, <2>2, <1>r DEF Handles, Records
<1>12. CASE GiveBack(c)
  <2>1. UNCHANGED <<cursor, taken>> /\ click[c].pc = "restore"
    BY <1>12 DEF GiveBack
  <2>2. \/ settings' = settings /\ Ends(c)
        \/ settings' = click[c].kept /\ click'[c].pc = "close"
    BY <1>12, <1>m, <1>p DEF GiveBack
  <2>3. click[c].kept.own # 0 /\ click[c].kept.ours = 0 /\ cursor = Nobody
    BY <2>1 DEF Handles
  <2>4. Records'
    BY <2>1, <2>2, <2>3, <1>n DEF Records
  <2> QED BY <2>1, <2>2, <2>3, <2>4, <1>e DEF Handles
<1>13. CASE CloseTunnel(c)
  <2>1. UNCHANGED <<settings, cursor, taken>> /\ click[c].pc = "close"
    BY <1>13 DEF CloseTunnel
  <2>2. click'[c].pc = "forget"
    BY <1>13, <1>m, <1>p DEF CloseTunnel
  <2> QED BY <2>1, <2>2, <1>r DEF Handles
<1>14. CASE ForgetRecord(c)
  <2>1. UNCHANGED <<settings, cursor>> /\ click[c].pc = "forget"
    BY <1>14 DEF ForgetRecord
  <2>2. taken' \in {taken, Nobody} /\ Ends(c)
    BY <1>14 DEF ForgetRecord, GiveUp
  <2>3. settings.ours = 0 /\ cursor = Nobody
    BY <2>1 DEF Handles
  <2>4. Records'
    BY <2>1, <2>2, <2>3, <1>n DEF Records
  <2> QED BY <2>2, <2>4, <1>e
<1> QED
  BY <1>1, <1>2, <1>3, <1>4, <1>5, <1>6, <1>7, <1>8, <1>9, <1>10, <1>11, <1>12, <1>13,
     <1>14 DEF Command

LEMMA CalmStep ==
    ASSUME CalmInv, [CursorNext]_cursorVars
    PROVE  CalmInv'
<1>t. CursorTypeOK'
  BY CursorTypesStep DEF CalmInv
<1>c. CursorTypeOK /\ click \in [Clicks -> Threads]
  BY DEF CalmInv, CursorTypeOK, Threads
<1>n. /\ Ready.pc = "idle" /\ Handles(Ready) /\ Handles(Ready)'
      /\ Nobody.own = 0 /\ Nobody.ours = 0
  BY DEF Ready, Handles, Nobody
<1>1. CASE disturbed' = TRUE
  BY <1>1, <1>t DEF CalmInv
<1> SUFFICES ASSUME ~disturbed'
             PROVE  Records' /\ OneAtATime' /\ (\A c \in Clicks : Handles(click[c]))'
  BY <1>t DEF CalmInv
<1>2. ASSUME NEW c \in Clicks, Command(c)
      PROVE  ~disturbed /\ \A d \in Clicks : d # c => click[d] = Ready /\ click'[d] = Ready
  <2>1. CASE Clicked(c)
    <3>1. ~disturbed /\ \A d \in Clicks : click[d] = Ready
      BY <2>1 DEF Clicked
    <3>2. \A d \in Clicks : d # c => click'[d] = click[d]
      BY <1>2, <2>1, <1>c, <3>1, <1>n
      DEF Command, ConnectBegins, OpenTunnel, ReadRecord, ReadSettings, WriteBackup,
          WriteRecord, WriteSettings, LaunchCursor, UndoConnect, PublishTunnel,
          RestoreBegins, GiveBack, CloseTunnel, ForgetRecord
    <3> QED BY <3>1, <3>2
  <2>2. CASE ~Clicked(c)
    <3>1. disturbed' = disturbed /\ click[c] # Ready
      BY <1>2, <2>2, <1>n
      DEF Command, ConnectBegins, OpenTunnel, ReadRecord, ReadSettings, WriteBackup,
          WriteRecord, WriteSettings, LaunchCursor, UndoConnect, PublishTunnel,
          RestoreBegins, GiveBack, CloseTunnel, ForgetRecord
    <3>2. \A d \in Clicks : d # c => click'[d] = click[d]
      BY <1>2, <2>2, <1>c
      DEF Command, ConnectBegins, OpenTunnel, ReadRecord, ReadSettings, WriteBackup,
          WriteRecord, WriteSettings, LaunchCursor, UndoConnect, PublishTunnel,
          RestoreBegins, GiveBack, CloseTunnel, ForgetRecord, GiveUp, Reaches, Ends
    <3> QED BY <3>1, <3>2 DEF CalmInv, OneAtATime
  <2> QED BY <2>1, <2>2
<1>3. ASSUME NEW c \in Clicks, Command(c)
      PROVE  Records' /\ OneAtATime' /\ (\A d \in Clicks : Handles(click[d]))'
  <2>1. Records' /\ Handles(click[c])'
    BY <1>3, <1>2, <1>c, CalmCommand DEF CalmInv
  <2>2. OneAtATime'
    BY <1>2, <1>3 DEF OneAtATime
  <2>3. ASSUME NEW d \in Clicks PROVE Handles(click[d])'
    <3>1. CASE d = c
      BY <2>1, <3>1
    <3>2. CASE d # c
      BY <1>2, <1>3, <1>n, <3>2 DEF Handles
    <3> QED BY <3>1, <3>2
  <2> QED BY <2>1, <2>2, <2>3
<1>4. CASE CursorOpens
  <2>1. /\ ~disturbed /\ \A c \in Clicks : click'[c] = Ready
        /\ cursor' = settings /\ UNCHANGED <<settings, taken>>
    BY <1>4 DEF CursorOpens
  <2>2. Records'
    BY <2>1 DEF Records, CalmInv
  <2> QED BY <2>1, <2>2, <1>n DEF OneAtATime, Handles
<1>5. CASE UserChanges
  <2>1. ~disturbed /\ cursor # Nobody /\ UNCHANGED <<settings, taken, click>>
    BY <1>5 DEF UserChanges
  <2>2. cursor'.own # 0 /\ cursor'.ours \in {0, cursor.ours}
    <3>1. changes + 2 # 0
      BY <1>c, CursorAssumption DEF CursorTypeOK, CursorAssumption
    <3> QED BY <1>5, <3>1 DEF UserChanges
  <2>3. Records'
    BY <2>1, <2>2 DEF Records, CalmInv
  <2>4. \A c \in Clicks : click[c].pc \in {"idle", "publish"}
    BY <2>1 DEF CalmInv, Handles
  <2> QED BY <2>1, <2>3, <2>4 DEF CalmInv, OneAtATime, Handles
<1>6. CASE CursorSaves
  <2>1. /\ ~disturbed /\ cursor # Nobody /\ settings' = cursor
        /\ UNCHANGED <<cursor, taken, click>>
    BY <1>6 DEF CursorSaves
  <2>2. Records'
    BY <2>1 DEF Records, CalmInv
  <2>3. \A c \in Clicks : click[c].pc \in {"idle", "publish"}
    BY <2>1 DEF CalmInv, Handles
  <2> QED BY <2>1, <2>2, <2>3 DEF CalmInv, OneAtATime, Handles
<1>7. CASE CursorCloses
  <2>1. ~disturbed /\ cursor' = Nobody /\ UNCHANGED <<settings, taken, click>>
    BY <1>7 DEF CursorCloses
  <2>2. Records'
    BY <2>1, <1>n DEF Records, CalmInv
  <2> QED BY <2>1, <2>2 DEF CalmInv, OneAtATime, Handles
<1>8. CASE DesktopEnds
  <2>1. /\ ~disturbed /\ UNCHANGED <<settings, cursor, taken>>
        /\ \A c \in Clicks : click'[c] = Ready
    BY <1>8 DEF DesktopEnds
  <2> QED BY <2>1, <1>n DEF CalmInv, Records, OneAtATime, Handles
<1>9. CASE StatusLooks \/ UNCHANGED cursorVars
  <2>1. ~disturbed /\ UNCHANGED <<settings, cursor, taken, click>>
    BY <1>9 DEF StatusLooks, cursorVars
  <2> QED BY <2>1 DEF CalmInv, Records, OneAtATime, Handles
<1> QED BY <1>3, <1>4, <1>5, <1>6, <1>7, <1>8, <1>9 DEF CursorNext

\* As long as commands do not overlap and Cursor stays closed beside them, settings of
\* ours in Cursor stand beside a record that gives the user's own back.
THEOREM OfficialIsKept == CursorSpec => []OfficialKept
<1>1. CursorInit => CalmInv
  <2> SUFFICES ASSUME CursorInit
               PROVE  Records /\ OneAtATime /\ \A c \in Clicks : Handles(click[c])
    BY InitCursorTypes DEF CalmInv
  <2>1. \A c \in Clicks : click[c] = Ready
    BY DEF CursorInit
  <2>2. Records
    BY DEF CursorInit, Records, Official, Nobody
  <2> QED BY <2>1, <2>2 DEF OneAtATime, Handles, Ready
<1>2. CalmInv /\ [CursorNext]_cursorVars => CalmInv'
  BY CalmStep
<1>3. CalmInv => OfficialKept
  BY DEF CalmInv, Records, OfficialKept
<1> QED BY <1>1, <1>2, <1>3, PTL DEF CursorSpec

=============================================================================
