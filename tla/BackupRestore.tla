--------------------------- MODULE BackupRestore ---------------------------
(***************************************************************************)
(* token-station restore (backup.rs): the configuration and the metrics    *)
(* database are taken out of a backup together.  Both live files are       *)
(* copied to .pre-restore, then each is moved aside and replaced by a      *)
(* rename, and if the second cannot be replaced the first is put back.     *)
(* Every file operation may fail, and the process may end between two.     *)
(*                                                                         *)
(* A file is the version of its content.  What a serve that runs meanwhile *)
(* adds to a database it has open is not modelled.                         *)
(***************************************************************************)
EXTENDS Naturals

CONSTANTS Versions,    \* what the files of a backup may hold
          Torn,        \* a copy that was cut off
          MaxRestores  \* bound on the restores of an instance

ASSUME RestoreAssumption ==
    Versions \subseteq Nat \ {0} /\ Torn \notin Nat /\ MaxRestores \in Nat

Kinds == {"config", "metrics"}
Gone == 0   \* no such file

VARIABLES
    live,     \* the file at its path
    stash,    \* its .pre-restore copy
    aside,    \* the live file of the running restore, moved aside
    staged,   \* the staged member; Gone when there is none, or no longer
    pc,       \* what restore does next
    result,   \* what the last restore returned
    unmended, \* putting a file back has failed too
    restores, \* how many there were
    before,   \* history: live when the last restore began
    wanted    \* history: what it was to put there

restoreVars == <<live, stash, aside, staged, pc, result, unmended, restores, before, wanted>>

NoFiles == [f \in Kinds |-> Gone]

At(step) == pc = step
Returns(r) == pc' = "idle" /\ result' = r
Continues(step) == pc' = step /\ UNCHANGED result

\* The members are validated and staged before a live path changes; until then a
\* failure leaves nothing but the message.  A backup without metrics is restored
\* without them.
StageRestore ==
    /\ pc = "idle" /\ restores < MaxRestores
    /\ live["config"] # Gone
    /\ restores' = restores + 1
    /\ pc' = "stash config" /\ result' = "none"
    /\ \E config \in Versions, metrics \in Versions \union {Gone} :
          staged' = [f \in Kinds |-> IF f = "config" THEN config ELSE metrics]
    /\ wanted' = [f \in Kinds |-> IF staged'[f] = Gone THEN live[f] ELSE staged'[f]]
    /\ before' = live
    /\ aside' = NoFiles /\ unmended' = FALSE
    /\ UNCHANGED <<live, stash>>

\* Mutant of Stashed: the copy of an earlier restore is kept.
StashedOnce(f) == live[f] # Gone /\ staged[f] # Gone /\ stash[f] = Gone

\* A file that is there and will be replaced is copied first.
Stashed(f) == live[f] # Gone /\ staged[f] # Gone

\* stash_current copies over the copy of an earlier restore.
StashCurrent(f, here, next) ==
    /\ At(here)
    /\ \/ ~Stashed(f) /\ Continues(next) /\ UNCHANGED stash
       \/ /\ Stashed(f)
          /\ stash' = [stash EXCEPT ![f] = live[f]] /\ Continues(next)
       \/ /\ Stashed(f)
          /\ \E left \in {stash[f], Torn}, r \in {"error", "crash"} :
                stash' = [stash EXCEPT ![f] = left] /\ Returns(r)
    /\ UNCHANGED <<live, aside, staged, unmended, restores, before, wanted>>

\* What an error of swap_in means for restore: the first one ends it, after the
\* second the configuration is rolled back.
SwapFails(f) == IF f = "config" THEN Returns("error") ELSE Continues("roll back")

\* swap_in, first rename.
MoveAside(f, here, next) ==
    /\ At(here)
    /\ \/ /\ live[f] # Gone /\ staged[f] # Gone
          /\ \/ /\ aside' = [aside EXCEPT ![f] = live[f]]
                /\ live' = [live EXCEPT ![f] = Gone]
                /\ Continues(next)
             \/ SwapFails(f) /\ UNCHANGED <<live, aside>>
       \/ /\ live[f] = Gone \/ staged[f] = Gone
          /\ Continues(next) /\ UNCHANGED <<live, aside>>
    /\ UNCHANGED <<stash, staged, unmended, restores, before, wanted>>

\* The old file is put back by a rename whose own failure is ignored.
MoveBack(f) ==
    \/ /\ live' = [live EXCEPT ![f] = aside[f]]
       /\ aside' = [aside EXCEPT ![f] = Gone]
       /\ UNCHANGED unmended
    \/ aside[f] # Gone /\ unmended' = TRUE /\ UNCHANGED <<live, aside>>

\* swap_in, second rename; a member that is not staged needs none.
Publish(f, here, next) ==
    /\ At(here)
    /\ \/ /\ staged[f] = Gone
          /\ Continues(next) /\ UNCHANGED <<live, aside, staged, unmended>>
       \/ /\ staged[f] # Gone
          /\ live' = [live EXCEPT ![f] = staged[f]]
          /\ staged' = [staged EXCEPT ![f] = Gone]
          /\ Continues(next) /\ UNCHANGED <<aside, unmended>>
       \/ /\ staged[f] # Gone
          /\ MoveBack(f) /\ SwapFails(f) /\ UNCHANGED staged
    /\ UNCHANGED <<stash, restores, before, wanted>>

\* Mutant of RollBack: only the restored file is removed.
RollBackRemovesOnly ==
    /\ At("roll back")
    /\ Returns("error")
    /\ live' = [live EXCEPT !["config"] = Gone]
    /\ UNCHANGED <<stash, aside, staged, unmended, restores, before, wanted>>

\* rollback_swap: remove, then rename; the error is returned either way.
RollBack ==
    /\ At("roll back")
    /\ \/ /\ live' = [live EXCEPT !["config"] = Gone]
          /\ Continues("put back") /\ UNCHANGED unmended
       \/ Returns("error") /\ unmended' = TRUE /\ UNCHANGED live
    /\ UNCHANGED <<stash, aside, staged, restores, before, wanted>>

RollBackEnds ==
    /\ At("put back")
    /\ MoveBack("config") /\ Returns("error")
    /\ UNCHANGED <<stash, staged, restores, before, wanted>>

\* The files that were moved aside are removed. A failure is an error of restore,
\* though it is complete.
CleanUp ==
    /\ At("clean up")
    /\ \/ aside' = NoFiles /\ Returns("ok")
       \/ aside["config"] # Gone /\ Returns("error") /\ UNCHANGED aside
       \/ aside["metrics"] # Gone /\ Returns("error")
          /\ aside' = [aside EXCEPT !["config"] = Gone]
    /\ UNCHANGED <<live, stash, staged, unmended, restores, before, wanted>>

\* The process ends; what it staged or moved aside keeps a name nothing looks for.
RestoreCrash ==
    /\ pc # "idle" /\ Returns("crash")
    /\ UNCHANGED <<live, stash, aside, staged, unmended, restores, before, wanted>>

\* The user takes the copies back, by hand.
Undo ==
    /\ pc = "idle" /\ restores > 0 /\ result # "undone"
    /\ \A f \in Kinds : stash[f] # Torn
    /\ live' = [f \in Kinds |-> IF stash[f] = Gone THEN live[f] ELSE stash[f]]
    /\ result' = "undone"
    /\ UNCHANGED <<stash, aside, staged, pc, unmended, restores, before, wanted>>

RestoreInit ==
    /\ live \in {[f \in Kinds |-> 1], [f \in Kinds |-> IF f = "config" THEN 1 ELSE Gone]}
    /\ stash = NoFiles /\ aside = NoFiles /\ staged = NoFiles
    /\ pc = "idle" /\ result = "none" /\ unmended = FALSE /\ restores = 0
    /\ before = live /\ wanted = live

RestoreNext ==
    \/ StageRestore
    \/ StashCurrent("config", "stash config", "stash metrics")
    \/ StashCurrent("metrics", "stash metrics", "move config")
    \/ MoveAside("config", "move config", "publish config")
    \/ Publish("config", "publish config", "move metrics")
    \/ MoveAside("metrics", "move metrics", "publish metrics")
    \/ Publish("metrics", "publish metrics", "clean up")
    \/ RollBack \/ RollBackEnds \/ CleanUp \/ RestoreCrash \/ Undo

RestoreSpec == RestoreInit /\ [][RestoreNext]_restoreVars

-----------------------------------------------------------------------------
\* "A restore backs the current files up first, so restoring is itself
\* reversible": wherever it fails or is cut off, each file as it was is at its path
\* or in its .pre-restore copy.
RestoreReversible ==
    \A f \in Kinds : before[f] # Gone /\ result # "undone" =>
        before[f] \in {live[f], stash[f]}

\* Both files are restored or neither is, whatever one operation fails: what
\* restore reports as done is, and after an error the old pair is there, or the new
\* one with only something left to remove.
PairMovesTogether ==
    /\ result = "ok" /\ pc = "idle" => live = wanted
    /\ result = "error" /\ pc = "idle" /\ ~unmended => live \in {before, wanted}

=============================================================================
