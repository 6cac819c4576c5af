---------------------------- MODULE ConfigState ----------------------------
(***************************************************************************)
(* The desktop's editable, saved and on-disk configuration                 *)
(* (config_state.rs, config_draft.rs): one revision number names one       *)
(* content, across edits, saves, failed writes, rollbacks, crashes and     *)
(* edits of the file by somebody else.                                     *)
(*                                                                         *)
(* Commands run one at a time under the app mutex; what interleaves with   *)
(* their steps is the crash of the process, another program's edit of      *)
(* token-station.json and the CLI's rotation of a stored key.  A content's *)
(* SHA-256 fingerprint is the content itself (collisions are ignored).     *)
(***************************************************************************)
EXTENDS Naturals, FiniteSets

CONSTANTS Contents,         \* configurations
          Template,         \* the draft shown when there is no usable file
          PreparedOf,       \* prepare_desktop_draft
          Missing, Damaged, \* token-station.json absent, or not loadable
          Keys,             \* provider credentials
          NoKey,
          SidecarOutcomes,  \* how write_atomic_private of the sidecar may end
          ConfigOutcomes,   \* the same of the configuration file
          MaxRevision       \* bound on the revisions of an instance

\* "late": the replacement happened and a later check or fsync failed.
Outcomes == {"ok", "failed", "late"}

None == "none"

ASSUME ConfigAssumption ==
    /\ Template \in Contents
    /\ PreparedOf \in [Contents -> Contents]
    /\ None \notin Contents /\ Missing \notin Contents /\ Damaged \notin Contents
    /\ NoKey \notin Keys
    /\ SidecarOutcomes \subseteq Outcomes /\ ConfigOutcomes \subseteq Outcomes
    /\ MaxRevision \in Nat

VARIABLES
    cfg,        \* token-station.json
    sidecar,    \* token-station.state.json
    key,        \* the provider's slot in the secrets store
    mode,       \* the app: down, starting, up, or readonly (load_error set)
    state,      \* ConfigState
    step,       \* how far the running save command is
    undo,       \* what the command does with the state when the save fails
    prior,      \* the ConfigState the command cloned before its edit
    pendingKey, \* pending_provider_keys
    prevKey,    \* the stored key a running save has replaced
    (* History. *)
    savedAs,    \* the contents each revision was saved or loaded as
    survivor,   \* the last save whose file nobody has touched since
    lastKey,    \* the key last committed by a save or a rotation
    torn        \* a key was left behind by a crash or a failed restore

command == <<step, undo, prior>>
secret == <<key, pendingKey, prevKey, lastKey, torn>>
history == <<savedAs, survivor>>
vars == <<cfg, sidecar, mode, state, command, secret, history>>

-----------------------------------------------------------------------------
(* RevisionLedger and ConfigState.                                         *)

Max2(m, n) == IF m >= n THEN m ELSE n

ZeroLedger == [last |-> 0, cRev |-> 0, cFp |-> None, pRev |-> 0, pFp |-> None]

ClearPending(l) == [l EXCEPT !.pRev = 0, !.pFp = None]

NewState(c, rev, l) ==
    [draft |-> c, saved |-> c, draftRev |-> rev, savedRev |-> rev, ledger |-> l]

\* ConfigState::read_only.
ReadOnly(c) == NewState(c, 0, ZeroLedger)

\* Mutant of Reconciled: an external edit keeps the committed revision.
ReconciledInPlace(l, c) ==
    IF l.pFp = c
    THEN [last |-> Max2(l.last, l.pRev), cRev |-> l.pRev, cFp |-> c,
          pRev |-> 0, pFp |-> None]
    ELSE [ClearPending(l) EXCEPT !.cFp = c]

\* The three ways load reconciles the sidecar with an existing file: promote the
\* pending entry, keep the committed one, or allocate.
Reconciled(l, c) ==
    IF l.pFp = c
    THEN [last |-> Max2(l.last, l.pRev), cRev |-> l.pRev, cFp |-> c,
          pRev |-> 0, pFp |-> None]
    ELSE IF l.cFp = c THEN ClearPending(l)
    ELSE [last |-> l.last + 1, cRev |-> l.last + 1, cFp |-> c,
          pRev |-> 0, pFp |-> None]

\* observe_draft reserves a revision for a content that is neither the draft
\* nor the saved one.
NeedsRevision(s, d) == d # s.draft /\ d # s.saved

\* Mutant of Reserved: the watermark itself is given out.
ReservedReusesLast(s, d) == [s EXCEPT !.draft = d, !.draftRev = s.ledger.last]

Reserved(s, d) ==
    LET rev == s.ledger.last + 1 IN
    [s EXCEPT !.draft = d, !.draftRev = rev, !.ledger.last = rev]

\* observe_draft on state s when its sidecar write, if any, ends with o.
Observed(s, d, o) ==
    IF d = s.draft THEN s
    ELSE IF d = s.saved THEN [s EXCEPT !.draft = d, !.draftRev = s.savedRev]
    ELSE IF o = "ok" THEN Reserved(s, d) ELSE s

ObserveFails(s, d, o) == NeedsRevision(s, d) /\ o # "ok"

\* write_ledger.
WriteSidecar(l, o) == sidecar' = IF o = "failed" THEN sidecar ELSE l

ObserveWrites(s, d, o) ==
    IF NeedsRevision(s, d) THEN WriteSidecar(Reserved(s, d).ledger, o)
                           ELSE UNCHANGED sidecar

\* Mutant of PrepareSave: no pending entry is journalled.
PrepareSaveUnjournalled(s) ==
    LET rev == IF s.draftRev = 0 THEN s.ledger.last + 1 ELSE s.draftRev IN
    [s EXCEPT !.draftRev = rev, !.ledger.last = Max2(@, rev)]

\* prepare_save after its observe_draft: a first save allocates in memory, then
\* the pending entry is set.
PrepareSave(s) ==
    LET rev == IF s.draftRev = 0 THEN s.ledger.last + 1 ELSE s.draftRev IN
    [s EXCEPT !.draftRev = rev,
              !.ledger = [s.ledger EXCEPT !.last = Max2(@, rev),
                                          !.pRev = rev, !.pFp = s.draft]]

\* finish_save's assignments.
FinishedSave(s) ==
    [s EXCEPT !.saved = s.draft, !.savedRev = s.draftRev,
              !.ledger = [ClearPending(s.ledger) EXCEPT !.cRev = s.draftRev,
                                                        !.cFp = s.draft]]

-----------------------------------------------------------------------------
(* History.                                                                *)

Note(h, rev, c) == IF rev = 0 THEN h ELSE [h EXCEPT ![rev] = @ \union {c}]

-----------------------------------------------------------------------------
(* Startup: load_draft_state, ConfigState::load, AppInner::new_with_saved. *)

\* No file: revision 0 and the template; the sidecar is read, not written.
LoadWithoutConfig ==
    /\ mode = "down" /\ cfg = Missing
    /\ state' = NewState(Template, 0, ClearPending(sidecar))
    /\ mode' = "starting"
    /\ UNCHANGED <<cfg, sidecar, command, secret, history>>

\* A file that loads, or one that does not: then the template stands in for it
\* and the app is read-only, but the sidecar is reconciled all the same.
LoadConfig ==
    LET c == IF cfg = Damaged THEN Template ELSE cfg
        l == Reconciled(sidecar, c)
    IN  /\ mode = "down" /\ cfg # Missing
        /\ l.last <= MaxRevision
        /\ \E o \in SidecarOutcomes :
             /\ WriteSidecar(l, o)
             /\ state' = IF o = "ok" THEN NewState(c, l.cRev, l) ELSE ReadOnly(c)
             /\ mode' = IF o = "ok" /\ cfg # Damaged THEN "starting" ELSE "readonly"
             /\ savedAs' = IF o = "ok" THEN Note(savedAs, l.cRev, c) ELSE savedAs
        /\ UNCHANGED <<cfg, command, secret, survivor>>

\* new_with_saved observes the draft prepared from the saved content.
ObserveStartup ==
    LET d == IF cfg = Missing THEN state.draft ELSE PreparedOf[state.saved] IN
    /\ mode = "starting"
    /\ state.ledger.last < MaxRevision
    /\ \E o \in SidecarOutcomes :
         /\ ObserveWrites(state, d, o)
         /\ state' = Observed(state, d, o)
         /\ mode' = IF ObserveFails(state, d, o) THEN "readonly" ELSE "up"
    /\ UNCHANGED <<cfg, command, secret, savedAs, survivor>>

-----------------------------------------------------------------------------
(* Commands.                                                               *)

\* An edit that is not saved: AppInner::observe_draft, edit_validated_draft.
Edit(d) ==
    /\ mode = "up" /\ step = "idle"
    /\ d # state.draft
    /\ state.ledger.last < MaxRevision
    /\ \E o \in SidecarOutcomes :
         /\ ObserveWrites(state, d, o)
         /\ state' = Observed(state, d, o)
    /\ UNCHANGED <<cfg, mode, command, secret, savedAs, survivor>>

\* save_config: saves the draft as it is, and leaves the state where the failed
\* save left it.
SaveConfig ==
    /\ mode = "up" /\ step = "idle"
    /\ step' = "edited"
    /\ undo' = "keep"
    /\ UNCHANGED <<cfg, sidecar, mode, state, prior, secret, history>>

\* Commands that edit and save: set_settings, replace_provider_models,
\* apply_discovered_model_limits, ... put the cloned ConfigState back when the
\* save fails ("restore"); save_synced_table observes the old draft again
\* ("observe").
EditAndSave(d, u) ==
    /\ mode = "up" /\ step = "idle"
    /\ d # state.draft
    /\ state.ledger.last < MaxRevision
    /\ \E o \in SidecarOutcomes :
         /\ ObserveWrites(state, d, o)
         /\ state' = Observed(state, d, o)
         /\ IF ObserveFails(state, d, o)
            THEN UNCHANGED command
            ELSE step' = "edited" /\ undo' = u /\ prior' = state
    /\ UNCHANGED <<cfg, mode, secret, savedAs, survivor>>

\* A command returned: its locals are gone.
Idle == step' = "idle" /\ undo' = "keep" /\ prior' = ReadOnly(Template)

\* The save ended with an error while the state was s.
SaveFails(s) ==
    /\ state' = IF undo = "restore" THEN prior ELSE s
    /\ IF undo = "observe" THEN step' = "undo" /\ UNCHANGED <<undo, prior>>
                           ELSE Idle

\* prepare_save.
Prepare ==
    LET s == PrepareSave(state) IN
    /\ step = "edited"
    /\ s.ledger.last <= MaxRevision
    /\ \E o \in SidecarOutcomes :
         /\ WriteSidecar(s.ledger, o)
         /\ IF o = "ok" THEN state' = s /\ step' = "prepared" /\ UNCHANGED <<undo, prior>>
                        ELSE SaveFails(s)
    /\ UNCHANGED <<cfg, mode, secret, savedAs, survivor>>

\* with_locked_store: the pending key is persisted first. A persist that fails
\* is followed by a persist of the previous map, which may fail too.
PersistKeys ==
    /\ step = "prepared" /\ pendingKey # NoKey
    /\ \E o \in ConfigOutcomes, restored \in BOOLEAN :
         /\ key' = IF o = "failed" \/ (o = "late" /\ restored) THEN key ELSE pendingKey
         /\ torn' = (torn \/ (o = "late" /\ ~restored))
         /\ IF o = "ok" THEN /\ step' = "keyed" /\ prevKey' = key
                             /\ UNCHANGED <<state, undo, prior>>
                        ELSE SaveFails(state) /\ UNCHANGED prevKey
    /\ UNCHANGED <<cfg, sidecar, mode, pendingKey, lastKey, history>>

\* ClientConfig::save, and the restore of the key when it fails.
WriteConfig ==
    /\ step = "keyed" \/ (step = "prepared" /\ pendingKey = NoKey)
    /\ \E o \in ConfigOutcomes, restored \in BOOLEAN :
         /\ cfg' = IF o = "failed" THEN cfg ELSE state.draft
         /\ IF o = "ok" THEN /\ step' = "renamed"
                             /\ UNCHANGED <<state, undo, prior>>
                        ELSE SaveFails(state)
         /\ key' = IF step = "keyed" /\ o # "ok" /\ restored THEN prevKey ELSE key
         /\ torn' = (torn \/ (step = "keyed" /\ o # "ok" /\ ~restored))
         /\ survivor' = IF o = "ok" THEN <<state.draftRev, state.draft>>
                        ELSE IF o = "late" THEN <<>> ELSE survivor
         /\ lastKey' = IF step = "keyed" /\ o = "ok" THEN key ELSE lastKey
    /\ prevKey' = NoKey
    /\ UNCHANGED <<sidecar, mode, pendingKey, savedAs>>

\* finish_save: its sidecar write may fail, the save is reported done.
FinishSave ==
    LET s == FinishedSave(state) IN
    /\ step = "renamed"
    /\ state' = s
    /\ \E o \in SidecarOutcomes : WriteSidecar(s.ledger, o)
    /\ savedAs' = Note(savedAs, s.savedRev, s.saved)
    /\ pendingKey' = NoKey
    /\ Idle
    /\ UNCHANGED <<cfg, mode, key, prevKey, lastKey, torn, survivor>>

\* save_synced_table after a failed save: the old draft is observed; if even
\* that cannot be recorded the app turns read-only.
ObserveOldDraft ==
    LET d == prior.draft IN
    /\ step = "undo"
    /\ state.ledger.last < MaxRevision
    /\ \E o \in SidecarOutcomes :
         /\ ObserveWrites(state, d, o)
         /\ state' = Observed(state, d, o)
         /\ mode' = IF ObserveFails(state, d, o) THEN "readonly" ELSE mode
    /\ Idle
    /\ UNCHANGED <<cfg, secret, savedAs, survivor>>

\* add_free_provider and its kin edit the draft and, once the edit is recorded,
\* keep the new credential until the next save.
EnterKey(k, d) ==
    /\ mode = "up" /\ step = "idle"
    /\ NeedsRevision(state, d) => state.ledger.last < MaxRevision
    /\ \E o \in SidecarOutcomes :
         /\ ObserveWrites(state, d, o)
         /\ state' = Observed(state, d, o)
         /\ pendingKey' = IF ObserveFails(state, d, o) THEN pendingKey ELSE k
    /\ UNCHANGED <<cfg, mode, command, key, prevKey, lastKey, torn, savedAs,
                   survivor>>

-----------------------------------------------------------------------------
(* The environment.                                                        *)

\* Mutant of StoreLocked: the desktop's save does not take the store's lock.
StoreNeverLocked == FALSE

\* The CLI rotates the key under the store's cross-process lock.
StoreLocked == step = "keyed"

RotateKey(k) ==
    /\ ~StoreLocked
    /\ key' = k
    /\ lastKey' = k
    /\ torn' = FALSE
    /\ UNCHANGED <<cfg, sidecar, mode, state, command, pendingKey, prevKey, history>>

\* Somebody else writes, removes or damages token-station.json.
ExternalEdit(c) ==
    /\ c # cfg
    /\ cfg' = c
    /\ survivor' = <<>>
    /\ UNCHANGED <<sidecar, mode, state, command, secret, savedAs>>

\* The process dies, or the user quits.
Crash ==
    /\ mode # "down"
    /\ mode' = "down"
    /\ state' = ReadOnly(Template)
    /\ Idle
    /\ pendingKey' = NoKey /\ prevKey' = NoKey
    /\ torn' = (torn \/ step = "keyed")
    /\ UNCHANGED <<cfg, sidecar, key, lastKey, history>>

-----------------------------------------------------------------------------
Init ==
    /\ cfg = Missing
    /\ sidecar = ZeroLedger
    /\ key = NoKey
    /\ mode = "down"
    /\ state = ReadOnly(Template)
    /\ step = "idle" /\ undo = "keep" /\ prior = ReadOnly(Template)
    /\ pendingKey = NoKey /\ prevKey = NoKey
    /\ savedAs = [r \in 1..MaxRevision |-> {}]
    /\ survivor = <<>>
    /\ lastKey = NoKey /\ torn = FALSE

Next ==
    \/ LoadWithoutConfig \/ LoadConfig \/ ObserveStartup
    \/ \E d \in Contents : Edit(d) \/ (\E u \in {"restore", "observe"} : EditAndSave(d, u))
    \/ SaveConfig \/ Prepare \/ PersistKeys \/ WriteConfig \/ FinishSave
    \/ ObserveOldDraft
    \/ \E k \in Keys : RotateKey(k) \/ (\E d \in Contents : EnterKey(k, d))
    \/ \E c \in Contents \union {Missing, Damaged} : ExternalEdit(c)
    \/ Crash

Spec == Init /\ [][Next]_vars

-----------------------------------------------------------------------------
Revisions == 0..MaxRevision
Ledgers == [last : Revisions, cRev : Revisions, cFp : Contents \union {None},
            pRev : Revisions, pFp : Contents \union {None}]

\* An entry has a revision and a fingerprint, or neither; the watermark covers
\* both entries.
LedgerOK(l) ==
    /\ l \in Ledgers
    /\ l.cRev <= l.last /\ l.pRev <= l.last
    /\ l.cRev = 0 <=> l.cFp = None
    /\ l.pRev = 0 <=> l.pFp = None

States == [draft : Contents, saved : Contents, draftRev : Revisions,
           savedRev : Revisions, ledger : Ledgers]
StateOK(s) == s \in States /\ LedgerOK(s.ledger)

TypeOK ==
    /\ cfg \in Contents \union {Missing, Damaged}
    /\ LedgerOK(sidecar)
    /\ mode \in {"down", "starting", "up", "readonly"}
    /\ StateOK(state) /\ StateOK(prior)
    /\ step \in {"idle", "edited", "prepared", "keyed", "renamed", "undo"}
    /\ undo \in {"keep", "restore", "observe"}
    /\ {key, pendingKey, prevKey, lastKey} \subseteq Keys \union {NoKey}
    /\ torn \in BOOLEAN
    /\ savedAs \in [1..MaxRevision -> SUBSET Contents]
    /\ survivor = <<>> \/ survivor \in Revisions \X Contents

\* The UI tells unsaved work by the revisions: a draft that differs from the
\* saved content never carries the saved revision, whatever was rolled back.
DirtyDraftHasOwnRevision ==
    state.draft # state.saved => state.draftRev # state.savedRev

\* Two contents are never saved, or loaded as saved, under one revision.
SavedRevisionNamesOneContent ==
    \A r \in 1..MaxRevision : Cardinality(savedAs[r]) <= 1

\* "the pending entry remains recoverable on the next launch": a save whose file
\* nobody touched is loaded again under the revision it was saved with, wherever
\* between the rename and the final sidecar write the process died.
SaveSurvivesRestart ==
    [][(mode = "down" /\ mode' = "starting" /\ survivor # <<>>)
       => <<state'.savedRev, state'.saved>> = survivor]_vars

\* LockedStore "prevents a failed desktop save from rolling back over a CLI key
\* rotation": between saves the store holds the key last committed by anyone.
StoreHoldsLastKey == (step \notin {"keyed"} /\ ~torn) => key = lastKey

=============================================================================
