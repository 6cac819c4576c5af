------------------------- MODULE ProviderLifecycle -------------------------
(***************************************************************************)
(* One provider name of the desktop through its life: added, edited,       *)
(* removed to the recycle bin, restored, purged and added again, with a    *)
(* key in the secrets store, and with a model catalog and a vision verdict *)
(* that are fetched over the network while the name goes on living         *)
(* (provider_commands.rs, provider_tombstones.rs, provider_discovery.rs,   *)
(* vision_probe.rs, AppInner::save_draft).                                 *)
(*                                                                         *)
(* A command holds the app mutex throughout and is one step here, with     *)
(* every state its failures can leave; the process may end between any two *)
(* of its writes, but what it leaves then is what a failure of the next    *)
(* write and a restart leave.  The network, the CLI and the end of the     *)
(* process do not wait for the mutex.                                      *)
(***************************************************************************)
EXTENDS Integers

CONSTANTS Urls,        \* base URLs
          FreeUrl,     \* the base URL of the free preset of this name
          ApiKeys,        \* API keys
          NoApiKey, Nothing,
          Outside,     \* the credential an env or file reference resolves to
          Kinds,       \* "plain", "managed" (an enterprise channel under an id of
                       \* ours), "legacy" (one of an older file, under any name)
          MaxCommands, \* bound on commands and network operations
          MaxTrouble   \* bound on failures, restarts and rotations by the CLI

Credentials == ApiKeys \union {Outside}
Accounts == [url : Urls, key : Credentials]

\* upstreams[name]; seen is the account the probe evidence among its models is
\* about.
Definition(kind, url, auth) == [kind |-> kind, url |-> url, auth |-> auth, seen |-> Nothing]
Definitions == [kind : Kinds \union {"free"}, url : Urls, auth : {"store", "reference"},
                seen : Accounts \union {Nothing}]
\* What add_provider makes; an enterprise channel is always added with its key.
Ordinary ==
    {Definition("plain", u, a) : u \in Urls, a \in {"store", "reference"}}
    \union {Definition(k, u, "store") : k \in Kinds \intersect {"managed"}, u \in Urls}
LegacyDefinitions ==
    {Definition(k, u, "store") : k \in Kinds \intersect {"legacy"}, u \in Urls}
FreeDefinition == Definition("free", FreeUrl, "store")

ASSUME ProviderAssumption ==
    /\ FreeUrl \in Urls
    /\ NoApiKey \notin ApiKeys \union {Outside} /\ Outside \notin ApiKeys
    /\ Nothing \notin Definitions
    /\ {"plain"} \subseteq Kinds /\ Kinds \subseteq {"plain", "managed", "legacy"}
    /\ MaxCommands \in Nat /\ MaxTrouble \in Nat

NoTask == [kind |-> "none", url |-> Nothing, key |-> NoApiKey, fresh |-> FALSE]

VARIABLES
    editable,   \* no load_error
    drafted,    \* the name in the draft, or Nothing
    onDisk,     \* the name in token-station.json
    tomb,       \* its entry in the recycle bin
    purging,    \* the journal of a purge names it
    stored,     \* its key in the secrets store
    unsavedKey, \* pending_provider_keys
    removing,   \* pending_provider_key_removals names it
    modern,     \* is_managed_enterprise_provider_id of the name
    catalog,    \* the account its cached model catalog was fetched from
    task,       \* the discovery or probe under way; fresh: its target's epoch
                \* and definition are still the current ones
    validating, \* the free provider being validated: its key, the tomb it saw
    commands, trouble,
    rekeyed,    \* history: the key may have changed and nothing was invalidated
    purged      \* history: the last end of this name was a purge

lifeVars == <<editable, drafted, onDisk, tomb, purging, stored, unsavedKey, removing,
              modern, catalog, task, validating, commands, trouble, rekeyed, purged>>

-----------------------------------------------------------------------------
Free(p) == p # Nothing /\ p.kind = "free"

\* What requests are sent with: discovery prefers the key that is not saved yet.
Credential(p) ==
    IF p.auth = "reference" THEN Outside
    ELSE IF unsavedKey # NoApiKey THEN unsavedKey ELSE stored

Fails == trouble < MaxTrouble /\ trouble' = trouble + 1
Works == trouble' = trouble

Command ==
    /\ editable /\ commands < MaxCommands
    /\ commands' = commands + 1

\* bump_upstream_epoch: what is under way was asked of another account.
Overtaken == [task EXCEPT !.fresh = FALSE]

\* observe_draft: a changed definition is a new epoch.
Draft(p) == drafted' = p /\ task' = IF p = drafted THEN task ELSE Overtaken

-----------------------------------------------------------------------------
(* A save, and a purge that was interrupted.                               *)

\* The key the store has once the keys and the file are committed.
CommittedKey == IF unsavedKey = NoApiKey THEN stored ELSE unsavedKey

\* save_draft: the key, then the file, then the removal of a key that a migration
\* left behind, then the bin's entry of a name whose key was committed; failures
\* of the last two are only reported, and the removal stays queued.
Saved(p) ==
    /\ onDisk' = p
    /\ unsavedKey' = NoApiKey
    /\ \/ /\ Works /\ removing' = FALSE
          /\ stored' = IF removing THEN NoApiKey ELSE CommittedKey
          /\ tomb' = IF unsavedKey = NoApiKey THEN tomb ELSE Nothing
       \/ /\ Fails /\ removing
          /\ stored' \in {CommittedKey, NoApiKey}
          /\ tomb' = IF unsavedKey = NoApiKey THEN tomb ELSE Nothing
          /\ UNCHANGED removing
       \/ /\ Fails /\ removing' = FALSE
          /\ stored' = IF removing THEN NoApiKey ELSE CommittedKey
          /\ UNCHANGED tomb

\* The file may be in place although its write was reported as failed, and the
\* previous key may not come back.
NotSaved(p) ==
    /\ Fails
    /\ stored' \in {stored} \union (IF unsavedKey = NoApiKey THEN {} ELSE {unsavedKey})
    /\ onDisk' \in {onDisk, p}
    /\ UNCHANGED <<unsavedKey, removing, tomb>>

\* Mutant of PurgeMayFinish: that the draft is saved is enough.
PurgeMayFinishSaved == tomb = Nothing /\ drafted = onDisk

\* What recover_pending_provider_purge has to find before it deletes the key.
PurgeMayFinish == tomb = Nothing /\ drafted = Nothing /\ onDisk = Nothing

\* Recovery from its start to its end: the key goes first and the journal last;
\* a tombstone t that is still there means that nothing was deleted.
RecoveryEnds(t) == purging' = FALSE /\ stored' = (IF t = Nothing THEN NoApiKey ELSE stored)

\* Mutant of RecoveryStops: the journal goes first.
RecoveryStopsJournalFirst(t) == purging' \in BOOLEAN /\ stored' = stored

\* Where a write that fails can leave it.
RecoveryStops(t) ==
    purging' = TRUE /\ stored' \in {stored} \union (IF t = Nothing THEN {NoApiKey} ELSE {})

\* A recovery that clears prices saves them, and such a save works the queue off.
PricesSaved(t) ==
    \/ UNCHANGED <<removing, task>>
    \/ /\ t = Nothing /\ removing /\ stored' = NoApiKey
       /\ removing' = FALSE /\ task' = Overtaken

\* The first thing add, extend, remove, restore and purge do. A draft that is
\* not saved, or a write that fails, leaves the journal for the next command.
RecoverPurge ==
    /\ editable /\ purging
    /\ tomb # Nothing \/ PurgeMayFinish
    /\ \/ Works /\ RecoveryEnds(tomb)
       \/ Fails /\ RecoveryStops(tomb)
    /\ PricesSaved(tomb)
    /\ UNCHANGED <<editable, drafted, onDisk, tomb, unsavedKey, modern, catalog,
                   validating, commands, rekeyed, purged>>

\* Every command but add_free_provider asks for this.
NoPurgePending == ~purging

-----------------------------------------------------------------------------
(* Commands.                                                               *)

\* Mutant of AddKey: the removal stays queued.
AddKeyOnly(p, k) ==
    /\ unsavedKey' = IF p.auth = "store" THEN k ELSE unsavedKey
    /\ UNCHANGED removing

\* A provider added with a key is not to lose it to an older removal.
AddKey(p, k) ==
    /\ unsavedKey' = IF p.auth = "store" THEN k ELSE unsavedKey
    /\ removing' = (removing /\ p.auth # "store")

\* add_provider: the cached catalog goes whether or not the edit is recorded.
Add(p, k) ==
    /\ Command /\ NoPurgePending
    /\ drafted = Nothing /\ tomb = Nothing
    /\ p.kind = "managed" => modern
    /\ catalog' = Nothing
    /\ \/ /\ Works
          /\ Draft(p) /\ rekeyed' = FALSE /\ purged' = FALSE
          /\ AddKey(p, k)
       \/ Fails /\ UNCHANGED <<drafted, task, unsavedKey, removing, rekeyed, purged>>
    /\ UNCHANGED <<editable, onDisk, tomb, purging, stored, modern, validating>>

\* The first enterprise channel under an id of ours replaces the legacy one that is
\* the direct target (add_provider for another name): this name leaves the draft
\* without going to the bin, and its key is queued for removal at the next save.
\* An older entry in the bin stays, with what was learned when it was made.
Migrate ==
    /\ Command /\ NoPurgePending
    /\ drafted # Nothing /\ drafted.kind = "legacy"
    /\ \/ /\ Works
          /\ catalog' = Nothing
          /\ Draft(Nothing) /\ unsavedKey' = NoApiKey /\ removing' = TRUE
          /\ rekeyed' = (rekeyed \/ tomb # Nothing)
       \/ /\ Fails
          /\ catalog' \in {catalog, Nothing}
          /\ UNCHANGED <<drafted, task, unsavedKey, removing, rekeyed>>
    /\ UNCHANGED <<editable, onDisk, tomb, purging, stored, modern, validating, purged>>

\* extend_managed_enterprise_route: a key for the same address; what was learned
\* about the account stays.
Extend(k) ==
    /\ Command /\ NoPurgePending /\ Works
    /\ drafted # Nothing /\ drafted.kind = "managed"
    /\ Draft([drafted EXCEPT !.auth = "store"])
    /\ unsavedKey' = k /\ removing' = FALSE /\ rekeyed' = TRUE
    /\ UNCHANGED <<editable, onDisk, tomb, purging, stored, modern, catalog, validating,
                   purged>>

\* identity_changed of edit_provider.
Identity(url, auth, k) == drafted.url # url \/ drafted.auth # auth \/ k # NoApiKey

Edited(url, auth, k) ==
    [drafted EXCEPT !.url = url, !.auth = auth,
                    !.seen = IF Identity(url, auth, k) THEN Nothing ELSE @]

\* edit_provider: the catalog goes first; a key goes to the store at once, and
\* the draft is put back if it does not arrive there. A queued removal stays queued.
EditProvider(url, auth, k) ==
    /\ Command
    /\ drafted # Nothing /\ ~Free(drafted)
    /\ k # NoApiKey => auth = "store"
    /\ catalog' = IF Identity(url, auth, k) THEN Nothing ELSE catalog
    /\ \/ /\ Works
          /\ drafted' = Edited(url, auth, k)
          /\ task' = IF drafted' = drafted /\ k = NoApiKey THEN task ELSE Overtaken
          /\ stored' = IF k = NoApiKey THEN stored ELSE k
          /\ rekeyed' = (rekeyed /\ ~Identity(url, auth, k))
       \/ /\ Fails
          /\ task' \in {task, Overtaken}
          /\ stored' \in {stored} \union (IF k = NoApiKey THEN {} ELSE {k})
          /\ rekeyed' = (rekeyed \/ stored' # stored)
          /\ UNCHANGED drafted
    /\ UNCHANGED <<editable, onDisk, tomb, purging, unsavedKey, removing, modern, validating,
                   purged>>

\* remove_provider: the bin's entry is written before the draft changes, and an
\* older one is not overwritten. When the change cannot be recorded the entry is
\* discarded, if that succeeds.
Remove ==
    /\ Command /\ NoPurgePending
    /\ drafted # Nothing
    /\ catalog' = Nothing
    /\ \/ /\ Works /\ tomb = Nothing
          /\ tomb' = drafted /\ Draft(Nothing) /\ unsavedKey' = NoApiKey
       \/ tomb # Nothing /\ Works /\ UNCHANGED <<tomb, drafted, task, unsavedKey>>
       \/ /\ Fails
          /\ tomb' \in {tomb} \union (IF tomb = Nothing THEN {drafted} ELSE {})
          /\ UNCHANGED <<drafted, task, unsavedKey>>
    /\ UNCHANGED <<editable, onDisk, purging, stored, removing, modern, validating, rekeyed,
                   purged>>

\* restore_provider: the bin's entry is taken before the draft changes; put back
\* when the change cannot be recorded, if that succeeds.
Restore ==
    /\ Command /\ NoPurgePending
    /\ drafted = Nothing /\ tomb # Nothing /\ ~Free(tomb)
    /\ catalog' = Nothing
    /\ \/ Works /\ tomb' = Nothing /\ Draft(tomb)
       \/ Fails /\ tomb' \in {tomb, Nothing} /\ UNCHANGED <<drafted, task>>
    /\ UNCHANGED <<editable, onDisk, purging, stored, unsavedKey, removing, modern, validating,
                   rekeyed, purged>>

\* purge_deleted_providers: journal, bin, key, journal.
Purge ==
    /\ Command /\ NoPurgePending
    /\ tomb # Nothing /\ drafted = Nothing /\ onDisk = Nothing
    /\ \/ \* the journal or the bin was not written
          /\ Fails /\ purging' \in BOOLEAN
          /\ UNCHANGED <<tomb, stored, unsavedKey, removing, task, purged>>
       \/ \* the bin was, and is reported as failed or recovery stopped
          /\ Fails /\ tomb' = Nothing /\ purged' = TRUE /\ RecoveryStops(Nothing)
          /\ PricesSaved(Nothing) /\ UNCHANGED unsavedKey
       \/ /\ Works /\ tomb' = Nothing /\ purged' = TRUE /\ RecoveryEnds(Nothing)
          /\ unsavedKey' = NoApiKey /\ removing' = FALSE /\ task' = Overtaken
    /\ UNCHANGED <<editable, drafted, onDisk, modern, catalog, validating, rekeyed>>

\* save_config; a key that came or went is a new epoch.
Save ==
    /\ editable
    /\ drafted # onDisk \/ unsavedKey # NoApiKey \/ removing
    /\ \/ /\ Saved(drafted)
          /\ task' = IF unsavedKey = NoApiKey /\ removing' = removing THEN task ELSE Overtaken
       \/ NotSaved(drafted) /\ UNCHANGED task
    /\ UNCHANGED <<editable, drafted, purging, modern, catalog, validating, commands, rekeyed,
                   purged>>

-----------------------------------------------------------------------------
(* add_free_provider: two looks at the app with the network between them.  *)

ValidationStarts(k) ==
    /\ Command
    /\ validating = Nothing
    /\ drafted = Nothing /\ (tomb = Nothing \/ Free(tomb))
    /\ validating' = [key |-> k, tomb |-> tomb]
    /\ UNCHANGED <<editable, drafted, onDisk, tomb, purging, stored, unsavedKey, removing,
                   modern, catalog, task, trouble, rekeyed, purged>>

\* The draft may have changed elsewhere too; then, and when the models do not
\* answer, nothing is added.
ValidationEnds ==
    /\ validating # Nothing
    /\ validating' = Nothing
    /\ \/ /\ editable /\ drafted = Nothing /\ tomb = validating.tomb
          /\ Draft(FreeDefinition) /\ unsavedKey' = validating.key /\ removing' = FALSE
          /\ purged' = FALSE /\ rekeyed' = FALSE
       \/ UNCHANGED <<drafted, task, unsavedKey, removing, rekeyed, purged>>
    /\ UNCHANGED <<editable, onDisk, tomb, purging, stored, modern, catalog, commands,
                   trouble>>

-----------------------------------------------------------------------------
(* Discovery and the vision probe.                                         *)

\* Of a provider that is in the draft, with its own credential, a key that is not
\* saved yet before the stored one; without any the task ends in an error.
DiscoveryStarts ==
    /\ Command /\ task = NoTask
    /\ drafted # Nothing /\ ~Free(drafted) /\ Credential(drafted) # NoApiKey
    /\ task' = [kind |-> "discovery", url |-> drafted.url, key |-> Credential(drafted),
                fresh |-> TRUE]
    /\ UNCHANGED <<editable, drafted, onDisk, tomb, purging, stored, unsavedKey, removing,
                   modern, catalog, validating, trouble, rekeyed, purged>>

\* Of a provider that is being typed in.
CandidateDiscovery(u, k) ==
    /\ Command /\ task = NoTask
    /\ drafted = Nothing
    /\ task' = [kind |-> "discovery", url |-> u, fresh |-> TRUE, key |-> k]
    /\ UNCHANGED <<editable, drafted, onDisk, tomb, purging, stored, unsavedKey, removing,
                   modern, catalog, validating, trouble, rekeyed, purged>>

ProbeStarts ==
    /\ Command /\ task = NoTask
    /\ drafted # Nothing /\ ~Free(drafted) /\ unsavedKey = NoApiKey
    /\ task' = [kind |-> "probe", url |-> drafted.url, fresh |-> TRUE,
                key |-> IF drafted.auth = "store" THEN NoApiKey ELSE Outside]
    /\ UNCHANGED <<editable, drafted, onDisk, tomb, purging, stored, unsavedKey, removing,
                   modern, catalog, validating, trouble, rekeyed, purged>>

\* run_probe captures the stored key, without the mutex.
ProbeReads ==
    /\ task.kind = "probe" /\ task.key = NoApiKey
    /\ task' = IF stored = NoApiKey THEN NoTask ELSE [task EXCEPT !.key = stored]
    /\ UNCHANGED <<editable, drafted, onDisk, tomb, purging, stored, unsavedKey, removing,
                   modern, catalog, validating, commands, trouble, rekeyed, purged>>

\* Mutant of TargetUnchanged: the definition is compared and the epoch is not.
TargetUnchangedByUrl == drafted # Nothing /\ drafted.url = task.url

\* ensure_provider_discovery_target_unchanged.
TargetUnchanged == task.fresh

TaskEnds == task' = NoTask

Asked == [url |-> task.url, key |-> task.key]

\* What the task learned is kept if its target is unchanged, else dropped; new
\* capabilities of the models are saved with the draft.
DiscoveryEnds ==
    /\ task.kind = "discovery"
    /\ TaskEnds
    /\ \/ /\ editable /\ TargetUnchanged
          /\ catalog' \in {catalog, Asked}
          /\ \/ Works /\ UNCHANGED <<onDisk, stored, unsavedKey, removing, tomb>>
             \/ drafted # Nothing /\ (Saved(drafted) \/ NotSaved(drafted))
       \/ Works /\ UNCHANGED <<onDisk, stored, unsavedKey, removing, tomb, catalog>>
    /\ UNCHANGED <<editable, drafted, purging, modern, validating, commands, rekeyed, purged>>

\* ProbeIdentity::ensure_unchanged; the configuration is the captured one.
SameCredential == task.key \in {Outside, stored}

\* save_evidence: the verdict goes into the draft and is saved; put back when
\* the save fails.
ProbeEnds ==
    /\ task.kind = "probe" /\ task.key # NoApiKey
    /\ TaskEnds
    /\ \/ /\ editable /\ TargetUnchanged /\ SameCredential
          /\ LET p == [drafted EXCEPT !.seen = Asked] IN
             \/ Saved(p) /\ drafted' = p
             \/ NotSaved(p) /\ UNCHANGED drafted
       \/ Works /\ UNCHANGED <<drafted, onDisk, stored, unsavedKey, removing, tomb>>
    /\ UNCHANGED <<editable, purging, modern, catalog, validating, commands, rekeyed, purged>>

-----------------------------------------------------------------------------
(* The CLI and the end of the process.                                     *)

\* Something is known, or being asked, that names no key it could be checked with.
Learned ==
    \/ catalog # Nothing \/ task.kind = "discovery"
    \/ \E p \in {drafted, onDisk, tomb} \ {Nothing} : p.seen # Nothing

\* `secrets set` on the provider in the file: the desktop learns nothing of it.
RotateByCli(k) ==
    /\ onDisk # Nothing /\ onDisk.auth = "store"
    /\ stored # k
    /\ Fails /\ stored' = k /\ rekeyed' = (rekeyed \/ Learned)
    /\ UNCHANGED <<editable, drafted, onDisk, tomb, purging, unsavedKey, removing, modern,
                   catalog, task, validating, commands, purged>>

\* The process ends and starts again: the draft is the file, and a purge that
\* cannot be finished makes the configuration read-only. Key and definition are
\* saved apart: of an edit that was not saved the store may have the key, of a
\* save that failed the file may have the definition. A queued removal is forgotten.
Restart ==
    /\ Fails
    /\ drafted' = onDisk /\ unsavedKey' = NoApiKey /\ removing' = FALSE
    /\ task' = NoTask /\ validating' = Nothing
    /\ rekeyed' = (rekeyed \/ drafted # onDisk \/ unsavedKey # NoApiKey)
    /\ IF purging /\ (tomb # Nothing \/ onDisk = Nothing)
       THEN \/ RecoveryEnds(tomb) /\ editable' = TRUE
            \/ RecoveryStops(tomb) /\ editable' = FALSE
       ELSE editable' = ~purging /\ UNCHANGED <<purging, stored>>
    /\ UNCHANGED <<onDisk, tomb, modern, catalog, commands, purged>>

-----------------------------------------------------------------------------
\* The name is unknown, or that of a legacy enterprise channel.
LifeInit ==
    /\ editable = TRUE
    /\ tomb = Nothing /\ purging = FALSE
    /\ \/ onDisk = Nothing /\ stored = NoApiKey /\ modern \in BOOLEAN
       \/ onDisk \in LegacyDefinitions /\ stored \in ApiKeys /\ modern = FALSE
    /\ drafted = onDisk /\ unsavedKey = NoApiKey /\ removing = FALSE
    /\ catalog = Nothing /\ task = NoTask /\ validating = Nothing
    /\ commands = 0 /\ trouble = 0
    /\ rekeyed = FALSE /\ purged = FALSE

LifeNext ==
    \/ RecoverPurge \/ Migrate \/ Remove \/ Restore \/ Purge \/ Save \/ Restart
    \/ ValidationEnds \/ DiscoveryStarts \/ ProbeStarts \/ ProbeReads
    \/ DiscoveryEnds \/ ProbeEnds
    \/ \E k \in ApiKeys :
          \/ Extend(k) \/ ValidationStarts(k) \/ RotateByCli(k)
          \/ \E p \in Ordinary : Add(p, k)
          \/ \E u \in Urls : CandidateDiscovery(u, k)
    \/ \E u \in Urls, a \in {"store", "reference"}, k \in ApiKeys \union {NoApiKey} :
          EditProvider(u, a, k)

LifeSpec == LifeInit /\ [][LifeNext]_lifeVars

-----------------------------------------------------------------------------
\* The types of the provider's state; a finished task leaves nothing behind.
ProviderTypeOK ==
    /\ editable \in BOOLEAN /\ purging \in BOOLEAN
    /\ {drafted, onDisk, tomb} \subseteq Definitions \union {Nothing}
    /\ {stored, unsavedKey} \subseteq ApiKeys \union {NoApiKey}
    /\ catalog \in Accounts \union {Nothing}
    /\ task \in {NoTask} \union
                [kind : {"discovery", "probe"}, url : Urls, key : Credentials \union {NoApiKey},
                 fresh : BOOLEAN]
    /\ validating = Nothing \/ validating.key \in ApiKeys
    /\ commands \in 0..MaxCommands /\ trouble \in 0..MaxTrouble
    /\ rekeyed \in BOOLEAN /\ purged \in BOOLEAN
    /\ removing \in BOOLEAN /\ modern \in BOOLEAN

\* Once a purge has come to its end the key it was about is gone, whatever
\* failed and however often the process ended in between.
PurgedKeyGone == purged /\ ~purging => stored = NoApiKey /\ unsavedKey = NoApiKey

\* A key is deleted from the store only once the draft and the file agree.  If no
\* migration queued it, neither of them nor the recycle bin has a provider of the name,
\* which might need it; if one did, no new key was waiting to be committed, because a
\* name that is reused with a new key before that save takes its removal off the queue.
KeyKeptWhileUsable ==
    [][stored # NoApiKey /\ stored' = NoApiKey =>
         /\ drafted' = onDisk'
         /\ \/ removing /\ unsavedKey = NoApiKey
            \/ drafted' = Nothing /\ tomb' = Nothing]_lifeVars

\* "An active Provider outside the recycle bin must retain its credential": no save
\* and no purge deletes the key that a provider in the draft is configured to use
\* (save_draft, after a migration and an edit_provider of the same name).
ActiveProviderKeepsKey ==
    [][stored # NoApiKey /\ stored' = NoApiKey /\ tomb' = Nothing
       => drafted' = Nothing \/ drafted'.auth = "reference"]_lifeVars

\* What is shown and trusted of a provider, the verdict of a vision probe and the
\* cached catalog of models, was learned of the address and the key it is used with,
\* as far as the desktop could know and as long as it has a key, whatever was edited,
\* replaced or rotated while the answer was on its way.
LearnedOfThisAccount ==
    drafted # Nothing /\ ~rekeyed /\ Credential(drafted) # NoApiKey =>
        LET account == [url |-> drafted.url, key |-> Credential(drafted)]
        IN  /\ drafted.seen \in {Nothing, account}
            /\ Free(drafted) \/ catalog \in {Nothing, account}

\* "A tombstoned Provider name must be restored, never silently replaced": what
\* is in the bin is not also in use, where it could be neither restored nor
\* purged nor removed again (archive, restore_provider).
ComesBackByRestore ==
    [][tomb # Nothing /\ ~Free(tomb) /\ drafted = Nothing /\ tomb' = tomb
       => drafted' = Nothing]_lifeVars

=============================================================================
