--------------------------- MODULE ProviderProofs ---------------------------
(***************************************************************************)
(* Proofs about ProviderLifecycle, for any addresses, keys and kinds of    *)
(* providers, any number of commands and any number of failures.           *)
(*                                                                         *)
(* The argument: what is under way and still fresh was asked of the        *)
(* provider as it is now, a key that is not saved belongs to a provider    *)
(* nothing was learned of yet and is not queued for removal, and a purged  *)
(* name is nowhere.                                                        *)
(***************************************************************************)
EXTENDS ProviderLifecycle, TLAPS

\* The account a provider would be used with now.
InUse(p) == [url |-> p.url, key |-> Credential(p)]

PurgedAll == purged => drafted = Nothing /\ onDisk = Nothing /\ tomb = Nothing

\* A key that waits to be saved is of a provider in the draft.
UnsavedDrafted == drafted = Nothing => unsavedKey = NoApiKey

\* A name that gets a new key is taken off pending_provider_key_removals.
NewKeyNotQueued == unsavedKey # NoApiKey => ~removing

\* Free providers are not probed.
FreeUnseen ==
    /\ Free(drafted) => drafted.seen = Nothing
    /\ Free(onDisk) => onDisk.seen = Nothing
    /\ Free(tomb) => tomb.seen = Nothing

\* A probe whose target is current is of the provider in the draft.
ProbeOfDraft ==
    task.kind = "probe" /\ task.fresh =>
        /\ drafted # Nothing /\ ~Free(drafted) /\ drafted.url = task.url
        /\ drafted.auth = "reference" <=> task.key = Outside

\* A discovery has a key, and asks the account in use if its target is current.
DiscoveryOfDraft ==
    task.kind = "discovery" =>
        /\ task.key # NoApiKey
        /\ task.fresh /\ drafted # Nothing /\ ~rekeyed /\ Credential(drafted) # NoApiKey =>
             task.url = drafted.url /\ task.key = Credential(drafted)

UnsavedUnseen ==
    unsavedKey # NoApiKey /\ ~rekeyed =>
        drafted.seen = Nothing /\ ~(task.kind = "probe" /\ task.fresh)

\* What a removed provider will come back with is still true of it.
BinLearned ==
    drafted = Nothing /\ tomb # Nothing /\ ~rekeyed /\ Credential(tomb) # NoApiKey =>
        tomb.seen \in {Nothing, InUse(tomb)}

LifeInv ==
    /\ ProviderTypeOK
    /\ PurgedAll /\ PurgedKeyGone
    /\ UnsavedDrafted /\ NewKeyNotQueued /\ UnsavedUnseen /\ FreeUnseen
    /\ ProbeOfDraft /\ DiscoveryOfDraft
    /\ LearnedOfThisAccount /\ BinLearned

Tasks == {NoTask} \union
         [kind : {"discovery", "probe"}, url : Urls, key : Credentials \union {NoApiKey},
          fresh : BOOLEAN]

-----------------------------------------------------------------------------
(* Operators.                                                              *)

LEMMA OvertakenIs ==
    ASSUME ProviderTypeOK
    PROVE  /\ Overtaken \in Tasks /\ Overtaken.fresh = FALSE
           /\ Overtaken.kind = task.kind /\ Overtaken.key = task.key
<1>1. task \in Tasks
  BY DEF ProviderTypeOK, Tasks
<1>2. CASE task = NoTask
  <2> DEFINE Empty == [kind : {"none"}, url : {Nothing}, key : {NoApiKey}, fresh : BOOLEAN]
  <2>1. /\ NoTask \in Empty /\ NoTask.fresh = FALSE /\ NoTask.kind = "none"
        /\ NoTask.key = NoApiKey
    BY DEF NoTask
  <2>2. /\ Overtaken \in Empty /\ Overtaken.fresh = FALSE /\ Overtaken.kind = "none"
        /\ Overtaken.key = NoApiKey
    BY <1>2, <2>1 DEF Overtaken
  <2>3. Overtaken = NoTask
    BY <2>1, <2>2
  <2> QED BY <1>2, <2>1, <2>2, <2>3 DEF Tasks
<1>3. CASE task # NoTask
  BY <1>1, <1>3 DEF Overtaken, Tasks
<1> QED BY <1>2, <1>3

LEMMA FreeIs ==
    /\ FreeDefinition \in Definitions /\ FreeDefinition # Nothing
    /\ Free(FreeDefinition) /\ FreeDefinition.seen = Nothing
    /\ FreeDefinition.url = FreeUrl /\ FreeDefinition.auth = "store"
BY ProviderAssumption
DEF ProviderAssumption, FreeDefinition, Definition, Definitions, Free

LEMMA OrdinaryIs ==
    ASSUME NEW p \in Ordinary
    PROVE  /\ p \in Definitions /\ p # Nothing /\ ~Free(p) /\ p.seen = Nothing
           /\ p.url \in Urls /\ p.auth \in {"store", "reference"}
BY ProviderAssumption DEF ProviderAssumption, Ordinary, Definition, Definitions, Free

LEMMA LegacyIs ==
    ASSUME NEW p \in LegacyDefinitions
    PROVE  p \in Definitions /\ p # Nothing /\ ~Free(p) /\ p.seen = Nothing
BY ProviderAssumption DEF ProviderAssumption, LegacyDefinitions, Definition, Definitions, Free

LEMMA DefinitionFields ==
    ASSUME NEW p \in Definitions
    PROVE  /\ p # Nothing
           /\ p.kind \in Kinds \union {"free"} /\ p.url \in Urls
           /\ p.auth \in {"store", "reference"} /\ p.seen \in Accounts \union {Nothing}
BY ProviderAssumption DEF ProviderAssumption, Definitions

LEMMA CountersOK ==
    ASSUME ProviderTypeOK
    PROVE  /\ Works \/ Fails => trouble' \in 0..MaxTrouble
           /\ Command => commands' \in 0..MaxCommands
BY ProviderAssumption
DEF ProviderAssumption, ProviderTypeOK, Works, Fails, Command

LEMMA Shape ==
    ASSUME ProviderTypeOK
    PROVE  /\ editable \in BOOLEAN /\ purging \in BOOLEAN
           /\ drafted \in Definitions \union {Nothing}
           /\ onDisk \in Definitions \union {Nothing} /\ tomb \in Definitions \union {Nothing}
           /\ stored \in ApiKeys \union {NoApiKey} /\ unsavedKey \in ApiKeys \union {NoApiKey}
           /\ catalog \in Accounts \union {Nothing} /\ task \in Tasks
           /\ validating = Nothing \/ validating.key \in ApiKeys
           /\ commands \in 0..MaxCommands /\ trouble \in 0..MaxTrouble
           /\ rekeyed \in BOOLEAN /\ purged \in BOOLEAN
           /\ removing \in BOOLEAN /\ modern \in BOOLEAN
BY DEF ProviderTypeOK, Tasks

\* What is left of a save, done or failed.
LEMMA SaveLeaves ==
    ASSUME LifeInv, NEW p \in Definitions \union {Nothing}, Saved(p) \/ NotSaved(p)
    PROVE  /\ trouble' \in 0..MaxTrouble
           /\ {onDisk', tomb'} \subseteq Definitions \union {Nothing}
           /\ onDisk' \in {onDisk, p} /\ tomb' \in {tomb, Nothing}
           /\ {stored', unsavedKey'} \subseteq ApiKeys \union {NoApiKey}
           /\ removing' \in BOOLEAN /\ (removing' => removing)
           /\ unsavedKey = NoApiKey => stored' \in {stored, NoApiKey} /\ unsavedKey' = NoApiKey
           /\ unsavedKey # NoApiKey =>
                \/ stored' = unsavedKey /\ unsavedKey' = NoApiKey
                \/ unsavedKey' = unsavedKey
<1>1. /\ tomb \in Definitions \union {Nothing} /\ onDisk \in Definitions \union {Nothing}
      /\ stored \in ApiKeys \union {NoApiKey} /\ unsavedKey \in ApiKeys \union {NoApiKey}
      /\ removing \in BOOLEAN /\ (unsavedKey # NoApiKey => ~removing)
  BY Shape DEF LifeInv, NewKeyNotQueued
<1>2. trouble' \in 0..MaxTrouble
  BY CountersOK DEF Saved, NotSaved, LifeInv
<1>3. CASE Saved(p) /\ unsavedKey = NoApiKey
  BY <1>1, <1>2, <1>3 DEF Saved, CommittedKey
<1>4. CASE Saved(p) /\ unsavedKey # NoApiKey
  BY <1>1, <1>2, <1>4 DEF Saved, CommittedKey
<1>5. CASE NotSaved(p)
  BY <1>1, <1>2, <1>5 DEF NotSaved
<1> QED BY <1>3, <1>4, <1>5

-----------------------------------------------------------------------------
(* One action at a time.                                                   *)

\* All the properties look at.
LEMMA SameStep ==
    ASSUME LifeInv, ProviderTypeOK',
           UNCHANGED <<drafted, onDisk, tomb, purging, stored, unsavedKey, removing, catalog,
                       task, rekeyed, purged>>
    PROVE  LifeInv'
BY DEF LifeInv, PurgedAll, PurgedKeyGone, UnsavedDrafted, NewKeyNotQueued, UnsavedUnseen,
    FreeUnseen, Free,
       ProbeOfDraft, DiscoveryOfDraft, LearnedOfThisAccount, BinLearned, InUse, Credential

LEMMA RecoverPurgeStep ==
    ASSUME LifeInv, RecoverPurge
    PROVE  LifeInv'
<1> USE OvertakenIs
    DEF LifeInv, RecoverPurge, RecoveryEnds, RecoveryStops, PurgeMayFinish, PricesSaved
<1>1. ProviderTypeOK'
  BY CountersOK
  DEF ProviderTypeOK, Tasks
<1>2. /\ PurgedAll' /\ PurgedKeyGone' /\ UnsavedDrafted'
      /\ NewKeyNotQueued' /\ UnsavedUnseen' /\ FreeUnseen'
  BY DEF PurgedAll, PurgedKeyGone, UnsavedDrafted, NewKeyNotQueued, UnsavedUnseen,
      FreeUnseen
<1>3. ProbeOfDraft' /\ DiscoveryOfDraft'
  BY DEF ProbeOfDraft, DiscoveryOfDraft, UnsavedDrafted, Credential
<1>4. LearnedOfThisAccount' /\ BinLearned'
  BY DEF ProbeOfDraft, DiscoveryOfDraft, LearnedOfThisAccount, BinLearned, InUse, Asked,
      UnsavedDrafted, UnsavedUnseen, Credential
<1> QED BY <1>1, <1>2, <1>3, <1>4

LEMMA AddStep ==
    ASSUME LifeInv, NEW p \in Ordinary, NEW k \in ApiKeys, Add(p, k)
    PROVE  LifeInv'
<1>1. /\ drafted = Nothing /\ unsavedKey = NoApiKey /\ tomb = Nothing /\ catalog' = Nothing
      /\ UNCHANGED <<editable, onDisk, tomb, purging, stored, modern, validating>>
      /\ commands' \in 0..MaxCommands /\ trouble' \in 0..MaxTrouble
  BY CountersOK DEF LifeInv, Add, UnsavedDrafted
<1>2. CASE UNCHANGED <<drafted, task, unsavedKey, removing, rekeyed, purged>>
  <2>1. ProviderTypeOK'
    BY <1>1, <1>2 DEF LifeInv, ProviderTypeOK
  <2> QED
    BY <1>1, <1>2, <2>1
    DEF LifeInv, PurgedAll, PurgedKeyGone, UnsavedDrafted, NewKeyNotQueued, UnsavedUnseen,
        FreeUnseen, Free,
        ProbeOfDraft, DiscoveryOfDraft, LearnedOfThisAccount, BinLearned
<1>3. CASE /\ drafted' = p /\ task' = Overtaken /\ rekeyed' = FALSE /\ purged' = FALSE
           /\ \/ unsavedKey' = k /\ removing' = FALSE
              \/ UNCHANGED <<unsavedKey, removing>>
  <2>1. p \in Definitions /\ p # Nothing /\ ~Free(p) /\ p.seen = Nothing
    BY OrdinaryIs
  <2>2. ProviderTypeOK'
    BY <1>1, <1>3, <2>1, OvertakenIs DEF LifeInv, ProviderTypeOK, Tasks
  <2>3. ~Free(drafted)' /\ (Free(onDisk)' <=> Free(onDisk)) /\ (Free(tomb)' <=> Free(tomb))
    BY <1>1, <1>3, <2>1 DEF Free
  <2> QED
    BY <1>1, <1>3, <2>1, <2>2, <2>3, OvertakenIs
    DEF LifeInv, PurgedAll, PurgedKeyGone, UnsavedDrafted, NewKeyNotQueued, UnsavedUnseen,
        FreeUnseen,
        ProbeOfDraft, DiscoveryOfDraft, LearnedOfThisAccount, BinLearned
<1>4. p # Nothing
  BY OrdinaryIs
<1>5. ASSUME AddKey(p, k)
      PROVE  \/ unsavedKey' = k /\ removing' = FALSE
             \/ UNCHANGED <<unsavedKey, removing>>
  <2>1. CASE p.auth = "store"
    BY <1>5, <2>1 DEF AddKey
  <2>2. CASE p.auth # "store"
    <3>1. removing \in BOOLEAN
      BY Shape DEF LifeInv
    <3> QED BY <1>5, <2>2, <3>1 DEF AddKey
  <2> QED BY <2>1, <2>2
<1> QED BY <1>1, <1>2, <1>3, <1>4, <1>5 DEF Add, Draft

\* A migration leaves nothing in the draft; what the bin has is no longer vouched for.
LEMMA MigrateStep ==
    ASSUME LifeInv, Migrate
    PROVE  LifeInv'
<1>1. /\ drafted # Nothing
      /\ UNCHANGED <<editable, onDisk, tomb, purging, stored, modern, validating, purged>>
      /\ commands' \in 0..MaxCommands /\ trouble' \in 0..MaxTrouble
      /\ catalog' \in {catalog, Nothing}
  BY CountersOK DEF LifeInv, Migrate
<1>2. ~purged
  BY <1>1 DEF LifeInv, PurgedAll
<1>3. CASE UNCHANGED <<drafted, task, unsavedKey, removing, rekeyed>>
  <2>1. ProviderTypeOK'
    BY <1>1, <1>3 DEF LifeInv, ProviderTypeOK
  <2> QED
    BY <1>1, <1>3, <2>1
    DEF LifeInv, PurgedAll, PurgedKeyGone, UnsavedDrafted, NewKeyNotQueued, UnsavedUnseen,
        FreeUnseen, Free, ProbeOfDraft, DiscoveryOfDraft, LearnedOfThisAccount, BinLearned,
        InUse, Credential
<1>4. CASE /\ Draft(Nothing) /\ unsavedKey' = NoApiKey /\ removing' = TRUE
           /\ rekeyed' = (rekeyed \/ tomb # Nothing)
  <2>1. drafted' = Nothing /\ task' = Overtaken
    BY <1>1, <1>4 DEF Draft
  <2>2. rekeyed' \in BOOLEAN /\ (~rekeyed' => tomb = Nothing)
    BY <1>4, Shape DEF LifeInv
  <2>3. ProviderTypeOK'
    BY <1>1, <1>4, <2>1, <2>2, OvertakenIs DEF LifeInv, ProviderTypeOK, Tasks
  <2> QED
    BY <1>1, <1>2, <1>4, <2>1, <2>2, <2>3, OvertakenIs
    DEF LifeInv, PurgedAll, PurgedKeyGone, UnsavedDrafted, NewKeyNotQueued, UnsavedUnseen,
        FreeUnseen, Free, ProbeOfDraft, DiscoveryOfDraft, LearnedOfThisAccount, BinLearned
<1> QED BY <1>1, <1>3, <1>4 DEF Migrate

LEMMA ExtendStep ==
    ASSUME LifeInv, NEW k \in ApiKeys, Extend(k)
    PROVE  LifeInv'
<1> DEFINE p == [drafted EXCEPT !.auth = "store"]
<1>1. /\ drafted # Nothing /\ drafted.kind = "managed" /\ drafted' = p
      /\ unsavedKey' = k /\ removing' = FALSE /\ rekeyed' = TRUE
      /\ task' = IF p = drafted THEN task ELSE Overtaken
      /\ UNCHANGED <<editable, onDisk, tomb, purging, stored, modern, catalog, validating,
                     purged>>
      /\ commands' \in 0..MaxCommands /\ trouble' \in 0..MaxTrouble
  BY CountersOK DEF LifeInv, Extend, Draft
<1>2. drafted \in Definitions /\ p \in Definitions /\ p.kind = "managed" /\ p # Nothing
  BY <1>1, Shape, DefinitionFields DEF LifeInv, Definitions
<1> HIDE DEF p
<1>3. ProviderTypeOK'
  BY <1>1, <1>2, OvertakenIs DEF LifeInv, ProviderTypeOK, Tasks
<1>4. ~Free(drafted)' /\ (Free(onDisk)' <=> Free(onDisk)) /\ (Free(tomb)' <=> Free(tomb))
  BY <1>1, <1>2 DEF Free
<1>5. /\ PurgedAll' /\ PurgedKeyGone' /\ UnsavedDrafted'
      /\ NewKeyNotQueued' /\ UnsavedUnseen' /\ FreeUnseen'
  BY <1>1, <1>2, <1>4
  DEF LifeInv, PurgedAll, PurgedKeyGone, UnsavedDrafted, NewKeyNotQueued, UnsavedUnseen,
      FreeUnseen
<1>6. ProbeOfDraft' /\ DiscoveryOfDraft' /\ LearnedOfThisAccount' /\ BinLearned'
  <2>1. CASE p = drafted
    BY <1>1, <1>4, <2>1
    DEF LifeInv, ProbeOfDraft, DiscoveryOfDraft, LearnedOfThisAccount, BinLearned
  <2>2. CASE p # drafted
    BY <1>1, <1>4, <2>2, OvertakenIs
    DEF LifeInv, ProbeOfDraft, DiscoveryOfDraft, LearnedOfThisAccount, BinLearned
  <2> QED BY <2>1, <2>2
<1> QED BY <1>3, <1>5, <1>6 DEF LifeInv

\* What the edit keeps it was true of; of what it replaces nothing is left.
LEMMA EditStep ==
    ASSUME LifeInv, NEW u \in Urls, NEW a \in {"store", "reference"},
           NEW k \in ApiKeys \union {NoApiKey}, EditProvider(u, a, k)
    PROVE  LifeInv'
<1>1. /\ drafted # Nothing /\ ~Free(drafted) /\ drafted \in Definitions
      /\ UNCHANGED <<editable, onDisk, tomb, purging, unsavedKey, removing, modern,
                     validating, purged>>
      /\ commands' \in 0..MaxCommands /\ trouble' \in 0..MaxTrouble
  BY CountersOK, Shape DEF LifeInv, EditProvider
<1>2. purged = FALSE
  BY <1>1, Shape DEF LifeInv, PurgedAll
<1>3. CASE /\ drafted' = Edited(u, a, k) /\ Identity(u, a, k)
           /\ task' = IF drafted' = drafted /\ k = NoApiKey THEN task ELSE Overtaken
           /\ stored' = IF k = NoApiKey THEN stored ELSE k
           /\ rekeyed' = (rekeyed /\ ~Identity(u, a, k)) /\ catalog' = Nothing
  <2>1. /\ drafted' \in Definitions /\ drafted' # Nothing /\ drafted'.seen = Nothing
        /\ drafted'.url = u /\ drafted'.auth = a /\ drafted'.kind = drafted.kind
    <3>1. Edited(u, a, k) = [drafted EXCEPT !.url = u, !.auth = a, !.seen = Nothing]
      BY <1>3 DEF Edited
    <3>2. Edited(u, a, k) \in Definitions
      BY <1>1, <3>1 DEF Definitions
    <3> QED BY <1>1, <1>3, <3>1, <3>2, DefinitionFields DEF Definitions
  <2>2. task' = Overtaken
    BY <1>3, <2>1 DEF Identity
  <2>3. ~rekeyed' /\ rekeyed' \in BOOLEAN
    BY <1>3
  <2>4. ProviderTypeOK'
    BY <1>1, <1>3, <2>1, <2>2, <2>3, OvertakenIs DEF LifeInv, ProviderTypeOK, Tasks
  <2>5. ~Free(drafted)' /\ (Free(onDisk)' <=> Free(onDisk)) /\ (Free(tomb)' <=> Free(tomb))
    BY <1>1, <2>1 DEF Free
  <2> QED
    BY <1>1, <1>2, <1>3, <2>1, <2>2, <2>4, <2>5, OvertakenIs
    DEF LifeInv, PurgedAll, PurgedKeyGone, UnsavedDrafted, NewKeyNotQueued, UnsavedUnseen,
        FreeUnseen,
        ProbeOfDraft, DiscoveryOfDraft, LearnedOfThisAccount, BinLearned
<1>4. CASE /\ drafted' = Edited(u, a, k) /\ ~Identity(u, a, k)
           /\ task' = IF drafted' = drafted /\ k = NoApiKey THEN task ELSE Overtaken
           /\ stored' = IF k = NoApiKey THEN stored ELSE k
           /\ rekeyed' = (rekeyed /\ ~Identity(u, a, k)) /\ catalog' = catalog
  <2>1. k = NoApiKey /\ drafted.url = u /\ drafted.auth = a
    BY <1>4 DEF Identity
  <2>2. /\ drafted' \in Definitions /\ drafted'.url = drafted.url
        /\ drafted'.auth = drafted.auth /\ drafted'.kind = drafted.kind
        /\ drafted'.seen = drafted.seen
    BY <1>1, <1>4, <2>1 DEF Edited, Definitions
  <2>3. drafted' = drafted
    BY <1>1, <2>2 DEF Definitions
  <2>4. rekeyed' = rekeyed
    BY <1>4, Shape DEF LifeInv
  <2>5. task' = task /\ stored' = stored
    BY <1>4, <2>1, <2>3
  <2>6. ProviderTypeOK'
    BY <1>1, <1>4, <2>3, <2>4, <2>5 DEF LifeInv, ProviderTypeOK
  <2> QED BY <1>1, <1>4, <2>3, <2>4, <2>5, <2>6, SameStep
<1>5. CASE /\ drafted' = drafted /\ task' \in {task, Overtaken}
           /\ stored' \in {stored} \union (IF k = NoApiKey THEN {} ELSE {k})
           /\ rekeyed' = (rekeyed \/ stored' # stored)
           /\ catalog' \in {catalog, Nothing}
  <2>1. rekeyed' \in BOOLEAN /\ (~rekeyed' => ~rekeyed /\ stored' = stored)
    BY <1>5, Shape DEF LifeInv
  <2>2. ProviderTypeOK'
    BY <1>1, <1>5, <2>1, OvertakenIs DEF LifeInv, ProviderTypeOK, Tasks
  <2>3. /\ Free(drafted)' <=> Free(drafted)
        /\ Free(onDisk)' <=> Free(onDisk)
        /\ Free(tomb)' <=> Free(tomb)
    BY <1>1, <1>5 DEF Free
  <2>4. /\ PurgedAll' /\ PurgedKeyGone' /\ UnsavedDrafted'
        /\ NewKeyNotQueued' /\ UnsavedUnseen' /\ FreeUnseen'
    BY <1>1, <1>2, <1>5, <2>1, <2>3, OvertakenIs
    DEF LifeInv, PurgedAll, PurgedKeyGone, UnsavedDrafted, NewKeyNotQueued, UnsavedUnseen,
        FreeUnseen
  <2>5. ProbeOfDraft' /\ DiscoveryOfDraft'
    BY <1>1, <1>5, <2>1, OvertakenIs
    DEF LifeInv, Free, ProbeOfDraft, DiscoveryOfDraft, Credential
  <2>6. LearnedOfThisAccount' /\ BinLearned'
    BY <1>1, <1>5, <2>1, <2>3 DEF LifeInv, LearnedOfThisAccount, BinLearned, Credential
  <2> QED BY <2>2, <2>4, <2>5, <2>6 DEF LifeInv
<1> QED BY <1>3, <1>4, <1>5 DEF EditProvider

LEMMA RemoveStep ==
    ASSUME LifeInv, Remove
    PROVE  LifeInv'
<1> USE DEF LifeInv, Remove, Draft
<1>1. ProviderTypeOK'
  BY CountersOK, OvertakenIs
  DEF ProviderTypeOK, Tasks
<1>2. /\ PurgedAll' /\ PurgedKeyGone' /\ UnsavedDrafted'
      /\ NewKeyNotQueued' /\ UnsavedUnseen' /\ FreeUnseen'
  BY OvertakenIs
  DEF PurgedAll, PurgedKeyGone, UnsavedDrafted, NewKeyNotQueued, UnsavedUnseen, FreeUnseen
<1>3. ProbeOfDraft' /\ DiscoveryOfDraft'
  BY OvertakenIs
  DEF ProbeOfDraft, DiscoveryOfDraft, UnsavedDrafted, Credential
<1>4. LearnedOfThisAccount' /\ BinLearned'
  BY OvertakenIs
  DEF ProbeOfDraft, DiscoveryOfDraft, LearnedOfThisAccount, BinLearned, InUse, Asked,
      UnsavedDrafted, UnsavedUnseen, Credential
<1> QED BY <1>1, <1>2, <1>3, <1>4

LEMMA RestoreStep ==
    ASSUME LifeInv, Restore
    PROVE  LifeInv'
<1> USE DEF LifeInv, Restore, Draft
<1>1. ProviderTypeOK'
  BY CountersOK, OvertakenIs
  DEF ProviderTypeOK, Tasks
<1>2. /\ PurgedAll' /\ PurgedKeyGone' /\ UnsavedDrafted'
      /\ NewKeyNotQueued' /\ UnsavedUnseen' /\ FreeUnseen'
  BY OvertakenIs
  DEF PurgedAll, PurgedKeyGone, UnsavedDrafted, NewKeyNotQueued, UnsavedUnseen, FreeUnseen
<1>3. ProbeOfDraft' /\ DiscoveryOfDraft'
  BY OvertakenIs
  DEF ProbeOfDraft, DiscoveryOfDraft, UnsavedDrafted, Credential
<1>4. LearnedOfThisAccount' /\ BinLearned'
  BY OvertakenIs
  DEF ProbeOfDraft, DiscoveryOfDraft, LearnedOfThisAccount, BinLearned, InUse, Asked,
      UnsavedDrafted, UnsavedUnseen, Credential
<1> QED BY <1>1, <1>2, <1>3, <1>4

LEMMA PurgeStep ==
    ASSUME LifeInv, Purge
    PROVE  LifeInv'
<1> USE DEF LifeInv, Purge, RecoveryEnds, RecoveryStops, PricesSaved
<1>1. ProviderTypeOK'
  BY CountersOK, OvertakenIs
  DEF ProviderTypeOK, Tasks
<1>2. /\ PurgedAll' /\ PurgedKeyGone' /\ UnsavedDrafted'
      /\ NewKeyNotQueued' /\ UnsavedUnseen' /\ FreeUnseen'
  BY OvertakenIs
  DEF PurgedAll, PurgedKeyGone, UnsavedDrafted, NewKeyNotQueued, UnsavedUnseen, FreeUnseen
<1>3. ProbeOfDraft' /\ DiscoveryOfDraft'
  BY OvertakenIs
  DEF ProbeOfDraft, DiscoveryOfDraft, UnsavedDrafted, Credential
<1>4. LearnedOfThisAccount' /\ BinLearned'
  BY OvertakenIs
  DEF ProbeOfDraft, DiscoveryOfDraft, LearnedOfThisAccount, BinLearned, InUse, Asked,
      UnsavedDrafted, UnsavedUnseen, Credential
<1> QED BY <1>1, <1>2, <1>3, <1>4

\* A save moves the key that waits, and the account in use stays the same.
LEMMA SaveStep ==
    ASSUME LifeInv, Save
    PROVE  LifeInv'
<1>1. /\ Saved(drafted) \/ NotSaved(drafted)
      /\ task' \in {task, Overtaken}
      /\ UNCHANGED <<editable, drafted, purging, modern, catalog, validating, commands,
                     rekeyed, purged>>
  BY DEF Save
<1>2. /\ trouble' \in 0..MaxTrouble
      /\ {onDisk', tomb'} \subseteq Definitions \union {Nothing}
      /\ onDisk' \in {onDisk, drafted} /\ tomb' \in {tomb, Nothing}
      /\ {stored', unsavedKey'} \subseteq ApiKeys \union {NoApiKey}
      /\ removing' \in BOOLEAN /\ (removing' => removing)
      /\ unsavedKey = NoApiKey => stored' \in {stored, NoApiKey} /\ unsavedKey' = NoApiKey
      /\ unsavedKey # NoApiKey =>
           \/ stored' = unsavedKey /\ unsavedKey' = NoApiKey
           \/ unsavedKey' = unsavedKey
  BY <1>1, Shape, SaveLeaves DEF LifeInv
<1>3. ProviderTypeOK'
  BY <1>1, <1>2, OvertakenIs DEF LifeInv, ProviderTypeOK, Tasks
<1>4. /\ Free(drafted)' <=> Free(drafted)
      /\ Free(onDisk)' => \/ Free(onDisk) /\ onDisk' = onDisk
                          \/ Free(drafted) /\ onDisk' = drafted
      /\ Free(tomb)' => Free(tomb) /\ tomb' = tomb
  BY <1>1, <1>2 DEF Free
<1>5. purged => /\ onDisk' = Nothing /\ tomb' = Nothing /\ drafted' = Nothing
                /\ unsavedKey' = NoApiKey /\ stored' \in {stored, NoApiKey}
  BY <1>1, <1>2 DEF LifeInv, PurgedAll, UnsavedDrafted
<1>6. /\ PurgedAll' /\ PurgedKeyGone' /\ UnsavedDrafted'
      /\ NewKeyNotQueued' /\ UnsavedUnseen' /\ FreeUnseen'
  BY <1>1, <1>2, <1>4, <1>5, OvertakenIs
  DEF LifeInv, PurgedAll, PurgedKeyGone, UnsavedDrafted, NewKeyNotQueued, UnsavedUnseen,
      FreeUnseen
<1>7. Credential(drafted)' \in {Credential(drafted), NoApiKey}
  BY <1>1, <1>2 DEF Credential
<1>8. ProbeOfDraft' /\ DiscoveryOfDraft' /\ LearnedOfThisAccount'
  BY <1>1, <1>4, <1>7, OvertakenIs
  DEF LifeInv, ProbeOfDraft, DiscoveryOfDraft, LearnedOfThisAccount
<1>9. BinLearned'
  BY <1>1, <1>2 DEF LifeInv, UnsavedDrafted, BinLearned, InUse, Credential
<1> QED BY <1>3, <1>6, <1>8, <1>9 DEF LifeInv

LEMMA ValidationStartsStep ==
    ASSUME LifeInv, NEW k \in ApiKeys, ValidationStarts(k)
    PROVE  LifeInv'
<1> USE DEF LifeInv, ValidationStarts
<1>1. ProviderTypeOK'
  BY CountersOK
  DEF ProviderTypeOK, Tasks
<1>2. /\ PurgedAll' /\ PurgedKeyGone' /\ UnsavedDrafted'
      /\ NewKeyNotQueued' /\ UnsavedUnseen' /\ FreeUnseen'
  BY DEF PurgedAll, PurgedKeyGone, UnsavedDrafted, NewKeyNotQueued, UnsavedUnseen,
      FreeUnseen
<1>3. ProbeOfDraft' /\ DiscoveryOfDraft'
  BY DEF ProbeOfDraft, DiscoveryOfDraft, UnsavedDrafted, Credential
<1>4. LearnedOfThisAccount' /\ BinLearned'
  BY DEF ProbeOfDraft, DiscoveryOfDraft, LearnedOfThisAccount, BinLearned, InUse, Asked,
      UnsavedDrafted, UnsavedUnseen, Credential
<1> QED BY <1>1, <1>2, <1>3, <1>4

LEMMA ValidationEndsStep ==
    ASSUME LifeInv, ValidationEnds
    PROVE  LifeInv'
<1>1. /\ validating # Nothing /\ validating' = Nothing
      /\ UNCHANGED <<editable, onDisk, tomb, purging, stored, modern, catalog, commands,
                     trouble>>
  BY DEF ValidationEnds
<1>2. CASE UNCHANGED <<drafted, task, unsavedKey, removing, rekeyed, purged>>
  <2>1. ProviderTypeOK'
    BY <1>1, <1>2 DEF LifeInv, ProviderTypeOK
  <2> QED BY <1>1, <1>2, <2>1, SameStep
<1>3. CASE /\ drafted = Nothing /\ Draft(FreeDefinition) /\ unsavedKey' = validating.key
           /\ removing' = FALSE /\ purged' = FALSE /\ rekeyed' = FALSE
  <2>1. /\ drafted' = FreeDefinition /\ drafted' # Nothing /\ drafted' \in Definitions
        /\ drafted'.seen = Nothing /\ task' = Overtaken /\ unsavedKey' \in ApiKeys
    BY <1>1, <1>3, FreeIs, Shape DEF LifeInv, Draft
  <2>2. ProviderTypeOK'
    BY <1>1, <1>3, <2>1, OvertakenIs DEF LifeInv, ProviderTypeOK, Tasks
  <2>3. Free(drafted)' /\ (Free(onDisk)' <=> Free(onDisk)) /\ (Free(tomb)' <=> Free(tomb))
    BY <1>1, <2>1, FreeIs DEF Free
  <2> QED
    BY <1>1, <1>3, <2>1, <2>2, <2>3, OvertakenIs
    DEF LifeInv, PurgedAll, PurgedKeyGone, UnsavedDrafted, NewKeyNotQueued, UnsavedUnseen,
        FreeUnseen,
        ProbeOfDraft, DiscoveryOfDraft, LearnedOfThisAccount, BinLearned
<1> QED BY <1>2, <1>3 DEF ValidationEnds

LEMMA DiscoveryStartsStep ==
    ASSUME LifeInv, DiscoveryStarts
    PROVE  LifeInv'
<1> USE DEF LifeInv, DiscoveryStarts
<1>1. ProviderTypeOK'
  BY CountersOK, Shape, DefinitionFields
  DEF ProviderTypeOK, Tasks, Credentials, NoTask, Credential
<1>2. /\ PurgedAll' /\ PurgedKeyGone' /\ UnsavedDrafted'
      /\ NewKeyNotQueued' /\ UnsavedUnseen' /\ FreeUnseen'
  BY DEF PurgedAll, PurgedKeyGone, UnsavedDrafted, NewKeyNotQueued, UnsavedUnseen,
      FreeUnseen
<1>3. ProbeOfDraft' /\ DiscoveryOfDraft'
  BY DEF ProbeOfDraft, DiscoveryOfDraft, UnsavedDrafted, Credential
<1>4. LearnedOfThisAccount' /\ BinLearned'
  BY DEF ProbeOfDraft, DiscoveryOfDraft, LearnedOfThisAccount, BinLearned, InUse, Asked,
      UnsavedDrafted, UnsavedUnseen, Credential
<1> QED BY <1>1, <1>2, <1>3, <1>4

LEMMA CandidateDiscoveryStep ==
    ASSUME LifeInv, NEW u \in Urls, NEW k \in ApiKeys, CandidateDiscovery(u, k)
    PROVE  LifeInv'
<1> USE DEF LifeInv, CandidateDiscovery
<1>1. ProviderTypeOK'
  BY CountersOK
  DEF ProviderTypeOK, Tasks, Credentials, NoTask
<1>2. /\ PurgedAll' /\ PurgedKeyGone' /\ UnsavedDrafted'
      /\ NewKeyNotQueued' /\ UnsavedUnseen' /\ FreeUnseen'
  BY DEF PurgedAll, PurgedKeyGone, UnsavedDrafted, NewKeyNotQueued, UnsavedUnseen,
      FreeUnseen
<1>3. ProbeOfDraft' /\ DiscoveryOfDraft'
  BY Shape, DefinitionFields, ProviderAssumption
  DEF ProviderAssumption, ProbeOfDraft, DiscoveryOfDraft, UnsavedDrafted, Credential
<1>4. LearnedOfThisAccount' /\ BinLearned'
  BY DEF ProbeOfDraft, DiscoveryOfDraft, LearnedOfThisAccount, BinLearned, InUse, Asked,
      UnsavedDrafted, UnsavedUnseen, Credential
<1> QED BY <1>1, <1>2, <1>3, <1>4

LEMMA ProbeStartsStep ==
    ASSUME LifeInv, ProbeStarts
    PROVE  LifeInv'
<1> USE DEF LifeInv, ProbeStarts
<1>1. ProviderTypeOK'
  BY CountersOK, Shape, DefinitionFields
  DEF ProviderTypeOK, Tasks, Credentials, NoTask
<1>2. /\ PurgedAll' /\ PurgedKeyGone' /\ UnsavedDrafted'
      /\ NewKeyNotQueued' /\ UnsavedUnseen' /\ FreeUnseen'
  BY DEF PurgedAll, PurgedKeyGone, UnsavedDrafted, NewKeyNotQueued, UnsavedUnseen,
      FreeUnseen
<1>3. ProbeOfDraft' /\ DiscoveryOfDraft'
  BY Shape, DefinitionFields, ProviderAssumption
  DEF ProviderAssumption, ProbeOfDraft, DiscoveryOfDraft, UnsavedDrafted, Credential
<1>4. LearnedOfThisAccount' /\ BinLearned'
  BY DEF ProbeOfDraft, DiscoveryOfDraft, LearnedOfThisAccount, BinLearned, InUse, Asked,
      UnsavedDrafted, UnsavedUnseen, Credential
<1> QED BY <1>1, <1>2, <1>3, <1>4

LEMMA ProbeReadsStep ==
    ASSUME LifeInv, ProbeReads
    PROVE  LifeInv'
<1>1. /\ task.kind = "probe" /\ task.key = NoApiKey /\ task # NoTask /\ task \in Tasks
      /\ UNCHANGED <<editable, drafted, onDisk, tomb, purging, stored, unsavedKey, removing,
                     modern, catalog, validating, commands, trouble, rekeyed, purged>>
  BY Shape DEF LifeInv, ProbeReads, NoTask
<1>2. CASE task' = NoTask
  <2>1. task'.kind = "none"
    BY <1>2 DEF NoTask
  <2>2. ProviderTypeOK'
    BY <1>1, <1>2 DEF LifeInv, ProviderTypeOK
  <2> QED
    BY <1>1, <2>1, <2>2
    DEF LifeInv, PurgedAll, PurgedKeyGone, UnsavedDrafted, NewKeyNotQueued, UnsavedUnseen,
        FreeUnseen, Free,
        ProbeOfDraft, DiscoveryOfDraft, LearnedOfThisAccount, BinLearned, InUse, Credential
<1>3. CASE stored # NoApiKey /\ task' = [task EXCEPT !.key = stored]
  <2>1. stored \in ApiKeys /\ stored # Outside /\ NoApiKey # Outside
    BY <1>3, Shape, ProviderAssumption DEF ProviderAssumption, LifeInv
  <2>2. /\ task' \in Tasks /\ task'.kind = "probe" /\ task'.key = stored
        /\ task'.url = task.url /\ task'.fresh = task.fresh
    BY <1>1, <1>3, <2>1 DEF Tasks, Credentials
  <2>3. ProviderTypeOK'
    BY <1>1, <2>2 DEF LifeInv, ProviderTypeOK, Tasks
  <2> QED
    BY <1>1, <2>1, <2>2, <2>3
    DEF LifeInv, PurgedAll, PurgedKeyGone, UnsavedDrafted, NewKeyNotQueued, UnsavedUnseen,
        FreeUnseen, Free,
        ProbeOfDraft, DiscoveryOfDraft, LearnedOfThisAccount, BinLearned, InUse, Credential
<1> QED BY <1>2, <1>3 DEF ProbeReads

\* The catalog of a discovery is kept only if it is of the account in use.
LEMMA DiscoveryEndsStep ==
    ASSUME LifeInv, DiscoveryEnds
    PROVE  LifeInv'
<1>1. /\ task.kind = "discovery" /\ task # NoTask /\ task \in Tasks
      /\ task' = NoTask /\ task'.kind = "none"
      /\ UNCHANGED <<editable, drafted, purging, modern, validating, commands, rekeyed,
                     purged>>
  BY Shape DEF LifeInv, DiscoveryEnds, TaskEnds, NoTask
<1>2. /\ trouble' \in 0..MaxTrouble
      /\ {onDisk', tomb'} \subseteq Definitions \union {Nothing}
      /\ onDisk' \in {onDisk, drafted} /\ tomb' \in {tomb, Nothing}
      /\ {stored', unsavedKey'} \subseteq ApiKeys \union {NoApiKey}
      /\ removing' \in BOOLEAN /\ (removing' => removing)
      /\ unsavedKey = NoApiKey => stored' \in {stored, NoApiKey} /\ unsavedKey' = NoApiKey
      /\ unsavedKey # NoApiKey =>
           \/ stored' = unsavedKey /\ unsavedKey' = NoApiKey
           \/ unsavedKey' = unsavedKey
      /\ drafted = Nothing => UNCHANGED <<onDisk, stored, unsavedKey, removing, tomb>>
  <2>1. \/ Works /\ UNCHANGED <<onDisk, stored, unsavedKey, removing, tomb>>
        \/ drafted # Nothing /\ (Saved(drafted) \/ NotSaved(drafted))
    BY DEF DiscoveryEnds
  <2>2. CASE Works /\ UNCHANGED <<onDisk, stored, unsavedKey, removing, tomb>>
    BY <2>2, Shape, CountersOK DEF LifeInv
  <2>3. CASE drafted # Nothing /\ (Saved(drafted) \/ NotSaved(drafted))
    BY <2>3, Shape, SaveLeaves DEF LifeInv
  <2> QED BY <2>1, <2>2, <2>3
<1>3. catalog' = catalog \/ (task.fresh /\ catalog' = Asked)
  BY DEF DiscoveryEnds, TargetUnchanged
<1>4. Asked \in Accounts
  BY <1>1 DEF LifeInv, DiscoveryOfDraft, Asked, Accounts, Tasks
<1>5. ProviderTypeOK'
  BY <1>1, <1>2, <1>3, <1>4 DEF LifeInv, ProviderTypeOK
<1>6. /\ Free(drafted)' <=> Free(drafted)
      /\ Free(onDisk)' => \/ Free(onDisk) /\ onDisk' = onDisk
                          \/ Free(drafted) /\ onDisk' = drafted
      /\ Free(tomb)' => Free(tomb) /\ tomb' = tomb
  BY <1>1, <1>2 DEF Free
<1>7. /\ PurgedAll' /\ PurgedKeyGone' /\ UnsavedDrafted'
      /\ NewKeyNotQueued' /\ UnsavedUnseen' /\ FreeUnseen'
  BY <1>1, <1>2, <1>6
  DEF LifeInv, PurgedAll, PurgedKeyGone, UnsavedDrafted, NewKeyNotQueued, UnsavedUnseen,
      FreeUnseen
<1>8. ProbeOfDraft' /\ DiscoveryOfDraft'
  BY <1>1 DEF ProbeOfDraft, DiscoveryOfDraft
<1>9. Credential(drafted)' \in {Credential(drafted), NoApiKey}
  BY <1>1, <1>2 DEF Credential
<1>10. LearnedOfThisAccount'
  BY <1>1, <1>3, <1>6, <1>9 DEF LifeInv, LearnedOfThisAccount, DiscoveryOfDraft, Asked
<1>11. BinLearned'
  BY <1>1, <1>2 DEF LifeInv, UnsavedDrafted, BinLearned, InUse, Credential
<1> QED BY <1>5, <1>7, <1>8, <1>10, <1>11 DEF LifeInv

\* The verdict of a probe is kept only if it is of the account in use.
LEMMA ProbeEndsStep ==
    ASSUME LifeInv, ProbeEnds
    PROVE  LifeInv'
<1> DEFINE p == [drafted EXCEPT !.seen = Asked]
<1>1. /\ task.kind = "probe" /\ task # NoTask /\ task \in Tasks /\ task.key # NoApiKey
      /\ task' = NoTask /\ task'.kind = "none"
      /\ UNCHANGED <<editable, purging, modern, catalog, validating, commands, rekeyed,
                     purged>>
  BY Shape DEF LifeInv, ProbeEnds, TaskEnds, NoTask
<1>2. CASE Works /\ UNCHANGED <<drafted, onDisk, stored, unsavedKey, removing, tomb>>
  <2>1. ProviderTypeOK'
    BY <1>1, <1>2, CountersOK DEF LifeInv, ProviderTypeOK
  <2> QED
    BY <1>1, <1>2, <2>1
    DEF LifeInv, PurgedAll, PurgedKeyGone, UnsavedDrafted, NewKeyNotQueued, UnsavedUnseen,
        FreeUnseen, Free,
        ProbeOfDraft, DiscoveryOfDraft, LearnedOfThisAccount, BinLearned, InUse, Credential
<1>3. CASE /\ task.fresh /\ SameCredential
           /\ (Saved(p) /\ drafted' = p) \/ (NotSaved(p) /\ UNCHANGED drafted)
  <2>1. /\ drafted # Nothing /\ ~Free(drafted) /\ drafted \in Definitions
        /\ drafted.url = task.url /\ (drafted.auth = "reference" <=> task.key = Outside)
        /\ Asked \in Accounts /\ ~purged
    BY <1>1, <1>3, Shape
    DEF LifeInv, ProbeOfDraft, PurgedAll, Asked, Accounts, Tasks
  <2>2. /\ p \in Definitions /\ p # Nothing /\ p.url = drafted.url /\ p.auth = drafted.auth
        /\ p.kind = drafted.kind /\ p.seen = Asked
    BY <2>1, DefinitionFields DEF Definitions
  <2> HIDE DEF p
  <2>3. /\ trouble' \in 0..MaxTrouble
        /\ {onDisk', tomb'} \subseteq Definitions \union {Nothing}
        /\ onDisk' \in {onDisk, p} /\ tomb' \in {tomb, Nothing}
        /\ {stored', unsavedKey'} \subseteq ApiKeys \union {NoApiKey}
        /\ removing' \in BOOLEAN /\ (removing' => removing)
        /\ unsavedKey = NoApiKey => stored' \in {stored, NoApiKey} /\ unsavedKey' = NoApiKey
        /\ unsavedKey # NoApiKey =>
             \/ stored' = unsavedKey /\ unsavedKey' = NoApiKey
             \/ unsavedKey' = unsavedKey
    BY <1>3, <2>2, SaveLeaves
  <2>4. /\ drafted' \in {drafted, p} /\ drafted' # Nothing /\ drafted' \in Definitions
        /\ drafted'.url = drafted.url /\ drafted'.auth = drafted.auth
        /\ drafted'.kind = drafted.kind /\ drafted'.seen \in {drafted.seen, Asked}
    BY <1>3, <2>1, <2>2
  <2>5. ProviderTypeOK'
    BY <1>1, <2>3, <2>4 DEF LifeInv, ProviderTypeOK
  <2>6. /\ ~Free(drafted)' /\ (Free(onDisk)' => Free(onDisk) /\ onDisk' = onDisk)
        /\ (Free(tomb)' => Free(tomb) /\ tomb' = tomb)
    BY <2>1, <2>2, <2>3, <2>4 DEF Free
  <2>7. rekeyed \/ unsavedKey = NoApiKey
    BY <1>1, <1>3 DEF LifeInv, UnsavedUnseen
  <2>8. /\ PurgedAll' /\ PurgedKeyGone' /\ UnsavedDrafted'
        /\ NewKeyNotQueued' /\ UnsavedUnseen' /\ FreeUnseen'
    BY <1>1, <2>1, <2>3, <2>4, <2>6, <2>7
    DEF LifeInv, PurgedAll, PurgedKeyGone, UnsavedDrafted, NewKeyNotQueued, UnsavedUnseen,
        FreeUnseen
  <2>9. ProbeOfDraft' /\ DiscoveryOfDraft' /\ BinLearned'
    BY <1>1, <2>4 DEF ProbeOfDraft, DiscoveryOfDraft, BinLearned
  <2>10. LearnedOfThisAccount'
    <3>1. SUFFICES ASSUME ~rekeyed PROVE LearnedOfThisAccount'
      BY <1>1 DEF LearnedOfThisAccount
    <3>2. Credential(drafted)' \in {Credential(drafted), NoApiKey}
      BY <2>3, <2>4, <2>7, <3>1 DEF Credential
    <3>3. task.key = Credential(drafted)
      <4>1. stored # Outside
        BY Shape, ProviderAssumption DEF ProviderAssumption, LifeInv
      <4> QED BY <1>3, <2>1, <2>7, <3>1, <4>1 DEF SameCredential, Credential
    <3> QED BY <1>1, <2>1, <2>4, <2>6, <3>1, <3>2, <3>3 DEF LifeInv, LearnedOfThisAccount,
        Asked
  <2> QED BY <2>5, <2>8, <2>9, <2>10 DEF LifeInv
<1> QED BY <1>2, <1>3 DEF ProbeEnds, TargetUnchanged

LEMMA RotateByCliStep ==
    ASSUME LifeInv, NEW k \in ApiKeys, RotateByCli(k)
    PROVE  LifeInv'
<1> USE DEF LifeInv, RotateByCli, Learned
<1>1. ProviderTypeOK'
  BY CountersOK
  DEF ProviderTypeOK, Tasks
<1>2. /\ PurgedAll' /\ PurgedKeyGone' /\ UnsavedDrafted'
      /\ NewKeyNotQueued' /\ UnsavedUnseen' /\ FreeUnseen'
  BY DEF PurgedAll, PurgedKeyGone, UnsavedDrafted, NewKeyNotQueued, UnsavedUnseen,
      FreeUnseen
<1>3. ProbeOfDraft' /\ DiscoveryOfDraft'
  BY DEF ProbeOfDraft, DiscoveryOfDraft, UnsavedDrafted, Credential
<1>4. LearnedOfThisAccount' /\ BinLearned'
  BY DEF ProbeOfDraft, DiscoveryOfDraft, LearnedOfThisAccount, BinLearned, InUse, Asked,
      UnsavedDrafted, UnsavedUnseen, Credential
<1> QED BY <1>1, <1>2, <1>3, <1>4

LEMMA RestartStep ==
    ASSUME LifeInv, Restart
    PROVE  LifeInv'
<1> USE DEF LifeInv, Restart, RecoveryEnds, RecoveryStops
<1>1. ProviderTypeOK'
  BY CountersOK
  DEF ProviderTypeOK, Tasks, Credentials, NoTask
<1>2. /\ PurgedAll' /\ PurgedKeyGone' /\ UnsavedDrafted'
      /\ NewKeyNotQueued' /\ UnsavedUnseen' /\ FreeUnseen'
  BY DEF PurgedAll, PurgedKeyGone, UnsavedDrafted, NewKeyNotQueued, UnsavedUnseen,
      FreeUnseen
<1>3. ProbeOfDraft' /\ DiscoveryOfDraft'
  BY DEF ProbeOfDraft, DiscoveryOfDraft, UnsavedDrafted, Credential, NoTask
<1>4. LearnedOfThisAccount' /\ BinLearned'
  BY DEF ProbeOfDraft, DiscoveryOfDraft, LearnedOfThisAccount, BinLearned, InUse, Asked,
      UnsavedDrafted, UnsavedUnseen, Credential
<1> QED BY <1>1, <1>2, <1>3, <1>4

-----------------------------------------------------------------------------
(* The theorems.                                                           *)

LEMMA LifeInitInv == LifeInit => LifeInv
<1> SUFFICES ASSUME LifeInit PROVE LifeInv
  OBVIOUS
<1>1. ProviderTypeOK
  <2>1. 0 \in 0..MaxCommands /\ 0 \in 0..MaxTrouble
    BY ProviderAssumption DEF ProviderAssumption
  <2>2. onDisk \in Definitions \union {Nothing}
    BY LegacyIs DEF LifeInit
  <2> QED BY <2>1, <2>2 DEF LifeInit, ProviderTypeOK
<1>2. /\ task.kind = "none" /\ ~rekeyed /\ ~purged
      /\ drafted = onDisk /\ (drafted # Nothing => ~Free(drafted) /\ drafted.seen = Nothing)
  BY LegacyIs DEF LifeInit, NoTask
<1> QED
  BY <1>1, <1>2
  DEF LifeInit, LifeInv, PurgedAll, PurgedKeyGone, UnsavedDrafted, NewKeyNotQueued,
      UnsavedUnseen, FreeUnseen,
      Free, ProbeOfDraft, DiscoveryOfDraft, LearnedOfThisAccount, BinLearned

LEMMA LifeStep == LifeInv /\ [LifeNext]_lifeVars => LifeInv'
<1> SUFFICES ASSUME LifeInv, [LifeNext]_lifeVars PROVE LifeInv'
  OBVIOUS
<1>1. CASE RecoverPurge \/ Migrate \/ Remove \/ Restore \/ Purge \/ Save \/ Restart
  BY <1>1, RecoverPurgeStep, MigrateStep, RemoveStep, RestoreStep, PurgeStep, SaveStep,
     RestartStep
<1>2. CASE ValidationEnds \/ DiscoveryStarts \/ ProbeStarts \/ ProbeReads
  BY <1>2, ValidationEndsStep, DiscoveryStartsStep, ProbeStartsStep, ProbeReadsStep
<1>3. CASE DiscoveryEnds \/ ProbeEnds
  BY <1>3, DiscoveryEndsStep, ProbeEndsStep
<1>4. ASSUME NEW k \in ApiKeys, Extend(k) \/ ValidationStarts(k) \/ RotateByCli(k)
      PROVE  LifeInv'
  BY <1>4, ExtendStep, ValidationStartsStep, RotateByCliStep
<1>5. ASSUME NEW k \in ApiKeys, NEW p \in Ordinary, Add(p, k) PROVE LifeInv'
  BY <1>5, AddStep
<1>6. ASSUME NEW k \in ApiKeys, NEW u \in Urls, CandidateDiscovery(u, k) PROVE LifeInv'
  BY <1>6, CandidateDiscoveryStep
<1>7. ASSUME NEW u \in Urls, NEW a \in {"store", "reference"},
             NEW k \in ApiKeys \union {NoApiKey}, EditProvider(u, a, k)
      PROVE  LifeInv'
  BY <1>7, EditStep
<1>8. CASE UNCHANGED lifeVars
  <2>1. ProviderTypeOK'
    BY <1>8 DEF lifeVars, LifeInv, ProviderTypeOK
  <2> QED BY <1>8, <2>1, SameStep DEF lifeVars
<1> QED BY <1>1, <1>2, <1>3, <1>4, <1>5, <1>6, <1>7, <1>8 DEF LifeNext

LEMMA LifeAlways == LifeSpec => []LifeInv
BY LifeInitInv, LifeStep, PTL DEF LifeSpec

\* A provider's state has the types of the desktop's files and caches, and what runs
\* over the network is a discovery, a probe or nothing.
THEOREM ProviderTypes == LifeSpec => []ProviderTypeOK
<1>1. LifeInv => ProviderTypeOK
  BY DEF LifeInv
<1> QED BY <1>1, LifeAlways, PTL

\* purge_deleted_providers and its recovery end with the key gone, whichever write
\* failed and however often the process ended before.
THEOREM PurgesEndWithTheKey == LifeSpec => []PurgedKeyGone
<1>1. LifeInv => PurgedKeyGone
  BY DEF LifeInv
<1> QED BY <1>1, LifeAlways, PTL

\* The catalog and the probe's verdict are of the account the provider is used with,
\* whatever was edited, replaced or rotated while the answer was under way.
THEOREM LearnedIsOfThisAccount == LifeSpec => []LearnedOfThisAccount
<1>1. LifeInv => LearnedOfThisAccount
  BY DEF LifeInv
<1> QED BY <1>1, LifeAlways, PTL

\* A save deletes a key only if its removal is queued, and then it commits none.
LEMMA SaveKeepsKey ==
    ASSUME ProviderTypeOK, NewKeyNotQueued, NEW p, Saved(p) \/ NotSaved(p),
           stored # NoApiKey, stored' = NoApiKey
    PROVE  removing /\ unsavedKey = NoApiKey /\ onDisk' = p
<1>1. CASE Saved(p)
  BY <1>1 DEF Saved, CommittedKey, NewKeyNotQueued
<1>2. CASE NotSaved(p)
  BY <1>2 DEF NotSaved
<1> QED BY <1>1, <1>2

\* Only the removal that a migration queued takes the key of a name that the draft, the
\* file or the bin still has, only once the file is what the draft is, and never in a
\* save that commits a new key; a purge and its recovery take no such key.
THEOREM KeysAreKeptWhileUsable == LifeSpec => KeyKeptWhileUsable
<1>1. ASSUME ProviderTypeOK, NewKeyNotQueued, LifeNext, stored # NoApiKey, stored' = NoApiKey
      PROVE  /\ drafted' = onDisk'
             /\ \/ removing /\ unsavedKey = NoApiKey
                \/ drafted' = Nothing /\ tomb' = Nothing
  <2>1. NoApiKey \notin ApiKeys
    BY ProviderAssumption DEF ProviderAssumption
  <2>2. CASE RecoverPurge
    BY <1>1, <2>2 DEF RecoverPurge, RecoveryEnds, RecoveryStops, PurgeMayFinish
  <2>3. CASE Purge
    BY <1>1, <2>3 DEF Purge, RecoveryEnds, RecoveryStops
  <2>4. CASE Restart
    BY <1>1, <2>4 DEF Restart, RecoveryEnds, RecoveryStops
  <2>5. CASE Save
    BY <1>1, <2>5, SaveKeepsKey DEF Save
  <2>6. CASE DiscoveryEnds
    BY <1>1, <2>6, SaveKeepsKey DEF DiscoveryEnds
  <2>7. CASE ProbeEnds
    <3>1. PICK p : (Saved(p) /\ drafted' = p) \/ NotSaved(p)
      BY <1>1, <2>7 DEF ProbeEnds
    <3> QED BY <1>1, <3>1, SaveKeepsKey DEF NotSaved
  <2>8. \A k \in ApiKeys : ~RotateByCli(k)
    BY <1>1, <2>1 DEF RotateByCli
  <2>9. \A u \in Urls, a \in {"store", "reference"}, k \in ApiKeys \union {NoApiKey} :
          ~EditProvider(u, a, k)
    BY <1>1, <2>1 DEF EditProvider
  <2>10. ASSUME NEW k \in ApiKeys
         PROVE  /\ ~Extend(k) /\ ~ValidationStarts(k)
                /\ \A p \in Ordinary : ~Add(p, k)
                /\ \A u \in Urls : ~CandidateDiscovery(u, k)
    BY <1>1 DEF Extend, ValidationStarts, Add, CandidateDiscovery
  <2>11. /\ ~Migrate /\ ~Remove /\ ~Restore /\ ~ValidationEnds
         /\ ~DiscoveryStarts /\ ~ProbeStarts /\ ~ProbeReads
    BY <1>1
    DEF Migrate, Remove, Restore, ValidationEnds, DiscoveryStarts, ProbeStarts, ProbeReads
  <2> QED
    BY <1>1, <2>2, <2>3, <2>4, <2>5, <2>6, <2>7, <2>8, <2>9, <2>10, <2>11 DEF LifeNext
<1>2. LifeInv /\ [LifeNext]_lifeVars =>
        [stored # NoApiKey /\ stored' = NoApiKey
           => /\ drafted' = onDisk'
              /\ \/ removing /\ unsavedKey = NoApiKey
                 \/ drafted' = Nothing /\ tomb' = Nothing]_lifeVars
  BY <1>1 DEF LifeInv
<1> QED BY <1>2, LifeAlways, PTL DEF LifeSpec, KeyKeptWhileUsable

=============================================================================
