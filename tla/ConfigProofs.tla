---------------------------- MODULE ConfigProofs ----------------------------
(***************************************************************************)
(* Proofs about ConfigState, for any contents, credentials and number of   *)
(* revisions and whichever writes fail.                                    *)
(*                                                                         *)
(* The argument: a revision that anything on disk or in memory still names *)
(* is never given to a second content, because the state a save leaves     *)
(* behind, or the one a failed save puts back, covers every revision that  *)
(* was ever saved.                                                         *)
(***************************************************************************)
EXTENDS ConfigState, FiniteSetTheorems, TLAPS

\* What a revision was saved as, if anything, is this content.
Entry(r, c) == r # 0 => savedAs[r] \subseteq {c}

Agree(r, c, q, d) == r # 0 /\ r = q => c = d

\* The watermark covers every saved revision, and the entries name what was saved.
LedgerSound(l) ==
    /\ \A r \in 1..MaxRevision : savedAs[r] # {} => r <= l.last
    /\ Entry(l.cRev, l.cFp) /\ Entry(l.pRev, l.pFp)
    /\ Agree(l.cRev, l.cFp, l.pRev, l.pFp)

StateSound(s) ==
    /\ LedgerSound(s.ledger)
    /\ Entry(s.draftRev, s.draft) /\ Entry(s.savedRev, s.saved)
    /\ Agree(s.draftRev, s.draft, s.savedRev, s.saved)
    /\ Agree(s.draftRev, s.draft, s.ledger.cRev, s.ledger.cFp)
    /\ Agree(s.draftRev, s.draft, s.ledger.pRev, s.ledger.pFp)
    /\ Agree(s.savedRev, s.saved, s.ledger.cRev, s.ledger.cFp)
    /\ Agree(s.savedRev, s.saved, s.ledger.pRev, s.ledger.pFp)

\* A state's revisions are within its watermark and tell its contents apart.
Covered(s) ==
    /\ s.draftRev <= s.ledger.last /\ s.savedRev <= s.ledger.last
    /\ s.draft # s.saved => s.draftRev # s.savedRev

\* The state knows the save that is still in the file.
Mirror(s) ==
    survivor # <<>> =>
        /\ survivor = <<s.savedRev, s.saved>>
        /\ s.draft = s.saved => s.draftRev = s.savedRev
        /\ s.ledger.cRev = s.savedRev /\ s.ledger.cFp = s.saved
        /\ s.ledger.pFp = s.saved => s.ledger.pRev = s.savedRev

\* So does the sidecar: reconciling it finds the revision.
Recoverable(l) ==
    survivor # <<>> =>
        \/ l.pRev = survivor[1] /\ l.pFp = survivor[2]
        \/ l.cRev = survivor[1] /\ l.cFp = survivor[2] /\ l.pFp # survivor[2]

Live == mode \in {"starting", "up"}

\* A command runs while the app is up, and only a running one has a state to go
\* back to.
CommandsUp == (step # "idle" => mode = "up") /\ (undo = "restore" => step # "idle")

\* From prepare_save to finish_save the sidecar announces the save under way.
Journalled ==
    step \in {"prepared", "keyed", "renamed"} =>
        /\ sidecar = state.ledger /\ state.draftRev # 0
        /\ state.ledger.pRev = state.draftRev /\ state.ledger.pFp = state.draft

StatesCovered == Covered(state) /\ Covered(prior)

RevisionsSound ==
    /\ LedgerSound(sidecar)
    /\ Live => StateSound(state)
    /\ undo = "restore" => StateSound(prior)

OneContent == \A r \in 1..MaxRevision : \A c, d \in savedAs[r] : c = d

FileKept ==
    /\ survivor # <<>> => survivor[1] # 0 /\ cfg = survivor[2]
    /\ survivor # <<>> /\ step = "renamed" => survivor = <<state.draftRev, state.draft>>
    /\ Recoverable(sidecar)

Mirrored ==
    step # "renamed" => (Live => Mirror(state)) /\ (undo = "restore" => Mirror(prior))

\* While a new key is in the store ahead of its save, the old one is at hand.
KeyAtHand == step = "keyed" /\ ~torn => prevKey = lastKey

KeysKept == StoreHoldsLastKey /\ KeyAtHand

DraftInv ==
    /\ TypeOK /\ CommandsUp /\ Journalled /\ StatesCovered
    /\ RevisionsSound /\ OneContent /\ FileKept /\ Mirrored

-----------------------------------------------------------------------------
(* What the operators do to a state.                                       *)

LEMMA StateFields ==
    ASSUME NEW s, StateOK(s)
    PROVE  /\ s.draft \in Contents /\ s.saved \in Contents
           /\ s.draftRev \in Revisions /\ s.savedRev \in Revisions
           /\ LedgerOK(s.ledger)
BY DEF StateOK, States

LEMMA LedgerFields ==
    ASSUME NEW l, LedgerOK(l)
    PROVE  /\ l.last \in Revisions /\ l.cRev \in Revisions /\ l.pRev \in Revisions
           /\ l.cFp \in Contents \union {None} /\ l.pFp \in Contents \union {None}
BY DEF LedgerOK, Ledgers

LEMMA ReservedFields ==
    ASSUME NEW s, StateOK(s), NEW d \in Contents, s.ledger.last < MaxRevision
    PROVE  LET r == Reserved(s, d) IN
           /\ StateOK(r)
           /\ r.draft = d /\ r.draftRev = s.ledger.last + 1
           /\ r.saved = s.saved /\ r.savedRev = s.savedRev
           /\ r.ledger.last = s.ledger.last + 1
           /\ r.ledger.cRev = s.ledger.cRev /\ r.ledger.cFp = s.ledger.cFp
           /\ r.ledger.pRev = s.ledger.pRev /\ r.ledger.pFp = s.ledger.pFp
<1> DEFINE l == [s.ledger EXCEPT !.last = s.ledger.last + 1]
           r == Reserved(s, d)
<1>1. LedgerOK(s.ledger) /\ s \in States /\ s.ledger \in Ledgers
  BY DEF StateOK, LedgerOK
<1>2. s.ledger.last + 1 \in Revisions
  BY <1>1, ConfigAssumption DEF ConfigAssumption, Ledgers, Revisions
<1>3. /\ l \in Ledgers /\ l.last = s.ledger.last + 1
      /\ l.cRev = s.ledger.cRev /\ l.cFp = s.ledger.cFp
      /\ l.pRev = s.ledger.pRev /\ l.pFp = s.ledger.pFp
  BY <1>1, <1>2 DEF Ledgers
<1>4. LedgerOK(l)
  BY <1>1, <1>3, ConfigAssumption DEF ConfigAssumption, LedgerOK, Ledgers, Revisions
<1>5. r = [s EXCEPT !.draft = d, !.draftRev = s.ledger.last + 1, !.ledger = l]
  BY <1>1 DEF Reserved, States
<1>6. /\ r \in States /\ r.ledger = l /\ r.draft = d /\ r.draftRev = s.ledger.last + 1
      /\ r.saved = s.saved /\ r.savedRev = s.savedRev
  BY <1>1, <1>2, <1>3, <1>5 DEF States
<1> QED BY <1>3, <1>4, <1>6 DEF StateOK

\* A draft that is a third content gets a revision nobody names.
LEMMA ReservedKeeps ==
    ASSUME NEW s, StateOK(s), Covered(s), NEW d \in Contents, NeedsRevision(s, d),
           s.ledger.last < MaxRevision
    PROVE  /\ Covered(Reserved(s, d))
           /\ StateSound(s) => StateSound(Reserved(s, d))
           /\ Mirror(s) => Mirror(Reserved(s, d))
<1> DEFINE r == Reserved(s, d)
<1>1. /\ r.draft = d /\ r.draftRev = s.ledger.last + 1
      /\ r.saved = s.saved /\ r.savedRev = s.savedRev
      /\ r.ledger.last = s.ledger.last + 1
      /\ r.ledger.cRev = s.ledger.cRev /\ r.ledger.cFp = s.ledger.cFp
      /\ r.ledger.pRev = s.ledger.pRev /\ r.ledger.pFp = s.ledger.pFp
  BY ReservedFields
<1>2. /\ s.ledger.last \in Nat /\ s.savedRev \in Nat /\ s.ledger.cRev \in Nat
      /\ s.ledger.pRev \in Nat /\ s.ledger.last + 1 \in 1..MaxRevision
      /\ s.ledger.cRev <= s.ledger.last /\ s.ledger.pRev <= s.ledger.last
      /\ s.savedRev <= s.ledger.last
  BY ConfigAssumption, StateFields
  DEF ConfigAssumption, Revisions, LedgerOK, Ledgers, Covered
<1> HIDE DEF r
<1>3. Covered(r)
  BY <1>1, <1>2 DEF Covered
<1>4. ASSUME StateSound(s) PROVE StateSound(r)
  <2>1. savedAs[s.ledger.last + 1] = {}
    BY <1>2, <1>4 DEF StateSound, LedgerSound
  <2>2. LedgerSound(r.ledger)
    <3>1. \A q \in 1..MaxRevision : savedAs[q] # {} => q <= s.ledger.last + 1
      BY <1>2, <1>4 DEF StateSound, LedgerSound
    <3> QED BY <1>1, <1>4, <3>1 DEF StateSound, LedgerSound
  <2>3. Entry(r.draftRev, r.draft) /\ Entry(r.savedRev, r.saved)
    BY <1>1, <1>4, <2>1 DEF StateSound, Entry
  <2>4. /\ Agree(r.draftRev, r.draft, r.savedRev, r.saved)
        /\ Agree(r.draftRev, r.draft, r.ledger.cRev, r.ledger.cFp)
        /\ Agree(r.draftRev, r.draft, r.ledger.pRev, r.ledger.pFp)
    BY <1>1, <1>2 DEF Agree
  <2>5. /\ Agree(r.savedRev, r.saved, r.ledger.cRev, r.ledger.cFp)
        /\ Agree(r.savedRev, r.saved, r.ledger.pRev, r.ledger.pFp)
    BY <1>1, <1>4 DEF StateSound
  <2> QED BY <2>2, <2>3, <2>4, <2>5 DEF StateSound
<1>5. ASSUME Mirror(s) PROVE Mirror(r)
  BY <1>1, <1>5 DEF Mirror, NeedsRevision
<1> QED BY <1>3, <1>4, <1>5 DEF r

\* observe_draft, however its write ends.
LEMMA ObservedKeeps ==
    ASSUME NEW s, StateOK(s), Covered(s), NEW d \in Contents, NEW o,
           NeedsRevision(s, d) => s.ledger.last < MaxRevision
    PROVE  /\ StateOK(Observed(s, d, o)) /\ Covered(Observed(s, d, o))
           /\ StateSound(s) => StateSound(Observed(s, d, o))
           /\ Mirror(s) => Mirror(Observed(s, d, o))
<1>1. CASE d = s.draft
  BY <1>1 DEF Observed
<1>2. CASE d # s.draft /\ d = s.saved
  <2> DEFINE r == [s EXCEPT !.draft = d, !.draftRev = s.savedRev]
  <2>1. Observed(s, d, o) = r
    BY <1>2 DEF Observed
  <2>2. /\ r \in States /\ r.draft = d /\ r.draftRev = s.savedRev
        /\ r.saved = s.saved /\ r.savedRev = s.savedRev /\ r.ledger = s.ledger
    BY DEF StateOK, States
  <2> HIDE DEF r
  <2>3. StateOK(r) /\ Covered(r)
    BY <1>2, <2>2 DEF StateOK, Covered
  <2>4. StateSound(s) => StateSound(r)
    BY <1>2, <2>2 DEF StateSound, Agree
  <2>5. Mirror(s) => Mirror(r)
    BY <1>2, <2>2 DEF Mirror
  <2> QED BY <2>1, <2>3, <2>4, <2>5
<1>3. CASE NeedsRevision(s, d)
  <2>1. CASE o = "ok"
    BY <1>3, <2>1, ReservedFields, ReservedKeeps DEF Observed, NeedsRevision
  <2>2. CASE o # "ok"
    BY <1>3, <2>2 DEF Observed, NeedsRevision
  <2> QED BY <2>1, <2>2
<1> QED BY <1>1, <1>2, <1>3 DEF NeedsRevision

LEMMA MirrorRecovers ==
    ASSUME NEW s, Mirror(s)
    PROVE  Recoverable(s.ledger)
BY DEF Mirror, Recoverable

\* The sidecar after observe_draft.
LEMMA ObserveWritesKeeps ==
    ASSUME NEW s, StateOK(s), Covered(s), NEW d \in Contents, NEW o,
           NeedsRevision(s, d) => s.ledger.last < MaxRevision,
           LedgerOK(sidecar), ObserveWrites(s, d, o)
    PROVE  /\ LedgerOK(sidecar')
           /\ LedgerSound(sidecar) /\ StateSound(s) => LedgerSound(sidecar')
           /\ Recoverable(sidecar) /\ Mirror(s) => Recoverable(sidecar')
<1>1. CASE sidecar' = sidecar
  BY <1>1
<1>2. CASE NeedsRevision(s, d) /\ sidecar' = Reserved(s, d).ledger
  <2>1. StateOK(Reserved(s, d))
    BY <1>2, ReservedFields
  <2>2. StateSound(s) => LedgerSound(sidecar')
    BY <1>2, ReservedKeeps DEF StateSound
  <2>3. Mirror(s) => Recoverable(sidecar')
    BY <1>2, ReservedKeeps, MirrorRecovers
  <2> QED BY <1>2, <2>1, <2>2, <2>3 DEF StateOK
<1> QED BY <1>1, <1>2 DEF ObserveWrites, WriteSidecar

LEMMA MaxIs == \A m, n \in Nat : Max2(m, n) \in {m, n} /\ m <= Max2(m, n) /\ n <= Max2(m, n)
BY DEF Max2

\* prepare_save.
LEMMA PreparedFields ==
    ASSUME NEW s, StateOK(s), PrepareSave(s).ledger.last <= MaxRevision
    PROVE  LET r == PrepareSave(s) IN
           /\ StateOK(r)
           /\ r.draft = s.draft /\ r.saved = s.saved /\ r.savedRev = s.savedRev
           /\ r.draftRev = IF s.draftRev = 0 THEN s.ledger.last + 1 ELSE s.draftRev
           /\ r.ledger.last = Max2(s.ledger.last, r.draftRev)
           /\ r.ledger.cRev = s.ledger.cRev /\ r.ledger.cFp = s.ledger.cFp
           /\ r.ledger.pRev = r.draftRev /\ r.ledger.pFp = s.draft
<1> DEFINE rev == IF s.draftRev = 0 THEN s.ledger.last + 1 ELSE s.draftRev
           l == [s.ledger EXCEPT !.last = Max2(s.ledger.last, rev), !.pRev = rev,
                                 !.pFp = s.draft]
           r == PrepareSave(s)
<1>1. /\ s \in States /\ LedgerOK(s.ledger) /\ s.ledger \in Ledgers
      /\ s.draft \in Contents /\ s.draftRev \in Nat /\ s.ledger.last \in Nat
  BY ConfigAssumption DEF ConfigAssumption, StateOK, LedgerOK, States, Ledgers, Revisions
<1>2. rev \in Nat /\ rev # 0
  BY <1>1
<1> HIDE DEF rev
<1>3. /\ l.last = Max2(s.ledger.last, rev) /\ l.pRev = rev /\ l.pFp = s.draft
      /\ l.cRev = s.ledger.cRev /\ l.cFp = s.ledger.cFp
  BY <1>1 DEF Ledgers
<1>4. r = [s EXCEPT !.draftRev = rev, !.ledger = l]
  BY <1>1 DEF PrepareSave, States, rev
<1>5. /\ r.ledger = l /\ r.draft = s.draft /\ r.saved = s.saved
      /\ r.savedRev = s.savedRev /\ r.draftRev = rev
  BY <1>1, <1>4 DEF States
<1>6. /\ Max2(s.ledger.last, rev) \in Revisions /\ rev \in Revisions
      /\ rev <= l.last /\ s.ledger.last <= l.last
  BY <1>1, <1>2, <1>3, <1>5, MaxIs, ConfigAssumption DEF ConfigAssumption, Revisions
<1>7. l \in Ledgers
  BY <1>1, <1>6 DEF Ledgers
<1>8. LedgerOK(l)
  BY <1>1, <1>2, <1>3, <1>6, <1>7, ConfigAssumption
  DEF ConfigAssumption, LedgerOK, Ledgers, Revisions
<1>9. r \in States
  BY <1>1, <1>4, <1>6, <1>7 DEF States
<1> QED BY <1>3, <1>5, <1>8, <1>9 DEF StateOK, rev

LEMMA PreparedKeeps ==
    ASSUME NEW s, StateOK(s), Covered(s), PrepareSave(s).ledger.last <= MaxRevision
    PROVE  /\ Covered(PrepareSave(s)) /\ PrepareSave(s).draftRev # 0
           /\ StateSound(s) => StateSound(PrepareSave(s))
           /\ Mirror(s) /\ (survivor # <<>> => survivor[1] # 0) => Mirror(PrepareSave(s))
<1> DEFINE r == PrepareSave(s)
<1>1. /\ StateOK(r)
      /\ r.draft = s.draft /\ r.saved = s.saved /\ r.savedRev = s.savedRev
      /\ r.draftRev = IF s.draftRev = 0 THEN s.ledger.last + 1 ELSE s.draftRev
      /\ r.ledger.last = Max2(s.ledger.last, r.draftRev)
      /\ r.ledger.cRev = s.ledger.cRev /\ r.ledger.cFp = s.ledger.cFp
      /\ r.ledger.pRev = r.draftRev /\ r.ledger.pFp = s.draft
  BY PreparedFields
<1>2. /\ {s.ledger.last, s.draftRev, s.savedRev, s.ledger.cRev} \subseteq Nat
      /\ s.ledger.cRev <= s.ledger.last
      /\ s.savedRev <= s.ledger.last /\ s.draftRev <= s.ledger.last
  BY ConfigAssumption, StateFields
  DEF ConfigAssumption, Revisions, LedgerOK, Ledgers, Covered
<1> HIDE DEF r
<1>3. r.draftRev \in Nat /\ r.draftRev # 0
  BY <1>1, <1>2
<1>4. r.ledger.last >= s.ledger.last /\ r.ledger.last >= r.draftRev /\ r.ledger.last \in Nat
  BY <1>1, <1>2, <1>3, MaxIs
<1>5. Covered(r)
  BY <1>1, <1>2, <1>3, <1>4 DEF Covered
<1>6. ASSUME StateSound(s) PROVE StateSound(r)
  <2>1. \A q \in 1..MaxRevision : savedAs[q] # {} => q <= s.ledger.last
    BY <1>6 DEF StateSound, LedgerSound
  <2>2. \A q \in 1..MaxRevision : savedAs[q] # {} => q <= r.ledger.last
    BY <1>2, <1>4, <2>1
  <2>3. r.draftRev \in 1..MaxRevision
    BY <1>1, <1>3, ConfigAssumption DEF ConfigAssumption, StateOK, States, Revisions
  <2>4. Entry(r.draftRev, r.draft)
    BY <1>1, <1>2, <1>6, <2>1, <2>3 DEF StateSound, Entry
  <2>5. /\ Agree(r.draftRev, r.draft, r.savedRev, r.saved)
        /\ Agree(r.draftRev, r.draft, r.ledger.cRev, r.ledger.cFp)
    BY <1>1, <1>2, <1>6 DEF StateSound, Agree
  <2>6. LedgerSound(r.ledger)
    BY <1>1, <1>6, <2>2, <2>4, <2>5 DEF StateSound, LedgerSound, Agree
  <2> QED BY <1>1, <1>6, <2>4, <2>5, <2>6 DEF StateSound, Agree
<1>7. ASSUME Mirror(s), survivor # <<>> => survivor[1] # 0 PROVE Mirror(r)
  BY <1>1, <1>7 DEF Mirror
<1> QED BY <1>3, <1>5, <1>6, <1>7 DEF r

\* finish_save.
LEMMA FinishedFields ==
    ASSUME NEW s, StateOK(s), Covered(s), s.draftRev # 0
    PROVE  LET r == FinishedSave(s) IN
           /\ StateOK(r) /\ Covered(r)
           /\ r.draft = s.draft /\ r.draftRev = s.draftRev
           /\ r.saved = s.draft /\ r.savedRev = s.draftRev
           /\ r.ledger.last = s.ledger.last
           /\ r.ledger.cRev = s.draftRev /\ r.ledger.cFp = s.draft
           /\ r.ledger.pRev = 0 /\ r.ledger.pFp = None
<1> DEFINE l == [ClearPending(s.ledger) EXCEPT !.cRev = s.draftRev, !.cFp = s.draft]
           r == FinishedSave(s)
<1>1. /\ s \in States /\ LedgerOK(s.ledger) /\ s.ledger \in Ledgers
      /\ s.draft \in Contents /\ s.draftRev \in Revisions /\ s.draftRev <= s.ledger.last
      /\ s.ledger.last \in Nat /\ 0 \in Revisions
  BY ConfigAssumption
  DEF ConfigAssumption, StateOK, LedgerOK, States, Ledgers, Revisions, Covered
<1>2. /\ l \in Ledgers /\ l.last = s.ledger.last /\ l.pRev = 0 /\ l.pFp = None
      /\ l.cRev = s.draftRev /\ l.cFp = s.draft
  BY <1>1 DEF Ledgers, ClearPending
<1>3. LedgerOK(l)
  BY <1>1, <1>2, ConfigAssumption DEF ConfigAssumption, LedgerOK
<1>4. r = [s EXCEPT !.saved = s.draft, !.savedRev = s.draftRev, !.ledger = l]
  BY <1>1 DEF FinishedSave, States
<1>5. /\ r \in States /\ r.ledger = l /\ r.draft = s.draft /\ r.saved = s.draft
      /\ r.savedRev = s.draftRev /\ r.draftRev = s.draftRev
  BY <1>1, <1>2, <1>4 DEF States
<1> HIDE DEF r, l
<1>6. StateOK(r) /\ Covered(r)
  BY <1>1, <1>2, <1>3, <1>5 DEF StateOK, Covered
<1> QED BY <1>2, <1>5, <1>6 DEF r

\* load, on a file that loads.
LEMMA ReconciledFields ==
    ASSUME NEW l, LedgerOK(l), NEW c \in Contents, Reconciled(l, c).last <= MaxRevision
    PROVE  LET r == Reconciled(l, c) IN
           /\ LedgerOK(r)
           /\ r.cFp = c /\ r.pRev = 0 /\ r.pFp = None /\ r.cRev # 0
           /\ r.last \in Nat /\ r.last >= l.last
           /\ r.cRev = IF l.pFp = c THEN l.pRev ELSE IF l.cFp = c THEN l.cRev
                                                 ELSE l.last + 1
<1> DEFINE r == Reconciled(l, c)
<1>1. /\ l \in Ledgers /\ {l.last, l.cRev, l.pRev} \subseteq Nat /\ 0 \in Revisions
      /\ l.cRev <= l.last /\ l.pRev <= l.last /\ c # None
      /\ l.cRev = 0 <=> l.cFp = None
      /\ l.pRev = 0 <=> l.pFp = None
  BY ConfigAssumption DEF ConfigAssumption, LedgerOK, Ledgers, Revisions
<1>2. CASE l.pFp = c
  <2>1. /\ r.last = Max2(l.last, l.pRev) /\ r.cRev = l.pRev /\ r.cFp = c
        /\ r.pRev = 0 /\ r.pFp = None
        /\ r = [last |-> r.last, cRev |-> r.cRev, cFp |-> r.cFp, pRev |-> r.pRev,
                pFp |-> r.pFp]
    BY <1>2 DEF Reconciled
  <2>2. r.last = l.last
    BY <1>1, <2>1 DEF Max2
  <2>3. LedgerOK(r)
    BY <1>1, <1>2, <2>1, <2>2 DEF LedgerOK, Ledgers
  <2> QED BY <1>1, <1>2, <2>1, <2>2, <2>3
<1>3. CASE l.pFp # c /\ l.cFp = c
  <2>1. /\ r = ClearPending(l) /\ r.last = l.last /\ r.cRev = l.cRev /\ r.cFp = c
        /\ r.pRev = 0 /\ r.pFp = None
    BY <1>1, <1>3 DEF Reconciled, ClearPending, Ledgers
  <2>2. r \in Ledgers
    BY <1>1, <2>1 DEF Ledgers, ClearPending
  <2>3. LedgerOK(r)
    <3> HIDE DEF r
    <3> QED BY <1>1, <1>3, <2>1, <2>2 DEF LedgerOK
  <2> QED BY <1>1, <1>3, <2>1, <2>3
<1>4. CASE l.pFp # c /\ l.cFp # c
  <2>1. /\ r.last = l.last + 1 /\ r.cRev = l.last + 1 /\ r.cFp = c
        /\ r.pRev = 0 /\ r.pFp = None
        /\ r = [last |-> l.last + 1, cRev |-> l.last + 1, cFp |-> c, pRev |-> 0, pFp |-> None]
    BY <1>4 DEF Reconciled
  <2>3. r.last \in Revisions /\ r.last # 0
    BY <1>1, <2>1, ConfigAssumption DEF ConfigAssumption, Revisions
  <2>4. r \in Ledgers
    BY <1>1, <2>1, <2>3 DEF Ledgers
  <2>5. r.last \in Nat
    BY <1>1, <2>1
  <2>2. LedgerOK(r)
    BY <1>1, <2>1, <2>3, <2>4, <2>5 DEF LedgerOK
  <2> QED BY <1>1, <1>4, <2>1, <2>2
<1> QED BY <1>2, <1>3, <1>4

\* A state just loaded, or none.
LEMMA NewStateOK ==
    ASSUME NEW c \in Contents, NEW l, LedgerOK(l), NEW r \in Revisions, r <= l.last
    PROVE  /\ StateOK(NewState(c, r, l)) /\ Covered(NewState(c, r, l))
           /\ NewState(c, r, l).draft = c /\ NewState(c, r, l).saved = c
           /\ NewState(c, r, l).draftRev = r /\ NewState(c, r, l).savedRev = r
           /\ NewState(c, r, l).ledger = l
BY DEF NewState, StateOK, States, Covered, LedgerOK

LEMMA ZeroOK == LedgerOK(ZeroLedger) /\ 0 \in Revisions
BY ConfigAssumption DEF ConfigAssumption, ZeroLedger, LedgerOK, Ledgers, Revisions

LEMMA ReadOnlyOK ==
    ASSUME NEW c \in Contents
    PROVE  StateOK(ReadOnly(c)) /\ Covered(ReadOnly(c)) /\ ReadOnly(c).ledger = ZeroLedger
<1>1. 0 <= ZeroLedger.last
  BY DEF ZeroLedger
<1> QED BY <1>1, ZeroOK, NewStateOK DEF ReadOnly

-----------------------------------------------------------------------------
(* The draft, one action at a time.                                        *)

LEMMA SoundNext ==
    ASSUME savedAs' = savedAs
    PROVE  /\ LedgerSound(sidecar') => LedgerSound(sidecar)'
           /\ StateSound(state') => StateSound(state)'
           /\ StateSound(prior') => StateSound(prior)'
BY DEF StateSound, LedgerSound, Entry, Agree

LEMMA MirrorNext ==
    ASSUME survivor' = survivor
    PROVE  /\ Recoverable(sidecar') => Recoverable(sidecar)'
           /\ Mirror(state') => Mirror(state)'
           /\ Mirror(prior') => Mirror(prior)'
BY DEF Mirror, Recoverable

\* observe_draft on the app's state.
LEMMA DraftObserved ==
    ASSUME DraftInv, Live, step # "renamed", NEW d \in Contents, NEW o,
           NeedsRevision(state, d) => state.ledger.last < MaxRevision,
           ObserveWrites(state, d, o), state' = Observed(state, d, o),
           savedAs' = savedAs, survivor' = survivor
    PROVE  /\ LedgerOK(sidecar)' /\ StateOK(state)'
           /\ Covered(state)' /\ LedgerSound(sidecar)' /\ StateSound(state)'
           /\ Recoverable(sidecar)' /\ Mirror(state)'
<1>1. /\ StateOK(state) /\ Covered(state) /\ LedgerOK(sidecar) /\ TypeOK
      /\ LedgerSound(sidecar) /\ StateSound(state) /\ Recoverable(sidecar)
  BY DEF DraftInv, TypeOK, StatesCovered, RevisionsSound, FileKept
<1>2. Mirror(state)
  BY DEF DraftInv, Mirrored
<1>3. /\ StateOK(state') /\ Covered(state') /\ StateSound(state')
      /\ Mirror(state) => Mirror(state')
  BY <1>1, ObservedKeeps
<1>4. /\ LedgerOK(sidecar') /\ LedgerSound(sidecar')
      /\ Mirror(state) => Recoverable(sidecar')
  BY <1>1, ObserveWritesKeeps
<1>5. Recoverable(sidecar')
  BY <1>1, <1>2, <1>4
<1> QED BY <1>2, <1>3, <1>4, <1>5, SoundNext, MirrorNext DEF LedgerOK, StateOK, Covered

LEMMA EditStep ==
    ASSUME DraftInv, NEW d \in Contents, Edit(d)
    PROVE  DraftInv'
<1> USE DEF DraftInv
<1>1. PICK o \in SidecarOutcomes :
          ObserveWrites(state, d, o) /\ state' = Observed(state, d, o)
  BY DEF Edit
<1>2. Live /\ step = "idle" /\ undo # "restore"
  BY DEF Edit, Live, CommandsUp
<1>3. /\ LedgerOK(sidecar)' /\ StateOK(state)'
      /\ Covered(state)' /\ LedgerSound(sidecar)' /\ StateSound(state)'
      /\ Recoverable(sidecar)' /\ Mirror(state)'
  BY <1>1, <1>2, DraftObserved DEF Edit
<1>4. UNCHANGED <<cfg, mode, step, undo, prior, key, pendingKey, prevKey, lastKey, torn,
                  savedAs, survivor>>
  BY DEF Edit, command, secret
<1>5. TypeOK'
  BY <1>3, <1>4 DEF TypeOK, StateOK, LedgerOK
<1>6. CommandsUp' /\ Journalled' /\ StatesCovered'
  BY <1>2, <1>3, <1>4 DEF CommandsUp, Journalled, StatesCovered, Covered
<1>7. RevisionsSound' /\ OneContent'
  BY <1>2, <1>3, <1>4 DEF RevisionsSound, OneContent
<1>8. FileKept' /\ Mirrored'
  BY <1>2, <1>3, <1>4 DEF FileKept, Mirrored
<1> QED BY <1>5, <1>6, <1>7, <1>8

LEMMA EnterKeyStep ==
    ASSUME DraftInv, NEW d \in Contents, NEW k \in Keys, EnterKey(k, d)
    PROVE  DraftInv'
<1> USE DEF DraftInv
<1>1. PICK o \in SidecarOutcomes :
          /\ ObserveWrites(state, d, o) /\ state' = Observed(state, d, o)
          /\ pendingKey' = IF ObserveFails(state, d, o) THEN pendingKey ELSE k
  BY DEF EnterKey
<1>2. Live /\ step = "idle" /\ undo # "restore"
  BY DEF EnterKey, Live, CommandsUp
<1>3. /\ LedgerOK(sidecar)' /\ StateOK(state)'
      /\ Covered(state)' /\ LedgerSound(sidecar)' /\ StateSound(state)'
      /\ Recoverable(sidecar)' /\ Mirror(state)'
  BY <1>1, <1>2, DraftObserved DEF EnterKey
<1>4. UNCHANGED <<cfg, mode, step, undo, prior, key, prevKey, lastKey, torn, savedAs,
                  survivor>>
  BY DEF EnterKey, command
<1>5. TypeOK'
  BY <1>1, <1>3, <1>4 DEF TypeOK, StateOK, LedgerOK
<1>6. CommandsUp' /\ Journalled' /\ StatesCovered'
  BY <1>2, <1>3, <1>4 DEF CommandsUp, Journalled, StatesCovered, Covered
<1>7. RevisionsSound' /\ OneContent'
  BY <1>2, <1>3, <1>4 DEF RevisionsSound, OneContent
<1>8. FileKept' /\ Mirrored'
  BY <1>2, <1>3, <1>4 DEF FileKept, Mirrored
<1> QED BY <1>5, <1>6, <1>7, <1>8

LEMMA EditAndSaveStep ==
    ASSUME DraftInv, NEW d \in Contents, NEW u \in {"restore", "observe"}, EditAndSave(d, u)
    PROVE  DraftInv'
<1> USE DEF DraftInv
<1>1. PICK o \in SidecarOutcomes :
          /\ ObserveWrites(state, d, o) /\ state' = Observed(state, d, o)
          /\ IF ObserveFails(state, d, o)
             THEN UNCHANGED command
             ELSE step' = "edited" /\ undo' = u /\ prior' = state
  BY DEF EditAndSave
<1>2. Live /\ mode = "up" /\ step = "idle" /\ undo # "restore"
  BY DEF EditAndSave, Live, CommandsUp
<1>3. /\ LedgerOK(sidecar)' /\ StateOK(state)'
      /\ Covered(state)' /\ LedgerSound(sidecar)' /\ StateSound(state)'
      /\ Recoverable(sidecar)' /\ Mirror(state)'
  BY <1>1, <1>2, DraftObserved DEF EditAndSave
<1>4. UNCHANGED <<cfg, mode, key, pendingKey, prevKey, lastKey, torn, savedAs, survivor>>
  BY DEF EditAndSave, secret
<1>c. \/ step' = "idle" /\ undo' = undo /\ prior' = prior
      \/ step' = "edited" /\ undo' = u /\ prior' = state
  BY <1>1, <1>2 DEF command
<1>p. /\ StateOK(prior)' /\ Covered(prior)'
      /\ undo' = "restore" => StateSound(prior)' /\ Mirror(prior)'
  <2>1. CASE step' = "idle" /\ undo' = undo /\ prior' = prior
    BY <1>2, <2>1 DEF TypeOK, StateOK, LedgerOK, StatesCovered, Covered
  <2>2. CASE prior' = state
    <3>1. /\ StateOK(state) /\ Covered(state) /\ StateSound(state) /\ Mirror(state)
      BY <1>2 DEF TypeOK, StatesCovered, RevisionsSound, Mirrored
    <3>2. StateSound(prior') /\ Mirror(prior')
      BY <2>2, <3>1
    <3> QED BY <1>4, <2>2, <3>1, <3>2, SoundNext, MirrorNext DEF StateOK, LedgerOK, Covered
  <2> QED BY <1>c, <2>1, <2>2
<1>5. TypeOK'
  BY <1>c, <1>p, <1>3, <1>4 DEF TypeOK, StateOK, LedgerOK
<1>6. CommandsUp' /\ Journalled' /\ StatesCovered'
  BY <1>c, <1>p, <1>2, <1>3, <1>4 DEF CommandsUp, Journalled, StatesCovered, Covered
<1>7. RevisionsSound' /\ OneContent'
  BY <1>p, <1>2, <1>3, <1>4 DEF RevisionsSound, OneContent
<1>8. FileKept' /\ Mirrored'
  BY <1>c, <1>p, <1>2, <1>3, <1>4 DEF FileKept, Mirrored
<1> QED BY <1>5, <1>6, <1>7, <1>8

\* A command has returned.
LEMMA IdleOK ==
    ASSUME Idle
    PROVE  StateOK(prior)' /\ Covered(prior)' /\ step' = "idle" /\ undo' = "keep"
<1>1. Template \in Contents
  BY ConfigAssumption DEF ConfigAssumption
<1>2. StateOK(prior') /\ Covered(prior')
  BY <1>1, ReadOnlyOK DEF Idle
<1> QED BY <1>2 DEF Idle, StateOK, LedgerOK, Covered

LEMMA ObserveOldStep ==
    ASSUME DraftInv, ObserveOldDraft
    PROVE  DraftInv'
<1> USE DEF DraftInv
<1>0. prior.draft \in Contents
  BY StateFields DEF TypeOK
<1>1. PICK o \in SidecarOutcomes :
          /\ ObserveWrites(state, prior.draft, o) /\ state' = Observed(state, prior.draft, o)
          /\ mode' = IF ObserveFails(state, prior.draft, o) THEN "readonly" ELSE mode
  BY DEF ObserveOldDraft
<1>2. Live /\ step = "undo" /\ mode = "up"
  BY DEF ObserveOldDraft, Live, CommandsUp
<1>3. /\ LedgerOK(sidecar)' /\ StateOK(state)'
      /\ Covered(state)' /\ LedgerSound(sidecar)' /\ StateSound(state)'
      /\ Recoverable(sidecar)' /\ Mirror(state)'
  BY <1>0, <1>1, <1>2, DraftObserved DEF ObserveOldDraft
<1>4. UNCHANGED <<cfg, key, pendingKey, prevKey, lastKey, torn, savedAs, survivor>>
  BY DEF ObserveOldDraft, secret
<1>i. StateOK(prior)' /\ Covered(prior)' /\ step' = "idle" /\ undo' = "keep"
  BY IdleOK DEF ObserveOldDraft
<1>5. TypeOK'
  BY <1>1, <1>i, <1>3, <1>4 DEF TypeOK, StateOK, LedgerOK
<1>6. CommandsUp' /\ Journalled' /\ StatesCovered'
  BY <1>i, <1>2, <1>3, <1>4 DEF CommandsUp, Journalled, StatesCovered
<1>7. RevisionsSound' /\ OneContent'
  BY <1>i, <1>2, <1>3, <1>4 DEF RevisionsSound, OneContent
<1>8. FileKept' /\ Mirrored'
  BY <1>i, <1>2, <1>3, <1>4 DEF FileKept, Mirrored
<1> QED BY <1>5, <1>6, <1>7, <1>8

-----------------------------------------------------------------------------
(* The draft: startup.                                                     *)

LEMMA SurvivorIs ==
    ASSUME DraftInv, survivor # <<>>
    PROVE  /\ survivor[1] \in Revisions /\ survivor[2] \in Contents
           /\ survivor = <<survivor[1], survivor[2]>>
           /\ cfg = survivor[2] /\ cfg # Missing /\ cfg # Damaged
<1>1. survivor \in Revisions \X Contents /\ cfg = survivor[2]
  BY DEF DraftInv, TypeOK, FileKept
<1>2. survivor[2] \in Contents
  BY <1>1
<1> QED BY <1>1, <1>2, ConfigAssumption DEF ConfigAssumption

LEMMA LoadWithoutStep ==
    ASSUME DraftInv, LoadWithoutConfig
    PROVE  DraftInv'
<1> USE DEF DraftInv
<1> DEFINE l == ClearPending(sidecar)
<1>1. step = "idle" /\ undo # "restore" /\ survivor = <<>>
  BY SurvivorIs DEF LoadWithoutConfig, CommandsUp
<1>2. UNCHANGED <<cfg, sidecar, step, undo, prior, key, pendingKey, prevKey, lastKey, torn,
                  savedAs, survivor>>
  BY DEF LoadWithoutConfig, command, secret, history
<1>3. LedgerOK(sidecar) /\ sidecar \in Ledgers /\ LedgerSound(sidecar)
  BY DEF TypeOK, LedgerOK, RevisionsSound
<1>4. /\ l \in Ledgers /\ l.last = sidecar.last /\ l.cRev = sidecar.cRev
      /\ l.cFp = sidecar.cFp /\ l.pRev = 0 /\ l.pFp = None
  BY <1>3, ZeroOK DEF Ledgers, ClearPending
<1> HIDE DEF l
<1>5. LedgerOK(l) /\ 0 <= l.last
  <2>1. l.last \in Nat
    BY <1>4, ConfigAssumption DEF ConfigAssumption, Ledgers, Revisions
  <2> QED BY <1>3, <1>4, <2>1 DEF LedgerOK
<1>6. LedgerSound(l)
  BY <1>3, <1>4 DEF LedgerSound, Entry, Agree
<1>7. /\ StateOK(state') /\ Covered(state') /\ state'.ledger = l
      /\ state'.draftRev = 0 /\ state'.savedRev = 0
  <2>1. state' = NewState(Template, 0, l) /\ Template \in Contents
    BY ConfigAssumption DEF ConfigAssumption, LoadWithoutConfig, l
  <2> QED BY <1>5, <2>1, ZeroOK, NewStateOK
<1>8. StateSound(state')
  BY <1>6, <1>7 DEF StateSound, Entry, Agree
<1>9. StateSound(state)' /\ LedgerSound(sidecar)'
  BY <1>2, <1>3, <1>8, SoundNext
<1>10. TypeOK'
  BY <1>2, <1>7 DEF LoadWithoutConfig, TypeOK, StateOK, LedgerOK
<1>11. CommandsUp' /\ Journalled' /\ StatesCovered'
  BY <1>1, <1>2, <1>7 DEF CommandsUp, Journalled, StatesCovered, Covered
<1>12. RevisionsSound' /\ OneContent'
  BY <1>1, <1>2, <1>9 DEF RevisionsSound, OneContent
<1>13. FileKept' /\ Mirrored'
  BY <1>1, <1>2 DEF FileKept, Mirrored, Recoverable, Mirror
<1> QED BY <1>10, <1>11, <1>12, <1>13

LEMMA ObserveStartupStep ==
    ASSUME DraftInv, ObserveStartup
    PROVE  DraftInv'
<1> USE DEF DraftInv
<1> DEFINE d == IF cfg = Missing THEN state.draft ELSE PreparedOf[state.saved]
<1>0. d \in Contents
  BY StateFields, ConfigAssumption DEF ConfigAssumption, TypeOK
<1>1. PICK o \in SidecarOutcomes :
          /\ ObserveWrites(state, d, o) /\ state' = Observed(state, d, o)
          /\ mode' = IF ObserveFails(state, d, o) THEN "readonly" ELSE "up"
  BY DEF ObserveStartup
<1> HIDE DEF d
<1>2. Live /\ step = "idle" /\ undo # "restore"
  BY DEF ObserveStartup, Live, CommandsUp
<1>3. /\ LedgerOK(sidecar)' /\ StateOK(state)'
      /\ Covered(state)' /\ LedgerSound(sidecar)' /\ StateSound(state)'
      /\ Recoverable(sidecar)' /\ Mirror(state)'
  BY <1>0, <1>1, <1>2, DraftObserved DEF ObserveStartup
<1>4. UNCHANGED <<cfg, step, undo, prior, key, pendingKey, prevKey, lastKey, torn, savedAs,
                  survivor>>
  BY DEF ObserveStartup, command, secret
<1>5. TypeOK'
  BY <1>1, <1>3, <1>4 DEF TypeOK, StateOK, LedgerOK
<1>6. CommandsUp' /\ Journalled' /\ StatesCovered'
  BY <1>2, <1>3, <1>4 DEF CommandsUp, Journalled, StatesCovered, Covered
<1>7. RevisionsSound' /\ OneContent'
  BY <1>2, <1>3, <1>4 DEF RevisionsSound, OneContent
<1>8. FileKept' /\ Mirrored'
  BY <1>2, <1>3, <1>4 DEF FileKept, Mirrored
<1> QED BY <1>5, <1>6, <1>7, <1>8

\* load gives the content it finds a revision that names no other.
LEMMA ReconciledSound ==
    ASSUME DraftInv, NEW c \in Contents, Reconciled(sidecar, c).last <= MaxRevision
    PROVE  LET l == Reconciled(sidecar, c) IN
           /\ l.cRev \in 1..MaxRevision /\ savedAs[l.cRev] \subseteq {c}
           /\ LedgerSound(l)
           /\ survivor # <<>> /\ cfg = c => survivor = <<l.cRev, c>>
<1> DEFINE l == Reconciled(sidecar, c)
<1>1. LedgerOK(sidecar) /\ LedgerSound(sidecar) /\ Recoverable(sidecar)
  BY DEF DraftInv, TypeOK, RevisionsSound, FileKept
<1>2. /\ LedgerOK(l)
      /\ l.cFp = c /\ l.pRev = 0 /\ l.pFp = None /\ l.cRev # 0
      /\ l.last \in Nat /\ l.last >= sidecar.last
      /\ l.cRev = IF sidecar.pFp = c THEN sidecar.pRev
                  ELSE IF sidecar.cFp = c THEN sidecar.cRev ELSE sidecar.last + 1
  BY <1>1, ReconciledFields
<1>3. l.last <= MaxRevision
  OBVIOUS
<1> HIDE DEF l
<1>4. l.cRev \in 1..MaxRevision /\ l.cRev <= l.last /\ sidecar.last \in Nat
  BY <1>1, <1>2, <1>3, LedgerFields, ConfigAssumption
  DEF ConfigAssumption, Revisions, LedgerOK
<1>5. savedAs[l.cRev] \subseteq {c}
  <2>1. CASE sidecar.pFp = c \/ sidecar.cFp = c
    BY <1>1, <1>2, <2>1 DEF LedgerSound, Entry
  <2>2. CASE sidecar.pFp # c /\ sidecar.cFp # c
    <3>1. l.cRev = sidecar.last + 1
      BY <1>2, <2>2
    <3>2. ~(l.cRev <= sidecar.last)
      BY <1>4, <3>1
    <3> QED BY <1>1, <1>4, <3>2 DEF LedgerSound
  <2> QED BY <2>1, <2>2
<1>6. LedgerSound(l)
  <2>1. ASSUME NEW r \in 1..MaxRevision, savedAs[r] # {} PROVE r <= l.last
    <3>1. r <= sidecar.last
      BY <1>1, <2>1 DEF LedgerSound
    <3> QED BY <1>2, <1>4, <3>1
  <2> QED BY <1>2, <1>5, <2>1 DEF LedgerSound, Entry, Agree
<1>7. ASSUME survivor # <<>>, cfg = c PROVE survivor = <<l.cRev, c>>
  <2>1. survivor = <<survivor[1], survivor[2]>> /\ survivor[2] = c
    BY <1>7, SurvivorIs
  <2>2. survivor[1] = l.cRev
    BY <1>1, <1>2, <1>7, <2>1 DEF Recoverable
  <2> QED BY <2>1, <2>2
<1> QED BY <1>4, <1>5, <1>6, <1>7 DEF l

LEMMA LoadStep ==
    ASSUME DraftInv, LoadConfig
    PROVE  /\ DraftInv'
           /\ mode' = "starting" /\ survivor # <<>>
                => <<state'.savedRev, state'.saved>> = survivor
<1> USE DEF DraftInv
<1> DEFINE c == IF cfg = Damaged THEN Template ELSE cfg
           l == Reconciled(sidecar, c)
<1>1. /\ step = "idle" /\ undo # "restore" /\ c \in Contents /\ l.last <= MaxRevision
      /\ survivor # <<>> => cfg = c
  BY SurvivorIs, ConfigAssumption DEF ConfigAssumption, LoadConfig, CommandsUp, TypeOK
<1>2. PICK o \in SidecarOutcomes :
          /\ WriteSidecar(l, o)
          /\ state' = IF o = "ok" THEN NewState(c, l.cRev, l) ELSE ReadOnly(c)
          /\ mode' = IF o = "ok" /\ cfg # Damaged THEN "starting" ELSE "readonly"
          /\ savedAs' = IF o = "ok" THEN Note(savedAs, l.cRev, c) ELSE savedAs
  BY DEF LoadConfig
<1>3. UNCHANGED <<cfg, step, undo, prior, key, pendingKey, prevKey, lastKey, torn,
                  survivor>>
  BY DEF LoadConfig, command, secret
<1>4. /\ LedgerOK(l) /\ l.cFp = c /\ l.pRev = 0 /\ l.pFp = None /\ l.cRev # 0
      /\ LedgerOK(sidecar) /\ LedgerSound(sidecar) /\ Recoverable(sidecar)
  BY <1>1, ReconciledFields DEF TypeOK, RevisionsSound, FileKept
<1>5. /\ l.cRev \in 1..MaxRevision /\ savedAs[l.cRev] \subseteq {c}
      /\ LedgerSound(l)
      /\ survivor # <<>> => survivor = <<l.cRev, c>>
  BY <1>1, ReconciledSound
<1> HIDE DEF c, l
<1>6. Recoverable(l)
  BY <1>1, <1>4, <1>5, ConfigAssumption DEF ConfigAssumption, Recoverable
<1>7. sidecar' = sidecar \/ sidecar' = l
  BY <1>2 DEF WriteSidecar
<1>8. LedgerOK(sidecar)' /\ Recoverable(sidecar)'
  <2>1. LedgerOK(sidecar') /\ Recoverable(sidecar')
    BY <1>4, <1>6, <1>7
  <2> QED BY <1>3, <2>1, MirrorNext DEF LedgerOK
<1>9. CASE o = "ok"
  <2>1. /\ StateOK(state') /\ Covered(state') /\ sidecar' = l /\ state'.ledger = l
        /\ state'.draft = c /\ state'.saved = c
        /\ state'.draftRev = l.cRev /\ state'.savedRev = l.cRev
    <3>1. l.cRev \in Revisions /\ l.cRev <= l.last
      BY <1>4 DEF LedgerOK, Ledgers
    <3> QED BY <1>1, <1>2, <1>4, <1>9, <3>1, NewStateOK DEF WriteSidecar
  <2>2. /\ savedAs' \in [1..MaxRevision -> SUBSET Contents]
        /\ savedAs'[l.cRev] = {c}
        /\ \A r \in 1..MaxRevision : r # l.cRev => savedAs'[r] = savedAs[r]
    <3>1. savedAs \in [1..MaxRevision -> SUBSET Contents]
      BY DEF TypeOK
    <3>2. savedAs' = [savedAs EXCEPT ![l.cRev] = savedAs[l.cRev] \union {c}]
      BY <1>2, <1>4, <1>9 DEF Note
    <3> QED BY <1>1, <1>5, <3>1, <3>2
  <2>3. \A r \in 1..MaxRevision : savedAs'[r] # {} => r <= l.last
    BY <1>4, <1>5, <2>2 DEF LedgerSound, LedgerOK
  <2>4. LedgerSound(sidecar)' /\ LedgerSound(state.ledger)'
    BY <1>4, <2>1, <2>2, <2>3 DEF LedgerSound, Entry, Agree
  <2>5. StateSound(state)'
    BY <1>4, <2>1, <2>2, <2>4 DEF StateSound, Entry, Agree
  <2>6. Mirror(state)'
    BY <1>1, <1>3, <1>4, <1>5, <2>1, ConfigAssumption
    DEF ConfigAssumption, Mirror
  <2>7. OneContent'
    BY <2>2 DEF OneContent
  <2>8. TypeOK'
    BY <1>2, <1>3, <1>8, <2>1, <2>2 DEF TypeOK, StateOK, LedgerOK
  <2>9. CommandsUp' /\ Journalled' /\ StatesCovered'
    BY <1>1, <1>3, <2>1 DEF CommandsUp, Journalled, StatesCovered, Covered
  <2>10. RevisionsSound' /\ FileKept' /\ Mirrored'
    BY <1>1, <1>3, <1>8, <2>4, <2>5, <2>6 DEF RevisionsSound, FileKept, Mirrored
  <2>11. survivor # <<>> => <<state'.savedRev, state'.saved>> = survivor
    BY <1>5, <2>1
  <2> QED BY <2>7, <2>8, <2>9, <2>10, <2>11
<1>10. CASE o # "ok"
  <2>1. /\ StateOK(state') /\ Covered(state') /\ mode' = "readonly"
        /\ UNCHANGED savedAs
    BY <1>1, <1>2, <1>10, ReadOnlyOK
  <2>2. LedgerSound(sidecar)'
    <3>1. LedgerSound(sidecar')
      BY <1>4, <1>5, <1>7
    <3> QED BY <2>1, <3>1, SoundNext
  <2>3. TypeOK'
    BY <1>3, <1>8, <2>1 DEF TypeOK, StateOK, LedgerOK
  <2>4. CommandsUp' /\ Journalled' /\ StatesCovered'
    BY <1>1, <1>3, <2>1 DEF CommandsUp, Journalled, StatesCovered, Covered
  <2>5. RevisionsSound' /\ OneContent' /\ FileKept' /\ Mirrored'
    BY <1>1, <1>3, <1>8, <2>1, <2>2
    DEF RevisionsSound, OneContent, FileKept, Mirrored, Live
  <2> QED BY <2>1, <2>3, <2>4, <2>5
<1> QED BY <1>9, <1>10

-----------------------------------------------------------------------------
(* The draft: saves.                                                       *)

LEMMA SaveConfigStep ==
    ASSUME DraftInv, SaveConfig
    PROVE  DraftInv'
<1> USE DEF DraftInv
<1>1. /\ step = "idle" /\ mode = "up" /\ step' = "edited" /\ undo' = "keep"
      /\ UNCHANGED <<cfg, sidecar, mode, state, prior, key, pendingKey, prevKey, lastKey,
                     torn, savedAs, survivor>>
  BY DEF SaveConfig, secret, history
<1>2. TypeOK'
  BY <1>1 DEF TypeOK, StateOK, LedgerOK
<1>3. CommandsUp' /\ Journalled' /\ StatesCovered'
  BY <1>1 DEF CommandsUp, Journalled, StatesCovered, Covered
<1>4. StateSound(state)' <=> StateSound(state)
  BY <1>1 DEF StateSound, LedgerSound, Entry, Agree
<1>5. RevisionsSound' /\ OneContent'
  BY <1>1, <1>4 DEF RevisionsSound, OneContent, Live, LedgerSound, Entry, Agree
<1>6. FileKept' /\ Mirrored'
  BY <1>1 DEF FileKept, Mirrored, Live, Recoverable, Mirror
<1> QED BY <1>2, <1>3, <1>5, <1>6

\* A save that failed leaves a state that covers what was saved, its own or the
\* cloned one.
LEMMA FailedSaveKeeps ==
    ASSUME DraftInv, step \in {"edited", "prepared", "keyed"}, NEW s, SaveFails(s),
           StateOK(s), Covered(s), StateSound(s), Mirror(s)
    PROVE  /\ StateOK(state') /\ Covered(state') /\ StateSound(state') /\ Mirror(state')
           /\ StateOK(prior') /\ Covered(prior')
           /\ step' \in {"idle", "undo"} /\ undo' \in {"keep", "observe"}
<1>1. /\ StateOK(prior) /\ Covered(prior)
      /\ undo = "restore" => StateSound(prior) /\ Mirror(prior)
  BY DEF DraftInv, TypeOK, StatesCovered, RevisionsSound, Mirrored
<1>2. StateOK(state') /\ Covered(state') /\ StateSound(state') /\ Mirror(state')
  BY <1>1 DEF SaveFails
<1>3. CASE undo = "observe"
  BY <1>1, <1>2, <1>3 DEF SaveFails
<1>4. CASE undo # "observe"
  <2>1. Idle
    BY <1>4 DEF SaveFails
  <2>2. Template \in Contents /\ prior' = ReadOnly(Template)
    BY <2>1, ConfigAssumption DEF ConfigAssumption, Idle
  <2>3. step' = "idle" /\ undo' = "keep"
    BY <2>1 DEF Idle
  <2> QED BY <1>2, <2>2, <2>3, ReadOnlyOK
<1> QED BY <1>3, <1>4

\* What is left to show of a step that ends a save with an error.
LEMMA FailedSaveStep ==
    ASSUME DraftInv, step \in {"edited", "prepared", "keyed"}, NEW s, SaveFails(s),
           StateOK(s), Covered(s), StateSound(s), Mirror(s),
           mode' = mode, savedAs' = savedAs,
           {key, pendingKey, prevKey, lastKey}' \subseteq Keys \union {NoKey},
           torn' \in BOOLEAN, cfg' \in Contents \union {Missing, Damaged},
           LedgerOK(sidecar'), LedgerSound(sidecar'),
           \/ survivor' = <<>>
           \/ survivor' = survivor /\ cfg' = cfg /\ Recoverable(sidecar')
    PROVE  DraftInv'
<1>1. /\ StateOK(state') /\ Covered(state') /\ StateSound(state') /\ Mirror(state')
      /\ StateOK(prior') /\ Covered(prior')
      /\ step' \in {"idle", "undo"} /\ undo' \in {"keep", "observe"}
  BY FailedSaveKeeps
<1>2. mode = "up"
  BY DEF DraftInv, CommandsUp
<1>3. survivor' = <<>> \/ survivor' \in Revisions \X Contents
  BY DEF DraftInv, TypeOK
<1>4. TypeOK'
  BY <1>1, <1>3 DEF DraftInv, TypeOK, StateOK, LedgerOK
<1>5. CommandsUp' /\ Journalled' /\ StatesCovered'
  BY <1>1, <1>2 DEF CommandsUp, Journalled, StatesCovered, Covered
<1>6. RevisionsSound' /\ OneContent'
  BY <1>1, <1>2, SoundNext DEF DraftInv, RevisionsSound, OneContent
<1>7. FileKept' /\ Mirrored'
  <2>1. CASE survivor' = <<>>
    BY <1>1, <2>1 DEF FileKept, Mirrored, Recoverable, Mirror
  <2>2. CASE survivor' = survivor /\ cfg' = cfg /\ Recoverable(sidecar')
    BY <1>1, <2>2, MirrorNext DEF DraftInv, FileKept, Mirrored
  <2> QED BY <2>1, <2>2
<1> QED BY <1>4, <1>5, <1>6, <1>7 DEF DraftInv

\* A command's state between its edit and the rename.
LEMMA RunningState ==
    ASSUME DraftInv, step \in {"edited", "prepared", "keyed"}
    PROVE  /\ StateOK(state) /\ Covered(state) /\ StateSound(state) /\ Mirror(state)
           /\ LedgerOK(sidecar) /\ LedgerSound(sidecar) /\ Recoverable(sidecar)
           /\ mode = "up" /\ Live /\ torn \in BOOLEAN
           /\ cfg \in Contents \union {Missing, Damaged}
           /\ {key, pendingKey, prevKey, lastKey} \subseteq Keys \union {NoKey}
BY DEF DraftInv, TypeOK, StatesCovered, CommandsUp, RevisionsSound, Mirrored, FileKept, Live

LEMMA PrepareStep ==
    ASSUME DraftInv, Prepare
    PROVE  DraftInv'
<1> DEFINE s == PrepareSave(state)
<1>1. step = "edited" /\ s.ledger.last <= MaxRevision
      /\ UNCHANGED <<cfg, mode, key, pendingKey, prevKey, lastKey, torn, savedAs, survivor>>
  BY DEF Prepare, secret
<1>2. PICK o \in SidecarOutcomes :
          /\ WriteSidecar(s.ledger, o)
          /\ IF o = "ok" THEN state' = s /\ step' = "prepared" /\ UNCHANGED <<undo, prior>>
                         ELSE SaveFails(s)
  BY DEF Prepare
<1>3. /\ StateOK(state) /\ Covered(state) /\ StateSound(state) /\ Mirror(state)
      /\ LedgerOK(sidecar) /\ LedgerSound(sidecar) /\ Recoverable(sidecar)
      /\ mode = "up" /\ torn \in BOOLEAN /\ cfg \in Contents \union {Missing, Damaged}
      /\ {key, pendingKey, prevKey, lastKey} \subseteq Keys \union {NoKey}
  BY <1>1, RunningState
<1>4. survivor # <<>> => survivor[1] # 0
  BY DEF DraftInv, FileKept
<1>5. /\ StateOK(s) /\ Covered(s) /\ StateSound(s) /\ Mirror(s) /\ s.draftRev # 0
      /\ s.ledger.pRev = s.draftRev /\ s.ledger.pFp = s.draft
  BY <1>1, <1>3, <1>4, PreparedFields, PreparedKeeps
<1>6. LedgerOK(s.ledger) /\ LedgerSound(s.ledger) /\ Recoverable(s.ledger)
  BY <1>5, MirrorRecovers DEF StateOK, StateSound
<1> HIDE DEF s
<1>7. sidecar' = sidecar \/ sidecar' = s.ledger
  BY <1>2 DEF WriteSidecar
<1>8. LedgerOK(sidecar') /\ LedgerSound(sidecar') /\ Recoverable(sidecar')
  BY <1>3, <1>6, <1>7
<1>9. CASE o = "ok"
  <2>1. /\ state' = s /\ step' = "prepared" /\ UNCHANGED <<undo, prior>>
        /\ sidecar' = s.ledger
    BY <1>2, <1>9 DEF WriteSidecar
  <2>2. StateSound(state)' /\ LedgerSound(sidecar)'
    BY <1>1, <1>5, <1>8, <2>1, SoundNext
  <2>3. Mirror(state)' /\ Recoverable(sidecar)'
    BY <1>1, <1>5, <1>8, <2>1, MirrorNext
  <2>4. TypeOK'
    BY <1>1, <1>5, <1>6, <2>1 DEF DraftInv, TypeOK, StateOK, LedgerOK
  <2>5. CommandsUp' /\ Journalled' /\ StatesCovered'
    BY <1>1, <1>3, <1>5, <2>1
    DEF DraftInv, CommandsUp, Journalled, StatesCovered, Covered
  <2>6. /\ undo = "restore" => StateSound(prior) /\ Mirror(prior)
        /\ prior' = prior /\ undo' = undo
    BY <1>1, <2>1 DEF DraftInv, RevisionsSound, Mirrored
  <2>7. RevisionsSound' /\ OneContent'
    BY <1>1, <2>2, <2>6, SoundNext DEF DraftInv, RevisionsSound, OneContent
  <2>8. FileKept' /\ Mirrored'
    BY <1>1, <2>1, <2>3, <2>6, MirrorNext DEF DraftInv, FileKept, Mirrored
  <2> QED BY <2>4, <2>5, <2>7, <2>8 DEF DraftInv
<1>10. CASE o # "ok"
  <2>1. SaveFails(s)
    BY <1>2, <1>10
  <2> QED BY <1>1, <1>3, <1>5, <1>8, <2>1, FailedSaveStep
<1> QED BY <1>9, <1>10

LEMMA PersistKeysStep ==
    ASSUME DraftInv, PersistKeys
    PROVE  DraftInv'
<1>1. step = "prepared" /\ UNCHANGED <<cfg, sidecar, mode, pendingKey, lastKey, 
                                       savedAs, survivor>>
  BY DEF PersistKeys, history
<1>2. PICK o \in ConfigOutcomes, restored \in BOOLEAN :
          /\ key' = IF o = "failed" \/ (o = "late" /\ restored) THEN key ELSE pendingKey
          /\ torn' = (torn \/ (o = "late" /\ ~restored))
          /\ IF o = "ok" THEN /\ step' = "keyed" /\ prevKey' = key
                              /\ UNCHANGED <<state, undo, prior>>
                         ELSE SaveFails(state) /\ UNCHANGED prevKey
  BY DEF PersistKeys
<1>3. /\ StateOK(state) /\ Covered(state) /\ StateSound(state) /\ Mirror(state)
      /\ LedgerOK(sidecar) /\ LedgerSound(sidecar) /\ Recoverable(sidecar)
      /\ mode = "up" /\ torn \in BOOLEAN
      /\ cfg \in Contents \union {Missing, Damaged}
      /\ {key, pendingKey, prevKey, lastKey} \subseteq Keys \union {NoKey}
  BY <1>1, RunningState
<1>4. torn' \in BOOLEAN
  BY <1>2
<1>5. {key, pendingKey, prevKey, lastKey}' \subseteq Keys \union {NoKey}
  BY <1>1, <1>2, <1>3
<1>6. CASE o = "ok"
  <2>1. step' = "keyed" /\ UNCHANGED <<state, undo, prior>>
    BY <1>2, <1>6
  <2>2. TypeOK'
    BY <1>1, <1>4, <1>5, <2>1 DEF DraftInv, TypeOK, StateOK, LedgerOK
  <2>3. CommandsUp' /\ Journalled' /\ StatesCovered'
    BY <1>1, <2>1 DEF DraftInv, CommandsUp, Journalled, StatesCovered, Covered
  <2>4. /\ StateSound(state') /\ Mirror(state')
        /\ LedgerSound(sidecar') /\ Recoverable(sidecar')
        /\ undo' = "restore" => StateSound(prior') /\ Mirror(prior')
    BY <1>1, <1>3, <2>1 DEF DraftInv, RevisionsSound, Mirrored
  <2>5. RevisionsSound' /\ OneContent'
    BY <1>1, <2>4, SoundNext DEF DraftInv, RevisionsSound, OneContent
  <2>6. FileKept' /\ Mirrored'
    BY <1>1, <2>1, <2>4, MirrorNext DEF DraftInv, FileKept, Mirrored
  <2> QED BY <2>2, <2>3, <2>5, <2>6 DEF DraftInv
<1>7. CASE o # "ok"
  <2>1. SaveFails(state)
    BY <1>2, <1>7
  <2> QED BY <1>1, <1>3, <1>4, <1>5, <2>1, FailedSaveStep
<1> QED BY <1>6, <1>7

LEMMA WriteConfigStep ==
    ASSUME DraftInv, WriteConfig
    PROVE  DraftInv'
<1>1. /\ step \in {"prepared", "keyed"}
      /\ UNCHANGED <<sidecar, mode, pendingKey, savedAs>> /\ prevKey' = NoKey
  BY DEF WriteConfig
<1>2. PICK o \in ConfigOutcomes, restored \in BOOLEAN :
          /\ cfg' = IF o = "failed" THEN cfg ELSE state.draft
          /\ IF o = "ok" THEN step' = "renamed" /\ UNCHANGED <<state, undo, prior>>
                         ELSE SaveFails(state)
          /\ key' = IF step = "keyed" /\ o # "ok" /\ restored THEN prevKey ELSE key
          /\ torn' = (torn \/ (step = "keyed" /\ o # "ok" /\ ~restored))
          /\ survivor' = IF o = "ok" THEN <<state.draftRev, state.draft>>
                         ELSE IF o = "late" THEN <<>> ELSE survivor
          /\ lastKey' = IF step = "keyed" /\ o = "ok" THEN key ELSE lastKey
  BY DEF WriteConfig
<1>3. /\ StateOK(state) /\ Covered(state) /\ StateSound(state) /\ Mirror(state)
      /\ LedgerOK(sidecar) /\ LedgerSound(sidecar) /\ Recoverable(sidecar)
      /\ mode = "up" /\ torn \in BOOLEAN
      /\ cfg \in Contents \union {Missing, Damaged}
      /\ {key, pendingKey, prevKey, lastKey} \subseteq Keys \union {NoKey}
  BY <1>1, RunningState
<1>4. torn' \in BOOLEAN
  BY <1>2
<1>5. {key, pendingKey, prevKey, lastKey}' \subseteq Keys \union {NoKey}
  BY <1>1, <1>2, <1>3
<1>6. cfg' \in Contents \union {Missing, Damaged}
  BY <1>2, <1>3, StateFields
<1>7. CASE o = "ok"
  <2>1. /\ step' = "renamed" /\ UNCHANGED <<state, undo, prior>> /\ cfg' = state.draft
        /\ survivor' = <<state.draftRev, state.draft>>
    BY <1>2, <1>7
  <2>2. state.draftRev \in Revisions /\ state.draft \in Contents /\ state.draftRev # 0
        /\ sidecar.pRev = state.draftRev /\ sidecar.pFp = state.draft
    BY <1>1, <1>3, StateFields DEF DraftInv, Journalled
  <2>3. TypeOK'
    BY <1>1, <1>4, <1>5, <1>6, <2>1, <2>2 DEF DraftInv, TypeOK, StateOK, LedgerOK
  <2>4. CommandsUp' /\ Journalled' /\ StatesCovered'
    BY <1>1, <1>3, <2>1 DEF DraftInv, CommandsUp, Journalled, StatesCovered, Covered
  <2>5. /\ StateSound(state') /\ LedgerSound(sidecar')
        /\ undo' = "restore" => StateSound(prior')
    BY <1>1, <1>3, <2>1 DEF DraftInv, RevisionsSound
  <2>6. RevisionsSound' /\ OneContent'
    BY <1>1, <2>5, SoundNext DEF DraftInv, RevisionsSound, OneContent
  <2>7. FileKept' /\ Mirrored'
    BY <1>1, <2>1, <2>2 DEF FileKept, Mirrored, Recoverable
  <2> QED BY <2>3, <2>4, <2>6, <2>7 DEF DraftInv
<1>8. CASE o # "ok"
  <2>1. SaveFails(state)
    BY <1>2, <1>8
  <2>2. survivor' = <<>> \/ (survivor' = survivor /\ cfg' = cfg /\ Recoverable(sidecar'))
    <3>1. o \in {"failed", "late"}
      BY <1>8, ConfigAssumption DEF ConfigAssumption, Outcomes
    <3> QED BY <1>1, <1>2, <1>3, <3>1
  <2> QED BY <1>1, <1>3, <1>4, <1>5, <1>6, <2>1, <2>2, FailedSaveStep
<1> QED BY <1>7, <1>8

LEMMA FinishSaveStep ==
    ASSUME DraftInv, FinishSave
    PROVE  DraftInv'
<1> DEFINE s == FinishedSave(state)
<1>1. /\ step = "renamed" /\ mode = "up" /\ state' = s
      /\ savedAs' = Note(savedAs, s.savedRev, s.saved) /\ pendingKey' = NoKey
      /\ UNCHANGED <<cfg, mode, key, prevKey, lastKey, torn, survivor>>
  BY DEF FinishSave, DraftInv, CommandsUp
<1>2. sidecar' \in {sidecar, s.ledger}
  BY DEF FinishSave, WriteSidecar
<1>3. /\ StateOK(state) /\ Covered(state) /\ StateSound(state)
      /\ LedgerOK(sidecar) /\ state.draftRev # 0 /\ sidecar = state.ledger
      /\ sidecar.pRev = state.draftRev /\ sidecar.pFp = state.draft
      /\ survivor # <<>> => survivor = <<state.draftRev, state.draft>>
  BY <1>1
  DEF DraftInv, TypeOK, StatesCovered, RevisionsSound, Live, Journalled, FileKept
<1>4. /\ StateOK(s) /\ Covered(s)
      /\ s.draft = state.draft /\ s.draftRev = state.draftRev
      /\ s.saved = state.draft /\ s.savedRev = state.draftRev
      /\ s.ledger.last = state.ledger.last
      /\ s.ledger.cRev = state.draftRev /\ s.ledger.cFp = state.draft
      /\ s.ledger.pRev = 0 /\ s.ledger.pFp = None
  BY <1>3, FinishedFields
<1> HIDE DEF s
<1>5. state.draftRev \in 1..MaxRevision /\ state.draft \in Contents
      /\ state.draft # None
  BY <1>3, StateFields, ConfigAssumption DEF ConfigAssumption, Revisions
<1>6. /\ savedAs' \in [1..MaxRevision -> SUBSET Contents]
      /\ savedAs'[state.draftRev] = {state.draft}
      /\ \A r \in 1..MaxRevision : r # state.draftRev => savedAs'[r] = savedAs[r]
  <2>1. savedAs \in [1..MaxRevision -> SUBSET Contents]
    BY DEF DraftInv, TypeOK
  <2>2. savedAs[state.draftRev] \subseteq {state.draft}
    BY <1>3 DEF StateSound, Entry
  <2>3. savedAs' = [savedAs EXCEPT ![state.draftRev] =
                      savedAs[state.draftRev] \union {state.draft}]
    BY <1>1, <1>3, <1>4 DEF Note
  <2> QED BY <1>5, <2>1, <2>2, <2>3
<1>7. \A r \in 1..MaxRevision : savedAs'[r] # {} => r <= state.ledger.last
  BY <1>3, <1>6 DEF StateSound, LedgerSound, Covered
<1>8. LedgerSound(state.ledger)'
  BY <1>1, <1>4, <1>6, <1>7 DEF LedgerSound, Entry, Agree
<1>9. LedgerSound(sidecar)'
  <2>1. CASE sidecar' = s.ledger
    BY <1>1, <1>8, <2>1
  <2>2. CASE sidecar' = sidecar
    <3>1. /\ Agree(sidecar.cRev, sidecar.cFp, state.draftRev, state.draft)
          /\ Entry(sidecar.cRev, sidecar.cFp)
      BY <1>3 DEF StateSound, LedgerSound
    <3>2. sidecar.cRev \in 0..MaxRevision
      BY <1>3, LedgerFields DEF Revisions
    <3>3. sidecar.cRev # 0 => savedAs'[sidecar.cRev] \subseteq {sidecar.cFp}
      <4>1. CASE sidecar.cRev = state.draftRev
        BY <1>5, <1>6, <3>1, <4>1 DEF Agree
      <4>2. CASE sidecar.cRev # state.draftRev /\ sidecar.cRev # 0
        <5>1. sidecar.cRev \in 1..MaxRevision
          BY <3>2, <4>2, ConfigAssumption DEF ConfigAssumption
        <5> QED BY <1>6, <3>1, <4>2, <5>1 DEF Entry
      <4> QED BY <4>1, <4>2
    <3> QED BY <1>3, <1>6, <1>7, <2>2, <3>1, <3>3 DEF LedgerSound, Entry, Agree
  <2> QED BY <1>2, <2>1, <2>2
<1>10. StateSound(state)' /\ Mirror(state)' /\ Recoverable(sidecar)'
  <2>1. StateSound(state)'
    BY <1>1, <1>4, <1>6, <1>8 DEF StateSound, Entry, Agree
  <2>2. Mirror(state)'
    BY <1>1, <1>3, <1>4, <1>5 DEF Mirror
  <2>3. Recoverable(sidecar)'
    BY <1>1, <1>2, <1>3, <1>4, <1>5 DEF Recoverable
  <2> QED BY <2>1, <2>2, <2>3
<1>11. StateOK(prior)' /\ Covered(prior)' /\ step' = "idle" /\ undo' = "keep"
  BY IdleOK DEF FinishSave
<1>12. TypeOK'
  <2>1. NoKey \in Keys \union {NoKey}
    OBVIOUS
  <2>2. LedgerOK(sidecar')
    BY <1>2, <1>3, <1>4 DEF StateOK
  <2> QED BY <1>1, <1>4, <1>6, <1>11, <2>1, <2>2 DEF DraftInv, TypeOK, StateOK, LedgerOK
<1>13. CommandsUp' /\ Journalled' /\ StatesCovered'
  BY <1>1, <1>4, <1>11 DEF CommandsUp, Journalled, StatesCovered, Covered
<1>14. OneContent'
  BY <1>6 DEF DraftInv, OneContent
<1>15. RevisionsSound' /\ FileKept' /\ Mirrored'
  BY <1>1, <1>9, <1>10, <1>11 DEF DraftInv, RevisionsSound, FileKept, Mirrored
<1> QED BY <1>12, <1>13, <1>14, <1>15 DEF DraftInv

-----------------------------------------------------------------------------
(* The draft: everybody else.                                              *)

LEMMA RotateKeyStep ==
    ASSUME DraftInv, NEW k \in Keys, RotateKey(k)
    PROVE  DraftInv'
<1> USE DEF DraftInv
<1>1. /\ UNCHANGED <<cfg, sidecar, mode, state, step, undo, prior, pendingKey, prevKey,
                     savedAs, survivor>>
      /\ key' = k /\ lastKey' = k /\ torn' = FALSE
  BY DEF RotateKey, command, history
<1>k. k \in Keys /\ torn' \in BOOLEAN
  BY <1>1
<1>2. TypeOK'
  BY <1>1, <1>k DEF TypeOK, StateOK, LedgerOK
<1>3. CommandsUp' /\ Journalled' /\ StatesCovered'
  BY <1>1 DEF CommandsUp, Journalled, StatesCovered, Covered
<1>4. /\ StateSound(state)' <=> StateSound(state)
      /\ StateSound(prior)' <=> StateSound(prior)
  BY <1>1 DEF StateSound, LedgerSound, Entry, Agree
<1>5. RevisionsSound' /\ OneContent'
  BY <1>1, <1>4 DEF RevisionsSound, OneContent, Live, LedgerSound, Entry, Agree
<1>6. FileKept' /\ Mirrored'
  BY <1>1 DEF FileKept, Mirrored, Live, Recoverable, Mirror
<1> QED BY <1>2, <1>3, <1>5, <1>6

LEMMA ExternalEditStep ==
    ASSUME DraftInv, NEW c \in Contents \union {Missing, Damaged}, ExternalEdit(c)
    PROVE  DraftInv'
<1> USE DEF DraftInv
<1>1. /\ UNCHANGED <<sidecar, mode, state, step, undo, prior, key, pendingKey, prevKey,
                     lastKey, torn, savedAs>>
      /\ cfg' = c /\ survivor' = <<>>
  BY DEF ExternalEdit, command, secret
<1>2. TypeOK'
  BY <1>1 DEF TypeOK, StateOK, LedgerOK
<1>3. CommandsUp' /\ Journalled' /\ StatesCovered'
  BY <1>1 DEF CommandsUp, Journalled, StatesCovered, Covered
<1>4. /\ StateSound(state)' <=> StateSound(state)
      /\ StateSound(prior)' <=> StateSound(prior)
  BY <1>1 DEF StateSound, LedgerSound, Entry, Agree
<1>5. RevisionsSound' /\ OneContent'
  BY <1>1, <1>4 DEF RevisionsSound, OneContent, Live, LedgerSound, Entry, Agree
<1>6. FileKept' /\ Mirrored'
  BY <1>1 DEF FileKept, Mirrored, Recoverable, Mirror
<1> QED BY <1>2, <1>3, <1>5, <1>6

\* What a crash leaves is the sidecar, and the sidecar is enough.
LEMMA CrashStep ==
    ASSUME DraftInv, Crash
    PROVE  DraftInv'
<1> USE DEF DraftInv
<1>1. /\ UNCHANGED <<cfg, sidecar, key, lastKey, savedAs, survivor>>
      /\ mode' = "down" /\ state' = ReadOnly(Template)
      /\ pendingKey' = NoKey /\ prevKey' = NoKey
      /\ torn' = (torn \/ step = "keyed")
  BY DEF Crash, history
<1>2. StateOK(prior)' /\ Covered(prior)' /\ step' = "idle" /\ undo' = "keep"
  BY IdleOK DEF Crash
<1>3. StateOK(state') /\ Covered(state')
  BY <1>1, ReadOnlyOK, ConfigAssumption DEF ConfigAssumption
<1>4. torn' \in BOOLEAN
  BY <1>1 DEF TypeOK
<1>5. TypeOK'
  BY <1>1, <1>2, <1>3, <1>4 DEF TypeOK, StateOK, LedgerOK
<1>6. CommandsUp' /\ Journalled' /\ StatesCovered'
  BY <1>2, <1>3 DEF CommandsUp, Journalled, StatesCovered, Covered
<1>7. RevisionsSound' /\ OneContent'
  BY <1>1, <1>2 DEF RevisionsSound, OneContent, Live, LedgerSound, Entry, Agree
<1>8. FileKept' /\ Mirrored'
  BY <1>1, <1>2 DEF FileKept, Mirrored, Live, Recoverable
<1> QED BY <1>5, <1>6, <1>7, <1>8

LEMMA StutterStep ==
    ASSUME DraftInv, UNCHANGED vars
    PROVE  DraftInv'
<1> USE DEF DraftInv, vars, command, secret, history
<1>1. TypeOK' /\ CommandsUp' /\ Journalled' /\ StatesCovered'
  BY DEF TypeOK, StateOK, LedgerOK, CommandsUp, Journalled, StatesCovered, Covered
<1>2. /\ StateSound(state)' <=> StateSound(state)
      /\ StateSound(prior)' <=> StateSound(prior)
  BY DEF StateSound, LedgerSound, Entry, Agree
<1>3. RevisionsSound' /\ OneContent'
  BY <1>2 DEF RevisionsSound, OneContent, Live, LedgerSound, Entry, Agree
<1>4. FileKept' /\ Mirrored'
  BY DEF FileKept, Mirrored, Live, Recoverable, Mirror
<1> QED BY <1>1, <1>3, <1>4

LEMMA DraftStep == DraftInv /\ [Next]_vars => DraftInv'
<1> SUFFICES ASSUME DraftInv, [Next]_vars PROVE DraftInv'
  OBVIOUS
<1>1. CASE LoadWithoutConfig \/ LoadConfig \/ ObserveStartup
  BY <1>1, LoadWithoutStep, LoadStep, ObserveStartupStep
<1>2. ASSUME NEW d \in Contents, NEW u \in {"restore", "observe"},
             Edit(d) \/ EditAndSave(d, u)
      PROVE  DraftInv'
  BY <1>2, EditStep, EditAndSaveStep
<1>3. CASE SaveConfig \/ Prepare \/ PersistKeys \/ WriteConfig \/ FinishSave
  BY <1>3, SaveConfigStep, PrepareStep, PersistKeysStep, WriteConfigStep, FinishSaveStep
<1>4. CASE ObserveOldDraft \/ Crash \/ UNCHANGED vars
  BY <1>4, ObserveOldStep, CrashStep, StutterStep
<1>5. ASSUME NEW k \in Keys, NEW d \in Contents, RotateKey(k) \/ EnterKey(k, d)
      PROVE  DraftInv'
  BY <1>5, RotateKeyStep, EnterKeyStep
<1>6. ASSUME NEW c \in Contents \union {Missing, Damaged}, ExternalEdit(c)
      PROVE  DraftInv'
  BY <1>6, ExternalEditStep
<1>7. Contents # {}
  BY ConfigAssumption DEF ConfigAssumption
<1> QED BY <1>1, <1>2, <1>3, <1>4, <1>5, <1>6, <1>7 DEF Next

-----------------------------------------------------------------------------
(* The stored key.                                                         *)

LEMMA KeysStep == KeysKept /\ TypeOK /\ [Next]_vars => KeysKept'
<1> SUFFICES ASSUME KeysKept, TypeOK, [Next]_vars PROVE KeysKept'
  OBVIOUS
<1> USE DEF KeysKept, StoreHoldsLastKey, KeyAtHand
<1>1. ASSUME UNCHANGED <<key, prevKey, lastKey, torn>>, step # "keyed", step' # "keyed"
      PROVE  KeysKept'
  BY <1>1
<1>2. CASE LoadWithoutConfig \/ LoadConfig \/ ObserveStartup \/ UNCHANGED vars
  BY <1>2 DEF LoadWithoutConfig, LoadConfig, ObserveStartup, vars, command, secret
<1>3. CASE SaveConfig \/ FinishSave \/ ObserveOldDraft
  BY <1>1, <1>3 DEF SaveConfig, FinishSave, ObserveOldDraft, Idle, secret
<1>4. ASSUME NEW d \in Contents, NEW u \in {"restore", "observe"},
             Edit(d) \/ EditAndSave(d, u)
      PROVE  KeysKept'
  BY <1>1, <1>4 DEF Edit, EditAndSave, command, secret
<1>5. CASE Prepare
  BY <1>1, <1>5 DEF Prepare, SaveFails, Idle, secret
<1>6. CASE PersistKeys
  <2>1. PICK o \in ConfigOutcomes, restored \in BOOLEAN :
            /\ key' = IF o = "failed" \/ (o = "late" /\ restored) THEN key ELSE pendingKey
            /\ torn' = (torn \/ (o = "late" /\ ~restored))
            /\ IF o = "ok" THEN step' = "keyed" /\ prevKey' = key
                           ELSE SaveFails(state) /\ UNCHANGED prevKey
    BY <1>6 DEF PersistKeys
  <2>2. step = "prepared" /\ lastKey' = lastKey
    BY <1>6 DEF PersistKeys
  <2>3. CASE o = "ok"
    BY <2>1, <2>2, <2>3
  <2>4. CASE o # "ok"
    <3>1. o \in {"failed", "late"}
      BY <2>4, ConfigAssumption DEF ConfigAssumption, Outcomes
    <3>2. step' \in {"idle", "undo"}
      BY <2>1, <2>4 DEF SaveFails, Idle
    <3> QED BY <2>1, <2>2, <3>1, <3>2
  <2> QED BY <2>3, <2>4
<1>7. CASE WriteConfig
  <2>1. PICK o \in ConfigOutcomes, restored \in BOOLEAN :
            /\ IF o = "ok" THEN step' = "renamed" ELSE SaveFails(state)
            /\ key' = IF step = "keyed" /\ o # "ok" /\ restored THEN prevKey ELSE key
            /\ torn' = (torn \/ (step = "keyed" /\ o # "ok" /\ ~restored))
            /\ lastKey' = IF step = "keyed" /\ o = "ok" THEN key ELSE lastKey
    BY <1>7 DEF WriteConfig
  <2>2. step' # "keyed"
    BY <2>1 DEF SaveFails, Idle
  <2> QED BY <2>1, <2>2
<1>8. ASSUME NEW k \in Keys, NEW d \in Contents, RotateKey(k) \/ EnterKey(k, d)
      PROVE  KeysKept'
  BY <1>1, <1>8 DEF RotateKey, EnterKey, StoreLocked, command
<1>9. ASSUME NEW c \in Contents \union {Missing, Damaged}, ExternalEdit(c)
      PROVE  KeysKept'
  BY <1>9 DEF ExternalEdit, command, secret
<1>10. CASE Crash
  BY <1>10 DEF Crash, Idle
<1>11. Contents # {}
  BY ConfigAssumption DEF ConfigAssumption
<1> QED BY <1>2, <1>3, <1>4, <1>5, <1>6, <1>7, <1>8, <1>9, <1>10, <1>11 DEF Next

-----------------------------------------------------------------------------
(* The theorems.                                                           *)

LEMMA DraftInit == Init => DraftInv /\ KeysKept
<1> SUFFICES ASSUME Init PROVE DraftInv /\ KeysKept
  OBVIOUS
<1>1. StateOK(ReadOnly(Template)) /\ Covered(ReadOnly(Template))
  BY ReadOnlyOK, ConfigAssumption DEF ConfigAssumption
<1>2. TypeOK
  BY <1>1, ZeroOK DEF Init, TypeOK
<1>3. CommandsUp /\ Journalled /\ StatesCovered
  BY <1>1 DEF Init, CommandsUp, Journalled, StatesCovered
<1>4. RevisionsSound /\ OneContent
  BY DEF Init, RevisionsSound, OneContent, Live, LedgerSound, Entry, Agree, ZeroLedger
<1>5. FileKept /\ Mirrored
  BY DEF Init, FileKept, Mirrored, Live, Recoverable
<1>6. KeysKept
  BY DEF Init, KeysKept, StoreHoldsLastKey, KeyAtHand
<1> QED BY <1>2, <1>3, <1>4, <1>5, <1>6 DEF DraftInv

LEMMA DraftAlways == Spec => [](DraftInv /\ KeysKept)
<1>1. DraftInv => TypeOK
  BY DEF DraftInv
<1> QED BY <1>1, DraftInit, DraftStep, KeysStep, PTL DEF Spec

\* The ledger, the states and the history have the types config_draft.rs and
\* config_state.rs declare, within any bound on the revisions.
THEOREM ConfigTypes == Spec => []TypeOK
<1>1. DraftInv => TypeOK
  BY DEF DraftInv
<1> QED BY <1>1, DraftAlways, PTL

\* Whatever was edited, saved or put back, a draft that differs from the saved
\* content never shows the saved revision.
THEOREM DirtyDraftsAreTold == Spec => []DirtyDraftHasOwnRevision
<1>1. DraftInv => DirtyDraftHasOwnRevision
  BY DEF DraftInv, StatesCovered, Covered, DirtyDraftHasOwnRevision
<1> QED BY <1>1, DraftAlways, PTL

\* No revision is ever saved, or loaded as saved, with two contents.
THEOREM RevisionsNameOneContent == Spec => []SavedRevisionNamesOneContent
<1>1. ASSUME DraftInv PROVE SavedRevisionNamesOneContent
  <2>1. ASSUME NEW r \in 1..MaxRevision PROVE Cardinality(savedAs[r]) <= 1
    <3>1. CASE savedAs[r] = {}
      BY <3>1, FS_EmptySet
    <3>2. CASE savedAs[r] # {}
      <4>1. PICK c : savedAs[r] = {c}
        BY <1>1, <3>2 DEF DraftInv, OneContent
      <4>2. Cardinality({c}) = 1
        BY FS_Singleton
      <4> QED BY <4>1, <4>2
    <3> QED BY <3>1, <3>2
  <2> QED BY <2>1 DEF SavedRevisionNamesOneContent
<1> QED BY <1>1, DraftAlways, PTL

\* Between saves the store holds the key last committed by a save or a rotation,
\* unless a crash or a failed restore left it torn.
THEOREM KeysAreKept == Spec => []StoreHoldsLastKey
<1>1. KeysKept => StoreHoldsLastKey
  BY DEF KeysKept
<1> QED BY <1>1, DraftAlways, PTL

\* A save whose file nobody touched is loaded again under its own revision,
\* wherever between the rename and the last sidecar write the process died.
THEOREM SavesSurvive == Spec => SaveSurvivesRestart
<1>1. ASSUME DraftInv, Next, mode = "down", mode' = "starting", survivor # <<>>
      PROVE  <<state'.savedRev, state'.saved>> = survivor
  <2>1. LoadWithoutConfig \/ LoadConfig
    BY <1>1
    DEF Next, DraftInv, CommandsUp, ObserveStartup, Edit, EditAndSave, SaveConfig, Prepare,
        PersistKeys, WriteConfig, FinishSave, ObserveOldDraft, RotateKey, EnterKey,
        ExternalEdit, Crash
  <2>2. ~LoadWithoutConfig
    BY <1>1, SurvivorIs DEF LoadWithoutConfig
  <2> QED BY <1>1, <2>1, <2>2, LoadStep
<1>2. ASSUME DraftInv, [Next]_vars
      PROVE  [(mode = "down" /\ mode' = "starting" /\ survivor # <<>>)
                => <<state'.savedRev, state'.saved>> = survivor]_vars
  BY <1>1, <1>2
<1> QED BY <1>2, DraftAlways, PTL DEF Spec, SaveSurvivesRestart

=============================================================================
