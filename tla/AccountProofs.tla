--------------------------- MODULE AccountProofs ---------------------------
(***************************************************************************)
(* Proofs about QuotaAccount, for any number of accounts, workers and      *)
(* conversations and for every value of the time bounds.                   *)
(***************************************************************************)
EXTENDS QuotaAccount, QuotaProofs, FiniteSetTheorems, TLAPS

USE WindowAssumption, AccountAssumption

-----------------------------------------------------------------------------
(* Types.                                                                  *)

CallPoints == {"calling", "streaming", "refused", "judged"}
WorkerPoints == {"idle", "ready", "served"} \union CallPoints

Records == [pc : WorkerPoints, session : Sessions \union {""}, order : Seq(Accounts),
            account : Accounts \union {NoAccount}, until : Nat, tries : Nat,
            then : {"", "served", "next", "over"}]

Leases == [holder : Workers, expiry : Nat]

ClockOK == wall \in Instants /\ latest \in Instants /\ wall <= latest

PlansOK == setup \in Setups /\ ledger \in [Accounts -> Windows]

RecordFits(r) ==
    /\ r.pc \in CallPoints => r.account \in Accounts
    /\ r.pc \in {"refused", "judged"} => r.then # ""

WorkersOK ==
    /\ worker \in [Workers -> Records]
    /\ \A w \in Workers : RecordFits(worker[w])

LeasesOK ==
    /\ leases \in [Accounts -> SUBSET Leases]
    /\ \A a \in Accounts : IsFiniteSet(leases[a])

CoolingOK ==
    /\ cooling \in [Accounts -> Nat]
    /\ refusals \subseteq [account : Accounts, until : Nat]

\* The invariant of types, with the arithmetic in range and the leases finite.
AccountTypeOK == ClockOK /\ PlansOK /\ WorkersOK /\ LeasesOK /\ CoolingOK

LEMMA IdleIsRecord == IdleWorker \in Records
BY DEF IdleWorker, Records, WorkerPoints, CallPoints, NoAccount

LEMMA InitTypes == AccountInit => AccountTypeOK
<1> SUFFICES ASSUME AccountInit PROVE AccountTypeOK
  OBVIOUS
<1>1. ClockOK
  BY DEF AccountInit, ClockOK, Instants
<1>2. PlansOK
  BY DEF AccountInit, PlansOK, FreshWindow, Windows, Buckets, Counts
<1>3. WorkersOK
  BY IdleIsRecord DEF AccountInit, WorkersOK, RecordFits, IdleWorker, CallPoints
<1>4. LeasesOK
  BY FS_EmptySet DEF AccountInit, LeasesOK
<1>5. CoolingOK
  BY DEF AccountInit, CoolingOK
<1> QED BY <1>1, <1>2, <1>3, <1>4, <1>5 DEF AccountTypeOK

\* A step of one worker to another record.
LEMMA WorkerMoves ==
    ASSUME WorkersOK, NEW w \in Workers, NEW r \in Records,
           RecordFits(r),
           worker' = [worker EXCEPT ![w] = r]
    PROVE  WorkersOK'
BY DEF WorkersOK

LEMMA ClockStep ==
    ASSUME AccountTypeOK, [AccountNext]_accountVars
    PROVE  ClockOK'
<1>1. CASE UNCHANGED <<wall, latest>>
  BY <1>1 DEF AccountTypeOK, ClockOK
<1>2. ASSUME NEW d \in Jumps, Clock(d)
      PROVE  ClockOK'
  BY <1>2 DEF AccountTypeOK, ClockOK, Clock, Instants
<1> QED
  BY <1>1, <1>2
  DEF AccountNext, accountVars, WorkerStep, RouteByQuota, GrantLease, HeadersArrive,
      SettleAttempt, CoolAccount, DropLease, RememberAccount, LeaveLoop, PollAnswers

LEMMA PlansStep ==
    ASSUME AccountTypeOK, [AccountNext]_accountVars
    PROVE  PlansOK'
<1>1. CASE UNCHANGED <<setup, ledger>>
  BY <1>1 DEF AccountTypeOK, PlansOK
<1>2. ASSUME NEW w \in Workers, SettleAttempt(w)
      PROVE  PlansOK'
  <2>1. worker[w].account \in Accounts
    BY <1>2 DEF AccountTypeOK, WorkersOK, RecordFits, SettleAttempt, CallPoints
  <2>2. Recorded(ledger[worker[w].account], wall, 1) \in Windows
    BY <2>1, RecordedIsWindow DEF AccountTypeOK, PlansOK, ClockOK
  <2>3. \/ ledger' = [ledger EXCEPT ![worker[w].account] = Recorded(@, wall, 1)]
        \/ ledger' = ledger
    BY <1>2 DEF SettleAttempt
  <2>4. ledger' \in [Accounts -> Windows]
    BY <2>1, <2>2, <2>3 DEF AccountTypeOK, PlansOK
  <2> QED BY <2>4, <1>2 DEF AccountTypeOK, PlansOK, SettleAttempt
<1> QED
  BY <1>1, <1>2
  DEF AccountNext, accountVars, WorkerStep, RouteByQuota, GrantLease, HeadersArrive,
      CoolAccount, DropLease, RememberAccount, LeaveLoop, PollAnswers, Clock

LEMMA RankedIsSeq ==
    ASSUME NEW usable \in SUBSET Accounts, NEW s, NEW t, NEW order \in Ranked(usable, s, t)
    PROVE  order \in Seq(Accounts)
<1> DEFINE left == {a \in usable : ~SpentFor(a, t)}
<1>1. left \in SUBSET Accounts /\ order \in [1..Cardinality(left) -> left]
  BY DEF Ranked
<1> HIDE DEF left
<1>2. IsFiniteSet(left)
  BY <1>1, FS_Subset
<1>3. Cardinality(left) \in Nat
  BY <1>2, FS_CardinalityType
<1>4. order \in [1..Cardinality(left) -> Accounts]
  BY <1>1
<1> QED BY <1>3, <1>4

LEMMA WorkersStep ==
    ASSUME AccountTypeOK, [AccountNext]_accountVars
    PROVE  WorkersOK'
<1> USE DEF AccountTypeOK
<1>w. ASSUME NEW w \in Workers
      PROVE  worker[w] \in Records /\ RecordFits(worker[w])
  BY DEF WorkersOK
<1>1. ASSUME NEW w \in Workers, NEW s \in Sessions, RouteByQuota(w, s)
      PROVE  WorkersOK'
  <2>1. PICK usable \in SUBSET Accounts : \E order \in Ranked(usable, s, wall) :
          worker' = [worker EXCEPT ![w] =
             [IdleWorker EXCEPT !.pc = "ready", !.session = s, !.order = order]]
    BY <1>1 DEF RouteByQuota
  <2>2. PICK order \in Ranked(usable, s, wall) :
          worker' = [worker EXCEPT ![w] =
             [IdleWorker EXCEPT !.pc = "ready", !.session = s, !.order = order]]
    BY <2>1
  <2>3. order \in Seq(Accounts)
    BY RankedIsSeq
  <2> DEFINE r == [IdleWorker EXCEPT !.pc = "ready", !.session = s, !.order = order]
  <2>4. r \in Records /\ RecordFits(r)
    BY <2>3, IdleIsRecord DEF Records, WorkerPoints, CallPoints, RecordFits
  <2> QED BY <2>2, <2>4, WorkerMoves
<1>2. ASSUME NEW w \in Workers, GrantLease(w)
      PROVE  WorkersOK'
  <2>1. PICK left \in Deadlines :
          worker' = [worker EXCEPT ![w] =
             [worker[w] EXCEPT !.pc = "calling", !.order = Tail(worker[w].order),
                    !.account = Head(worker[w].order), !.until = wall + left,
                    !.tries = worker[w].tries + 1]]
    BY <1>2, Zenon DEF GrantLease
  <2>2. /\ worker[w].order \in Seq(Accounts) /\ worker[w].order # <<>>
        /\ worker[w].tries \in Nat
    BY <1>w, <1>2 DEF GrantLease, Records
  <2>3. Head(worker[w].order) \in Accounts /\ Tail(worker[w].order) \in Seq(Accounts)
    BY <2>2
  <2>4. wall + left \in Nat
    BY DEF ClockOK, Instants
  <2> DEFINE r == [worker[w] EXCEPT !.pc = "calling", !.order = Tail(worker[w].order),
                    !.account = Head(worker[w].order), !.until = wall + left,
                    !.tries = worker[w].tries + 1]
  <2>5. r \in Records
    <3>1. "calling" \in WorkerPoints /\ worker[w].tries + 1 \in Nat
      BY <2>2 DEF WorkerPoints, CallPoints
    <3> QED BY <1>w, <2>3, <2>4, <3>1 DEF Records
  <2>6. RecordFits(r)
    <3>1. r.account = Head(worker[w].order) /\ r.pc = "calling"
      BY <1>w DEF Records
    <3> QED BY <3>1, <2>3 DEF RecordFits
  <2>7. worker' = [worker EXCEPT ![w] = r]
    BY <2>1, Zenon
  <2> QED BY <2>5, <2>6, <2>7, WorkerMoves
<1>3. ASSUME NEW w \in Workers, HeadersArrive(w)
      PROVE  WorkersOK'
  <2> DEFINE r == [worker[w] EXCEPT !.pc = "streaming"]
  <2>1. r \in Records /\ RecordFits(r)
    BY <1>3, <1>w DEF HeadersArrive, At, Records, WorkerPoints, CallPoints, RecordFits
  <2>2. worker' = [worker EXCEPT ![w] = r]
    BY <1>3 DEF HeadersArrive, Goes
  <2> QED BY <2>1, <2>2, WorkerMoves
<1>4. ASSUME NEW w \in Workers, SettleAttempt(w)
      PROVE  WorkersOK'
  <2>1. PICK refused \in BOOLEAN, then \in {"served", "next", "over"} :
          worker' = [worker EXCEPT ![w] =
             [worker[w] EXCEPT !.pc = IF refused THEN "refused" ELSE "judged",
                       !.then = then,
                       !.order = IF then = "next" THEN worker[w].order ELSE <<>>]]
    BY <1>4, Zenon DEF SettleAttempt
  <2> DEFINE r == [worker[w] EXCEPT !.pc = IF refused THEN "refused" ELSE "judged",
                       !.then = then,
                       !.order = IF then = "next" THEN worker[w].order ELSE <<>>]
  <2>2. worker[w].pc \in {"calling", "streaming"}
    BY <1>4 DEF SettleAttempt
  <2>3. worker[w].order \in Seq(Accounts)
    BY <1>w DEF Records
  <2>4. (IF then = "next" THEN worker[w].order ELSE <<>>) \in Seq(Accounts)
    BY <2>3
  <2>5. (IF refused THEN "refused" ELSE "judged") \in WorkerPoints
    BY DEF WorkerPoints, CallPoints
  <2>6. r \in Records
    BY <1>w, <2>4, <2>5 DEF Records
  <2>7. RecordFits(r)
    <3>1. r.account = worker[w].account /\ r.then = then
      BY <1>w DEF Records
    <3>2. worker[w].account \in Accounts
      BY <1>w, <2>2 DEF RecordFits, CallPoints
    <3> QED BY <3>1, <3>2 DEF RecordFits
  <2>8. worker' = [worker EXCEPT ![w] = r]
    BY <2>1, Zenon
  <2> QED BY <2>6, <2>7, <2>8, WorkerMoves
<1>5. ASSUME NEW w \in Workers, CoolAccount(w)
      PROVE  WorkersOK'
  <2> DEFINE r == [worker[w] EXCEPT !.pc = "judged"]
  <2>1. r \in Records /\ RecordFits(r)
    BY <1>5, <1>w DEF CoolAccount, At, Records, WorkerPoints, CallPoints, RecordFits
  <2>2. worker' = [worker EXCEPT ![w] = r]
    BY <1>5 DEF CoolAccount, Goes
  <2> QED BY <2>1, <2>2, WorkerMoves
<1>6. ASSUME NEW w \in Workers, DropLease(w)
      PROVE  WorkersOK'
  <2> DEFINE r == worker[w]
             served == [r EXCEPT !.pc = "served", !.until = 0]
             next == [r EXCEPT !.pc = "ready", !.account = NoAccount, !.until = 0, !.then = ""]
  <2>1. r.then \in {"served", "next", "over"}
    BY <1>6, <1>w DEF DropLease, At, Records, RecordFits
  <2>2. served \in Records /\ RecordFits(served) /\ next \in Records /\ RecordFits(next)
    BY <1>w DEF Records, WorkerPoints, CallPoints, RecordFits, NoAccount
  <2>3. RecordFits(IdleWorker)
    BY DEF RecordFits, IdleWorker, CallPoints
  <2>4. \/ worker' = [worker EXCEPT ![w] = served]
        \/ worker' = [worker EXCEPT ![w] = next]
        \/ worker' = [worker EXCEPT ![w] = IdleWorker]
    BY <1>6, <2>1 DEF DropLease
  <2> QED BY <2>2, <2>3, <2>4, IdleIsRecord, WorkerMoves
<1>7. ASSUME NEW w \in Workers, worker' = [worker EXCEPT ![w] = IdleWorker]
      PROVE  WorkersOK'
  BY <1>7, IdleIsRecord, WorkerMoves DEF RecordFits, IdleWorker, CallPoints
<1>8. CASE UNCHANGED worker
  BY <1>8 DEF WorkersOK
<1> QED
  BY <1>1, <1>2, <1>3, <1>4, <1>5, <1>6, <1>7, <1>8
  DEF AccountNext, accountVars, WorkerStep, RememberAccount, LeaveLoop, PollAnswers, Clock

LEMMA LeasesStep ==
    ASSUME AccountTypeOK, [AccountNext]_accountVars
    PROVE  LeasesOK'
<1> USE DEF AccountTypeOK
<1>1. CASE UNCHANGED leases
  BY <1>1 DEF LeasesOK
<1>2. ASSUME NEW w \in Workers, GrantLease(w)
      PROVE  LeasesOK'
  <2> DEFINE a == Head(worker[w].order)
             kept == {l \in leases[a] : l.expiry > wall}
  <2>1. PICK left \in Deadlines :
          leases' = [leases EXCEPT ![a] = kept \union
                      {[holder |-> w, expiry |-> wall + Lifetime(left)]}]
    BY <1>2 DEF GrantLease
  <2>2. a \in Accounts
    <3>1. worker[w].order \in Seq(Accounts) /\ worker[w].order # <<>>
      BY <1>2 DEF GrantLease, WorkersOK, Records
    <3> QED BY <3>1
  <2>3. wall + Lifetime(left) \in Nat
    BY DEF ClockOK, Instants, Lifetime
  <2>4. kept \subseteq Leases /\ IsFiniteSet(kept)
    BY <2>2, FS_Subset DEF LeasesOK
  <2> DEFINE more == kept \union {[holder |-> w, expiry |-> wall + Lifetime(left)]}
  <2>5. more \subseteq Leases /\ IsFiniteSet(more)
    <3>1. [holder |-> w, expiry |-> wall + Lifetime(left)] \in Leases
      BY <2>3 DEF Leases
    <3> QED BY <3>1, <2>4, FS_AddElement
  <2> HIDE DEF a, more
  <2> QED BY <2>1, <2>2, <2>5 DEF LeasesOK, more
<1>3. ASSUME NEW w \in Workers, DropLease(w)
      PROVE  LeasesOK'
  <2> DEFINE a == worker[w].account
             kept == {l \in leases[a] : l.holder # w}
  <2>1. leases' = [leases EXCEPT ![a] = kept]
    BY <1>3 DEF DropLease, WithoutLease
  <2>2. a \in Accounts
    BY <1>3 DEF DropLease, At, WorkersOK, RecordFits, CallPoints
  <2>3. kept \subseteq Leases /\ IsFiniteSet(kept)
    BY <2>2, FS_Subset DEF LeasesOK
  <2> HIDE DEF a, kept
  <2> QED BY <2>1, <2>2, <2>3 DEF LeasesOK
<1> QED
  BY <1>1, <1>2, <1>3
  DEF AccountNext, accountVars, WorkerStep, RouteByQuota, HeadersArrive, SettleAttempt,
      CoolAccount, RememberAccount, LeaveLoop, PollAnswers, Clock

\* What CoolAccount does, with the values it takes.
LEMMA Cooling ==
    ASSUME AccountTypeOK, NEW w \in Workers, CoolAccount(w)
    PROVE  \E a \in Accounts, until \in Nat :
             /\ cooling' = [cooling EXCEPT ![a] = Cooled(a, until)]
             /\ refusals' = refusals \union {[account |-> a, until |-> until]}
             /\ Cooled(a, until) \in Nat
             /\ Cooled(a, until) >= cooling[a] /\ Cooled(a, until) >= until
<1>1. worker[w].account \in Accounts
  BY DEF AccountTypeOK, CoolAccount, At, WorkersOK, RecordFits, CallPoints
<1>2. PICK c \in Cooldowns :
        LET until == wall + LeastOf(c, MaxCooldown) IN
        /\ cooling' = [cooling EXCEPT ![worker[w].account] = Cooled(worker[w].account, until)]
        /\ refusals' = refusals \union {[account |-> worker[w].account, until |-> until]}
  BY DEF CoolAccount
<1>3. wall + LeastOf(c, MaxCooldown) \in Nat
  BY DEF AccountTypeOK, ClockOK, Instants, LeastOf
<1>4. \A until \in Nat :
        LET n == Cooled(worker[w].account, until) IN
        n \in Nat /\ n >= cooling[worker[w].account] /\ n >= until
  <2>1. cooling[worker[w].account] \in Nat
    BY <1>1 DEF AccountTypeOK, CoolingOK
  <2> QED BY <2>1 DEF Cooled
<1> QED BY <1>1, <1>2, <1>3, <1>4

LEMMA CoolingStep ==
    ASSUME AccountTypeOK, [AccountNext]_accountVars
    PROVE  CoolingOK'
<1>1. CASE UNCHANGED <<cooling, refusals>>
  BY <1>1 DEF AccountTypeOK, CoolingOK
<1>2. ASSUME NEW w \in Workers, CoolAccount(w)
      PROVE  CoolingOK'
  BY <1>2, Cooling DEF AccountTypeOK, CoolingOK
<1> QED
  BY <1>1, <1>2
  DEF AccountNext, accountVars, WorkerStep, RouteByQuota, GrantLease, HeadersArrive,
      SettleAttempt, DropLease, RememberAccount, LeaveLoop, PollAnswers, Clock

\* The variables keep their types: a worker that calls has an account, leases are
\* finite in number and the clock is within the instance.
THEOREM AccountTypes == AccountSpec => []AccountTypeOK
<1>1. AccountTypeOK /\ [AccountNext]_accountVars => AccountTypeOK'
  BY ClockStep, PlansStep, WorkersStep, LeasesStep, CoolingStep DEF AccountTypeOK
<1> QED BY InitTypes, <1>1, PTL DEF AccountSpec

-----------------------------------------------------------------------------
(* Refusals.                                                               *)

\* note_rate_limited never shortens a cooldown.
CooldownsLast == \A f \in refusals : cooling[f.account] >= f.until

LEMMA CooldownsLastStep ==
    ASSUME AccountTypeOK, CooldownsLast, [AccountNext]_accountVars
    PROVE  CooldownsLast'
<1>1. CASE UNCHANGED <<cooling, refusals>>
  BY <1>1 DEF CooldownsLast
<1>2. ASSUME NEW w \in Workers, CoolAccount(w)
      PROVE  CooldownsLast'
  <2>1. PICK a \in Accounts, until \in Nat :
          /\ cooling' = [cooling EXCEPT ![a] = Cooled(a, until)]
          /\ refusals' = refusals \union {[account |-> a, until |-> until]}
          /\ Cooled(a, until) \in Nat
          /\ Cooled(a, until) >= cooling[a] /\ Cooled(a, until) >= until
    BY <1>2, Cooling
  <2>2. ASSUME NEW b \in Accounts
        PROVE  cooling[b] \in Nat /\ cooling'[b] \in Nat /\ cooling'[b] >= cooling[b]
    <3>1. cooling \in [Accounts -> Nat]
      BY DEF AccountTypeOK, CoolingOK
    <3>2. cooling'[b] = IF b = a THEN Cooled(a, until) ELSE cooling[b]
      BY <2>1, <3>1
    <3>3. cooling[b] \in Nat /\ cooling'[b] \in Nat
      BY <2>1, <3>1, <3>2
    <3>4. CASE b = a
      BY <2>1, <3>2, <3>3, <3>4
    <3>5. CASE b # a
      BY <3>2, <3>3, <3>5
    <3> QED BY <3>3, <3>4, <3>5
  <2>3. SUFFICES ASSUME NEW f \in refusals' PROVE cooling'[f.account] >= f.until
    BY DEF CooldownsLast
  <2>4. CASE f \in refusals
    <3>1. f.account \in Accounts /\ f.until \in Nat
      BY <2>4 DEF AccountTypeOK, CoolingOK
    <3>2. cooling[f.account] >= f.until
      BY <2>4 DEF CooldownsLast
    <3>3. /\ cooling[f.account] \in Nat /\ cooling'[f.account] \in Nat
          /\ cooling'[f.account] >= cooling[f.account]
      BY <2>2, <3>1
    <3> QED BY <3>1, <3>2, <3>3
  <2>5. CASE f = [account |-> a, until |-> until]
    BY <2>1, <2>5 DEF AccountTypeOK, CoolingOK
  <2> QED BY <2>1, <2>4, <2>5
<1> QED
  BY <1>1, <1>2
  DEF AccountNext, accountVars, WorkerStep, RouteByQuota, GrantLease, HeadersArrive,
      SettleAttempt, DropLease, RememberAccount, LeaveLoop, PollAnswers, Clock

\* "Nothing routes to it until it elapses": whatever later refusals, readings of the
\* provider and polls of its balance say, and however the clock is corrected, a
\* refused account is exhausted until its Retry-After, or the ceiling on it, is over.
THEOREM RefusalsAreRemembered == AccountSpec => []RefusalRemembered
<1>1. AccountInit => CooldownsLast
  BY DEF AccountInit, CooldownsLast
<1>2. AccountTypeOK /\ CooldownsLast /\ [AccountNext]_accountVars => CooldownsLast'
  BY CooldownsLastStep
<1>3. AccountTypeOK /\ CooldownsLast => RefusalRemembered
  <2> SUFFICES ASSUME AccountTypeOK, CooldownsLast, NEW f \in refusals, wall < f.until
               PROVE  SpentFor(f.account, wall)
    BY DEF RefusalRemembered
  <2>0. f.account \in Accounts /\ f.until \in Nat
    BY DEF AccountTypeOK, CoolingOK
  <2>1. wall \in Nat /\ cooling[f.account] \in Nat
    <3>1. wall \in Nat
      BY DEF AccountTypeOK, ClockOK, Instants
    <3>2. cooling[f.account] \in Nat
      BY <2>0 DEF AccountTypeOK, CoolingOK
    <3> QED BY <3>1, <3>2
  <2>2. cooling[f.account] >= f.until
    BY DEF CooldownsLast
  <2>3. wall < cooling[f.account]
    BY <2>0, <2>1, <2>2
  <2> QED BY <2>3 DEF SpentFor
<1> QED BY <1>1, <1>2, <1>3, AccountTypes, PTL DEF AccountSpec

-----------------------------------------------------------------------------
(* Leases.                                                                 *)

\* A lease belongs to an attempt on its account, which has no other ...
LeaseOwned ==
    \A a \in Accounts : \A l \in leases[a] :
        /\ l.holder \in Calls(a)
        /\ \A m \in leases[a] : m.holder = l.holder => m = l

\* ... and an attempt within its deadline has one, which lasts as long.
LeaseHeld ==
    \A a \in Accounts : \A w \in Calls(a) : latest < worker[w].until =>
        \E l \in leases[a] : l.holder = w /\ l.expiry >= worker[w].until

LeaseInv == LeaseOwned /\ LeaseHeld

\* The steps of a worker that keep its account, its deadline and its calling.
LEMMA SameCalls ==
    ASSUME AccountTypeOK, AccountTypeOK', LeaseInv, UNCHANGED leases, latest <= latest',
           \A w \in Workers :
             /\ worker'[w].pc \in CallPoints <=> worker[w].pc \in CallPoints
             /\ worker[w].pc \in CallPoints =>
                  /\ worker'[w].account = worker[w].account
                  /\ worker'[w].until = worker[w].until
    PROVE  LeaseInv'
<1>1. \A a \in Accounts : Calls(a)' = Calls(a)
  BY DEF Calls, CallPoints
<1>2. LeaseOwned'
  BY <1>1 DEF LeaseInv, LeaseOwned
<1>3. LeaseHeld'
  <2> SUFFICES ASSUME NEW a \in Accounts, NEW w \in Calls(a)', latest' < worker'[w].until
               PROVE  \E l \in leases'[a] : l.holder = w /\ l.expiry >= worker'[w].until
    BY DEF LeaseHeld
  <2>1. w \in Calls(a) /\ w \in Workers /\ worker'[w].until = worker[w].until
    BY <1>1 DEF Calls, CallPoints
  <2>2. latest \in Nat /\ latest' \in Nat /\ worker[w].until \in Nat
    <3>1. latest \in Nat /\ latest' \in Nat
      BY DEF AccountTypeOK, ClockOK, Instants
    <3>2. worker[w].until \in Nat
      BY <2>1 DEF AccountTypeOK, WorkersOK, Records
    <3> QED BY <3>1, <3>2
  <2>3. latest < worker[w].until
    BY <2>1, <2>2
  <2> QED BY <2>1, <2>3 DEF LeaseInv, LeaseHeld
<1> QED BY <1>2, <1>3 DEF LeaseInv

\* AttemptQuotaLease: the new lease is the only one of its worker, and dropping those
\* that have expired takes none of an attempt within its deadline.
LEMMA GrantKeepsLeases ==
    ASSUME AccountTypeOK, AccountTypeOK', LeaseInv, NEW w \in Workers, GrantLease(w)
    PROVE  LeaseInv'
<1>a. PICK a : a = Head(worker[w].order)
  OBVIOUS
<1>1. PICK left \in Deadlines :
        /\ leases' = [leases EXCEPT ![a] = {l \in leases[a] : l.expiry > wall} \union
                        {[holder |-> w, expiry |-> wall + Lifetime(left)]}]
        /\ worker' = [worker EXCEPT ![w] =
              [worker[w] EXCEPT !.pc = "calling", !.order = Tail(worker[w].order),
                    !.account = a, !.until = wall + left,
                    !.tries = worker[w].tries + 1]]
  BY <1>a, Zenon DEF GrantLease
<1> DEFINE new == [holder |-> w, expiry |-> wall + Lifetime(left)]
           kept == {l \in leases[a] : l.expiry > wall}
<1>2. /\ worker'[w].pc = "calling" /\ worker'[w].account = a
      /\ worker'[w].until = wall + left
      /\ \A v \in Workers : v # w => worker'[v] = worker[v]
  <2>1. worker \in [Workers -> Records]
    BY DEF AccountTypeOK, WorkersOK
  <2>2. worker[w] \in Records
    BY <2>1
  <2>3. worker'[w] = [worker[w] EXCEPT !.pc = "calling", !.order = Tail(worker[w].order),
                        !.account = a, !.until = wall + left,
                        !.tries = worker[w].tries + 1]
    BY <1>1, <2>1
  <2>4. \A v \in Workers : v # w => worker'[v] = worker[v]
    BY <1>1, <2>1
  <2> QED BY <2>2, <2>3, <2>4 DEF Records
<1>3. a \in Accounts
  <2>1. worker'[w].pc \in CallPoints
    BY <1>2 DEF CallPoints
  <2> QED BY <1>2, <2>1 DEF AccountTypeOK, WorkersOK, RecordFits
<1>4. \A b \in Accounts : w \notin Calls(b)
  BY DEF GrantLease, At, Calls
<1>5. /\ Calls(a)' = Calls(a) \union {w}
      /\ \A b \in Accounts : b # a => Calls(b)' = Calls(b)
  <2>1. ASSUME NEW b \in Accounts, NEW v
        PROVE  /\ v \in Calls(b) <=>
                    v \in Workers /\ worker[v].account = b /\ worker[v].pc \in CallPoints
               /\ v \in Calls(b)' <=>
                    v \in Workers /\ worker'[v].account = b /\ worker'[v].pc \in CallPoints
    BY DEF Calls, CallPoints
  <2>2. worker'[w].pc \in CallPoints
    BY <1>2 DEF CallPoints
  <2>3. Calls(a)' = Calls(a) \union {w}
    BY <1>2, <1>3, <2>1, <2>2
  <2>4. ASSUME NEW b \in Accounts, b # a
        PROVE  Calls(b)' = Calls(b)
    <3>1. w \notin Calls(b) /\ w \notin Calls(b)'
      BY <1>2, <1>4, <2>1, <2>4
    <3>2. \A v \in Workers : v # w => (v \in Calls(b)' <=> v \in Calls(b))
      BY <1>2 DEF Calls
    <3> QED BY <3>1, <3>2 DEF Calls
  <2> QED BY <2>3, <2>4
<1>6. leases'[a] = kept \union {new} /\ \A b \in Accounts : b # a => leases'[b] = leases[b]
  BY <1>1, <1>3 DEF AccountTypeOK, LeasesOK
<1>7. new.holder = w /\ new.expiry >= wall + left
  BY DEF AccountTypeOK, ClockOK, Instants, Lifetime
<1> HIDE DEF new
<1>8. LeaseOwned'
  <2> SUFFICES ASSUME NEW b \in Accounts, NEW l \in leases'[b]
               PROVE  /\ l.holder \in Calls(b)'
                      /\ \A m \in leases'[b] : m.holder = l.holder => m = l
    BY DEF LeaseOwned
  <2>1. \A m \in leases[b] : m.holder \in Calls(b) /\ m.holder # w
    BY <1>4 DEF LeaseInv, LeaseOwned
  <2>2. CASE b # a
    BY <2>2, <1>5, <1>6 DEF LeaseInv, LeaseOwned
  <2>3. CASE b = a
    <3>0. Calls(b)' = Calls(b) \union {w} /\ kept \subseteq leases[b]
      BY <2>3, <1>5
    <3>1. new.holder \in Calls(b)' /\ \A m \in kept : m.holder \in Calls(b)'
      BY <2>1, <3>0, <1>7
    <3>2. \A m, n \in kept : m.holder = n.holder => m = n
      BY <1>3 DEF LeaseInv, LeaseOwned
    <3>3. \A m \in kept : m.holder # new.holder
      BY <2>1, <2>3, <1>7
    <3> HIDE DEF kept
    <3> QED BY <2>3, <1>6, <3>1, <3>2, <3>3
  <2> QED BY <2>2, <2>3
<1>9. LeaseHeld'
  <2> SUFFICES ASSUME NEW b \in Accounts, NEW v \in Calls(b)', latest' < worker'[v].until
               PROVE  \E l \in leases'[b] : l.holder = v /\ l.expiry >= worker'[v].until
    BY DEF LeaseHeld
  <2>1. CASE v = w
    <3>1. b = a
      BY <2>1, <1>4, <1>5
    <3> QED BY <2>1, <3>1, <1>2, <1>6, <1>7
  <2>2. CASE v # w
    <3>1. v \in Calls(b) /\ v \in Workers /\ worker'[v] = worker[v] /\ latest' = latest
      BY <2>2, <1>2, <1>5 DEF Calls, GrantLease
    <3>2. PICK l \in leases[b] : l.holder = v /\ l.expiry >= worker[v].until
      BY <3>1 DEF LeaseInv, LeaseHeld
    <3>3. l.expiry > wall
      <4>1. wall \in Nat /\ latest \in Nat /\ wall <= latest
        BY DEF AccountTypeOK, ClockOK, Instants
      <4>2. worker[v].until \in Nat
        BY <3>1 DEF AccountTypeOK, WorkersOK, Records
      <4>3. l.expiry \in Nat
        BY <3>2 DEF AccountTypeOK, LeasesOK, Leases
      <4> QED BY <3>1, <3>2, <4>1, <4>2, <4>3
    <3>4. l \in leases'[b]
      BY <3>2, <3>3, <1>6
    <3> QED BY <3>1, <3>2, <3>4
  <2> QED BY <2>1, <2>2
<1> QED BY <1>8, <1>9 DEF LeaseInv

\* InflightLeases::release: the lease goes with its attempt, and no other one.
LEMMA DropKeepsLeases ==
    ASSUME AccountTypeOK, LeaseInv, NEW w \in Workers, DropLease(w)
    PROVE  LeaseInv'
<1> DEFINE a == worker[w].account
<1>1. /\ worker'[w].pc \notin CallPoints
      /\ \A v \in Workers : v # w => worker'[v] = worker[v]
  <2>0. worker \in [Workers -> Records] /\ worker[w] \in Records
    BY DEF AccountTypeOK, WorkersOK
  <2>1. worker[w].then \in {"served", "next", "over"}
    BY <2>0 DEF AccountTypeOK, WorkersOK, RecordFits, DropLease, At, Records
  <2>2. \/ worker' = [worker EXCEPT ![w] = [worker[w] EXCEPT !.pc = "served", !.until = 0]]
        \/ worker' = [worker EXCEPT ![w] = [worker[w] EXCEPT !.pc = "ready",
                               !.account = NoAccount, !.until = 0, !.then = ""]]
        \/ worker' = [worker EXCEPT ![w] = IdleWorker]
    BY <2>1 DEF DropLease
  <2>3. \A v \in Workers : v # w => worker'[v] = worker[v]
    BY <2>0, <2>2
  <2>4. worker'[w].pc \in {"served", "ready", "idle"}
    <3>1. \/ worker'[w] = [worker[w] EXCEPT !.pc = "served", !.until = 0]
          \/ worker'[w] = [worker[w] EXCEPT !.pc = "ready",
                               !.account = NoAccount, !.until = 0, !.then = ""]
          \/ worker'[w] = IdleWorker
      BY <2>0, <2>2
    <3>2. CASE worker'[w] = [worker[w] EXCEPT !.pc = "served", !.until = 0]
      BY <2>0, <3>2 DEF Records
    <3>3. CASE worker'[w] = [worker[w] EXCEPT !.pc = "ready", !.account = NoAccount,
                               !.until = 0, !.then = ""]
      BY <2>0, <3>3 DEF Records
    <3>4. CASE worker'[w] = IdleWorker
      <4>1. IdleWorker.pc = "idle"
        BY DEF IdleWorker
      <4> QED BY <3>4, <4>1
    <3> QED BY <3>1, <3>2, <3>3, <3>4
  <2> QED BY <2>3, <2>4 DEF CallPoints
<1>2. a \in Accounts
  BY DEF AccountTypeOK, WorkersOK, RecordFits, DropLease, At, CallPoints
<1>3. \A b \in Accounts : Calls(b)' = Calls(b) \ {w}
  BY <1>1 DEF Calls, CallPoints
<1>4. \A b \in Accounts : b # a => w \notin Calls(b)
  BY DEF Calls
<1>5. \A b \in Accounts : leases'[b] = {l \in leases[b] : l.holder # w}
  <2>1. leases' = [leases EXCEPT ![a] = {l \in leases[a] : l.holder # w}]
    BY DEF DropLease, WithoutLease
  <2>2. leases'[a] = {l \in leases[a] : l.holder # w}
    BY <2>1, <1>2 DEF AccountTypeOK, LeasesOK
  <2>3. ASSUME NEW b \in Accounts, b # a
        PROVE  leases'[b] = {l \in leases[b] : l.holder # w}
    <3>1. leases'[b] = leases[b]
      BY <2>1, <2>3 DEF AccountTypeOK, LeasesOK
    <3>2. \A l \in leases[b] : l.holder # w
      BY <1>4, <2>3 DEF LeaseInv, LeaseOwned
    <3> QED BY <3>1, <3>2
  <2> QED BY <2>2, <2>3
<1>6. LeaseOwned'
  BY <1>3, <1>5 DEF LeaseInv, LeaseOwned
<1>7. LeaseHeld'
  <2> SUFFICES ASSUME NEW b \in Accounts, NEW v \in Calls(b)', latest' < worker'[v].until
               PROVE  \E l \in leases'[b] : l.holder = v /\ l.expiry >= worker'[v].until
    BY DEF LeaseHeld
  <2>1. v \in Calls(b) /\ v # w /\ v \in Workers
    BY <1>3 DEF Calls
  <2>2. worker'[v] = worker[v] /\ latest' = latest
    BY <1>1, <2>1 DEF DropLease
  <2>3. PICK l \in leases[b] : l.holder = v /\ l.expiry >= worker[v].until
    BY <2>1, <2>2 DEF LeaseInv, LeaseHeld
  <2> QED BY <1>5, <2>1, <2>2, <2>3
<1> QED BY <1>6, <1>7 DEF LeaseInv

LEMMA LeaseStep ==
    ASSUME AccountTypeOK, AccountTypeOK', LeaseInv, [AccountNext]_accountVars
    PROVE  LeaseInv'
<1>l. latest \in Nat /\ wall \in Nat
  BY DEF AccountTypeOK, ClockOK, Instants
<1>w. worker \in [Workers -> Records]
  BY DEF AccountTypeOK, WorkersOK
<1>1. ASSUME UNCHANGED <<leases, worker>>, latest <= latest'
      PROVE  LeaseInv'
  BY <1>1, SameCalls
<1>2. ASSUME NEW w \in Workers, NEW r,
             worker' = [worker EXCEPT ![w] = r], UNCHANGED <<leases, latest>>,
             r.pc \in CallPoints <=> worker[w].pc \in CallPoints,
             worker[w].pc \in CallPoints =>
               r.account = worker[w].account /\ r.until = worker[w].until
      PROVE  LeaseInv'
  <2>1. worker'[w] = r /\ \A v \in Workers : v # w => worker'[v] = worker[v]
    BY <1>2, <1>w
  <2>2. \A v \in Workers :
          /\ worker'[v].pc \in CallPoints <=> worker[v].pc \in CallPoints
          /\ worker[v].pc \in CallPoints =>
               /\ worker'[v].account = worker[v].account
               /\ worker'[v].until = worker[v].until
    BY <1>2, <2>1
  <2> QED BY <1>2, <1>l, <2>2, SameCalls
<1>3. ASSUME NEW w \in Workers, NEW s \in Sessions, RouteByQuota(w, s)
      PROVE  LeaseInv'
  <2>1. PICK order : worker' = [worker EXCEPT ![w] =
               [IdleWorker EXCEPT !.pc = "ready", !.session = s, !.order = order]]
    BY <1>3, Zenon DEF RouteByQuota
  <2> DEFINE r == [IdleWorker EXCEPT !.pc = "ready", !.session = s, !.order = order]
  <2>2. r.pc \notin CallPoints /\ worker[w].pc \notin CallPoints
    BY <1>3 DEF RouteByQuota, At, IdleWorker, CallPoints
  <2>3. UNCHANGED <<leases, latest>>
    BY <1>3 DEF RouteByQuota
  <2> HIDE DEF r
  <2> QED BY <1>2, <2>1, <2>2, <2>3 DEF r
<1>4. ASSUME NEW w \in Workers, NEW p \in CallPoints, worker[w].pc \in CallPoints,
             worker' = [worker EXCEPT ![w] = [worker[w] EXCEPT !.pc = p]],
             UNCHANGED <<leases, latest>>
      PROVE  LeaseInv'
  <2> DEFINE r == [worker[w] EXCEPT !.pc = p]
  <2>1. r.pc = p /\ r.account = worker[w].account /\ r.until = worker[w].until
    BY <1>w DEF Records
  <2> HIDE DEF r
  <2> QED BY <1>2, <1>4, <2>1 DEF r
<1>5. ASSUME NEW w \in Workers, SettleAttempt(w)
      PROVE  LeaseInv'
  <2>1. PICK refused \in BOOLEAN, then \in {"served", "next", "over"} :
          worker' = [worker EXCEPT ![w] =
             [worker[w] EXCEPT !.pc = IF refused THEN "refused" ELSE "judged",
                       !.then = then,
                       !.order = IF then = "next" THEN worker[w].order ELSE <<>>]]
    BY <1>5, Zenon DEF SettleAttempt
  <2> DEFINE r == [worker[w] EXCEPT !.pc = IF refused THEN "refused" ELSE "judged",
                       !.then = then,
                       !.order = IF then = "next" THEN worker[w].order ELSE <<>>]
  <2>2. /\ r.pc = IF refused THEN "refused" ELSE "judged"
        /\ r.account = worker[w].account /\ r.until = worker[w].until
    BY <1>w DEF Records
  <2> HIDE DEF r
  <2>3. r.pc \in CallPoints
    BY <2>2 DEF CallPoints
  <2>4. worker[w].pc \in CallPoints /\ UNCHANGED <<leases, latest>>
    BY <1>5 DEF SettleAttempt, CallPoints
  <2> QED BY <1>2, <2>1, <2>2, <2>3, <2>4 DEF r
<1>6. ASSUME NEW w \in Workers, HeadersArrive(w) \/ CoolAccount(w)
      PROVE  LeaseInv'
  <2>1. PICK p \in CallPoints : worker' = [worker EXCEPT ![w] = [worker[w] EXCEPT !.pc = p]]
    BY <1>6 DEF HeadersArrive, CoolAccount, Goes, CallPoints
  <2>2. worker[w].pc \in CallPoints /\ UNCHANGED <<leases, latest>>
    BY <1>6 DEF HeadersArrive, CoolAccount, At, CallPoints
  <2> QED BY <1>4, <2>1, <2>2
<1>7. ASSUME NEW w \in Workers, RememberAccount(w) \/ LeaveLoop(w)
      PROVE  LeaseInv'
  <2>1. worker' = [worker EXCEPT ![w] = IdleWorker] /\ UNCHANGED <<leases, latest>>
    BY <1>7 DEF RememberAccount, LeaveLoop
  <2>2. IdleWorker.pc \notin CallPoints /\ worker[w].pc \notin CallPoints
    BY <1>7 DEF RememberAccount, LeaveLoop, At, IdleWorker, CallPoints
  <2> QED BY <1>2, <2>1, <2>2
<1>8. ASSUME NEW d \in Jumps, Clock(d)
      PROVE  LeaseInv'
  <2>1. latest <= latest'
    BY <1>8, <1>l DEF Clock, Instants
  <2> QED BY <1>1, <1>8, <2>1 DEF Clock
<1>9. CASE UNCHANGED <<leases, worker, latest>>
  BY <1>1, <1>9, <1>l
<1> QED
  BY <1>3, <1>5, <1>6, <1>7, <1>8, <1>9, GrantKeepsLeases, DropKeepsLeases
  DEF AccountNext, accountVars, WorkerStep, PollAnswers

\* A set of leases with different holders is no larger than a finite set they are in.
LEMMA HoldersCount ==
    ASSUME NEW S \in SUBSET Leases, NEW T, IsFiniteSet(T),
           \A l \in S : l.holder \in T,
           \A l, m \in S : l.holder = m.holder => l = m
    PROVE  Cardinality(S) <= Cardinality(T)
<1> DEFINE f == [l \in S |-> l.holder]
<1>1. f \in [S -> T] /\ \A l \in S : f[l] = l.holder
  OBVIOUS
<1> HIDE DEF f
<1>2. f \in Injection(S, T)
  BY <1>1 DEF Injection, IsInjective
<1> QED BY <1>2, FS_Injection

\* ... and no smaller than one of whose members each holds a lease.
LEMMA HoldersCover ==
    ASSUME NEW S \in SUBSET Leases, IsFiniteSet(S), NEW T,
           \A w \in T : \E l \in S : l.holder = w
    PROVE  Cardinality(T) <= Cardinality(S)
<1> DEFINE f == [w \in T |-> CHOOSE l \in S : l.holder = w]
<1>1. \A w \in T : f[w] \in S /\ f[w].holder = w
  OBVIOUS
<1>2. f \in [T -> S]
  BY <1>1
<1> HIDE DEF f
<1>3. f \in Injection(T, S)
  BY <1>1, <1>2 DEF Injection, IsInjective
<1> QED BY <1>3, FS_Injection

\* "One actual provider attempt owns its load reservation": every attempt that is
\* within its deadline weighs on its account, whatever the clock does and however
\* many leases expire, and no lease outlives its attempt.
THEOREM LoadStaysVisible == AccountSpec => []LoadIsVisible
<1>1. AccountInit => LeaseInv
  <2> SUFFICES ASSUME AccountInit PROVE LeaseInv
    OBVIOUS
  <2>1. \A a \in Accounts : leases[a] = {}
    BY DEF AccountInit
  <2>2. \A w \in Workers : worker[w].pc = "idle"
    BY DEF AccountInit, IdleWorker
  <2>3. \A a \in Accounts : Calls(a) = {}
    BY <2>2 DEF Calls
  <2> QED BY <2>1, <2>3 DEF LeaseInv, LeaseOwned, LeaseHeld
<1>2. AccountTypeOK /\ AccountTypeOK' /\ LeaseInv /\ [AccountNext]_accountVars => LeaseInv'
  BY LeaseStep
<1>3. AccountTypeOK /\ LeaseInv => LoadIsVisible
  <2> SUFFICES ASSUME AccountTypeOK, LeaseInv, NEW a \in Accounts
               PROVE  /\ Cardinality({w \in Calls(a) : latest < worker[w].until}) <= Inflight(a, wall)
                      /\ Cardinality(leases[a]) <= Cardinality(Calls(a))
    BY DEF LoadIsVisible
  <2>1. leases[a] \in SUBSET Leases /\ IsFiniteSet(leases[a])
    BY DEF AccountTypeOK, LeasesOK
  <2>2. IsFiniteSet(Calls(a))
    BY FS_Subset DEF Calls
  <2>3. Cardinality(leases[a]) <= Cardinality(Calls(a))
    BY <2>1, <2>2, HoldersCount DEF LeaseInv, LeaseOwned
  <2> DEFINE S == {l \in leases[a] : l.expiry > wall}
             T == {w \in Calls(a) : latest < worker[w].until}
  <2>4. S \in SUBSET Leases /\ IsFiniteSet(S)
    BY <2>1, FS_Subset
  <2>5. ASSUME NEW w \in T
        PROVE  \E l \in S : l.holder = w
    <3>1. PICK l \in leases[a] : l.holder = w /\ l.expiry >= worker[w].until
      BY <2>5 DEF LeaseInv, LeaseHeld
    <3>2. l.expiry \in Nat
      BY <2>1, <3>1 DEF Leases
    <3>3. wall \in Nat /\ latest \in Nat /\ wall <= latest
      BY DEF AccountTypeOK, ClockOK, Instants
    <3>4. worker[w].until \in Nat
      BY DEF AccountTypeOK, WorkersOK, Records, Calls
    <3>5. l.expiry > wall
      BY <3>1, <3>2, <3>3, <3>4
    <3> QED BY <3>1, <3>5
  <2>6. Cardinality(T) <= Cardinality(S)
    <3> HIDE DEF S, T
    <3> QED BY <2>4, <2>5, HoldersCover
  <2> QED BY <2>3, <2>6 DEF Inflight
<1> QED BY <1>1, <1>2, <1>3, AccountTypes, PTL DEF AccountSpec


-----------------------------------------------------------------------------
(* The order of accounts, for any plans and any load.                      *)

\* From here on a proof that needs them cites them.
HIDE AccountAssumption
HIDE WindowAssumption

LEMMA PermilleInRange ==
    ASSUME NEW w \in Windows, NEW t \in Instants, NEW tokens \in Nat
    PROVE  RemainingPermille(w, t, tokens) \in 0..1000
<1>1. EffectiveUsed(w, t) \in Nat
  <2>1. w.curr \in Nat /\ w.prev \in Nat
    BY DEF Windows, Counts
  <2>2. Decayed(w.curr, t) \in Nat /\ Decayed(w.prev, t) \in Nat
    BY <2>1, DecayedInRange
  <2>3. ASSUME NEW m \in Nat, NEW n \in Nat
        PROVE  SatAdd(m, n) \in Nat
    <3>1. SatAdd(m, n) \in Counts
      BY SatAddIsCount
    <3> QED BY <3>1 DEF Counts
  <2>4. SatAdd(w.curr, w.prev) \in Nat /\ SatAdd(w.curr, Decayed(w.prev, t)) \in Nat
    BY <2>1, <2>2, <2>3
  <2> QED BY <2>2, <2>4 DEF EffectiveUsed
<1> DEFINE used == EffectiveUsed(w, t)
<1>2. CASE tokens = 0 \/ used >= tokens
  BY <1>2 DEF RemainingPermille
<1>3. CASE tokens # 0 /\ ~(used >= tokens)
  <2> DEFINE n == (tokens - used) * 1000
  <2> HIDE DEF used
  <2>1. n \in Nat /\ n <= 1000 * tokens /\ tokens \in Nat \ {0}
    BY <1>1, <1>3 DEF used
  <2> HIDE DEF n
  <2>2. n \div tokens \in 0..1000
    <3> DEFINE q == n \div tokens
    <3>1. q \in Int /\ n = tokens * q + (n % tokens) /\ n % tokens \in 0..(tokens - 1)
      BY <2>1
    <3> HIDE DEF q
    <3>2. ASSUME q >= 1001 PROVE FALSE
      <4>1. tokens * q >= tokens * 1001
        BY <2>1, <3>1, <3>2
      <4> QED BY <2>1, <3>1, <4>1
    <3>3. ASSUME q <= -1 PROVE FALSE
      <4>1. tokens * q <= tokens * (-1)
        BY <2>1, <3>1, <3>3
      <4>2. tokens * (-1) = -tokens
        BY <2>1
      <4> QED BY <2>1, <3>1, <4>1, <4>2
    <3>4. q \in 0..1000
      BY <3>1, <3>2, <3>3
    <3> QED BY <3>4 DEF q
  <2> QED BY <1>3, <2>2 DEF RemainingPermille, used, n
<1> QED BY <1>2, <1>3

LEMMA HeadroomInRange ==
    ASSUME AccountTypeOK, NEW a \in Accounts
    PROVE  Headroom(a, wall) \in 0..1000
<1>1. wall \in Instants /\ ledger[a] \in Windows /\ setup[a].rate \in Nat
  BY AccountAssumption DEF AccountTypeOK, ClockOK, PlansOK
<1>2. OwnHeadroom(a, wall) \in 0..1000
  BY <1>1, PermilleInRange DEF OwnHeadroom
<1>3. Inflight(a, wall) \in Nat
  <2>1. IsFiniteSet({l \in leases[a] : l.expiry > wall})
    BY FS_Subset DEF AccountTypeOK, LeasesOK
  <2> QED BY <2>1, FS_CardinalityType DEF Inflight
<1>4. Penalty(a, wall) \in Nat
  <2> DEFINE n == Inflight(a, wall)
             d == setup[a].rate
  <2> HIDE DEF n, d
  <2>1. d # 0 => (n * 1000) \div d \in Nat
    <3>1. n \in Nat /\ d \in Nat
      BY <1>1, <1>3 DEF n, d
    <3> QED BY <3>1
  <2>2. n * 100 \in Nat
    BY <1>3 DEF n
  <2> QED BY <2>1, <2>2 DEF Penalty, LeastOf, n, d
<1> DEFINE own == OwnHeadroom(a, wall)
           penalty == Penalty(a, wall)
<1> HIDE DEF own, penalty
<1>5. own \in 0..1000 /\ penalty \in Nat
  BY <1>2, <1>4 DEF own, penalty
<1>6. (IF own - penalty > 0 THEN own - penalty ELSE 0) \in 0..1000
  BY <1>5
<1> QED BY <1>6 DEF Headroom, own, penalty

\* The weights of quota_rank: a later reason never bridges an earlier one.
LEMMA PreferredComesFirst ==
    ASSUME AccountTypeOK, Accounts \subseteq 1..200,
           NEW a \in Accounts, NEW b \in Accounts, NEW s, Preferred(a, b, s, wall)
    PROVE  ComesFirst(a, b, s)
<1>1. CASE ResetBucket(a, wall) < ResetBucket(b, wall)
  BY <1>1 DEF ComesFirst
<1>2. CASE /\ ResetBucket(a, wall) = ResetBucket(b, wall)
           /\ Score(a, s, wall) > Score(b, s, wall)
  <2>1. PICK m : m = Headroom(a, wall)
    OBVIOUS
  <2>2. PICK n : n = Headroom(b, wall)
    OBVIOUS
  <2>3. PICK v : v = IF LastAccount(s) = a THEN 300000 ELSE 0
    OBVIOUS
  <2>4. PICK w : w = IF LastAccount(s) = b THEN 300000 ELSE 0
    OBVIOUS
  <2>5. m \in 0..1000 /\ n \in 0..1000
    <3>1. Headroom(a, wall) \in 0..1000
      BY HeadroomInRange
    <3>2. Headroom(b, wall) \in 0..1000
      BY HeadroomInRange
    <3> QED BY <2>1, <2>2, <3>1, <3>2
  <2>6. a \in 1..200 /\ b \in 1..200 /\ v \in {0, 300000} /\ w \in {0, 300000}
    BY <2>3, <2>4
  <2>7. v + (200000 * m) \div 1000 - (IF m <= 100 THEN 500000 ELSE 0) - a
          > w + (200000 * n) \div 1000 - (IF n <= 100 THEN 500000 ELSE 0) - b
    BY <1>2, <2>1, <2>2, <2>3, <2>4 DEF Score, Pressured
  <2>8. \/ m > 100 /\ n <= 100
        \/ /\ m <= 100 <=> n <= 100
           /\ v > w \/ (v = w /\ (m > n \/ (m = n /\ a < b)))
    <3>1. (200000 * m) \div 1000 = 200 * m /\ (200000 * n) \div 1000 = 200 * n
      BY <2>5
    <3>2. v + 200 * m - (IF m <= 100 THEN 500000 ELSE 0) - a
            > w + 200 * n - (IF n <= 100 THEN 500000 ELSE 0) - b
      BY <2>7, <3>1
    <3> QED BY <2>5, <2>6, <3>2
  <2>9. /\ v > w => LastAccount(s) = a /\ LastAccount(s) # b
        /\ v = w => (LastAccount(s) = a <=> LastAccount(s) = b)
    BY <2>3, <2>4
  <2> QED BY <1>2, <2>1, <2>2, <2>5, <2>8, <2>9 DEF ComesFirst, Pressured
<1> QED BY <1>1, <1>2 DEF Preferred

\* quota_rank gives every request the documented order of reasons, as long as the
\* insertion order cannot bridge a permille of headroom: up to 200 accounts.
THEOREM RankOrdersAccounts ==
    ASSUME Accounts \subseteq 1..200
    PROVE  AccountSpec => RankKeepsPriorities
<1> DEFINE Kept ==
      \A w \in Workers :
         At(w, "idle") /\ worker'[w].pc = "ready" =>
            LET order == worker'[w].order IN
            \A i, j \in DOMAIN order :
               i < j => ComesFirst(order[i], order[j], worker'[w].session)
<1>1. ASSUME AccountTypeOK, AccountTypeOK', AccountNext
      PROVE  Kept
  <2> SUFFICES ASSUME NEW w \in Workers, At(w, "idle"), worker'[w].pc = "ready",
                      NEW i \in DOMAIN worker'[w].order, NEW j \in DOMAIN worker'[w].order,
                      i < j
               PROVE  ComesFirst(worker'[w].order[i], worker'[w].order[j], worker'[w].session)
    OBVIOUS
  <2>w. worker \in [Workers -> Records]
    BY <1>1 DEF AccountTypeOK, WorkersOK
  <2>1. PICK s \in Sessions : RouteByQuota(w, s)
    <3>1. ASSUME NEW u \in Workers, NEW r, worker' = [worker EXCEPT ![u] = r],
                 worker[u].pc # "idle", r.pc # "ready" \/ worker[u].pc # "idle"
          PROVE  FALSE
      <4>1. u # w
        BY <3>1 DEF At
      <4> QED BY <3>1, <4>1, <2>w DEF At
    <3>2. ASSUME UNCHANGED worker
          PROVE  FALSE
      BY <3>2 DEF At
    <3>3. ASSUME NEW u \in Workers,
                 HeadersArrive(u) \/ CoolAccount(u) \/ RememberAccount(u) \/ LeaveLoop(u)
                   \/ GrantLease(u) \/ SettleAttempt(u) \/ DropLease(u)
          PROVE  FALSE
      <4>1. worker[u].pc # "idle"
        BY <3>3 DEF HeadersArrive, CoolAccount, RememberAccount, LeaveLoop, GrantLease,
                    SettleAttempt, DropLease, At
      <4>2. \E r : worker' = [worker EXCEPT ![u] = r]
        BY <3>3, Zenon
        DEF HeadersArrive, CoolAccount, RememberAccount, LeaveLoop, GrantLease,
            SettleAttempt, DropLease, Goes
      <4> QED BY <3>1, <4>1, <4>2
    <3>4. ASSUME NEW u \in Workers, NEW s \in Sessions, RouteByQuota(u, s), u # w
          PROVE  FALSE
      <4>1. \E r : worker' = [worker EXCEPT ![u] = r]
        BY <3>4, Zenon DEF RouteByQuota
      <4> QED BY <3>4, <4>1, <2>w DEF At
    <3>5. ASSUME \/ \E a \in Polled : PollAnswers(a)
                 \/ \E d \in Jumps : Clock(d)
          PROVE  FALSE
      BY <3>2, <3>5 DEF PollAnswers, Clock
    <3> QED BY <1>1, <3>3, <3>4, <3>5 DEF AccountNext, WorkerStep
  <2>u. PICK usable \in SUBSET Accounts : \E order \in Ranked(usable, s, wall) :
          worker' = [worker EXCEPT ![w] =
               [IdleWorker EXCEPT !.pc = "ready", !.session = s, !.order = order]]
    BY <2>1, Zenon DEF RouteByQuota
  <2>2. PICK order \in Ranked(usable, s, wall) :
          worker' = [worker EXCEPT ![w] =
               [IdleWorker EXCEPT !.pc = "ready", !.session = s, !.order = order]]
    BY <2>u
  <2>3. worker'[w].order = order /\ worker'[w].session = s
    BY <2>2, <2>w DEF IdleWorker
  <2>4. order \in Seq(Accounts)
    BY RankedIsSeq
  <2>5. order[i] \in Accounts /\ order[j] \in Accounts
    BY <2>3, <2>4
  <2>6. Preferred(order[i], order[j], s, wall)
    BY <2>3 DEF Ranked
  <2> QED BY <1>1, <2>3, <2>5, <2>6, PreferredComesFirst
<1>2. AccountTypeOK /\ AccountTypeOK' /\ [AccountNext]_accountVars => [Kept]_accountVars
  BY <1>1
<1>3. [][Kept]_accountVars <=> RankKeepsPriorities
  BY PTL DEF RankKeepsPriorities
<1> QED BY <1>2, <1>3, AccountTypes, PTL DEF AccountSpec

=============================================================================
