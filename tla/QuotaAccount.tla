---------------------------- MODULE QuotaAccount ----------------------------
(***************************************************************************)
(* What one Gateway knows of its quota accounts between requests           *)
(* (quota_tracker.rs, quota_lease.rs) and how quota-first routing uses it  *)
(* (quota.rs, route_quota_first): consumption counted, requests in flight, *)
(* refusals of the provider and the provider's own readings, of which each *)
(* may come from another request, or from the poller, at any time.         *)
(*                                                                         *)
(* Workers are the request threads; a step is one section under the quota  *)
(* mutex. The count is kept in memory here; QuotaStore has the shared one. *)
(* A plan counts requests over one window, which is its rate window too.   *)
(* The wall clock may be corrected both ways; latest is the latest instant *)
(* it ever showed.                                                         *)
(***************************************************************************)
EXTENDS QuotaWindow, Sequences, FiniteSets

CONSTANTS
    Accounts,        \* the accounts by their place in the operator's order
    Polled,          \* those that have a balance endpoint, and no quota headers
    Setups,          \* what the configuration may say of the accounts
    Workers, Sessions,
    SessionCapacity, \* conversations whose account is remembered
    TieBand,         \* reset_tie_band_ms
    LeaseMs,         \* DEFAULT_LEASE_MS
    ReadingTtl,      \* AUTHORITATIVE_TTL_MS
    MaxCooldown,     \* MAX_QUOTA_COOLDOWN_MS
    Deadlines,       \* what a request may have left of its deadline
    Cooldowns,       \* what a Retry-After may say
    Jumps,           \* how the wall clock moves, corrections included
    Resets,          \* when a provider may say that its window ends
    TriesPerRequest, \* attempts of one request
    MaxLeases,       \* bound on the leases of an instance
    MaxTurns         \* bound on clock steps and provider readings

ASSUME AccountAssumption ==
    /\ Accounts \subseteq Nat \ {0} /\ IsFiniteSet(Accounts) /\ Polled \subseteq Accounts
    /\ IsFiniteSet(Workers)
    /\ Setups \subseteq [Accounts -> [windowed : BOOLEAN, limit : Nat, rate : Nat]]
    /\ {SessionCapacity, TieBand, LeaseMs} \subseteq Nat \ {0}
    /\ {ReadingTtl, MaxCooldown, TriesPerRequest, MaxLeases, MaxTurns} \subseteq Nat
    /\ Deadlines \union Cooldowns \union Resets \subseteq Nat

NoReading == [at |-> -1]
NoAccount == 0

\* u64::MAX, the reset of a balance and the bucket of an account without a window.
Never == MaxCount

IdleWorker == [pc |-> "idle", session |-> "", order |-> <<>>, account |-> NoAccount,
               until |-> 0, tries |-> 0, then |-> ""]

VARIABLES
    wall, latest,
    setup,      \* the plans of the accounts
    ledger,     \* an account's window
    leases,     \* an account's leases; the holder stands for the serial, which is unique
    granted,    \* how many there were
    cooling,    \* cooling_until_ms; 0 is no cooldown
    reading,    \* authoritative
    sessions,   \* sessions and session_order: session and account, oldest first
    worker,
    turns,
    refusals    \* history: what the providers refused, and until when

accountVars == <<wall, latest, setup, ledger, leases, granted, cooling, reading,
                 sessions, worker, turns, refusals>>

-----------------------------------------------------------------------------
(* What the router is told.                                                *)

UntilReset(t) == (BucketOf(t) + 1) * Period - t

\* fresh_authoritative: not of the future, not too old, its window not over.
Fresh(a, t) ==
    LET r == reading[a] IN
    /\ r # NoReading /\ t >= r.at /\ t - r.at < ReadingTtl
    /\ r.reset - (t - r.at) > 0

Inflight(a, t) == Cardinality({l \in leases[a] : l.expiry > t})

LeastOf(m, n) == IF m <= n THEN m ELSE n

\* apply_inflight_penalty; rate 0 is an unknown rate limit.
Penalty(a, t) ==
    LeastOf(1000, IF setup[a].rate = 0 THEN Inflight(a, t) * 100
                ELSE (Inflight(a, t) * 1000) \div setup[a].rate)

OwnHeadroom(a, t) ==
    IF setup[a].rate = 0 THEN 1000 ELSE RemainingPermille(ledger[a], t, setup[a].rate)

Headroom(a, t) ==
    LET left == OwnHeadroom(a, t) - Penalty(a, t) IN IF left > 0 THEN left ELSE 0

\* RATE_PRESSURE_PERMILLE.
Pressured(a, t) == Headroom(a, t) <= 100

\* quota_state(..).exhausted: a reading replaces the estimate, a cooldown
\* overrides both.
SpentFor(a, t) ==
    \/ t < cooling[a]
    \/ IF Fresh(a, t) THEN reading[a].spent
       ELSE setup[a].windowed /\ RemainingPermille(ledger[a], t, setup[a].limit) = 0

\* The bucket of quota_rank: the time to the reset in tie bands.
ResetBucket(a, t) ==
    IF Fresh(a, t)
    THEN (reading[a].reset - (t - reading[a].at)) \div TieBand
    ELSE IF setup[a].windowed THEN UntilReset(t) \div TieBand
    ELSE Never

LastAccount(s) ==
    IF \E i \in DOMAIN sessions : sessions[i].session = s
    THEN sessions[CHOOSE i \in DOMAIN sessions : sessions[i].session = s].account
    ELSE NoAccount

\* Mutant of Score: the room is weighed before the affinity.
ScoreWeightsSwapped(a, s, t) ==
      (IF LastAccount(s) = a THEN 200000 ELSE 0)
    + (300000 * Headroom(a, t)) \div 1000
    - (IF Pressured(a, t) THEN 500000 ELSE 0)
    - a

\* The score of quota_rank with the default weights; of two accounts the one
\* that is earlier in the operator's order has the lower index in any selection.
Score(a, s, t) ==
      (IF LastAccount(s) = a THEN 300000 ELSE 0)
    + (200000 * Headroom(a, t)) \div 1000
    - (IF Pressured(a, t) THEN 500000 ELSE 0)
    - a

\* QuotaRank::cmp.
Preferred(a, b, s, t) ==
    \/ ResetBucket(a, t) < ResetBucket(b, t)
    \/ ResetBucket(a, t) = ResetBucket(b, t) /\ Score(a, s, t) > Score(b, s, t)

\* route_quota_first: those of the usable accounts that have something left,
\* best first.
Ranked(usable, s, t) ==
    LET left == {a \in usable : ~SpentFor(a, t)} IN
    {order \in [1..Cardinality(left) -> left] :
        \A i, j \in DOMAIN order : i < j => Preferred(order[i], order[j], s, t)}

-----------------------------------------------------------------------------
(* A request.                                                              *)

At(w, pc) == worker[w].pc = pc
Goes(w, pc) == worker' = [worker EXCEPT ![w].pc = pc]

\* candidates and route_with_mode; which accounts are capable and in rotation is
\* up to others. One that dispatch will pass over, its provider being at its
\* ceiling, is as good as unusable.
RouteByQuota(w, s) ==
    /\ At(w, "idle")
    /\ \E usable \in SUBSET Accounts : \E order \in Ranked(usable, s, wall) :
          /\ order # <<>>
          /\ worker' = [worker EXCEPT ![w] =
               [IdleWorker EXCEPT !.pc = "ready", !.session = s, !.order = order]]
    /\ UNCHANGED <<wall, latest, setup, ledger, leases, granted, cooling, reading,
                   sessions, turns, refusals>>

\* grant_for: at least to the deadline of its request.
Lifetime(left) == IF left > LeaseMs THEN left ELSE LeaseMs

\* AttemptQuotaLease; leases that have expired are dropped on the way.
GrantLease(w) ==
    LET r == worker[w]
        a == Head(r.order)
    IN
    /\ At(w, "ready") /\ r.order # <<>>
    /\ r.tries < TriesPerRequest /\ granted < MaxLeases
    /\ granted' = granted + 1
    /\ \E left \in Deadlines :
          /\ leases' = [leases EXCEPT ![a] = {l \in @ : l.expiry > wall} \union
                          {[holder |-> w, expiry |-> wall + Lifetime(left)]}]
          /\ worker' = [worker EXCEPT ![w] =
               [r EXCEPT !.pc = "calling", !.order = Tail(r.order), !.account = a,
                         !.until = wall + left, !.tries = r.tries + 1]]
    /\ UNCHANGED <<wall, latest, setup, ledger, cooling, reading, sessions, turns,
                   refusals>>

TakesTurn == turns < MaxTurns /\ turns' = turns + 1

Stamped(a) == {NoReading} \union
    IF a \in Polled THEN {} ELSE [at : {wall}, spent : BOOLEAN, reset : Resets]

\* note_authoritative of a response; one without quota headers takes the reading
\* away.
HeadersArrive(w) ==
    /\ At(w, "calling")
    /\ Goes(w, "streaming")
    /\ \E r \in Stamped(worker[w].account) :
          /\ reading' = [reading EXCEPT ![worker[w].account] = r]
          /\ IF r = NoReading THEN UNCHANGED turns ELSE TakesTurn
    /\ UNCHANGED <<wall, latest, setup, ledger, leases, granted, cooling, sessions, refusals>>

\* try_upstream and settle_attempt_quota: an attempt that is complete, or known to
\* have used something, counts on its account. What comes then: an answer, whole or
\* not, is "served" or "over", an error is for another target or the end.
SettleAttempt(w) ==
    LET r == worker[w]
        a == r.account
    IN
    /\ r.pc \in {"calling", "streaming"}
    /\ \E counts, refused \in BOOLEAN, then \in {"served", "next", "over"} :
          /\ At(w, "calling") => ~counts
          /\ then = "served" => counts
          /\ refused => then # "served"
          /\ worker' = [worker EXCEPT ![w] =
               [r EXCEPT !.pc = IF refused THEN "refused" ELSE "judged", !.then = then,
                         !.order = IF then = "next" THEN r.order ELSE <<>>]]
          /\ ledger' = IF counts THEN [ledger EXCEPT ![a] = Recorded(@, wall, 1)] ELSE ledger
    /\ UNCHANGED <<wall, latest, setup, leases, granted, cooling, reading, sessions, turns,
                   refusals>>

\* Mutant of Cooled: the last refusal decides.
CooledByLast(a, until) == until

\* note_rate_limited keeps the later end.
Cooled(a, until) == IF cooling[a] >= until THEN cooling[a] ELSE until

\* observe: a refusal cools the account, before its lease goes.
CoolAccount(w) ==
    LET a == worker[w].account IN
    /\ At(w, "refused")
    /\ Goes(w, "judged")
    /\ \E c \in Cooldowns :
          LET until == wall + LeastOf(c, MaxCooldown) IN
          /\ cooling' = [cooling EXCEPT ![a] = Cooled(a, until)]
          /\ refusals' = refusals \union {[account |-> a, until |-> until]}
    /\ UNCHANGED <<wall, latest, setup, ledger, leases, granted, reading, sessions, turns>>

\* Mutant of WithoutLease: the account's leases go together.
WithoutLeases(w) == [leases EXCEPT ![worker[w].account] = {}]

\* InflightLeases::release.
WithoutLease(w) == [leases EXCEPT ![worker[w].account] = {l \in @ : l.holder # w}]

\* The lease is dropped, and the loop goes on if another target may mend it.
DropLease(w) ==
    LET r == worker[w] IN
    /\ At(w, "judged")
    /\ leases' = WithoutLease(w)
    /\ worker' = [worker EXCEPT ![w] =
         CASE r.then = "served" -> [r EXCEPT !.pc = "served", !.until = 0]
           [] r.then = "next" ->
                [r EXCEPT !.pc = "ready", !.account = NoAccount, !.until = 0, !.then = ""]
           [] r.then = "over" -> IdleWorker]
    /\ UNCHANGED <<wall, latest, setup, ledger, granted, cooling, reading, sessions, turns,
                   refusals>>

\* QuotaTracker::remember: a known conversation keeps its place in the queue.
Remembered(s, a) ==
    IF \E i \in DOMAIN sessions : sessions[i].session = s
    THEN [i \in DOMAIN sessions |->
            IF sessions[i].session = s THEN [sessions[i] EXCEPT !.account = a] ELSE sessions[i]]
    ELSE LET all == Append(sessions, [session |-> s, account |-> a])
             extra == Len(all) - SessionCapacity
         IN  IF extra > 0 THEN SubSeq(all, extra + 1, Len(all)) ELSE all

\* settle_quota.
RememberAccount(w) ==
    /\ At(w, "served")
    /\ sessions' = Remembered(worker[w].session, worker[w].account)
    /\ worker' = [worker EXCEPT ![w] = IdleWorker]
    /\ UNCHANGED <<wall, latest, setup, ledger, leases, granted, cooling, reading, turns, refusals>>

\* No target is left, none may be tried any more, or the request is cancelled.
LeaveLoop(w) ==
    /\ At(w, "ready")
    /\ worker' = [worker EXCEPT ![w] = IdleWorker]
    /\ UNCHANGED <<wall, latest, setup, ledger, leases, granted, cooling, reading,
                   sessions, turns, refusals>>

-----------------------------------------------------------------------------
(* poll_quota_once, and the clock.                                         *)

\* The answer for one account is a balance. It is dated when the pass began, which
\* may be long ago.
PollAnswers(a) ==
    /\ TakesTurn
    /\ \E t \in 0..latest, spent \in BOOLEAN :
          reading' = [reading EXCEPT ![a] = [at |-> t, spent |-> spent, reset |-> Never]]
    /\ UNCHANGED <<wall, latest, setup, ledger, leases, granted, cooling, sessions,
                   worker, refusals>>

Clock(d) ==
    /\ wall + d \in Instants /\ TakesTurn
    /\ wall' = wall + d
    /\ latest' = IF wall + d > latest THEN wall + d ELSE latest
    /\ UNCHANGED <<setup, ledger, leases, granted, cooling, reading, sessions, worker,
                   refusals>>

-----------------------------------------------------------------------------
AccountInit ==
    /\ wall = 0 /\ latest = 0
    /\ setup \in Setups
    /\ ledger = [a \in Accounts |-> FreshWindow]
    /\ leases = [a \in Accounts |-> {}]
    /\ granted = 0
    /\ cooling = [a \in Accounts |-> 0]
    /\ reading = [a \in Accounts |-> NoReading]
    /\ sessions = <<>>
    /\ worker = [w \in Workers |-> IdleWorker]
    /\ turns = 0 /\ refusals = {}

WorkerStep(w) ==
    \/ \E s \in Sessions : RouteByQuota(w, s)
    \/ GrantLease(w) \/ HeadersArrive(w) \/ SettleAttempt(w)
    \/ CoolAccount(w) \/ DropLease(w) \/ RememberAccount(w) \/ LeaveLoop(w)

AccountNext ==
    \/ \E w \in Workers : WorkerStep(w)
    \/ \E a \in Polled : PollAnswers(a)
    \/ \E d \in Jumps : Clock(d)

AccountSpec == AccountInit /\ [][AccountNext]_accountVars

-----------------------------------------------------------------------------
Calls(a) == {w \in Workers : worker[w].account = a
               /\ worker[w].pc \in {"calling", "streaming", "refused", "judged"}}

\* "One actual provider attempt owns its load reservation": what the router sees
\* in flight on an account is at least the attempts that are within their
\* deadline and not yet settled, and never more than the attempts there are.
LoadIsVisible ==
    \A a \in Accounts :
        /\ Cardinality({w \in Calls(a) : latest < worker[w].until}) <= Inflight(a, wall)
        /\ Cardinality(leases[a]) <= Cardinality(Calls(a))

\* "Nothing routes to it until it elapses": no later refusal, reading or poll
\* makes an account usable before the time the provider asked for, or the ceiling
\* on it, is over.
RefusalRemembered ==
    \A f \in refusals : wall < f.until => SpentFor(f.account, wall)

\* Of two accounts the router may use, in the documented order of reasons: the
\* sooner reset, not being pressed, this conversation's account, more room, the
\* operator's order.
ComesFirst(a, b, s) ==
    LET t == wall
        free(x) == ~Pressured(x, t)
        warm(x) == LastAccount(s) = x
        same(p, q) == p <=> q
    IN  \/ ResetBucket(a, t) < ResetBucket(b, t)
        \/ /\ ResetBucket(a, t) = ResetBucket(b, t)
           /\ \/ free(a) /\ ~free(b)
              \/ /\ same(free(a), free(b))
                 /\ \/ warm(a) /\ ~warm(b)
                    \/ /\ same(warm(a), warm(b))
                       /\ \/ Headroom(a, t) > Headroom(b, t)
                          \/ Headroom(a, t) = Headroom(b, t) /\ a < b

\* The weights of the score give that order and no other (quota.rs: spillover,
\* affinity, headroom, insertion order) to every request that is routed.
RankKeepsPriorities ==
    [][\A w \in Workers :
         At(w, "idle") /\ worker'[w].pc = "ready" =>
            LET order == worker'[w].order IN
            \A i, j \in DOMAIN order :
               i < j => ComesFirst(order[i], order[j], worker'[w].session)]_accountVars

\* "An empty windows clears any stale reading": a reading that is still fresh is
\* replaced by another one only.
FreshReadingKept ==
    [][\A a \in Accounts : Fresh(a, wall) => reading'[a] # NoReading]_accountVars

=============================================================================
