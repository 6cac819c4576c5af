----------------------------- MODULE Admission -----------------------------
(***************************************************************************)
(* One counter of the admission gate as the threads really use it          *)
(* (admission.rs): try_take loads the counter and then tries to exchange   *)
(* the value it saw, again and again; a Permit gives its unit back when it *)
(* is dropped.  The three levels (global, per Agent, per Provider) are     *)
(* separate counters of this kind.                                         *)
(***************************************************************************)
EXTENDS Naturals, FiniteSets

CONSTANTS Callers,  \* threads that ask for a permit
          Ceilings  \* the limits a configuration may set; 0 refuses everyone

ASSUME AdmissionAssumption == IsFiniteSet(Callers) /\ Ceilings \subseteq Nat

VARIABLES limit,    \* Limits.global, per_agent or per_provider
          counter,  \* the AtomicU32
          loc,      \* where a caller is
          current   \* try_take's local of the same name

admissionVars == <<limit, counter, loc, current>>

Moves(c, l) == loc' = [loc EXCEPT ![c] = l]
Forget(c) == current' = [current EXCEPT ![c] = 0]

\* The early return for a limit of 0.
TakeNothing(c) ==
    /\ loc[c] = "out" /\ limit = 0
    /\ Moves(c, "refused")
    /\ UNCHANGED <<limit, counter, current>>

\* counter.load.
Load(c) ==
    /\ loc[c] = "out" /\ limit # 0
    /\ current' = [current EXCEPT ![c] = counter]
    /\ Moves(c, "loop")
    /\ UNCHANGED <<limit, counter>>

\* current >= limit: None.
Full(c) ==
    /\ loc[c] = "loop" /\ current[c] >= limit
    /\ Moves(c, "refused")
    /\ Forget(c)
    /\ UNCHANGED <<limit, counter>>

\* Mutant of Exchange: a plain store of what was loaded, plus one.
Store(c) ==
    /\ loc[c] = "loop" /\ current[c] < limit
    /\ counter' = current[c] + 1
    /\ Moves(c, "held")
    /\ Forget(c)
    /\ UNCHANGED limit

\* compare_exchange_weak succeeds.
Exchange(c) ==
    /\ loc[c] = "loop" /\ current[c] < limit
    /\ counter = current[c]
    /\ counter' = current[c] + 1
    /\ Moves(c, "held")
    /\ Forget(c)
    /\ UNCHANGED limit

\* Mutant of ExchangeFails: a lost race is taken for a full gate.
ExchangeRefuses(c) ==
    /\ loc[c] = "loop" /\ current[c] < limit
    /\ Moves(c, "refused")
    /\ Forget(c)
    /\ UNCHANGED <<limit, counter>>

\* compare_exchange_weak fails, spuriously too, and tells what it saw.
ExchangeFails(c) ==
    /\ loc[c] = "loop" /\ current[c] < limit
    /\ current' = [current EXCEPT ![c] = counter]
    /\ UNCHANGED <<limit, counter, loc>>

\* Permit::drop.
Drop(c) ==
    /\ loc[c] = "held"
    /\ counter' = counter - 1
    /\ Moves(c, "out")
    /\ UNCHANGED <<limit, current>>

\* The caller answers 429, or moves on to its next target; None drops nothing.
Refused(c) ==
    /\ loc[c] = "refused"
    /\ Moves(c, "out")
    /\ UNCHANGED <<limit, counter, current>>

AdmissionInit ==
    /\ limit \in Ceilings
    /\ counter = 0
    /\ loc = [c \in Callers |-> "out"]
    /\ current = [c \in Callers |-> 0]

Call(c) ==
    \/ TakeNothing(c) \/ Load(c) \/ Full(c) \/ Exchange(c) \/ ExchangeFails(c)
    \/ Drop(c) \/ Refused(c)

AdmissionNext == \E c \in Callers : Call(c)

AdmissionSpec == AdmissionInit /\ [][AdmissionNext]_admissionVars

-----------------------------------------------------------------------------
AdmissionTypeOK ==
    /\ limit \in Ceilings
    /\ counter \in Nat
    /\ loc \in [Callers -> {"out", "loop", "held", "refused"}]
    /\ current \in [Callers -> Nat]

Holders == {c \in Callers : loc[c] = "held"}

\* The counter is exactly the number of permits in existence and never passes
\* the limit, however loads, lost races, spurious failures and drops interleave.
CounterExact == counter = Cardinality(Holders) /\ counter <= limit

\* A caller that saw a full counter is as good as refused from that moment on.
Gate == INSTANCE PermitGate WITH
    at <- [c \in Callers |-> IF loc[c] # "loop" THEN loc[c]
                             ELSE IF current[c] >= limit THEN "refused" ELSE "out"]

\* try_take is one atomic step to its callers: it refuses only if at some
\* instant of the call the gate was full, and admits only below the limit.
TakesAreAtomic == Gate!GateSpec

=============================================================================
