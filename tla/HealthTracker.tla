--------------------------- MODULE HealthTracker ---------------------------
(***************************************************************************)
(* Per-target failure counting (crates/router-core/src/health.rs).         *)
(*                                                                         *)
(* The tracker keeps, for each (upstream, wire model), nothing, a count of *)
(* consecutive failures, or an ejection with the instant it ends.  The     *)
(* instant is abstracted to the two sides of it the code compares with:    *)
(* "cooling" (now < until) and "probation" (now >= until); the passage of  *)
(* time is the step CooldownElapses takes from one to the other.           *)
(***************************************************************************)
EXTENDS Naturals

CONSTANTS Targets,      \* the (upstream, model) pairs of the catalog
          EjectAfter    \* HealthPolicy::eject_after

ASSUME EjectAfterAssumption == EjectAfter \in Nat \ {0}

VARIABLES fails,        \* State::Counting { consecutive }, 0 when there is none
          ejected       \* State::Ejected, on either side of its instant

healthVars == <<fails, ejected>>

Ejections == {"no", "cooling", "probation"}

HealthTypeOK ==
    /\ fails \in [Targets -> 0..(EjectAfter - 1)]
    /\ ejected \in [Targets -> Ejections]

HealthInit ==
    /\ fails = [t \in Targets |-> 0]
    /\ ejected = [t \in Targets |-> "no"]

\* Failures of the catalog that say the upstream is unwell; "unwell" stands for
\* Timeout, UpstreamUnavailable, TransportTruncated, ProviderProtocolError and
\* Capacity, and "lifecycle" and "timeout_final" carry two of those codes.
CountsTowardEjection(code) == code \in {"unwell", "lifecycle", "timeout_final"}

\* observe_success: the state is removed, whatever it was.
ObserveSuccess(t) ==
    /\ fails' = [fails EXCEPT ![t] = 0]
    /\ ejected' = [ejected EXCEPT ![t] = "no"]

\* observe_failure: a failure while cooling changes nothing, a failed probe
\* ejects again at once, otherwise the count grows until it ejects.
ObserveFailure(t, code) ==
    IF ~CountsTowardEjection(code) \/ ejected[t] = "cooling"
    THEN UNCHANGED healthVars
    ELSE IF ejected[t] = "probation" \/ fails[t] + 1 >= EjectAfter
         THEN /\ fails' = [fails EXCEPT ![t] = 0]
              /\ ejected' = [ejected EXCEPT ![t] = "cooling"]
         ELSE /\ fails' = [fails EXCEPT ![t] = @ + 1]
              /\ UNCHANGED ejected

\* The clock passes the end of an ejection.
CooldownElapses(t) ==
    /\ ejected[t] = "cooling"
    /\ ejected' = [ejected EXCEPT ![t] = "probation"]
    /\ UNCHANGED fails

\* health_of.
HealthOf(t) ==
    CASE ejected[t] = "no"        -> "healthy"
      [] ejected[t] = "cooling"   -> "unavailable"
      [] ejected[t] = "probation" -> "degraded"

=============================================================================
