---------------------------- MODULE MCMetering ----------------------------
(***************************************************************************)
(* What a Gateway measures: the admission counter its request threads race *)
(* on, the quota rows it shares with other Gateways, and what it knows of  *)
(* its quota accounts between requests.  None looks at the state of        *)
(* another, so a behaviour is one of one of them: subject says which.  The *)
(* store is two Gateways and two plans over three buckets of two instants, *)
(* with counts that saturate; the accounts are those of MCAccount.         *)
(***************************************************************************)
EXTENDS QuotaStore, Admission, MCAccount

CONSTANTS g1, g2, p1, p2

MCGateways == {g1, g2}
MCPlans == {p1, p2}
MCLimitOf == (p1 :> 2) @@ (p2 :> 4)

\* The Gateways differ in nothing, nor do the workers.
SameActors == Permutations(MCGateways) \union Permutations(MCWorkers)

VARIABLE subject

MeteringInit ==
    /\ AdmissionInit /\ Init /\ AccountInit
    /\ subject \in {"admission", "store", "accounts"}
    /\ subject # "admission" => limit = 0
    /\ subject # "store" => \A g \in Gateways : plan[g] = p1
    /\ subject # "accounts" => setup = CHOOSE f \in Setups : TRUE

MeteringNext ==
    /\ UNCHANGED subject
    /\ \/ subject = "admission" /\ AdmissionNext /\ UNCHANGED <<vars, accountVars>>
       \/ subject = "store" /\ Next /\ UNCHANGED <<admissionVars, accountVars>>
       \/ subject = "accounts" /\ AccountNext /\ UNCHANGED <<admissionVars, vars>>

MeteringSpec == MeteringInit /\ [][MeteringNext]_<<subject, vars, admissionVars, accountVars>>
=============================================================================
