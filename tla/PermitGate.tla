----------------------------- MODULE PermitGate -----------------------------
(***************************************************************************)
(* What one level of the admission gate promises (admission.rs): a caller  *)
(* gets a permit or a refusal in one step, a permit only below the limit   *)
(* and a refusal only at it.                                               *)
(***************************************************************************)
EXTENDS Naturals, FiniteSets

CONSTANTS Callers,  \* threads that ask for a permit
          Ceilings  \* the limits a configuration may set

VARIABLES limit,    \* the configured limit, fixed for the life of the gate
          at        \* a caller is "out", or holds a permit, or was refused

gateVars == <<limit, at>>

Held == {c \in Callers : at[c] = "held"}

Admit(c) ==
    /\ at[c] = "out"
    /\ Cardinality(Held) < limit
    /\ at' = [at EXCEPT ![c] = "held"]
    /\ UNCHANGED limit

Refuse(c) ==
    /\ at[c] = "out"
    /\ Cardinality(Held) >= limit
    /\ at' = [at EXCEPT ![c] = "refused"]
    /\ UNCHANGED limit

\* The permit is dropped, or the refusal has been answered.
Leave(c) ==
    /\ at[c] # "out"
    /\ at' = [at EXCEPT ![c] = "out"]
    /\ UNCHANGED limit

GateInit == limit \in Ceilings /\ at = [c \in Callers |-> "out"]

GateNext == \E c \in Callers : Admit(c) \/ Refuse(c) \/ Leave(c)

GateSpec == GateInit /\ [][GateNext]_gateVars

=============================================================================
