----------------------------- MODULE MCAttempt -----------------------------
(***************************************************************************)
(* Instances of AttemptMachine.  MCAttempt.cfg: one request with every     *)
(* payload and cause of cancellation, three targets on two upstreams, two  *)
(* attempts.  MCContention.cfg: three requests of two Agents that contend     *)
(* for two global permits, one per Agent and one per upstream.             *)
(***************************************************************************)
EXTENDS AttemptMachine, TLC

CONSTANTS r1, r2, r3, agent1, agent2, t1, t2, t3, u1, u2

MCAgents == {agent1, agent2}
MCUpstreams == {u1, u2}

OneRequest == {r1}
OneAgentOf == r1 :> agent1
ThreeTargets == {t1, t2, t3}
ThreeUpstreamOf == (t1 :> u1) @@ (t2 :> u2) @@ (t3 :> u1)
ThreePlace == (t1 :> 1) @@ (t2 :> 2) @@ (t3 :> 3)
AllPayloads == {"canonical", "native"} \X BOOLEAN

ThreeRequests == {r1, r2, r3}
ThreeAgentOf == (r1 :> agent1) @@ (r2 :> agent1) @@ (r3 :> agent2)
TwoTargets == {t1, t2}
TwoUpstreamOf == (t1 :> u1) @@ (t2 :> u2)
TwoPlace == (t1 :> 1) @@ (t2 :> 2)
OnePayload == {<<"canonical", FALSE>>}

\* r1 and r2 differ in nothing.
SameAgent == Permutations({r1, r2})

=============================================================================
