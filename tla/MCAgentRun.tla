----------------------------- MODULE MCAgentRun -----------------------------
(* Small instances of AgentRun for TLC. *)
EXTENDS AgentRun, TLC

CONSTANTS w1, w2, r1, r2, r3, a1, a2, c1, c2, c3, k1, k2

(* Two runs of one agent and one of another. *)
MCAgentOf == (r1 :> a1) @@ (r2 :> a1) @@ (r3 :> a2)

(* Two claims about two events, or three of which the first and the last   *)
(* are about one event.                                                    *)
MCThreeClaims == (c1 :> k1) @@ (c2 :> k2) @@ (c3 :> k1)
MCThreeTimes == (c1 :> 1) @@ (c2 :> 2) @@ (c3 :> 3)

Used(r) == status[r] # "absent" \/ \E w \in Workers : run[w] = r

(* Bound: either both runs of one agent with two claims while leases       *)
(* expire, or one run each of two agents with three claims at one time.    *)
Bounded ==
    \/ ~Used(r3) /\ c3 \notin arrived
    \/ ~Used(r2) /\ clock = 0
=============================================================================
