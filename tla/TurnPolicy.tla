------------------------------ MODULE TurnPolicy ------------------------------
(* The tool-call budget of one turn (services/tools/src/turn-policy.ts,      *)
(* budget-gate.ts).  A policy is an immutable value with the usage recorded  *)
(* so far; recording a call returns the next policy.  All policies of a turn *)
(* share a session: the usage reserved by accepted calls, which new calls    *)
(* are checked against, and the set of accepted decisions not yet recorded.  *)
(* A caller may check and record in any order and from any policy it holds.  *)
EXTENDS Integers, FiniteSets

CONSTANTS Classes,   \* TOOL_COST_CLASSES
          Budget,    \* calls of each class a turn may make
          UsedCounts \* usage of a class that a turn may start with

ASSUME PolicyConstants ==
  /\ Budget \in [Classes -> Nat]
  /\ UsedCounts \subseteq Nat

VARIABLES initial,    \* the usage the turn started with
          reserved,   \* session.reservedUsage
          accepted,   \* session.acceptedDecisions
          policies,   \* the usage of every policy made so far
          granted     \* history: decisions accepted, per class

policyVars == <<initial, reserved, accepted, policies, granted>>

PolicyInit ==
  /\ initial \in [Classes -> UsedCounts]
  /\ reserved = initial
  /\ policies = {initial}
  /\ accepted = {}
  /\ granted = [c \in Classes |-> 0]

Plus(usage, c) == [usage EXCEPT ![c] = @ + 1]

\* a bug: a call is checked against the policy's own usage
CheckOwnUsage(usage, c) ==
  /\ usage[c] < Budget[c]
  /\ accepted' = accepted \cup {[cost |-> c, used |-> usage[c], nr |-> granted[c]]}
  /\ reserved' = Plus(reserved, c)
  /\ granted' = Plus(granted, c)
  /\ UNCHANGED <<initial, policies>>

\* checkToolCall: the decision carries the usage it was accepted at; a refused
\* call (budget_exceeded, or not authorized) changes nothing
Check(usage, c) ==
  /\ reserved[c] < Budget[c]
  /\ accepted' = accepted \cup {[cost |-> c, used |-> reserved[c], nr |-> granted[c]]}
  /\ reserved' = Plus(reserved, c)
  /\ granted' = Plus(granted, c)
  /\ UNCHANGED <<initial, policies>>

\* recordAcceptedToolCall: the decision must be outstanding, and accepted at the
\* usage of the policy that records it; otherwise it throws
Record(usage, d) ==
  /\ d \in accepted /\ d.used = usage[d.cost]
  /\ accepted' = accepted \ {d}
  /\ policies' = policies \cup {Plus(usage, d.cost)}
  /\ UNCHANGED <<initial, reserved, granted>>

PolicyNext ==
  \E usage \in policies :
    \/ \E c \in Classes : Check(usage, c)
    \/ \E d \in accepted : Record(usage, d)

PolicySpec == PolicyInit /\ [][PolicyNext]_policyVars

-------------------------------------------------------------------------------
Decision == [cost : Classes, used : Nat, nr : Nat]

\* The types; what is reserved is what the turn started with and every accepted
\* call, and no policy has recorded more.
PolicyTypeOK ==
  /\ {initial, reserved, granted} \subseteq [Classes -> Nat]
  /\ accepted \subseteq Decision
  /\ policies \subseteq [Classes -> Nat]
  /\ \A c \in Classes : /\ reserved[c] = initial[c] + granted[c]
                        /\ \A usage \in policies : usage[c] <= reserved[c]

\* However checks and records interleave, and whichever policy is asked, a turn is
\* never granted more calls of a class than its budget leaves.
WithinBudget ==
  \A c \in Classes : granted[c] = 0 \/ initial[c] + granted[c] <= Budget[c]

===============================================================================
