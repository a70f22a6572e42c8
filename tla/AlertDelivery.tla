---------------------------- MODULE AlertDelivery ----------------------------
(***************************************************************************)
(* Delivery of fired alerts: processPendingNotifications                   *)
(* (services/notifications/src/delivery-processor.ts), run again and again *)
(* by several workers (worker.ts) on the table alerts_fired, which the     *)
(* agent runs fill.                                                        *)
(*                                                                         *)
(* A pass claims a batch of alerts in one statement, reads the             *)
(* entitlements of their facts, sends each alert on its immediate          *)
(* channels, then one digest per user and agent, and records the outcome   *)
(* of each alert.  Time is kept as ages: how long ago a row was claimed,   *)
(* and how long ago a worker made its claim, both up to just beyond the    *)
(* claim timeout.  The throttle is one of the reasons why a channel may    *)
(* fail.                                                                   *)
(***************************************************************************)
EXTENDS Integers, Sequences, FiniteSets, SequencesExt

CONSTANTS
    Workers,       \* processes that run delivery passes
    Alerts,        \* alerts
    Channels,      \* supported channels, NOTIFICATION_CHANNELS
    Digest,        \* the channel that collects alerts
    Egresses,      \* what facts may be entitled for, of "email" and "push"
    ChannelsOf,    \* the channels of an alert after the preferences, in order
    Unsupported,   \* the alerts with a channel that is not supported
    GroupOf,       \* the user and the agent of an alert
    EgressOf,      \* egressChannelFor
    Limit,         \* how many alerts a pass claims
    Timeout,       \* claimTimeoutMs
    MaxFailures,   \* bound: how many passes fail or are killed
    MaxRevoked     \* bound: how many entitlements are revoked

ASSUME AlertsAssumption ==
    /\ Digest \in Channels /\ Unsupported \subseteq Alerts
    /\ ChannelsOf \in [Alerts -> Seq(Channels)]
    /\ EgressOf \in [Channels -> {"email", "push"}]
    /\ IsFiniteSet(Alerts)
ASSUME LimitsAssumption == Limit \in Nat \ {0} /\ Timeout \in Nat /\ MaxFailures \in Nat /\ MaxRevoked \in Nat

VARIABLES
    fired,       \* the alerts in alerts_fired, in the order of fired_at
    status,      \* their status, "absent" without a row
    age,         \* how long ago claimed_at of a row was
    attempts,    \* delivery_attempts
    entitled,    \* what the facts of an alert are entitled for
    arrived,     \* the alerts that arrived, and on which channel
    pc,          \* where a worker stands in its pass
    held,        \* how long ago it claimed its batch
    batch,       \* the alerts the first loop has still to visit
    sent,        \* up to which of the channels of the first it has come
    allowed,     \* the entitlements it has read
    ok,          \* its alerts with a delivered receipt
    digests,     \* its alerts that wait for a digest
    group,       \* the alerts of the digest it sent and has not recorded yet
    failures     \* how many passes have failed

rowVars == <<status, age, attempts>>
passVars == <<held, batch, sent, allowed, ok, digests, group>>
vars == <<fired, rowVars, entitled, arrived, pc, passVars, failures>>

Terminal == {"notified", "failed"}
Expired == Timeout + 1
Older(t) == IF t < Expired THEN t + 1 ELSE t

HasDigest(a) == Digest \in ToSet(ChannelsOf[a])
Goto(w, step) == pc' = [pc EXCEPT ![w] = step]

Init ==
    /\ fired = <<>>
    /\ status = [a \in Alerts |-> "absent"]
    /\ age = [a \in Alerts |-> 0]
    /\ attempts = [a \in Alerts |-> 0]
    /\ entitled = [a \in Alerts |-> Egresses]
    /\ arrived = {}
    /\ pc = [w \in Workers |-> "idle"]
    /\ held = [w \in Workers |-> 0]
    /\ batch = [w \in Workers |-> <<>>]
    /\ sent = [w \in Workers |-> 0]
    /\ allowed = [w \in Workers |-> [a \in Alerts |-> {}]]
    /\ ok = [w \in Workers |-> {}]
    /\ digests = [w \in Workers |-> {}]
    /\ group = [w \in Workers |-> {}]
    /\ failures = 0

(***************************************************************************)
(* The environment.                                                        *)
(***************************************************************************)
Tick ==
    /\ age' = [a \in Alerts |-> IF status[a] = "delivering" THEN Older(age[a]) ELSE 0]
    /\ held' = [w \in Workers |-> IF pc[w] # "idle" THEN Older(held[w]) ELSE held[w]]
    /\ UNCHANGED <<fired, status, attempts, entitled, arrived, pc, batch, sent, allowed,
                   ok, digests, group, failures>>

(* insertAlertFiring commits with its agent run. *)
Fire(a) ==
    /\ status[a] = "absent"
    /\ status' = [status EXCEPT ![a] = "pending"]
    /\ fired' = Append(fired, a)
    /\ UNCHANGED <<age, attempts, entitled, arrived, pc, passVars, failures>>

Revoked == {p \in Alerts \X Egresses : p[2] \notin entitled[p[1]]}

(* A fact of an alert loses an entitlement, maybe before the alert fires.  *)
Revoke(a, e) ==
    /\ e \in entitled[a] /\ Cardinality(Revoked) < MaxRevoked
    /\ entitled' = [entitled EXCEPT ![a] = @ \ {e}]
    /\ UNCHANGED <<fired, rowVars, arrived, pc, passVars, failures>>

(***************************************************************************)
(* A pass.                                                                 *)
(***************************************************************************)
ClaimableOnce(a) == status[a] = "pending"                       \* a bug: no reclaim

Claimable(a) ==
    \/ status[a] = "pending"
    \/ status[a] = "delivering" /\ age[a] > Timeout

(* The Limit oldest alerts that can be claimed. *)
Claimed ==
    LET queue == {i \in DOMAIN fired : Claimable(fired[i])}
    IN  {fired[i] : i \in {i \in queue : Cardinality({j \in queue : j < i}) < Limit}}

(* The end of a pass. *)
Leave(w) ==
    /\ Goto(w, "idle")
    /\ held' = [held EXCEPT ![w] = 0]
    /\ batch' = [batch EXCEPT ![w] = <<>>]
    /\ sent' = [sent EXCEPT ![w] = 0]
    /\ allowed' = [allowed EXCEPT ![w] = [a \in Alerts |-> {}]]
    /\ ok' = [ok EXCEPT ![w] = {}]
    /\ digests' = [digests EXCEPT ![w] = {}]
    /\ group' = [group EXCEPT ![w] = {}]

(* A bug: a row that is claimed again keeps its claimed_at. *)
StampsNew(A) == [a \in Alerts |-> IF a \in A /\ status[a] = "pending" THEN 0 ELSE age[a]]

(* claimed_at is now() for every claimed row. *)
Stamps(A) == [a \in Alerts |-> IF a \in A THEN 0 ELSE age[a]]

(* claimPendingAlerts: the rows come back in any order.                    *)
Claim(w) ==
    /\ pc[w] = "idle"
    /\ Claimed # {} /\ Claimed \cap Unsupported = {}
    /\ status' = [a \in Alerts |-> IF a \in Claimed THEN "delivering" ELSE status[a]]
    /\ age' = Stamps(Claimed)
    /\ \E order \in SetToSeqs(Claimed) : batch' = [batch EXCEPT ![w] = order]
    /\ Goto(w, "load")
    /\ UNCHANGED <<fired, attempts, entitled, arrived, held, sent, allowed, ok, digests, group, failures>>

(* rowFromDb throws on an unsupported channel, with the claim committed.   *)
ClaimUnsupported(w) ==
    /\ pc[w] = "idle"
    /\ Claimed \cap Unsupported # {}
    /\ status' = [a \in Alerts |-> IF a \in Claimed THEN "delivering" ELSE status[a]]
    /\ age' = Stamps(Claimed)
    /\ UNCHANGED <<fired, attempts, entitled, arrived, pc, passVars, failures>>

LoadFactEntitlements(w) ==
    /\ pc[w] = "load"
    /\ allowed' = [allowed EXCEPT ![w] =
                     [a \in Alerts |-> IF a \in ToSet(batch[w]) THEN entitled[a] ELSE {}]]
    /\ Goto(w, "send")
    /\ UNCHANGED <<fired, rowVars, entitled, arrived, held, batch, sent, ok, digests, group, failures>>

(* blockedFactReceipt: one fact without the entitlement blocks the message.*)
BlockedIfAll(w, A, ch) == \A a \in A : EgressOf[ch] \notin allowed[w][a]     \* a bug
Blocked(w, A, ch) == \E a \in A : EgressOf[ch] \notin allowed[w][a]

(* adapter.send for the alerts A: a message may arrive and the answer get  *)
(* lost, or be too late for the request's timeout.                         *)
Sent(w, A, ch) ==
    \/ ~Blocked(w, A, ch) /\ arrived' = arrived \cup (A \X {ch}) /\ ok' = [ok EXCEPT ![w] = @ \cup A]
    \/ ~Blocked(w, A, ch) /\ arrived' = arrived \cup (A \X {ch}) /\ UNCHANGED ok
    \/ UNCHANGED <<arrived, ok>>

(* The positions of the immediate channels of an alert after the first n.  *)
ImmediateAfter(a, n) == {i \in DOMAIN ChannelsOf[a] : i > n /\ ChannelsOf[a][i] # Digest}

DeliverOne(w) ==
    /\ pc[w] = "send" /\ batch[w] # <<>>
    /\ LET a == Head(batch[w]) IN
         \E i \in ImmediateAfter(a, sent[w]) :
            /\ \A j \in ImmediateAfter(a, sent[w]) : i <= j
            /\ Sent(w, {a}, ChannelsOf[a][i])
            /\ sent' = [sent EXCEPT ![w] = i]
    /\ UNCHANGED <<fired, rowVars, entitled, pc, held, batch, allowed, digests, group, failures>>

Updates(a) == status[a] = "delivering"

TerminalStatusFor(w, a) == IF a \in ok[w] THEN "notified" ELSE "failed"

(* updateAlertDelivery; the receipts of the alert are not needed any more. *)
Record(w, a) ==
    /\ IF Updates(a)
       THEN /\ status' = [status EXCEPT ![a] = TerminalStatusFor(w, a)]
            /\ attempts' = [attempts EXCEPT ![a] = @ + 1]
       ELSE UNCHANGED <<status, attempts>>
    /\ ok' = [ok EXCEPT ![w] = @ \ {a}]
    /\ allowed' = [allowed EXCEPT ![w][a] = {}]

(* The immediate channels of an alert are done: it is recorded, or waits   *)
(* for its digest.                                                         *)
FinishAlert(w) ==
    /\ pc[w] = "send" /\ batch[w] # <<>>
    /\ LET a == Head(batch[w]) IN
         /\ ImmediateAfter(a, sent[w]) = {}
         /\ IF HasDigest(a)
            THEN digests' = [digests EXCEPT ![w] = @ \cup {a}] /\ UNCHANGED <<status, attempts, ok, allowed>>
            ELSE Record(w, a) /\ UNCHANGED digests
    /\ batch' = [batch EXCEPT ![w] = Tail(@)]
    /\ sent' = [sent EXCEPT ![w] = 0]
    /\ UNCHANGED <<fired, age, entitled, arrived, pc, held, group, failures>>

Together(w, a) == {b \in digests[w] : GroupOf[b] = GroupOf[a]}

WithoutDigest(w, a) == digests[w] \ Together(w, a)

DeliverDigest(w, a) ==
    /\ pc[w] = "send" /\ batch[w] = <<>> /\ group[w] = {}
    /\ a \in digests[w]
    /\ Sent(w, Together(w, a), Digest)
    /\ group' = [group EXCEPT ![w] = Together(w, a)]
    /\ digests' = [digests EXCEPT ![w] = WithoutDigest(w, a)]
    /\ UNCHANGED <<fired, rowVars, entitled, pc, held, batch, sent, allowed, failures>>

RecordDigested(w, a) ==
    /\ a \in group[w]
    /\ Record(w, a)
    /\ group' = [group EXCEPT ![w] = @ \ {a}]
    /\ UNCHANGED <<fired, age, entitled, arrived, pc, held, batch, sent, digests, failures>>

Finish(w) ==
    /\ pc[w] = "send" /\ batch[w] = <<>> /\ digests[w] = {} /\ group[w] = {}
    /\ Leave(w)
    /\ UNCHANGED <<fired, rowVars, entitled, arrived, failures>>

(* A query fails and the pass throws, or the process is killed.            *)
PassFails(w) ==
    /\ pc[w] # "idle"
    /\ failures < MaxFailures
    /\ failures' = failures + 1
    /\ Leave(w)
    /\ UNCHANGED <<fired, rowVars, entitled, arrived>>

Step(w) ==
    \/ Claim(w) \/ ClaimUnsupported(w) \/ LoadFactEntitlements(w)
    \/ DeliverOne(w) \/ FinishAlert(w)
    \/ \E a \in Alerts : DeliverDigest(w, a) \/ RecordDigested(w, a)
    \/ Finish(w)

Next ==
    \/ Tick
    \/ \E a \in Alerts : Fire(a)
    \/ \E a \in Alerts, e \in Egresses : Revoke(a, e)
    \/ \E w \in Workers : Step(w) \/ PassFails(w)

Spec == Init /\ [][Next]_vars

(* Time passes, passes are run again and again, and their calls return.    *)
FairSpec == Spec /\ WF_vars(Tick) /\ \A w \in Workers : WF_vars(Step(w))

(***************************************************************************)
(* Properties.                                                             *)
(***************************************************************************)
Holding(w) == ToSet(batch[w]) \cup digests[w] \cup group[w]

(* The values of the rows and of a pass; an alert is in one place of a     *)
(* pass at a time, and only if its row was claimed.                        *)
TypeOK ==
    /\ fired \in Seq(Alerts) /\ IsInjective(fired)
    /\ status \in [Alerts -> {"absent", "pending", "delivering"} \cup Terminal]
    /\ \A a \in Alerts : status[a] # "absent" <=> a \in ToSet(fired)
    /\ age \in [Alerts -> 0 .. Expired] /\ held \in [Workers -> 0 .. Expired]
    /\ attempts \in [Alerts -> Nat]
    /\ entitled \in [Alerts -> SUBSET Egresses]
    /\ arrived \subseteq Alerts \X Channels
    /\ pc \in [Workers -> {"idle", "load", "send"}]
    /\ batch \in [Workers -> Seq(Alerts)] /\ sent \in [Workers -> Nat]
    /\ allowed \in [Workers -> [Alerts -> SUBSET Egresses]]
    /\ ok \in [Workers -> SUBSET Alerts]
    /\ digests \in [Workers -> SUBSET Alerts] /\ group \in [Workers -> SUBSET Alerts]
    /\ failures \in 0 .. MaxFailures
    /\ \A w \in Workers :
         /\ digests[w] \cap group[w] = {}
         /\ ToSet(batch[w]) \cap (digests[w] \cup group[w]) = {}
         /\ \A a \in Holding(w) : status[a] \in {"delivering"} \cup Terminal

(* Two workers have the same alert at hand, and may both send it, only     *)
(* when the claim of one of them has timed out.                            *)
ExclusiveWithinClaim ==
    \A w, v \in Workers : \A a \in Holding(w) \cap Holding(v) :
        w = v \/ held[w] > Timeout \/ held[v] > Timeout

(* An alert leaves by a channel only if a worker that has it at hand read  *)
(* an entitlement for it; a digest does not take an alert along whose      *)
(* facts must stay in the app.                                             *)
BlockedFactsStay ==
    [][\A a \in Alerts, ch \in Channels : <<a, ch>> \in arrived' \ arrived =>
         \E w \in Workers : a \in Holding(w) /\ EgressOf[ch] \in allowed[w][a]]_vars

(* Every fired alert with supported channels is marked notified or failed, *)
(* also when workers die or throw with the alert claimed.                  *)
EveryAlertDecided ==
    \A a \in Alerts \ Unsupported : status[a] # "absent" ~> status[a] \in Terminal

(* The same as long as no alert with an unsupported channel has fired: a   *)
(* pass never throws on a row it has claimed.                              *)
SupportedAlertsDecided ==
    [](\A a \in Unsupported : status[a] = "absent") => EveryAlertDecided
=============================================================================
