------------------------- MODULE AlertDeliveryProofs -------------------------
(***************************************************************************)
(* Proofs about the delivery of alerts, for any number of workers, alerts  *)
(* and channels, any batch size and any claim timeout: two workers have an *)
(* alert at hand only when a claim has timed out, and nothing leaves by a  *)
(* channel its facts are not entitled for.                                 *)
(***************************************************************************)
EXTENDS AlertDelivery, FiniteSetTheorems, TLAPS

Taken == {"delivering"} \cup Terminal

(* The values of the table and of the environment. *)
RowTypes ==
    /\ fired \in Seq(Alerts) /\ IsInjective(fired)
    /\ status \in [Alerts -> {"absent", "pending", "delivering"} \cup Terminal]
    /\ \A a \in Alerts : status[a] # "absent" <=> a \in ToSet(fired)
    /\ age \in [Alerts -> 0 .. Expired]
    /\ attempts \in [Alerts -> Nat]
    /\ entitled \in [Alerts -> SUBSET Egresses]
    /\ arrived \subseteq Alerts \X Channels
    /\ failures \in 0 .. MaxFailures

(* The values of the passes. *)
PassTypes ==
    /\ held \in [Workers -> 0 .. Expired]
    /\ pc \in [Workers -> {"idle", "load", "send"}]
    /\ batch \in [Workers -> Seq(Alerts)] /\ sent \in [Workers -> Nat]
    /\ allowed \in [Workers -> [Alerts -> SUBSET Egresses]]
    /\ ok \in [Workers -> SUBSET Alerts]
    /\ digests \in [Workers -> SUBSET Alerts] /\ group \in [Workers -> SUBSET Alerts]

(* What a worker has at hand: every alert in one place, none without a     *)
(* pass, and none whose claim is older than the pass.                      *)
Ordered(w) ==
    /\ IsInjective(batch[w])
    /\ digests[w] \cap group[w] = {}
    /\ ToSet(batch[w]) \cap (digests[w] \cup group[w]) = {}
    /\ \A a \in Holding(w) : status[a] \in Taken
    /\ pc[w] = "idle" => Holding(w) = {}
    /\ \A a \in Holding(w) : status[a] = "delivering" => age[a] <= held[w]

(* The inductive invariant. *)
IInv == RowTypes /\ PassTypes /\ (\A w \in Workers : Ordered(w)) /\ ExclusiveWithinClaim

-----------------------------------------------------------------------------
(* Sequences without repetition.                                           *)

LEMMA HeadAndTail ==
    ASSUME NEW S, NEW s \in Seq(S), s # <<>>, IsInjective(s)
    PROVE  /\ Head(s) \in S /\ Tail(s) \in Seq(S)
           /\ IsInjective(Tail(s))
           /\ ToSet(s) = {Head(s)} \cup ToSet(Tail(s))
           /\ Head(s) \notin ToSet(Tail(s))
  <1>1. /\ Len(s) \in Nat /\ Len(s) >= 1 /\ DOMAIN s = 1 .. Len(s)
        /\ Head(s) = s[1] /\ Head(s) \in S
    OBVIOUS
  <1>2. /\ Tail(s) \in Seq(S) /\ Len(Tail(s)) = Len(s) - 1
        /\ DOMAIN Tail(s) = 1 .. (Len(s) - 1)
        /\ \A i \in 1 .. (Len(s) - 1) : Tail(s)[i] = s[i + 1]
    OBVIOUS
  <1>3. IsInjective(Tail(s))
    BY <1>1, <1>2 DEF IsInjective
  <1>4. ToSet(s) = {Head(s)} \cup ToSet(Tail(s))
    <2>1. ASSUME NEW x \in ToSet(s) PROVE x \in {Head(s)} \cup ToSet(Tail(s))
      <3>1. PICK i \in 1 .. Len(s) : x = s[i]
        BY <1>1, <2>1 DEF ToSet
      <3>2. CASE i = 1
        BY <1>1, <3>1, <3>2
      <3>3. CASE i # 1
        <4>1. i - 1 \in 1 .. (Len(s) - 1) /\ Tail(s)[i - 1] = x
          BY <1>1, <1>2, <3>1, <3>3
        <4> QED
          BY <1>2, <4>1 DEF ToSet
      <3> QED
        BY <3>2, <3>3
    <2>2. ASSUME NEW x \in ToSet(Tail(s)) PROVE x \in ToSet(s)
      <3>1. PICK i \in 1 .. (Len(s) - 1) : x = Tail(s)[i]
        BY <1>2, <2>2 DEF ToSet
      <3>2. i + 1 \in 1 .. Len(s) /\ s[i + 1] = x
        BY <1>1, <1>2, <3>1
      <3> QED
        BY <1>1, <3>2 DEF ToSet
    <2>3. Head(s) \in ToSet(s)
      <3>1. 1 \in DOMAIN s
        BY <1>1
      <3> QED
        BY <1>1, <3>1 DEF ToSet
    <2> QED
      BY <2>1, <2>2, <2>3
  <1>5. Head(s) \notin ToSet(Tail(s))
    <2> SUFFICES ASSUME Head(s) \in ToSet(Tail(s)) PROVE FALSE
      OBVIOUS
    <2>1. PICK i \in 1 .. (Len(s) - 1) : Head(s) = Tail(s)[i]
      BY <1>2 DEF ToSet
    <2>2. i + 1 \in DOMAIN s /\ 1 \in DOMAIN s /\ s[i + 1] = s[1] /\ i + 1 # 1
      BY <1>1, <1>2, <2>1
    <2> QED
      BY <2>2 DEF IsInjective
  <1> QED
    BY <1>1, <1>2, <1>3, <1>4, <1>5

LEMMA Appended ==
    ASSUME NEW S, NEW s \in Seq(S), NEW x \in S, IsInjective(s), x \notin ToSet(s)
    PROVE  /\ Append(s, x) \in Seq(S) /\ IsInjective(Append(s, x))
           /\ ToSet(Append(s, x)) = ToSet(s) \cup {x}
  <1> DEFINE t == Append(s, x)
             n == Len(s) + 1
  <1>1. /\ t \in Seq(S) /\ n \in Nat /\ n >= 1 /\ DOMAIN t = 1 .. n /\ DOMAIN s = 1 .. (n - 1)
        /\ t[n] = x /\ \A i \in 1 .. (n - 1) : t[i] = s[i]
    OBVIOUS
  <1> HIDE DEF t, n
  <1>2. \A i \in 1 .. (n - 1) : s[i] # x
    BY <1>1 DEF ToSet
  <1>3. IsInjective(t)
    BY <1>1, <1>2 DEF IsInjective
  <1>4. ToSet(t) = ToSet(s) \cup {x}
    <2>1. \A y \in ToSet(t) : y \in ToSet(s) \cup {x}
      BY <1>1 DEF ToSet
    <2>2. \A y \in ToSet(s) \cup {x} : y \in ToSet(t)
      BY <1>1 DEF ToSet
    <2> QED
      BY <2>1, <2>2
  <1> QED
    BY <1>1, <1>3, <1>4 DEF t

LEMMA EmptySequence == IsInjective(<<>>) /\ ToSet(<<>>) = {}
  BY DEF IsInjective, ToSet

(* What a claim takes was waiting, or its claim had timed out.             *)
LEMMA ClaimedRows ==
    ASSUME RowTypes
    PROVE  /\ Claimed \subseteq Alerts
           /\ \A a \in Claimed : Claimable(a)
           /\ \A order \in SetToSeqs(Claimed) :
                order \in Seq(Alerts) /\ IsInjective(order) /\ ToSet(order) \subseteq Claimed
  <1>1. \A i \in DOMAIN fired : fired[i] \in Alerts
    BY DEF RowTypes
  <1>2. Claimed \subseteq Alerts /\ \A a \in Claimed : Claimable(a)
    BY <1>1 DEF Claimed
  <1>3. Cardinality(Claimed) \in Nat
    BY <1>2, AlertsAssumption, FS_Subset, FS_CardinalityType
  <1>4. ASSUME NEW order \in SetToSeqs(Claimed)
        PROVE  order \in Seq(Alerts) /\ IsInjective(order) /\ ToSet(order) \subseteq Claimed
    <2>1. /\ order \in [1 .. Cardinality(Claimed) -> Claimed]
          /\ \A i, j \in 1 .. Cardinality(Claimed) : i # j => order[i] # order[j]
      BY DEF SetToSeqs
    <2>2. DOMAIN order = 1 .. Cardinality(Claimed)
      BY <2>1
    <2> QED
      BY <1>2, <1>3, <2>1, <2>2 DEF IsInjective, ToSet
  <1> QED
    BY <1>2, <1>4

(* A pass has alerts at hand, in sequences or sets.                        *)
LEMMA HoldingAlerts ==
    ASSUME PassTypes, NEW w \in Workers
    PROVE  Holding(w) \subseteq Alerts
  <1>1. /\ batch[w] \in Seq(Alerts) /\ digests[w] \subseteq Alerts
        /\ group[w] \subseteq Alerts
    BY DEF PassTypes
  <1>2. ToSet(batch[w]) \subseteq Alerts
    BY <1>1 DEF ToSet
  <1> QED
    BY <1>1, <1>2 DEF Holding

-----------------------------------------------------------------------------
LEMMA InitInv == Init => IInv
  <1> SUFFICES ASSUME Init PROVE IInv
    OBVIOUS
  <1>1. RowTypes
    BY LimitsAssumption, EmptySequence DEF Init, RowTypes, Expired
  <1>2. PassTypes
    BY LimitsAssumption DEF Init, PassTypes, Expired
  <1>3. \A w \in Workers : Holding(w) = {}
    BY EmptySequence DEF Init, Holding
  <1>4. \A w \in Workers : Ordered(w)
    BY <1>3, EmptySequence DEF Init, Ordered
  <1> QED
    BY <1>1, <1>2, <1>3, <1>4 DEF IInv, ExclusiveWithinClaim

-----------------------------------------------------------------------------
(* A step of one worker leaves what the others have at hand.               *)
Frame(w) ==
    \A v \in Workers \ {w} :
        /\ batch'[v] = batch[v] /\ digests'[v] = digests[v] /\ group'[v] = group[v]
        /\ held'[v] = held[v] /\ pc'[v] = pc[v]

(* A row that was taken stays taken, and is recorded once; its age grows   *)
(* only with time.                                                         *)
Later ==
    \A a \in Alerts : status[a] \in Taken =>
        /\ status'[a] \in Taken
        /\ status'[a] = "delivering" =>
              status[a] = "delivering" /\ age'[a] \in {age[a], 0}

LEMMA OthersKeep ==
    ASSUME IInv, PassTypes', NEW w \in Workers, Frame(w), Later
    PROVE  \A v \in Workers \ {w} : Ordered(v)' /\ Holding(v)' = Holding(v)
  <1> SUFFICES ASSUME NEW v \in Workers \ {w}
               PROVE  Ordered(v)' /\ Holding(v)' = Holding(v)
    OBVIOUS
  <1>1. /\ batch'[v] = batch[v] /\ digests'[v] = digests[v] /\ group'[v] = group[v]
        /\ held'[v] = held[v] /\ pc'[v] = pc[v]
    BY DEF Frame
  <1>2. Holding(v)' = Holding(v)
    BY <1>1 DEF Holding
  <1>3. Ordered(v) /\ held[v] \in Nat /\ age \in [Alerts -> Nat]
    BY LimitsAssumption DEF IInv, PassTypes, RowTypes, Expired
  <1>4. Holding(v) \subseteq Alerts
    BY HoldingAlerts DEF IInv
  <1>5. \A a \in Holding(v) :
          status'[a] \in Taken /\ (status'[a] = "delivering" => age'[a] <= held[v])
    BY <1>3, <1>4 DEF Ordered, Later
  <1> QED
    BY <1>1, <1>2, <1>3, <1>5 DEF Ordered

(* A worker that takes nothing new leaves the exclusion as it is.          *)
LEMMA ExclusionKeeps ==
    ASSUME ExclusiveWithinClaim, NEW w \in Workers, Frame(w),
           \A v \in Workers \ {w} : Holding(v)' = Holding(v),
           Holding(w)' \subseteq Holding(w),
           held'[w] = held[w] \/ Holding(w)' = {}
    PROVE  ExclusiveWithinClaim'
  <1> SUFFICES ASSUME NEW u \in Workers, NEW v \in Workers,
                      NEW a \in Holding(u)' \cap Holding(v)', u # v
               PROVE  held'[u] > Timeout \/ held'[v] > Timeout
    BY DEF ExclusiveWithinClaim
  <1>1. a \in Holding(u) \cap Holding(v)
    OBVIOUS
  <1>2. held[u] > Timeout \/ held[v] > Timeout
    BY <1>1 DEF ExclusiveWithinClaim
  <1>3. held'[u] = held[u] /\ held'[v] = held[v]
    BY DEF Frame
  <1> QED
    BY <1>2, <1>3

(* What is left to show of a step of a worker that takes nothing new.      *)
LEMMA StepKeeps ==
    ASSUME IInv, NEW w \in Workers, RowTypes', PassTypes', Frame(w), Later,
           Holding(w)' \subseteq Holding(w),
           held'[w] = held[w] \/ Holding(w)' = {},
           pc'[w] = "idle" => Holding(w)' = {},
           IsInjective(batch'[w]),
           digests'[w] \cap group'[w] = {},
           ToSet(batch'[w]) \cap (digests'[w] \cup group'[w]) = {}
    PROVE  IInv'
  <1>1. \A v \in Workers \ {w} : Ordered(v)' /\ Holding(v)' = Holding(v)
    BY OthersKeep
  <1>2. ExclusiveWithinClaim'
    BY <1>1, ExclusionKeeps DEF IInv
  <1>3. Ordered(w)'
    <2>1. Ordered(w) /\ held[w] \in Nat /\ age \in [Alerts -> Nat]
      BY LimitsAssumption DEF IInv, PassTypes, RowTypes, Expired
    <2>2. Holding(w) \subseteq Alerts
      BY HoldingAlerts DEF IInv
    <2>3. \A a \in Holding(w)' :
            status'[a] \in Taken /\ (status'[a] = "delivering" => age'[a] <= held'[w])
      BY <2>1, <2>2 DEF Ordered, Later
    <2> QED
      BY <2>3 DEF Ordered
  <1> QED
    BY <1>1, <1>2, <1>3 DEF IInv

-----------------------------------------------------------------------------
LEMMA OlderIsLater ==
    ASSUME NEW s \in 0 .. Expired, NEW t \in 0 .. Expired, s <= t
    PROVE  /\ Older(s) \in 0 .. Expired /\ Older(t) \in 0 .. Expired
           /\ Older(s) <= Older(t)
           /\ t > Timeout => Older(t) > Timeout
  BY LimitsAssumption DEF Older, Expired

LEMMA TickKeeps ==
    ASSUME IInv, Tick
    PROVE  IInv'
  <1>1. RowTypes /\ PassTypes /\ ExclusiveWithinClaim /\ \A w \in Workers : Ordered(w)
    BY DEF IInv
  <1>2. /\ age' = [a \in Alerts |-> IF status[a] = "delivering" THEN Older(age[a]) ELSE 0]
        /\ held' = [w \in Workers |-> IF pc[w] # "idle" THEN Older(held[w]) ELSE held[w]]
        /\ UNCHANGED <<fired, status, attempts, entitled, arrived, pc, batch, sent, allowed,
                       ok, digests, group, failures>>
    BY DEF Tick
  <1>3. RowTypes'
    <2>1. age' \in [Alerts -> 0 .. Expired]
      BY <1>1, <1>2, OlderIsLater, LimitsAssumption DEF RowTypes, Expired
    <2> QED
      BY <1>1, <1>2, <2>1 DEF RowTypes
  <1>4. PassTypes'
    <2>1. held' \in [Workers -> 0 .. Expired]
      BY <1>1, <1>2, OlderIsLater, LimitsAssumption DEF PassTypes, Expired
    <2> QED
      BY <1>1, <1>2, <2>1 DEF PassTypes
  <1>5. \A w \in Workers : Holding(w)' = Holding(w)
    BY <1>2 DEF Holding
  <1>6. ASSUME NEW w \in Workers PROVE Ordered(w)'
    <2>1. ASSUME NEW a \in Holding(w), status[a] = "delivering" PROVE age'[a] <= held'[w]
      <3>1. pc[w] # "idle" /\ age[a] <= held[w] /\ a \in Alerts
        BY <1>1, <2>1, HoldingAlerts DEF Ordered
      <3>2. age[a] \in 0 .. Expired /\ held[w] \in 0 .. Expired
        BY <1>1, <3>1 DEF RowTypes, PassTypes
      <3>3. age'[a] = Older(age[a]) /\ held'[w] = Older(held[w])
        BY <1>2, <2>1, <3>1
      <3> QED
        BY <3>1, <3>2, <3>3, OlderIsLater
    <2> QED
      BY <1>1, <1>2, <1>5, <2>1 DEF Ordered
  <1>7. ExclusiveWithinClaim'
    <2> SUFFICES ASSUME NEW u \in Workers, NEW v \in Workers,
                        NEW a \in Holding(u) \cap Holding(v), u # v
                 PROVE  held'[u] > Timeout \/ held'[v] > Timeout
      BY <1>5 DEF ExclusiveWithinClaim
    <2>1. held[u] > Timeout \/ held[v] > Timeout
      BY <1>1 DEF ExclusiveWithinClaim
    <2>2. pc[u] # "idle" /\ pc[v] # "idle"
      BY <1>1 DEF Ordered
    <2>3. held[u] \in 0 .. Expired /\ held[v] \in 0 .. Expired
      BY <1>1 DEF PassTypes
    <2>4. held'[u] = Older(held[u]) /\ held'[v] = Older(held[v])
      BY <1>2, <2>2
    <2>5. \A t \in 0 .. Expired : t > Timeout => Older(t) > Timeout
      BY LimitsAssumption DEF Older, Expired
    <2> QED
      BY <2>1, <2>3, <2>4, <2>5
  <1> QED
    BY <1>3, <1>4, <1>6, <1>7 DEF IInv

(* Actions that concern no pass.                                           *)
LEMMA ApartKeeps ==
    ASSUME IInv, RowTypes', UNCHANGED <<pc, passVars, age>>,
           \A a \in Alerts : status[a] \in Taken => status'[a] = status[a]
    PROVE  IInv'
  <1>1. PassTypes'
    BY DEF IInv, PassTypes, passVars
  <1>2. \A w \in Workers : Holding(w)' = Holding(w) /\ Holding(w) \subseteq Alerts
    BY HoldingAlerts DEF IInv, Holding, passVars
  <1>3. ASSUME NEW w \in Workers PROVE Ordered(w)'
    BY <1>2 DEF IInv, Ordered, passVars
  <1>4. ExclusiveWithinClaim'
    BY <1>2 DEF IInv, ExclusiveWithinClaim, passVars
  <1> QED
    BY <1>1, <1>3, <1>4 DEF IInv

LEMMA FireKeeps ==
    ASSUME IInv, NEW a \in Alerts, Fire(a)
    PROVE  IInv'
  <1>1. /\ status[a] = "absent" /\ status' = [status EXCEPT ![a] = "pending"]
        /\ fired' = Append(fired, a)
        /\ UNCHANGED <<age, attempts, entitled, arrived, pc, passVars, failures>>
    BY DEF Fire
  <1>2. a \notin ToSet(fired)
    BY <1>1 DEF IInv, RowTypes
  <1>3. /\ fired' \in Seq(Alerts) /\ IsInjective(fired')
        /\ ToSet(fired') = ToSet(fired) \cup {a}
    BY <1>1, <1>2, Appended DEF IInv, RowTypes
  <1>4. \A b \in Alerts : status'[b] # "absent" <=> b \in ToSet(fired')
    BY <1>1, <1>3 DEF IInv, RowTypes
  <1>5. RowTypes'
    BY <1>1, <1>3, <1>4 DEF IInv, RowTypes
  <1> QED
    BY <1>1, <1>5, ApartKeeps DEF IInv, RowTypes, Taken, Terminal

LEMMA RevokeKeeps ==
    ASSUME IInv, NEW a \in Alerts, NEW e \in Egresses, Revoke(a, e)
    PROVE  IInv'
  <1>1. RowTypes'
    BY DEF IInv, RowTypes, Revoke, rowVars
  <1> QED
    BY <1>1, ApartKeeps DEF Revoke, rowVars

-----------------------------------------------------------------------------
(* The steps of a pass.                                                    *)

(* What both claims do to the rows.                                        *)
LEMMA ClaimRows ==
    ASSUME IInv,
           status' = [a \in Alerts |-> IF a \in Claimed THEN "delivering" ELSE status[a]],
           age' = Stamps(Claimed),
           UNCHANGED <<fired, attempts, entitled, arrived, failures>>
    PROVE  RowTypes' /\ Later
  <1>1. RowTypes /\ Claimed \subseteq Alerts /\ \A a \in Claimed : Claimable(a)
    BY ClaimedRows DEF IInv
  <1>2. \A a \in Claimed : status[a] \in {"pending", "delivering"}
    BY <1>1 DEF Claimable
  <1>3. age' \in [Alerts -> 0 .. Expired]
    BY <1>1, LimitsAssumption DEF RowTypes, Stamps, Expired
  <1>4. RowTypes'
    BY <1>1, <1>2, <1>3 DEF RowTypes
  <1>5. Later
    BY <1>1, <1>2 DEF Later, Stamps, Taken, Terminal
  <1> QED
    BY <1>4, <1>5

LEMMA ClaimKeeps ==
    ASSUME IInv, NEW w \in Workers, Claim(w)
    PROVE  IInv'
  <1>1. /\ pc[w] = "idle" /\ pc' = [pc EXCEPT ![w] = "load"]
        /\ status' = [a \in Alerts |-> IF a \in Claimed THEN "delivering" ELSE status[a]]
        /\ age' = Stamps(Claimed)
        /\ UNCHANGED <<fired, attempts, entitled, arrived, held, sent, allowed, ok, digests,
                       group, failures>>
    BY DEF Claim, Goto
  <1>2. PICK order \in SetToSeqs(Claimed) : batch' = [batch EXCEPT ![w] = order]
    BY DEF Claim
  <1>3. RowTypes' /\ Later
    BY <1>1, ClaimRows
  <1>4. /\ order \in Seq(Alerts) /\ IsInjective(order) /\ ToSet(order) \subseteq Claimed
        /\ Claimed \subseteq Alerts /\ \A a \in Claimed : Claimable(a)
    BY ClaimedRows DEF IInv
  <1>5. PassTypes' /\ Frame(w) /\ batch'[w] = order
    BY <1>1, <1>2, <1>4 DEF IInv, PassTypes, Frame
  <1>6. Holding(w) = {} /\ digests[w] = {} /\ group[w] = {}
    BY <1>1 DEF IInv, Ordered, Holding
  <1>7. Holding(w)' \subseteq Claimed /\ digests'[w] = {} /\ group'[w] = {}
    BY <1>1, <1>4, <1>5, <1>6 DEF Holding
  <1>8. Ordered(w)'
    <2>1. \A a \in Holding(w)' : status'[a] = "delivering" /\ age'[a] = 0
      BY <1>1, <1>4, <1>7 DEF Stamps
    <2>2. held'[w] >= 0
      BY <1>1, LimitsAssumption DEF IInv, PassTypes, Expired
    <2>3. pc'[w] = "load"
      BY <1>1 DEF IInv, PassTypes
    <2> QED
      BY <1>4, <1>5, <1>7, <2>1, <2>2, <2>3 DEF Ordered, Taken
  <1>9. \A v \in Workers \ {w} : Ordered(v)' /\ Holding(v)' = Holding(v)
    BY <1>3, <1>5, OthersKeep
  <1>10. ASSUME NEW v \in Workers \ {w}, NEW a \in Holding(v), a \in Claimed
         PROVE  held[v] > Timeout
    <2>1. status[a] \in Taken /\ Claimable(a) /\ a \in Alerts
      BY <1>4, <1>10 DEF IInv, Ordered
    <2>2. status[a] = "delivering" /\ age[a] > Timeout
      BY <2>1 DEF Claimable, Taken, Terminal
    <2>3. age[a] <= held[v] /\ age[a] \in 0 .. Expired /\ held[v] \in 0 .. Expired
      BY <2>1, <2>2 DEF IInv, Ordered, RowTypes, PassTypes
    <2> QED
      BY <2>2, <2>3, LimitsAssumption DEF Expired
  <1>11. ExclusiveWithinClaim'
    <2> SUFFICES ASSUME NEW u \in Workers, NEW v \in Workers,
                        NEW a \in Holding(u)' \cap Holding(v)', u # v
                 PROVE  held'[u] > Timeout \/ held'[v] > Timeout
      BY DEF ExclusiveWithinClaim
    <2>1. held' = held
      BY <1>1
    <2>2. CASE u = w
      BY <1>7, <1>9, <1>10, <2>1, <2>2
    <2>3. CASE v = w
      BY <1>7, <1>9, <1>10, <2>1, <2>3
    <2>4. CASE u # w /\ v # w
      <3>1. a \in Holding(u) \cap Holding(v)
        BY <1>9, <2>4
      <3> QED
        BY <2>1, <3>1 DEF IInv, ExclusiveWithinClaim
    <2> QED
      BY <2>2, <2>3, <2>4
  <1> QED
    BY <1>3, <1>5, <1>8, <1>9, <1>11 DEF IInv

LEMMA ClaimUnsupportedKeeps ==
    ASSUME IInv, NEW w \in Workers, ClaimUnsupported(w)
    PROVE  IInv'
  <1>1. /\ status' = [a \in Alerts |-> IF a \in Claimed THEN "delivering" ELSE status[a]]
        /\ age' = Stamps(Claimed) /\ pc[w] = "idle"
        /\ UNCHANGED <<fired, attempts, entitled, arrived, pc, passVars, failures>>
    BY DEF ClaimUnsupported
  <1>2. RowTypes' /\ Later
    BY <1>1, ClaimRows
  <1>3. PassTypes' /\ Frame(w)
    BY <1>1 DEF IInv, PassTypes, Frame, passVars
  <1>4. Holding(w)' = Holding(w) /\ Ordered(w)
    BY <1>1 DEF IInv, Holding, passVars
  <1> QED
    BY <1>1, <1>2, <1>3, <1>4, StepKeeps DEF Ordered, passVars

(* A step of a pass that writes no row.                                    *)
LEMMA QuietRows ==
    ASSUME IInv, UNCHANGED <<fired, rowVars, entitled>>,
           arrived' \subseteq Alerts \X Channels, failures' \in 0 .. MaxFailures
    PROVE  RowTypes' /\ Later
  BY DEF IInv, RowTypes, Later, rowVars

LEMMA LoadKeeps ==
    ASSUME IInv, NEW w \in Workers, LoadFactEntitlements(w)
    PROVE  IInv'
  <1>1. /\ pc[w] = "load" /\ pc' = [pc EXCEPT ![w] = "send"]
        /\ allowed' = [allowed EXCEPT ![w] =
                         [a \in Alerts |-> IF a \in ToSet(batch[w]) THEN entitled[a] ELSE {}]]
        /\ UNCHANGED <<fired, rowVars, entitled, arrived, held, batch, sent, ok, digests, group,
                       failures>>
    BY DEF LoadFactEntitlements, Goto
  <1>2. RowTypes' /\ Later
    BY <1>1, QuietRows DEF IInv, RowTypes
  <1>3. PassTypes' /\ Frame(w) /\ pc'[w] = "send"
    BY <1>1 DEF IInv, RowTypes, PassTypes, Frame
  <1>4. Holding(w)' = Holding(w) /\ Ordered(w)
    BY <1>1 DEF IInv, Holding
  <1> QED
    BY <1>1, <1>2, <1>3, <1>4, StepKeeps DEF Ordered

(* A message is sent, or not, on a supported channel.                      *)
LEMMA SentTypes ==
    ASSUME IInv, NEW w \in Workers, NEW A \in SUBSET Alerts, NEW ch \in Channels, Sent(w, A, ch)
    PROVE  arrived' \subseteq Alerts \X Channels /\ ok' \in [Workers -> SUBSET Alerts]
  BY DEF IInv, RowTypes, PassTypes, Sent

LEMMA DeliverOneKeeps ==
    ASSUME IInv, NEW w \in Workers, DeliverOne(w)
    PROVE  IInv'
  <1> DEFINE a == Head(batch[w])
  <1>1. /\ pc[w] = "send" /\ batch[w] # <<>>
        /\ UNCHANGED <<fired, rowVars, entitled, pc, held, batch, allowed, digests, group, failures>>
    BY DEF DeliverOne
  <1>2. PICK i \in ImmediateAfter(a, sent[w]) :
          Sent(w, {a}, ChannelsOf[a][i]) /\ sent' = [sent EXCEPT ![w] = i]
    BY DEF DeliverOne
  <1>3. Ordered(w) /\ batch[w] \in Seq(Alerts)
    BY DEF IInv, PassTypes
  <1>4. a \in Alerts
    BY <1>1, <1>3, HeadAndTail DEF Ordered
  <1>5. i \in Nat /\ ChannelsOf[a][i] \in Channels
    <2>1. ChannelsOf[a] \in Seq(Channels) /\ i \in DOMAIN ChannelsOf[a]
      BY <1>2, <1>4, AlertsAssumption DEF ImmediateAfter
    <2> QED
      BY <2>1
  <1>6. arrived' \subseteq Alerts \X Channels /\ ok' \in [Workers -> SUBSET Alerts]
    BY <1>2, <1>4, <1>5, SentTypes
  <1>7. RowTypes' /\ Later
    BY <1>1, <1>6, QuietRows DEF IInv, RowTypes
  <1>8. PassTypes' /\ Frame(w)
    BY <1>1, <1>2, <1>5, <1>6 DEF IInv, PassTypes, Frame
  <1>9. Holding(w)' = Holding(w)
    BY <1>1 DEF Holding
  <1> QED
    BY <1>1, <1>3, <1>7, <1>8, <1>9, StepKeeps DEF Ordered

(* An alert is recorded once, and its receipts are dropped.                *)
LEMMA RecordEffect ==
    ASSUME IInv, NEW w \in Workers, NEW a \in Alerts, Record(w, a),
           UNCHANGED <<fired, age, entitled, arrived, failures>>
    PROVE  /\ RowTypes' /\ Later
           /\ ok' \in [Workers -> SUBSET Alerts]
           /\ allowed' \in [Workers -> [Alerts -> SUBSET Egresses]]
  <1>1. RowTypes /\ PassTypes
    BY DEF IInv
  <1>2. /\ ok' \in [Workers -> SUBSET Alerts]
        /\ allowed' \in [Workers -> [Alerts -> SUBSET Egresses]]
    BY <1>1 DEF Record, PassTypes
  <1>3. CASE Updates(a)
    <2>1. /\ status' = [status EXCEPT ![a] = TerminalStatusFor(w, a)]
          /\ attempts' = [attempts EXCEPT ![a] = @ + 1]
          /\ status[a] = "delivering" /\ TerminalStatusFor(w, a) \in Terminal
      BY <1>3 DEF Record, Updates, TerminalStatusFor, Terminal
    <2>2. RowTypes'
      BY <1>1, <2>1 DEF RowTypes, Terminal
    <2>3. Later
      BY <1>1, <2>1 DEF RowTypes, Later, Taken, Terminal
    <2> QED
      BY <1>2, <2>2, <2>3
  <1>4. CASE ~Updates(a)
    BY <1>1, <1>2, <1>4 DEF Record, RowTypes, Later
  <1> QED
    BY <1>3, <1>4

LEMMA FinishAlertKeeps ==
    ASSUME IInv, NEW w \in Workers, FinishAlert(w)
    PROVE  IInv'
  <1> DEFINE a == Head(batch[w])
  <1>1. /\ pc[w] = "send" /\ batch[w] # <<>>
        /\ batch' = [batch EXCEPT ![w] = Tail(@)]
        /\ sent' = [sent EXCEPT ![w] = 0]
        /\ UNCHANGED <<fired, age, entitled, arrived, pc, held, group, failures>>
        /\ IF HasDigest(a)
           THEN digests' = [digests EXCEPT ![w] = @ \cup {a}] /\ UNCHANGED <<status, attempts, ok, allowed>>
           ELSE Record(w, a) /\ UNCHANGED digests
    BY DEF FinishAlert
  <1>2. RowTypes /\ PassTypes /\ Ordered(w) /\ batch[w] \in Seq(Alerts)
    BY DEF IInv, PassTypes
  <1>3. /\ a \in Alerts /\ Tail(batch[w]) \in Seq(Alerts) /\ IsInjective(Tail(batch[w]))
        /\ ToSet(batch[w]) = {a} \cup ToSet(Tail(batch[w]))
        /\ a \notin ToSet(Tail(batch[w]))
    BY <1>1, <1>2, HeadAndTail DEF Ordered
  <1>4. batch' \in [Workers -> Seq(Alerts)] /\ batch'[w] = Tail(batch[w])
    BY <1>1, <1>2, <1>3 DEF PassTypes
  <1>5. /\ RowTypes' /\ Later /\ ok' \in [Workers -> SUBSET Alerts]
        /\ allowed' \in [Workers -> [Alerts -> SUBSET Egresses]]
        /\ digests' \in [Workers -> SUBSET Alerts]
        /\ digests'[w] \in {digests[w], digests[w] \cup {a}}
        /\ \A v \in Workers \ {w} : digests'[v] = digests[v]
    <2>1. CASE HasDigest(a)
      <3>1. /\ digests' = [digests EXCEPT ![w] = @ \cup {a}]
            /\ UNCHANGED <<status, attempts, ok, allowed>>
        BY <1>1, <2>1
      <3>2. RowTypes' /\ Later
        BY <1>1, <1>2, <3>1 DEF RowTypes, Later
      <3> HIDE DEF a
      <3> QED
        BY <1>2, <1>3, <3>1, <3>2 DEF PassTypes
    <2>2. CASE ~HasDigest(a)
      <3>1. Record(w, a) /\ UNCHANGED digests
        BY <1>1, <2>2
      <3>2. /\ RowTypes' /\ Later /\ ok' \in [Workers -> SUBSET Alerts]
            /\ allowed' \in [Workers -> [Alerts -> SUBSET Egresses]]
        BY <1>1, <1>3, <3>1, RecordEffect
      <3> QED
        BY <1>2, <3>1, <3>2 DEF PassTypes
    <2> QED
      BY <2>1, <2>2
  <1>6. PassTypes' /\ Frame(w)
    BY <1>1, <1>2, <1>4, <1>5 DEF PassTypes, Frame
  <1>7. Holding(w)' \subseteq Holding(w)
    BY <1>1, <1>3, <1>4, <1>5 DEF Holding
  <1>8. /\ digests'[w] \cap group'[w] = {}
        /\ ToSet(batch'[w]) \cap (digests'[w] \cup group'[w]) = {}
    <2>1. group'[w] = group[w] /\ a \in ToSet(batch[w])
      BY <1>1, <1>3
    <2> QED
      BY <1>2, <1>3, <1>4, <1>5, <2>1 DEF Ordered
  <1> QED
    BY <1>1, <1>3, <1>4, <1>5, <1>6, <1>7, <1>8, StepKeeps

LEMMA DeliverDigestKeeps ==
    ASSUME IInv, NEW w \in Workers, NEW a \in Alerts, DeliverDigest(w, a)
    PROVE  IInv'
  <1> DEFINE A == Together(w, a)
  <1>1. /\ pc[w] = "send" /\ batch[w] = <<>> /\ group[w] = {}
        /\ Sent(w, A, Digest)
        /\ group' = [group EXCEPT ![w] = A]
        /\ digests' = [digests EXCEPT ![w] = digests[w] \ A]
        /\ UNCHANGED <<fired, rowVars, entitled, pc, held, batch, sent, allowed, failures>>
    BY DEF DeliverDigest, WithoutDigest
  <1>2. RowTypes /\ PassTypes /\ Ordered(w)
    BY DEF IInv
  <1>3. A \subseteq digests[w] /\ A \subseteq Alerts
    BY <1>2 DEF Together, PassTypes
  <1> HIDE DEF A
  <1>4. arrived' \subseteq Alerts \X Channels /\ ok' \in [Workers -> SUBSET Alerts]
    BY <1>1, <1>3, SentTypes, AlertsAssumption
  <1>5. RowTypes' /\ Later
    BY <1>1, <1>2, <1>4, QuietRows DEF RowTypes
  <1>6. /\ PassTypes' /\ Frame(w)
        /\ group'[w] = A /\ digests'[w] = digests[w] \ A
    BY <1>1, <1>2, <1>3, <1>4 DEF PassTypes, Frame
  <1>7. Holding(w)' \subseteq Holding(w)
    BY <1>1, <1>3, <1>6 DEF Holding
  <1> QED
    BY <1>1, <1>2, <1>5, <1>6, <1>7, EmptySequence, StepKeeps

LEMMA RecordDigestedKeeps ==
    ASSUME IInv, NEW w \in Workers, NEW a \in Alerts, RecordDigested(w, a)
    PROVE  IInv'
  <1>1. /\ a \in group[w] /\ Record(w, a)
        /\ group' = [group EXCEPT ![w] = @ \ {a}]
        /\ UNCHANGED <<fired, age, entitled, arrived, pc, held, batch, sent, digests, failures>>
    BY DEF RecordDigested
  <1>2. PassTypes /\ Ordered(w)
    BY DEF IInv
  <1>3. /\ RowTypes' /\ Later /\ ok' \in [Workers -> SUBSET Alerts]
        /\ allowed' \in [Workers -> [Alerts -> SUBSET Egresses]]
    BY <1>1, RecordEffect
  <1>4. PassTypes' /\ Frame(w) /\ group'[w] = group[w] \ {a}
    BY <1>1, <1>2, <1>3 DEF PassTypes, Frame
  <1>5. Holding(w)' \subseteq Holding(w)
    BY <1>1, <1>4 DEF Holding
  <1>6. pc'[w] = "idle" => Holding(w)' = {}
    BY <1>1, <1>2, <1>5 DEF Ordered
  <1> QED
    BY <1>1, <1>2, <1>3, <1>4, <1>5, <1>6, StepKeeps DEF Ordered

LEMMA LeaveKeeps ==
    ASSUME IInv, NEW w \in Workers, Leave(w), UNCHANGED <<fired, rowVars, entitled, arrived>>,
           failures' \in 0 .. MaxFailures
    PROVE  IInv'
  <1>1. /\ pc' = [pc EXCEPT ![w] = "idle"] /\ held' = [held EXCEPT ![w] = 0]
        /\ batch' = [batch EXCEPT ![w] = <<>>] /\ sent' = [sent EXCEPT ![w] = 0]
        /\ allowed' = [allowed EXCEPT ![w] = [a \in Alerts |-> {}]]
        /\ ok' = [ok EXCEPT ![w] = {}] /\ digests' = [digests EXCEPT ![w] = {}]
        /\ group' = [group EXCEPT ![w] = {}]
    BY DEF Leave, Goto
  <1>2. RowTypes' /\ Later
    BY QuietRows DEF IInv, RowTypes
  <1>3. /\ PassTypes' /\ Frame(w)
        /\ batch'[w] = <<>> /\ digests'[w] = {} /\ group'[w] = {}
    BY <1>1, LimitsAssumption DEF IInv, PassTypes, Frame, Expired
  <1>4. Holding(w)' = {}
    BY <1>3, EmptySequence DEF Holding
  <1> QED
    BY <1>2, <1>3, <1>4, EmptySequence, StepKeeps

LEMMA StepInv == IInv /\ [Next]_vars => IInv'
  <1> SUFFICES ASSUME IInv, [Next]_vars PROVE IInv'
    OBVIOUS
  <1>1. ASSUME NEW w \in Workers, Step(w) PROVE IInv'
    <2>1. CASE Finish(w)
      BY <2>1, LeaveKeeps DEF Finish, IInv, RowTypes
    <2> QED
      BY <1>1, <2>1, ClaimKeeps, ClaimUnsupportedKeeps, LoadKeeps, DeliverOneKeeps,
         FinishAlertKeeps, DeliverDigestKeeps, RecordDigestedKeeps DEF Step
  <1>2. ASSUME NEW w \in Workers, PassFails(w) PROVE IInv'
    <2>1. failures' \in 0 .. MaxFailures
      BY <1>2, LimitsAssumption DEF PassFails, IInv, RowTypes
    <2> QED
      BY <1>2, <2>1, LeaveKeeps DEF PassFails
  <1>3. CASE UNCHANGED vars
    <2>1. RowTypes'
      BY <1>3 DEF IInv, RowTypes, vars, rowVars
    <2> QED
      BY <1>3, <2>1, ApartKeeps DEF vars, rowVars
  <1> QED
    BY <1>1, <1>2, <1>3, TickKeeps, FireKeeps, RevokeKeeps DEF Next

(* The table and the passes hold values of their types, and an alert is in *)
(* one place of a pass at a time, with its row claimed.                    *)
THEOREM DeliveryTypeCorrect == Spec => []TypeOK
  <1>1. IInv => TypeOK
    BY DEF IInv, RowTypes, PassTypes, Ordered, Taken, TypeOK
  <1> QED
    BY <1>1, InitInv, StepInv, PTL DEF Spec

(* Two workers of any number have the same alert at hand only when the     *)
(* claim of one of them is older than the timeout.                         *)
THEOREM ExclusiveClaims == Spec => []ExclusiveWithinClaim
  <1>1. IInv => ExclusiveWithinClaim
    BY DEF IInv
  <1> QED
    BY <1>1, InitInv, StepInv, PTL DEF Spec

-----------------------------------------------------------------------------
(* What BlockedFactsStay says of a step.                                   *)
Entitled ==
    \A a \in Alerts, ch \in Channels : <<a, ch>> \in arrived' \ arrived =>
        \E w \in Workers : a \in Holding(w) /\ EgressOf[ch] \in allowed[w][a]

LEMMA SentIsEntitled ==
    ASSUME NEW w \in Workers, NEW A \in SUBSET Holding(w), NEW channel, Sent(w, A, channel)
    PROVE  Entitled
  <1> SUFFICES ASSUME NEW a \in Alerts, NEW ch \in Channels, <<a, ch>> \in arrived' \ arrived
               PROVE  a \in Holding(w) /\ EgressOf[ch] \in allowed[w][a]
    BY DEF Entitled
  <1>1. ~Blocked(w, A, channel) /\ <<a, ch>> \in A \X {channel}
    BY DEF Sent
  <1> QED
    BY <1>1 DEF Blocked

LEMMA StepEntitled == IInv /\ [Next]_vars => Entitled
  <1> SUFFICES ASSUME IInv, [Next]_vars PROVE Entitled
    OBVIOUS
  <1>1. CASE UNCHANGED arrived
    BY <1>1 DEF Entitled
  <1>2. ASSUME NEW w \in Workers, DeliverOne(w) PROVE Entitled
    <2>1. Head(batch[w]) \in Holding(w)
      BY <1>2, HeadAndTail DEF DeliverOne, IInv, PassTypes, Ordered, Holding
    <2> QED
      BY <1>2, <2>1, SentIsEntitled DEF DeliverOne
  <1>3. ASSUME NEW w \in Workers, NEW a \in Alerts, DeliverDigest(w, a) PROVE Entitled
    <2>1. Together(w, a) \subseteq Holding(w)
      BY DEF Together, Holding
    <2> QED
      BY <1>3, <2>1, SentIsEntitled DEF DeliverDigest
  <1>4. UNCHANGED arrived \/ (\E w \in Workers : DeliverOne(w))
        \/ (\E w \in Workers, a \in Alerts : DeliverDigest(w, a))
    BY DEF Next, Tick, Fire, Revoke, Step, Claim, ClaimUnsupported, LoadFactEntitlements,
           FinishAlert, RecordDigested, Finish, PassFails, vars
  <1> QED
    BY <1>1, <1>2, <1>3, <1>4

(* An alert leaves by a channel only if a worker that has it at hand read  *)
(* an entitlement of its facts for that channel, also within a digest.     *)
THEOREM OnlyEntitledLeave == Spec => BlockedFactsStay
  <1>1. IInv /\ [Next]_vars => [Entitled]_vars
    BY StepEntitled
  <1> QED
    BY <1>1, InitInv, StepInv, PTL DEF Spec, BlockedFactsStay, Entitled

=============================================================================
