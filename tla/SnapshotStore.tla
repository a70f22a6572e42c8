----------------------------- MODULE SnapshotStore -----------------------------
(* What the snapshots promise their readers, with nothing of how they are made: *)
(* a snapshot is stored once and never changes; what it shows is closed (every   *)
(* node is held, was loaded with sources, and the block cites them; facts are    *)
(* bound; nothing is newer than the snapshot; what the values need said is       *)
(* said); and it serves only requests about what it holds.                       *)
EXTENDS Integers, FiniteSets, Sequences

VARIABLES stored,   \* snapshots by id: {} or {artifact}
          served    \* the transforms executed, <<id, request>>

storeVars == <<stored, served>>

\* every node of a block, whatever the field, and of the blocks inside it
AllBlocks(a) == a.blocks \cup UNION {b.children : b \in a.blocks}
Nodes(b) == UNION {b.shows[f] : f \in DOMAIN b.shows}

Traced(a, b, n) ==
  IF n[1] = "source" THEN n \in b.sources
  ELSE /\ n \in a.manifest.refs /\ n \in DOMAIN a.rows
       /\ a.rows[n].sources # {} /\ a.rows[n].sources \subseteq b.sources

\* the fields that name a period of a kind
PeriodFields(kind) ==
  CASE kind = "point"            -> {"period_end"}
    [] kind = "fiscal_q"         -> {"fiscal_year", "fiscal_period"}
    [] kind = "fiscal_y"         -> {"fiscal_year"}
    [] kind \in {"ttm", "range"} -> {"period_start", "period_end"}
    [] OTHER                     -> {}

\* a fact is shown with the unit and the period its row has
Bound(a, b, f) ==
  LET meta == a.rows[f].meta
  IN /\ {"unit", "period_kind"} \subseteq DOMAIN meta
     /\ \E x \in b.data.bindings :
          /\ x.fact = f
          /\ \A k \in {"unit", "period_kind"} \cup PeriodFields(meta["period_kind"]) :
               k \in DOMAIN meta \cap DOMAIN x.meta /\ x.meta[k] = meta[k]

\* somewhere the artifact says what a weak value needs said, citing its source
Disclosed(a, signal, sources) ==
  \E b \in AllBlocks(a) : /\ b.kind = "disclosure" /\ b.tier # {}
                          /\ \E text \in b.items : text[1] = signal
                          /\ sources \subseteq b.sources

Closed(a) ==
  /\ \A b \in AllBlocks(a) :
       /\ b.sources \subseteq a.manifest.sources \cap a.loaded
       /\ b.asOf <= a.manifest.head.asOf
       /\ \A n \in Nodes(b) : Traced(a, b, n) /\ (n[1] = "fact" => Bound(a, b, n))
       /\ \A x \in b.data.series : \E s \in a.manifest.series : s.ref = {x} /\ s.source # {}
  /\ \A f \in {n \in DOMAIN a.rows : n[1] = "fact"} : \A signal \in a.rows[f].signals :
       Disclosed(a, signal, a.rows[f].sources)
  /\ \A s \in a.manifest.series : \A signal \in s.signals : Disclosed(a, signal, s.source)

\* a call that is cited was logged, with the result that is cited
Observed(a) == \A t \in a.manifest.tools : <<t, a.manifest.hashes[t]>> \in a.observed

Answers(m, q) ==
  /\ q.end <= m.head.asOf
  /\ q.basis = m.head.basis /\ q.normalization = m.head.normalization
  /\ {q.subjects[i] : i \in 1..Len(q.subjects)} = m.subjects

StoreInit == (\A id \in DOMAIN stored : stored[id] = {}) /\ served = {}

Keep(id) ==
  /\ stored[id] = {}
  /\ \E a \in stored'[id] : /\ Closed(a) /\ Observed(a)
                            /\ stored' = [stored EXCEPT ![id] = {a}]
  /\ UNCHANGED served

Serve(id) ==
  /\ \E q \in {x[2] : x \in served' \ served} :
       /\ \E a \in stored[id] : Answers(a.manifest, q)
       /\ served' = served \cup {<<id, q>>}
  /\ UNCHANGED stored

StoreNext == \E id \in DOMAIN stored : Keep(id) \/ Serve(id)

StoreSpec == StoreInit /\ [][StoreNext]_storeVars

=============================================================================
