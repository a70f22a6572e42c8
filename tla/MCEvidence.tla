------------------------------ MODULE MCEvidence ------------------------------
(* Two components of the evidence service in one run: focus says which one *)
(* a behaviour is about, and the others rest in their initial states.        *)
EXTENDS BlobLifecycle, FactReview, TLC

(* Three ingests of the same bytes, for two users and for a public source, *)
(* and one of other bytes for the source of the first.                     *)
MCBlobOf == ("i1" :> "b1") @@ ("i2" :> "b1") @@ ("i3" :> "b1") @@ ("i4" :> "b2")
MCPutSource == ("i1" :> "s1") @@ ("i2" :> "s2") @@ ("i3" :> "s3") @@ ("i4" :> "s1")
MCSourceUser == ("s1" :> "u1") @@ ("s2" :> "u2") @@ ("s3" :> None)

(* Bound: one blob of two users, who may both be erased, with a single     *)
(* collector; or two blobs of a user and the public with two collectors.   *)
BlobBounded ==
    \/ /\ ingest["i3"] = "idle" /\ doc["b1"] # "s3" /\ gc["g2"] = "idle"
       /\ ingest["i4"] = "idle" /\ "b2" \notin store /\ doc["b2"] = None /\ gcQueue["b2"] = "none"
    \/ /\ ingest["i2"] = "idle" /\ doc["b1"] # "s2"
       /\ erase["u2"] = "idle" /\ "u2" \notin erased

(* Two inputs of one line, from two sources, and one of another line that  *)
(* is not a reported fact.                                                 *)
MCIdentityOf == ("a1" :> "line") @@ ("a2" :> "line") @@ ("b1" :> "other")
MCKeyOf == ("a1" :> "filing") @@ ("a2" :> "amendment") @@ ("b1" :> "note")

Queued(r) == queue[r].status # "absent"
Mentioned(c) ==
    \/ \E r \in Reviews : queue[r].candidate = c
    \/ \E f \in DOMAIN facts : facts[f].candidate = c
    \/ \E k \in Calls : call[k].candidate = c
Acting(k, p) == call[k].step \notin {"idle"} \cup Ended /\ call[k].reviewer = p
ActingFor(p) ==
    \/ \E k \in Calls : Acting(k, p)
    \/ \E i \in DOMAIN actions : actions[i].reviewer = p
KindsUsed == {call[k].kind : k \in {j \in Calls : call[j].step # "idle"}}
WithFact == {r \in Reviews : queue[r].status = "reviewed"}

(* Bound: three calls, which differ in name only and begin in one order,   *)
(* are verdicts of two reviewers on one review, the first of them by p1;   *)
(* or rejections of two reviews by one reviewer while time passes; or      *)
(* create, approve and supersede facts.                                    *)
FactBounded ==
    /\ call["k2"].step # "idle" => call["k1"].step # "idle"
    /\ call["k3"].step # "idle" => call["k2"].step # "idle"
    /\ \/ /\ ~Queued("r2") /\ clock = 0 /\ ~Mentioned("a2")
          /\ ~Acting("k1", "p2")
          /\ queue["r1"].candidate = "b1" => actions # <<>>
          /\ \A k \in Calls : call[k].kind = "approved" => call[k].candidate # "a1"
          /\ KindsUsed \subseteq Verdicts /\ Len(facts) = Cardinality(WithFact)
       \/ /\ ~Mentioned("a2") /\ ~Mentioned("b1") /\ ~ActingFor("p2") /\ facts = <<>>
          /\ KindsUsed \subseteq {"rejected"} /\ call["k3"].step = "idle"
       \/ /\ ~Queued("r2") /\ clock = 0 /\ ~Mentioned("b1") /\ ~ActingFor("p2")
          /\ KindsUsed \subseteq {"approved", "supersede"}

-------------------------------------------------------------------------------
VARIABLE focus

vars == <<focus, blobVars, factVars>>

Init ==
  /\ focus \in {"blob", "fact"}
  /\ BlobInit /\ FactInit

InBlob   == focus = "blob" /\ UNCHANGED <<focus, factVars>>
InFact   == focus = "fact" /\ UNCHANGED <<focus, blobVars>>
Storing    == InBlob /\ BlobNext
Reviewing  == InFact /\ FactNext

\* the bounds of the two
Bounded == BlobBounded /\ FactBounded

Next == Storing \/ Reviewing

\* the fairness of BlobFairSpec, of the behaviours that are about the object store
Fairness ==
  /\ \A i \in Ingests : WF_vars(InBlob /\ PutStep(i))
  /\ \A u \in Users : WF_vars(InBlob /\ EraseStep(u))
  /\ \A g \in Collectors : WF_vars(InBlob /\ GcStep(g)) /\ SF_vars(InBlob /\ LockCurrent(g))
  /\ WF_vars(InBlob /\ \E p \in Waiting : DeadlockVictim(p))

Spec == Init /\ [][Next]_vars /\ Fairness

\* the behaviours that are about facts
ReviewSpec == Init /\ focus = "fact" /\ [][Next]_vars

\* The type invariants of the two.
TypeOK == BlobTypeOK /\ FactTypeOK

===============================================================================
