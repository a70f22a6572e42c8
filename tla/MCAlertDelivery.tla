-------------------------- MODULE MCAlertDelivery --------------------------
(* Small instances of AlertDelivery for TLC. *)
EXTENDS AlertDelivery, TLC

CONSTANTS w1, w2, a1, a2, a3, u1, u2, email, sms, digest

MCEgress == (email :> "email") @@ (sms :> "push") @@ (digest :> "push")
MCChannels == {email, sms, digest}

(* One alert for SMS and digest, one for the digest only, and one with a   *)
(* channel that is not supported; of one user and agent.                   *)
MCDigests == (a1 :> <<sms, digest>>) @@ (a2 :> <<digest>>) @@ (a3 :> <<sms>>)
MCOneGroup == (a1 :> u1) @@ (a2 :> u1) @@ (a3 :> u1)

(* Bound: of a failing pass, a revoked entitlement and an alert with an    *)
(* unsupported channel, a behaviour has one.                               *)
Bounded ==
    failures + Cardinality(Revoked) + Cardinality({a \in Unsupported : status[a] # "absent"}) <= 1

(* One alert for e-mail, one for the digest, of different users.           *)
MCPlain == (a1 :> <<email>>) @@ (a2 :> <<digest>>)
MCTwoGroups == (a1 :> u1) @@ (a2 :> u2)
=============================================================================
