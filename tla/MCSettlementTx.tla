---- MODULE MCSettlementTx ----
(* SettlementTx on two travellers. *)
EXTENDS SettlementTx, TLC
CONSTANTS Asha, Ravi

(* Both payments are captured, one of them twice (webhook and callback),   *)
(* while the beat runs; an administrator and a refund deal with one.       *)
J(kind, p) == [kind |-> kind, payment |-> p]
CapturesAndBeat ==
    "webhook1" :> J("capture", Asha) @@ "callback1" :> J("capture", Asha)
    @@ "webhook2" :> J("capture", Ravi) @@ "beat" :> J("reconcile", Asha)
WithRefund == CapturesAndBeat @@ "refund1" :> J("refund", Asha)
WithPayout == CapturesAndBeat @@ "admin" :> J("payout", Asha)
Everything == WithRefund @@ WithPayout
====
