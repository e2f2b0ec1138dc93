------------------------- MODULE MCBillingWebhooks -------------------------
(* A subscription is bought, its payment fails and is recovered, it changes   *)
(* its plan and is deleted; a second subscription is bought meanwhile.        *)
EXTENDS BillingWebhooks, TLC

Ev(id, kind, created, sub, status, plan) ==
    [id |-> id, kind |-> kind, created |-> created, sub |-> sub, status |-> status, plan |-> plan]

Story == {Ev(1, "updated", 1, "sub_1", "active", "team"),
          Ev(2, "payment_failed", 2, "sub_1", "grace_period", "team"),
          Ev(3, "payment_succeeded", 3, "sub_1", "active", "team"),
          Ev(4, "updated", 3, "sub_1", "grace_period", "business"),
          Ev(5, "deleted", 4, "sub_1", "canceled", "team"),
          Ev(6, "updated", 5, "sub_2", "active", "team")}
=============================================================================
