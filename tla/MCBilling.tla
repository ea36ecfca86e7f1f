------------------------------ MODULE MCBilling -------------------------------
(***************************************************************************)
(* Instances of Billing whose month has three days.  Two workers share the *)
(* handlers so that each pair that can disturb one another meets.          *)
(***************************************************************************)
EXTENDS Billing

MCRetryAfter == <<0, 1>>
MCOneRetry == <<0>>

MCRenewHandles ==
    [w \in Worker |-> IF w = 1 THEN {"renew", "trial", "reconcile"}
                      ELSE {"renew", "callback", "remove_card"}]

MCSuspendHandles ==
    [w \in Worker |-> IF w = 1 THEN {"retry", "status"}
                      ELSE {"renew", "callback", "cancel"}]

MCOneHandles == [w \in Worker |-> {"renew", "retry", "callback"}]

============================================================================
