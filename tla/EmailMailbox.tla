---------------------------- MODULE EmailMailbox ----------------------------
(* E-mail delivery as an implementation of the mailbox.                      *)
EXTENDS EmailDelivery

Confirmed == Outcomes \cup {"accepted"}

\* notification_deliveries and the provider, as a sender would tell of a letter
StageOf(row) ==
    CASE row.status = "absent" -> "none"
      [] row.status # "absent" /\ row.first = 0 ->
           IF row.status = "pending" THEN "waiting" ELSE "dropped"
      [] row.status # "absent" /\ row.first # 0 ->
           IF row.status \in Confirmed THEN "sent" ELSE "tried"

Letters == INSTANCE Mailbox WITH
    Letter <- Delivery,
    Blank <- NoBody,
    stage <- [d \in Delivery |-> StageOf(dlv[d])],
    text <- [d \in Delivery |-> IF dlv[d].first = 0 THEN NoBody ELSE dlv[d].body],
    mailed <- [d \in Delivery |-> prov[d].body],
    copies <- [d \in Delivery |-> prov[d].sends]

(* Leases, retries under one idempotency key, the give-up time and webhooks  *)
(* of notifications/worker.py and api.py implement the mailbox: every step   *)
(* is a step of the letters it touches, or none.                             *)
ImplementsMailbox == Letters!MailboxSpec
=============================================================================
