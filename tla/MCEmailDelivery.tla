-------------------------- MODULE MCEmailDelivery --------------------------
(* Instances of EmailDelivery for TLC.                                       *)
EXTENDS EmailMailbox, TLC

CONSTANTS u1, u2, e1, e2, e3

OneFirstEmail == u1 :> e1
TwoFirstEmails == u1 :> e1 @@ u2 :> e2

OneAlert == 1 :> "alert"
OneTest == 1 :> "test"
OneOwner == 1 :> u1

\* u1's recap, an alert of each user
RecapAndAlerts == 1 :> "recap" @@ 2 :> "alert" @@ 3 :> "alert"
RecapFirstUser == 1 :> u1 @@ 2 :> u1 @@ 3 :> u2

AllOn == {<<TRUE, TRUE>>}

\* 15 s, 30 s, 1 min, ... : the first retry waits one tick, later ones two
ShortBackoff == [n \in Doublings |-> IF n = 1 THEN 1 ELSE 2]
=============================================================================
