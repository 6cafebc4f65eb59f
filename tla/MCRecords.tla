----------------------------- MODULE MCRecords ------------------------------
(* What the database remembers of one role: instances for TLC of its         *)
(* lifecycle, the applications to it and its checks, which share no variable *)
(* and promise only what never happens, one part of the state space each.    *)
EXTENDS MCJobLifecycle, MCApplicationAttempts, MCEvidence

VARIABLE part

evidence == vars

RecordsInit ==
    /\ part \in {"lifecycle", "attempts", "evidence"}
    /\ LifecycleInit /\ (part # "lifecycle" => db.post = NoPosting)
    /\ AttemptsInit /\ (part # "attempts" => open = {})
    /\ Init

RecordsNext ==
    /\ UNCHANGED part
    /\ \/ part = "lifecycle" /\ LifecycleNext /\ UNCHANGED <<attempts, evidence>>
       \/ part = "attempts" /\ AttemptsNext /\ UNCHANGED <<lifecycle, evidence>>
       \/ part = "evidence" /\ Next /\ UNCHANGED <<lifecycle, attempts>>

RecordsSpec == RecordsInit /\ [][RecordsNext]_<<part, lifecycle, attempts, evidence>>
=============================================================================
