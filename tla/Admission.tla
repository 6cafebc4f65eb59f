------------------------------ MODULE Admission ------------------------------
(***************************************************************************)
(* Token buckets before every request: the script in Redis                 *)
(* (app/request_limits/scripts.py), the checks of the middleware and of    *)
(* limited_identity() in their order (middleware.py, dependencies.py,      *)
(* limiter.py), and the bound on concurrent HTTP requests.                 *)
(*                                                                         *)
(* Every request passes the aggregate bucket, the bucket of its address,   *)
(* and one of its operation: per address, or, for private operations, per  *)
(* account once its identity is verified, which happens inside the         *)
(* application and counts against concurrency.  Tokens are integers: one   *)
(* request costs Cost, a moment of time adds the rate of the policy.       *)
(***************************************************************************)
EXTENDS Integers, FiniteSets

CONSTANTS
    Request, Client,
    Cost,           \* tokens of one request
    Policy,         \* bucket name -> [rate, burst]: tokens per moment, requests
    Concurrency     \* http_concurrency

Buckets == {"aggregate", "ingress", "public", "private"}

ASSUME AdmissionAssumption ==
    /\ Cost \in Nat \ {0} /\ Concurrency \in Nat \ {0}
    /\ \A b \in Buckets : Policy[b].rate \in Nat \ {0} /\ Policy[b].burst \in Nat \ {0}

\* shared by all, or one per client; an account is used from one address
Key == ({"aggregate"} \X {"api"}) \cup ((Buckets \ {"aggregate"}) \X Client)

VARIABLES
    rollout,    \* "enforce" or "shadow"
    bucket,     \* [Key -> tokens when last written and the moments since]
    request,    \* [Request -> where it is]
    active,     \* active_http
    level       \* history: requests passed less what the rate has allowed since, per bucket

Burst(b) == Policy[b].burst * Cost
Divided(a, b) == (a + b - 1) \div b

\* EXPIRE
TimeToLive_Short(b) == Burst(b) \div (2 * Policy[b].rate)      \* mutant
TimeToLive(b) == Divided(Burst(b), Policy[b].rate)

Unused == [tokens |-> -1, age |-> 0]

AdmissionInit ==
    /\ rollout \in {"enforce", "shadow"}
    /\ bucket = [k \in Key |-> Unused]
    /\ request = [r \in Request |-> [pc |-> "answered", status |-> 200]]
    /\ active = 0
    /\ level = [k \in Key |-> 0]

Tokens(k) ==
    IF bucket[k] = Unused THEN Burst(k[1])
    ELSE LET filled == bucket[k].tokens + bucket[k].age * Policy[k[1]].rate
         IN  IF filled < Burst(k[1]) THEN filled ELSE Burst(k[1])

Passes(k) == Tokens(k) >= Cost

Spent(k) ==
    /\ bucket' = [bucket EXCEPT ![k] = [tokens |-> Tokens(k) - (IF Passes(k) THEN Cost ELSE 0),
                                        age |-> 0]]
    /\ level' = [level EXCEPT ![k] = @ + (IF Passes(k) THEN Cost ELSE 0)]

Arrive(r, c, family) ==
    /\ request[r].pc = "answered"
    /\ request' = [request EXCEPT ![r] = [pc |-> "checking", client |-> c, family |-> family,
                                          bucket |-> "aggregate"]]
    /\ UNCHANGED <<rollout, bucket, active, level>>

Following(r) ==
    CASE request[r].bucket = "aggregate" -> "ingress"
      [] request[r].bucket = "ingress" -> IF request[r].family = "private" THEN "admitted" ELSE "public"
      [] OTHER -> "admitted"

Asked(r) ==
    IF request[r].bucket = "aggregate" THEN <<"aggregate", "api">>
    ELSE <<request[r].bucket, request[r].client>>

\* the shadow mode counts and lets through
Rejected(k) == ~Passes(k) /\ rollout = "enforce"

Reply(r, status) == request' = [request EXCEPT ![r] = [pc |-> "answered", status |-> status]]

Proceed(r) ==
    request' = [request EXCEPT ![r] =
        IF Following(r) = "admitted" THEN [@ EXCEPT !.pc = "admitted"] ELSE [@ EXCEPT !.bucket = Following(r)]]

\* RequestLimiter.check(): the script may have run although its answer is lost
Check(r) ==
    /\ request[r].pc = "checking"
    /\ \/ /\ Spent(Asked(r))
          /\ IF Rejected(Asked(r)) THEN Reply(r, 429) ELSE Proceed(r)
       \/ /\ Spent(Asked(r)) \/ UNCHANGED <<bucket, level>>
          /\ IF rollout = "shadow" THEN Proceed(r) ELSE Reply(r, 503)
    /\ UNCHANGED <<rollout, active>>

\* rejected at once rather than queued
Start(r) ==
    /\ request[r].pc = "admitted"
    /\ IF active >= Concurrency /\ rollout = "enforce"
         THEN Reply(r, 503) /\ UNCHANGED active
         ELSE /\ request' = [request EXCEPT ![r].pc =
                                IF request[r].family = "private" THEN "identified" ELSE "served"]
              /\ active' = active + 1
    /\ UNCHANGED <<rollout, bucket, level>>

\* limited_identity()
CheckAccount(r) ==
    /\ request[r].pc = "identified"
    /\ LET k == <<"private", request[r].client>> IN
       \/ /\ Spent(k)
          /\ request' = [request EXCEPT ![r] = IF Rejected(k)
                THEN [pc |-> "ending", status |-> 429]
                ELSE [@ EXCEPT !.pc = "served"]]
       \/ /\ Spent(k) \/ UNCHANGED <<bucket, level>>
          /\ request' = [request EXCEPT ![r] = IF rollout = "shadow"
                THEN [@ EXCEPT !.pc = "served"] ELSE [pc |-> "ending", status |-> 503]]
    /\ UNCHANGED <<rollout, active>>

\* the application answers, fails, or its client leaves
Left == active - 1

Serve(r) ==
    /\ request[r].pc \in {"identified", "served", "ending"}
    /\ active' = Left
    /\ Reply(r, IF request[r].pc = "ending" THEN request[r].status ELSE 200)
    /\ UNCHANGED <<rollout, bucket, level>>

\* a key that expired is a full bucket
Second ==
    /\ \E k \in Key : bucket[k] # Unused \/ level[k] > 0
    /\ bucket' = [k \in Key |->
          IF bucket[k] = Unused \/ bucket[k].age + 1 >= TimeToLive(k[1]) THEN Unused
          ELSE [bucket[k] EXCEPT !.age = @ + 1]]
    /\ level' = [k \in Key |->
          IF level[k] > Policy[k[1]].rate THEN level[k] - Policy[k[1]].rate ELSE 0]
    /\ UNCHANGED <<rollout, request, active>>

AdmissionNext ==
    \/ Second
    \/ \E r \in Request :
         \/ Check(r) \/ Start(r) \/ CheckAccount(r) \/ Serve(r)
         \/ \E c \in Client, family \in {"public", "private"} : Arrive(r, c, family)

admission == <<rollout, bucket, request, active, level>>

-----------------------------------------------------------------------------
(* Properties                                                                *)

(* "Token buckets allow the stated initial burst and then refill at the      *)
(* sustained rate": whatever is forgotten with an expired key, no span of    *)
(* time sees more requests pass a bucket than its burst and its rate allow.  *)
PassedWithinRate == \A k \in Key : level[k] <= Burst(k[1])

(* "active_http": requests inside the application are counted while they run *)
(* and not longer, through refusals inside it, failures and clients that     *)
(* leave, and there are never more than http_concurrency.                    *)
HttpWithinCapacity ==
    LET inside == Cardinality({r \in Request : request[r].pc \in {"identified", "served", "ending"}})
    IN  active = inside /\ (rollout = "enforce" => inside <= Concurrency)

(* The shadow mode refuses nothing, whatever the buckets and Redis say.      *)
ShadowAdmits == rollout = "shadow" =>
    \A r \in Request : request[r].pc = "answered" => request[r].status = 200

(* The gates of the API hold back what is above a limit, count what they let *)
(* in, and in shadow mode hold back nothing.                                 *)
LimitsAreKept == PassedWithinRate /\ HttpWithinCapacity /\ ShadowAdmits
=============================================================================
