----------------------------- MODULE PartProofs -----------------------------
(***************************************************************************)
(* Theorems about components that stand alone: the token buckets and HTTP  *)
(* places of Admission, the stream leases of Streams, the commands of      *)
(* Trackers, the reads of GitHubReads, the rows of ApplicationAttempts and *)
(* the commands of Deployment, each by itself.                             *)
(***************************************************************************)
EXTENDS Admission, Streams, Trackers, GitHubReads, ApplicationAttempts,
        Deployment, FiniteSetTheorems, SequenceTheorems, TLAPS

\* each component alone; a run explores it as one part of a sum
AdmissionSpec == AdmissionInit /\ [][AdmissionNext]_admission
StreamsSpec == StreamsInit /\ [][StreamsNext]_streams

-----------------------------------------------------------------------------
(* Token buckets                                                             *)

Inner == {"identified", "served", "ending"}
Inside == {r \in Request : request[r].pc \in Inner}

RequestType ==
    [pc : {"answered", "ending"}, status : {200, 429, 503}]
    \cup [pc : {"checking", "admitted", "identified", "served"}, client : Client,
          family : {"public", "private"}, bucket : {"aggregate", "ingress", "public"}]

AdmissionTyped == rollout \in {"enforce", "shadow"} /\ request \in [Request -> RequestType]

\* a bucket was written with tokens left, within its burst
BucketOK(k) ==
    bucket[k] = Unused \/ bucket[k] \in [tokens : 0 .. Burst(k[1]), age : Nat]

\* what has passed lately is what the bucket misses
LevelOK(k) == level[k] \in Nat /\ level[k] + Tokens(k) <= Burst(k[1])

BucketsOK ==
    /\ bucket = [k \in Key |-> bucket[k]] /\ level = [k \in Key |-> level[k]]
    /\ \A k \in Key : BucketOK(k) /\ LevelOK(k)

CountOK ==
    /\ IsFiniteSet(Inside) /\ active = Cardinality(Inside)
    /\ rollout = "enforce" => active <= Concurrency

ShadowOK == rollout = "shadow" =>
    \A r \in Request : /\ request[r].pc # "ending"
                       /\ request[r].pc = "answered" => request[r].status = 200

AdmissionInv == AdmissionTyped /\ BucketsOK /\ CountOK /\ ShadowOK

(* A bucket has a burst and a rate.                                          *)
LEMMA Policies ==
    ASSUME NEW k \in Key
    PROVE  /\ k[1] \in Buckets /\ Burst(k[1]) \in Nat /\ Cost \in Nat /\ Cost > 0
           /\ Cost <= Burst(k[1])
           /\ Policy[k[1]].rate \in Nat /\ Policy[k[1]].rate > 0
  <1>1. k[1] \in Buckets
    BY DEF Key, Buckets
  <1>2. /\ Policy[k[1]].rate \in Nat /\ Policy[k[1]].rate > 0
        /\ Policy[k[1]].burst \in Nat /\ Policy[k[1]].burst > 0
        /\ Cost \in Nat /\ Cost > 0
    BY <1>1, AdmissionAssumption
  <1>3. \A b \in Nat \ {0} : b * Cost \in Nat /\ Cost <= b * Cost
    BY <1>2
  <1> QED BY <1>1, <1>2, <1>3 DEF Burst

(* The tokens a bucket holds are within its burst.                           *)
LEMMA TokensTyped ==
    ASSUME NEW k \in Key, BucketOK(k)
    PROVE  Tokens(k) \in Nat /\ Tokens(k) <= Burst(k[1])
  <1>1. Burst(k[1]) \in Nat /\ Policy[k[1]].rate \in Nat
    BY Policies
  <1>2. CASE bucket[k] = Unused
    BY <1>1, <1>2 DEF Tokens
  <1>3. CASE bucket[k] # Unused
    <2>1. bucket[k].tokens \in Nat /\ bucket[k].age \in Nat
      BY <1>3 DEF BucketOK
    <2>2. bucket[k].age * Policy[k[1]].rate \in Nat
      BY <1>1, <2>1
    <2>3. bucket[k].tokens + bucket[k].age * Policy[k[1]].rate \in Nat
      BY <2>1, <2>2
    <2> QED BY <1>1, <1>3, <2>3 DEF Tokens
  <1> QED BY <1>2, <1>3

(* A moment brings the tokens of its rate, up to the burst, and a key that   *)
(* has expired would have been full.                                         *)
LEMMA MomentFills ==
    ASSUME NEW k \in Key, BucketOK(k), bucket[k] # Unused
    PROVE  LET filled == bucket[k].tokens + (bucket[k].age + 1) * Policy[k[1]].rate
           IN  /\ filled \in Nat
               /\ filled = bucket[k].tokens + bucket[k].age * Policy[k[1]].rate + Policy[k[1]].rate
               /\ bucket[k].age + 1 >= TimeToLive(k[1]) => filled >= Burst(k[1])
  <1> DEFINE rate == Policy[k[1]].rate
             tokens == bucket[k].tokens
             age == bucket[k].age
             burst == Burst(k[1])
  <1>1. rate \in Nat /\ rate > 0 /\ burst \in Nat /\ tokens \in Nat /\ age \in Nat
    BY Policies DEF BucketOK
  <1>2. TimeToLive(k[1]) = (burst + rate - 1) \div rate
    BY DEF TimeToLive, Divided
  <1> HIDE DEF rate, tokens, age, burst
  <1>3. (age + 1) * rate = age * rate + rate /\ age * rate \in Nat
    BY <1>1
  <1>4. ASSUME age + 1 >= (burst + rate - 1) \div rate PROVE (age + 1) * rate >= burst
    <2>1. PICK b \in Nat : b = burst + rate - 1
      BY <1>1
    <2>2. PICK q \in Int : q = b \div rate
      BY <1>1
    <2>3. b % rate \in 0 .. rate - 1
      BY <1>1, <2>1
    <2>4. b = rate * (b \div rate) + (b % rate)
      BY <1>1, <2>1
    <2>5. b = rate * q + (b % rate)
      BY <2>2, <2>4
    <2>6. rate * q >= burst
      BY <1>1, <2>1, <2>3, <2>5
    <2>7. age + 1 >= q
      BY <1>4, <2>1, <2>2
    <2>8. rate * (age + 1) >= rate * q
      BY <1>1, <2>7
    <2> QED BY <1>1, <2>6, <2>8
  <1>5. /\ tokens + (age + 1) * rate \in Nat
        /\ tokens + (age + 1) * rate = tokens + age * rate + rate
        /\ age + 1 >= (burst + rate - 1) \div rate => tokens + (age + 1) * rate >= burst
    BY <1>1, <1>3, <1>4
  <1> QED BY <1>2, <1>5 DEF rate, tokens, age, burst

(* Taking tokens keeps the sum of what has passed and what is left.          *)
LEMMA SpendingIsCounted ==
    ASSUME BucketsOK, NEW k \in Key, Spent(k)
    PROVE  BucketsOK'
  <1> DEFINE cost == IF Passes(k) THEN Cost ELSE 0
  <1>1. BucketOK(k) /\ LevelOK(k)
    BY DEF BucketsOK
  <1>2. Burst(k[1]) \in Nat /\ Policy[k[1]].rate \in Nat /\ Cost \in Nat
    BY Policies
  <1>3. Tokens(k) \in Nat /\ Tokens(k) <= Burst(k[1])
    BY <1>1, TokensTyped
  <1>4. cost \in Nat /\ Tokens(k) - cost \in Nat
    BY <1>2, <1>3 DEF Passes
  <1>5. /\ bucket' = [bucket EXCEPT ![k] = [tokens |-> Tokens(k) - cost, age |-> 0]]
        /\ level' = [level EXCEPT ![k] = @ + cost]
    BY DEF Spent
  <1> HIDE DEF cost
  <1>6. /\ bucket' = [q \in Key |-> bucket'[q]] /\ level' = [q \in Key |-> level'[q]]
        /\ bucket'[k] = [tokens |-> Tokens(k) - cost, age |-> 0] /\ level'[k] = level[k] + cost
        /\ \A q \in Key \ {k} : bucket'[q] = bucket[q] /\ level'[q] = level[q]
    BY <1>5 DEF BucketsOK
  <1>7. bucket'[k].tokens = Tokens(k) - cost /\ bucket'[k].age = 0 /\ bucket'[k] # Unused
    BY <1>4, <1>6 DEF Unused
  <1>8. BucketOK(k)'
    <2>1. Tokens(k) - cost \in 0 .. Burst(k[1])
      BY <1>2, <1>3, <1>4
    <2> QED BY <1>6, <2>1 DEF BucketOK, Unused, Burst
  <1>9. Tokens(k)' = Tokens(k) - cost
    <2> DEFINE filled == bucket'[k].tokens + bucket'[k].age * Policy[k[1]].rate
    <2>1. filled = Tokens(k) - cost
      BY <1>2, <1>3, <1>4, <1>7
    <2>2. Tokens(k)' = IF filled < Burst(k[1]) THEN filled ELSE Burst(k[1])
      BY <1>7 DEF Tokens, Burst
    <2> QED BY <1>2, <1>3, <1>4, <2>1, <2>2
  <1>10. LevelOK(k)'
    <2>1. level[k] \in Nat /\ level[k] + Tokens(k) <= Burst(k[1])
      BY <1>1 DEF LevelOK
    <2>2. level'[k] \in Nat /\ level'[k] + (Tokens(k) - cost) <= Burst(k[1])
      BY <1>2, <1>3, <1>4, <1>6, <2>1
    <2> QED BY <1>9, <2>2 DEF LevelOK, Burst
  <1>11. ASSUME NEW q \in Key, q # k PROVE BucketOK(q)' /\ LevelOK(q)'
    BY <1>6, <1>11 DEF BucketsOK, BucketOK, LevelOK, Tokens, Unused, Burst
  <1> QED BY <1>6, <1>8, <1>10, <1>11 DEF BucketsOK

(* A moment takes from what has passed at least what it brings back.         *)
LEMMA MomentsAreCounted ==
    ASSUME BucketsOK, Second
    PROVE  BucketsOK'
  <1>1. /\ bucket' = [k \in Key |-> bucket'[k]] /\ level' = [k \in Key |-> level'[k]]
    BY DEF Second
  <1>2. ASSUME NEW k \in Key PROVE BucketOK(k)' /\ LevelOK(k)'
    <2> DEFINE rate == Policy[k[1]].rate
               burst == Burst(k[1])
    <2>1. BucketOK(k) /\ LevelOK(k)
      BY DEF BucketsOK
    <2>2. rate \in Nat /\ rate > 0 /\ burst \in Nat
      BY Policies
    <2>3. Tokens(k) \in Nat /\ Tokens(k) <= burst
      BY <2>1, TokensTyped
    <2>4. level[k] \in Nat /\ level[k] + Tokens(k) <= burst
      BY <2>1 DEF LevelOK
    <2>5. level'[k] = IF level[k] > rate THEN level[k] - rate ELSE 0
      BY DEF Second
    <2>6. CASE bucket'[k] = Unused
      <3>1. level[k] <= rate
        <4>1. CASE bucket[k] = Unused
          BY <2>2, <2>3, <2>4, <4>1 DEF Tokens
        <4>2. CASE bucket[k] # Unused
          <5>1. bucket[k].age + 1 >= TimeToLive(k[1])
            <6>1. bucket'[k] = IF bucket[k] = Unused \/ bucket[k].age + 1 >= TimeToLive(k[1])
                                 THEN Unused ELSE [bucket[k] EXCEPT !.age = @ + 1]
              BY DEF Second
            <6>2. bucket[k] \in [tokens : 0 .. Burst(k[1]), age : Nat]
              BY <2>1, <4>2 DEF BucketOK
            <6>3. [bucket[k] EXCEPT !.age = @ + 1].age # 0
              BY <6>2
            <6>4. Unused.age = 0
              BY DEF Unused
            <6> QED BY <2>6, <4>2, <6>1, <6>3, <6>4
          <5>2. PICK filled \in Nat :
                  /\ filled = bucket[k].tokens + (bucket[k].age + 1) * Policy[k[1]].rate
                  /\ filled = bucket[k].tokens + bucket[k].age * Policy[k[1]].rate + Policy[k[1]].rate
                  /\ filled >= burst
            BY <2>1, <4>2, <5>1, MomentFills
          <5>3. PICK now \in Nat : now = bucket[k].tokens + bucket[k].age * Policy[k[1]].rate
            <6>1. bucket[k].tokens \in Nat /\ bucket[k].age \in Nat
              BY <2>1, <2>2, <4>2 DEF BucketOK
            <6> QED BY <2>2, <6>1
          <5>4. filled = now + rate
            BY <5>2, <5>3
          <5>5. Tokens(k) = IF now < burst THEN now ELSE burst
            BY <4>2, <5>3 DEF Tokens
          <5> HIDE DEF rate, burst
          <5> QED BY <2>2, <2>4, <5>2, <5>4, <5>5
        <4> QED BY <4>1, <4>2
      <3>2. level'[k] = 0
        BY <2>2, <2>4, <2>5, <3>1
      <3>3. Tokens(k)' = burst
        BY <2>6 DEF Tokens, Unused, Burst
      <3>4. level'[k] \in Nat /\ level'[k] + burst <= burst
        BY <2>2, <3>2
      <3> QED BY <2>6, <3>3, <3>4 DEF BucketOK, LevelOK, Unused, Burst
    <2>7. CASE bucket'[k] # Unused
      <3>1. bucket[k] # Unused /\ bucket'[k] = [bucket[k] EXCEPT !.age = @ + 1]
        BY <2>7 DEF Second
      <3>2. bucket[k] \in [tokens : 0 .. burst, age : Nat]
        BY <2>1, <3>1 DEF BucketOK
      <3>3. /\ bucket'[k].tokens = bucket[k].tokens /\ bucket'[k].age = bucket[k].age + 1
            /\ bucket'[k] \in [tokens : 0 .. burst, age : Nat]
        BY <3>1, <3>2
      <3>4. PICK filled \in Nat :
              /\ filled = bucket[k].tokens + (bucket[k].age + 1) * Policy[k[1]].rate
              /\ filled = bucket[k].tokens + bucket[k].age * Policy[k[1]].rate + Policy[k[1]].rate
        BY <2>1, <3>1, MomentFills
      <3>5. PICK now \in Nat : now = bucket[k].tokens + bucket[k].age * Policy[k[1]].rate
        <4>1. bucket[k].tokens \in Nat /\ bucket[k].age \in Nat
          BY <2>2, <3>2
        <4> QED BY <2>2, <4>1
      <3>6. filled = now + rate
        BY <3>4, <3>5
      <3>7. Tokens(k) = IF now < burst THEN now ELSE burst
        BY <3>1, <3>5 DEF Tokens
      <3>8. Tokens(k)' = IF filled < burst THEN filled ELSE burst
        BY <2>7, <3>3, <3>4 DEF Tokens, Unused, Burst
      <3> HIDE DEF rate, burst
      <3>9. /\ level'[k] \in Nat
            /\ level'[k] + (IF filled < burst THEN filled ELSE burst) <= burst
        BY <2>2, <2>4, <2>5, <3>6, <3>7
      <3>10. LevelOK(k)'
        BY <3>8, <3>9 DEF LevelOK, Burst, burst
      <3> QED BY <3>3, <3>10 DEF BucketOK, Unused, Burst, burst
    <2> QED BY <2>6, <2>7
  <1> QED BY <1>1, <1>2 DEF BucketsOK

-----------------------------------------------------------------------------
(* The requests inside                                                       *)

(* A request that enters or leaves is counted once.                          *)
LEMMA CountIsKept ==
    ASSUME AdmissionTyped, CountOK, NEW r \in Request, NEW state \in RequestType,
           request' = [request EXCEPT ![r] = state], rollout' = rollout,
           \/ (state.pc \in Inner <=> request[r].pc \in Inner) /\ active' = active
           \/ /\ state.pc \in Inner /\ request[r].pc \notin Inner /\ active' = active + 1
              /\ rollout = "enforce" => active < Concurrency
           \/ state.pc \notin Inner /\ request[r].pc \in Inner /\ active' = active - 1
    PROVE  CountOK'
  <1>1. request'[r] = state /\ \A q \in Request \ {r} : request'[q] = request[q]
    BY DEF AdmissionTyped
  <1>2. IsFiniteSet(Inside) /\ Cardinality(Inside) \in Nat /\ active = Cardinality(Inside)
    BY FS_CardinalityType DEF CountOK
  <1>3. Concurrency \in Nat
    BY AdmissionAssumption
  <1>4. CASE (state.pc \in Inner <=> request[r].pc \in Inner) /\ active' = active
    <2>1. Inside' = Inside
      BY <1>1, <1>4 DEF Inside
    <2> QED BY <1>4, <2>1 DEF CountOK
  <1>5. CASE /\ state.pc \in Inner /\ request[r].pc \notin Inner /\ active' = active + 1
             /\ rollout = "enforce" => active < Concurrency
    <2>1. Inside' = Inside \cup {r} /\ r \notin Inside
      BY <1>1, <1>5 DEF Inside
    <2>2. IsFiniteSet(Inside') /\ Cardinality(Inside') = Cardinality(Inside) + 1
      BY <1>2, <2>1, FS_AddElement
    <2> QED BY <1>2, <1>3, <1>5, <2>2 DEF CountOK
  <1>6. CASE state.pc \notin Inner /\ request[r].pc \in Inner /\ active' = active - 1
    <2>1. Inside' = Inside \ {r} /\ r \in Inside
      BY <1>1, <1>6 DEF Inside
    <2>2. IsFiniteSet(Inside') /\ Cardinality(Inside') = Cardinality(Inside) - 1
      BY <1>2, <2>1, FS_RemoveElement
    <2>3. rollout = "enforce" => active <= Concurrency
      BY DEF CountOK
    <2> QED BY <1>2, <1>3, <1>6, <2>2, <2>3 DEF CountOK
  <1> QED BY <1>4, <1>5, <1>6

(* One request's step keeps types and what the shadow mode promises.         *)
LEMMA StateIsKept ==
    ASSUME AdmissionTyped, ShadowOK, NEW r \in Request, NEW state \in RequestType,
           request' = [request EXCEPT ![r] = state], rollout' = rollout,
           rollout = "shadow" =>
               state.pc # "ending" /\ (state.pc = "answered" => state.status = 200)
    PROVE  AdmissionTyped' /\ ShadowOK'
  <1>1. request' \in [Request -> RequestType]
    BY DEF AdmissionTyped
  <1>2. request'[r] = state /\ \A q \in Request \ {r} : request'[q] = request[q]
    BY DEF AdmissionTyped
  <1> QED BY <1>1, <1>2 DEF AdmissionTyped, ShadowOK

(* A request that is not answered has a client, a family and a bucket.       *)
LEMMA Underway ==
    ASSUME AdmissionTyped, NEW r \in Request, request[r].pc \in {"checking", "admitted", "identified"}
    PROVE  /\ request[r] \in [pc : {"checking", "admitted", "identified", "served"}, client : Client,
                              family : {"public", "private"}, bucket : {"aggregate", "ingress", "public"}]
           /\ Asked(r) \in Key /\ <<"private", request[r].client>> \in Key
  <1>1. request[r] \in RequestType
    BY DEF AdmissionTyped
  <1>2. request[r] \in [pc : {"checking", "admitted", "identified", "served"}, client : Client,
                        family : {"public", "private"}, bucket : {"aggregate", "ingress", "public"}]
    BY <1>1 DEF RequestType
  <1>3. request[r].client \in Client /\ request[r].bucket \in {"aggregate", "ingress", "public"}
    BY <1>2
  <1> QED BY <1>2, <1>3 DEF Asked, Key, Buckets

(* The next check of a request, or its admission.                            *)
LEMMA ProceedMoves ==
    ASSUME AdmissionTyped, NEW r \in Request, request[r].pc = "checking", Proceed(r)
    PROVE  \E state \in RequestType :
               /\ request' = [request EXCEPT ![r] = state]
               /\ state.pc \in {"checking", "admitted"}
  <1> DEFINE state == IF Following(r) = "admitted" THEN [request[r] EXCEPT !.pc = "admitted"]
                      ELSE [request[r] EXCEPT !.bucket = Following(r)]
  <1>1. request[r] \in [pc : {"checking", "admitted", "identified", "served"}, client : Client,
                        family : {"public", "private"}, bucket : {"aggregate", "ingress", "public"}]
    BY Underway
  <1>2. Following(r) \in {"ingress", "public", "admitted"}
    BY DEF Following
  <1>3. state \in RequestType /\ state.pc \in {"checking", "admitted"}
    <2>1. CASE Following(r) = "admitted"
      BY <1>1, <2>1 DEF RequestType
    <2>2. CASE Following(r) # "admitted"
      BY <1>1, <1>2, <2>2 DEF RequestType
    <2> QED BY <2>1, <2>2
  <1>4. request' = [request EXCEPT ![r] = state]
    BY DEF Proceed
  <1> QED BY <1>3, <1>4

LEMMA ReplyMoves ==
    ASSUME NEW r \in Request, NEW status \in {200, 429, 503}, Reply(r, status)
    PROVE  \E state \in RequestType :
               /\ request' = [request EXCEPT ![r] = state]
               /\ state.pc = "answered" /\ state.status = status
  <1> DEFINE state == [pc |-> "answered", status |-> status]
  <1>1. state \in RequestType /\ state.pc = "answered" /\ state.status = status
    BY DEF RequestType
  <1>2. request' = [request EXCEPT ![r] = state]
    BY DEF Reply
  <1> HIDE DEF state
  <1> QED BY <1>1, <1>2

-----------------------------------------------------------------------------
LEMMA BucketsUnchanged ==
    ASSUME BucketsOK, UNCHANGED <<bucket, level>>
    PROVE  BucketsOK'
  BY DEF BucketsOK, BucketOK, LevelOK, Tokens, Burst, Unused

LEMMA ArriveKeeps ==
    ASSUME AdmissionInv, NEW r \in Request, NEW c \in Client, NEW family \in {"public", "private"},
           Arrive(r, c, family)
    PROVE  AdmissionInv'
  <1>1. PICK state \in RequestType :
            /\ request' = [request EXCEPT ![r] = state] /\ state.pc = "checking"
    <2>1. [pc |-> "checking", client |-> c, family |-> family, bucket |-> "aggregate"]
              \in RequestType
      BY DEF RequestType
    <2> QED BY <2>1 DEF Arrive
  <1>2. request[r].pc = "answered" /\ rollout' = rollout /\ active' = active
    BY DEF Arrive
  <1>3. BucketsOK'
    BY BucketsUnchanged DEF Arrive, AdmissionInv
  <1>4. CountOK'
    BY <1>1, <1>2, CountIsKept DEF AdmissionInv, Inner
  <1>5. AdmissionTyped' /\ ShadowOK'
    BY <1>1, <1>2, StateIsKept DEF AdmissionInv
  <1> QED BY <1>3, <1>4, <1>5 DEF AdmissionInv

LEMMA CheckKeeps ==
    ASSUME AdmissionInv, NEW r \in Request, Check(r)
    PROVE  AdmissionInv'
  <1>1. request[r].pc = "checking" /\ rollout' = rollout /\ active' = active
    BY DEF Check
  <1>2. PICK state \in RequestType :
            /\ request' = [request EXCEPT ![r] = state]
            /\ state.pc \in {"checking", "admitted", "answered"}
            /\ rollout = "shadow" => state.pc # "answered"
    <2>1. \/ Rejected(Asked(r)) /\ Reply(r, 429)
          \/ Proceed(r)
          \/ rollout # "shadow" /\ Reply(r, 503)
      BY DEF Check
    <2>2. CASE Rejected(Asked(r)) /\ Reply(r, 429)
      BY <2>2, ReplyMoves DEF Rejected
    <2>3. CASE Proceed(r)
      BY <1>1, <2>3, ProceedMoves DEF AdmissionInv
    <2>4. CASE rollout # "shadow" /\ Reply(r, 503)
      BY <2>4, ReplyMoves
    <2> QED BY <2>1, <2>2, <2>3, <2>4
  <1>3. BucketsOK'
    <2>1. Asked(r) \in Key
      BY <1>1, Underway DEF AdmissionInv
    <2>2. Spent(Asked(r)) \/ UNCHANGED <<bucket, level>>
      BY DEF Check
    <2> QED BY <2>1, <2>2, SpendingIsCounted, BucketsUnchanged DEF AdmissionInv
  <1>4. CountOK'
    BY <1>1, <1>2, CountIsKept DEF AdmissionInv, Inner
  <1>5. AdmissionTyped' /\ ShadowOK'
    BY <1>1, <1>2, StateIsKept DEF AdmissionInv
  <1> QED BY <1>3, <1>4, <1>5 DEF AdmissionInv

LEMMA StartKeeps ==
    ASSUME AdmissionInv, NEW r \in Request, Start(r)
    PROVE  AdmissionInv'
  <1>1. request[r].pc = "admitted" /\ rollout' = rollout /\ UNCHANGED <<bucket, level>>
    BY DEF Start
  <1>2. BucketsOK'
    BY <1>1, BucketsUnchanged DEF AdmissionInv
  <1>3. CASE active >= Concurrency /\ rollout = "enforce"
    <2>1. PICK state \in RequestType :
              request' = [request EXCEPT ![r] = state] /\ state.pc = "answered"
      BY <1>3, ReplyMoves DEF Start
    <2>2. active' = active
      BY <1>3 DEF Start
    <2>3. CountOK'
      BY <1>1, <2>1, <2>2, CountIsKept DEF AdmissionInv, Inner
    <2>4. AdmissionTyped' /\ ShadowOK'
      BY <1>1, <1>3, <2>1, StateIsKept DEF AdmissionInv
    <2> QED BY <1>2, <2>3, <2>4 DEF AdmissionInv
  <1>4. CASE ~(active >= Concurrency /\ rollout = "enforce")
    <2> DEFINE pc == IF request[r].family = "private" THEN "identified" ELSE "served"
               state == [request[r] EXCEPT !.pc = pc]
    <2>1. request[r] \in [pc : {"checking", "admitted", "identified", "served"}, client : Client,
                          family : {"public", "private"}, bucket : {"aggregate", "ingress", "public"}]
      BY <1>1, Underway DEF AdmissionInv
    <2>2. state \in RequestType /\ state.pc \in {"identified", "served"}
      BY <2>1 DEF RequestType
    <2>3. request' = [request EXCEPT ![r] = state] /\ active' = active + 1
      BY <1>4 DEF Start
    <2>4. rollout = "enforce" => active < Concurrency
      <3>1. active \in Nat /\ Concurrency \in Nat
        BY AdmissionAssumption, FS_CardinalityType DEF AdmissionInv, CountOK
      <3> QED BY <1>4, <3>1
    <2> HIDE DEF state
    <2>5. CountOK'
      BY <1>1, <2>2, <2>3, <2>4, CountIsKept DEF AdmissionInv, Inner
    <2>6. AdmissionTyped' /\ ShadowOK'
      BY <1>1, <2>2, <2>3, StateIsKept DEF AdmissionInv
    <2> QED BY <1>2, <2>5, <2>6 DEF AdmissionInv
  <1> QED BY <1>3, <1>4

LEMMA CheckAccountKeeps ==
    ASSUME AdmissionInv, NEW r \in Request, CheckAccount(r)
    PROVE  AdmissionInv'
  <1> DEFINE k == <<"private", request[r].client>>
             passed == [request[r] EXCEPT !.pc = "served"]
  <1>1. request[r].pc = "identified" /\ rollout' = rollout /\ active' = active
    BY DEF CheckAccount
  <1>2. /\ request[r] \in [pc : {"checking", "admitted", "identified", "served"}, client : Client,
                           family : {"public", "private"}, bucket : {"aggregate", "ingress", "public"}]
        /\ k \in Key
    BY <1>1, Underway DEF AdmissionInv
  <1>3. PICK state \in RequestType :
            /\ request' = [request EXCEPT ![r] = state]
            /\ state.pc \in {"served", "ending"}
            /\ rollout = "shadow" => state.pc # "ending"
    <2>1. /\ passed \in RequestType /\ passed.pc = "served"
          /\ [pc |-> "ending", status |-> 429] \in RequestType
          /\ [pc |-> "ending", status |-> 503] \in RequestType
      BY <1>2 DEF RequestType
    <2>2. \/ request' = [request EXCEPT ![r] = passed]
          \/ rollout # "shadow" /\ request' = [request EXCEPT ![r] = [pc |-> "ending", status |-> 429]]
          \/ rollout # "shadow" /\ request' = [request EXCEPT ![r] = [pc |-> "ending", status |-> 503]]
      BY DEF CheckAccount, Rejected
    <2> HIDE DEF passed
    <2> QED BY <2>1, <2>2
  <1>4. BucketsOK'
    <2>1. Spent(k) \/ UNCHANGED <<bucket, level>>
      BY DEF CheckAccount
    <2> QED BY <1>2, <2>1, SpendingIsCounted, BucketsUnchanged DEF AdmissionInv
  <1>5. CountOK'
    BY <1>1, <1>3, CountIsKept DEF AdmissionInv, Inner
  <1>6. AdmissionTyped' /\ ShadowOK'
    BY <1>1, <1>3, StateIsKept DEF AdmissionInv
  <1> QED BY <1>4, <1>5, <1>6 DEF AdmissionInv

LEMMA ServeKeeps ==
    ASSUME AdmissionInv, NEW r \in Request, Serve(r)
    PROVE  AdmissionInv'
  <1> DEFINE status == IF request[r].pc = "ending" THEN request[r].status ELSE 200
  <1>1. /\ request[r].pc \in Inner /\ rollout' = rollout /\ active' = active - 1
        /\ UNCHANGED <<bucket, level>>
    BY DEF Serve, Left, Inner
  <1>2. status \in {200, 429, 503} /\ (rollout = "shadow" => status = 200)
    <2>1. request[r] \in RequestType
      BY DEF AdmissionInv, AdmissionTyped
    <2> QED BY <2>1 DEF AdmissionInv, ShadowOK, RequestType
  <1>3. PICK state \in RequestType :
            /\ request' = [request EXCEPT ![r] = state]
            /\ state.pc = "answered" /\ state.status = status
    <2>1. Reply(r, status)
      BY DEF Serve
    <2> HIDE DEF status
    <2> QED BY <1>2, <2>1, ReplyMoves
  <1> HIDE DEF status
  <1>4. BucketsOK'
    BY <1>1, BucketsUnchanged DEF AdmissionInv
  <1>5. CountOK'
    BY <1>1, <1>3, CountIsKept DEF AdmissionInv, Inner
  <1>6. AdmissionTyped' /\ ShadowOK'
    BY <1>1, <1>2, <1>3, StateIsKept DEF AdmissionInv
  <1> QED BY <1>4, <1>5, <1>6 DEF AdmissionInv

LEMMA SecondKeeps ==
    ASSUME AdmissionInv, Second
    PROVE  AdmissionInv'
  <1>1. UNCHANGED <<rollout, request, active>>
    BY DEF Second
  <1>2. BucketsOK'
    BY MomentsAreCounted DEF AdmissionInv
  <1>3. AdmissionTyped' /\ CountOK' /\ ShadowOK'
    BY <1>1 DEF AdmissionInv, AdmissionTyped, CountOK, Inside, ShadowOK
  <1> QED BY <1>2, <1>3 DEF AdmissionInv

(* Nothing has passed, every bucket is full, nobody is inside.               *)
LEMMA AdmissionBegins ==
    ASSUME AdmissionInit
    PROVE  AdmissionInv
  <1>1. AdmissionTyped
    BY DEF AdmissionInit, AdmissionTyped, RequestType
  <1>2. BucketsOK
    <2>1. /\ bucket = [k \in Key |-> bucket[k]] /\ level = [k \in Key |-> level[k]]
          /\ \A k \in Key : bucket[k] = Unused /\ level[k] = 0
      BY DEF AdmissionInit
    <2>2. \A k \in Key : BucketOK(k) /\ Tokens(k) = Burst(k[1]) /\ Burst(k[1]) \in Nat
      BY <2>1, Policies DEF BucketOK, Tokens
    <2>3. ASSUME NEW k \in Key PROVE LevelOK(k)
      <3>1. level[k] = 0 /\ Tokens(k) = Burst(k[1]) /\ Burst(k[1]) \in Nat
        BY <2>1, <2>2
      <3> QED BY <3>1 DEF LevelOK
    <2> QED BY <2>1, <2>2, <2>3 DEF BucketsOK
  <1>3. CountOK
    <2>1. Inside = {}
      BY DEF AdmissionInit, Inside, Inner
    <2>2. IsFiniteSet({}) /\ Cardinality({}) = 0
      BY FS_EmptySet
    <2>3. active = 0 /\ Concurrency \in Nat
      BY AdmissionAssumption DEF AdmissionInit
    <2> QED BY <2>1, <2>2, <2>3 DEF CountOK
  <1>4. ShadowOK
    BY DEF AdmissionInit, ShadowOK
  <1> QED BY <1>1, <1>2, <1>3, <1>4 DEF AdmissionInv

LEMMA AdmissionSteps ==
    ASSUME AdmissionInv, [AdmissionNext]_admission
    PROVE  AdmissionInv'
  <1>1. CASE Second
    BY <1>1, SecondKeeps
  <1>2. CASE \E r \in Request : Check(r) \/ Start(r) \/ CheckAccount(r) \/ Serve(r)
    BY <1>2, CheckKeeps, StartKeeps, CheckAccountKeeps, ServeKeeps
  <1>3. CASE \E r \in Request, c \in Client, family \in {"public", "private"} : Arrive(r, c, family)
    BY <1>3, ArriveKeeps
  <1>4. CASE UNCHANGED admission
    <2>1. BucketsOK'
      BY <1>4, BucketsUnchanged DEF admission, AdmissionInv
    <2>2. AdmissionTyped' /\ CountOK' /\ ShadowOK'
      BY <1>4 DEF admission, AdmissionInv, AdmissionTyped, CountOK, Inside, ShadowOK
    <2> QED BY <2>1, <2>2 DEF AdmissionInv
  <1> QED BY <1>1, <1>2, <1>3, <1>4 DEF AdmissionNext

(* The gates of the API keep their limits: through expired keys, refusals,   *)
(* scripts whose answer is lost, clients that leave and the shadow mode, no  *)
(* bucket lets through more than its burst and its rate allow, what runs     *)
(* inside is counted and bounded, and the shadow mode refuses nothing        *)
(* (RequestLimiter.check and RequestLimitMiddleware).                        *)
THEOREM GatesKeepLimits == AdmissionSpec => []LimitsAreKept
  <1>1. AdmissionInit => AdmissionInv
    BY AdmissionBegins
  <1>2. AdmissionInv /\ [AdmissionNext]_admission => AdmissionInv'
    BY AdmissionSteps
  <1>3. AdmissionInv => LimitsAreKept
    <2> SUFFICES ASSUME AdmissionInv PROVE LimitsAreKept
      OBVIOUS
    <2>1. ASSUME NEW k \in Key PROVE level[k] <= Burst(k[1])
      <3>1. BucketOK(k) /\ LevelOK(k)
        BY DEF AdmissionInv, BucketsOK
      <3>2. Tokens(k) \in Nat /\ Burst(k[1]) \in Nat
        BY <3>1, TokensTyped, Policies
      <3> QED BY <3>1, <3>2 DEF LevelOK
    <2>2. HttpWithinCapacity
      BY DEF AdmissionInv, CountOK, Inside, Inner, HttpWithinCapacity
    <2>3. ShadowAdmits
      BY DEF AdmissionInv, ShadowOK, ShadowAdmits
    <2> QED BY <2>1, <2>2, <2>3 DEF LimitsAreKept, PassedWithinRate
  <1> QED BY <1>1, <1>2, <1>3, PTL DEF AdmissionSpec

-----------------------------------------------------------------------------
(* Streams                                                                   *)

StreamType ==
    [pc : {"away", "refused", "unleased"}]
    \cup [pc : {"asking"}, left : 0 .. Deadline, answer : {"none", "full", "yes"}]
    \cup [pc : {"sleeping"}, left : 0 .. Interval, failures : 0 .. 1]
    \cup [pc : {"renewing"}, left : 0 .. Deadline, answer : {"none", "yes", "no"}, failures : 0 .. 1]
    \cup [pc : {"releasing"}, why : {"client", "lease"}]

\* a failed renewal cost an interval and a deadline
Behind(failures) == IF failures = 0 THEN 0 ELSE Interval + Deadline

\* what is left of the lease of a stream in state x while Redis keeps its data
Held(x, left) ==
    /\ x.pc # "unleased"
    /\ x.pc = "asking" /\ x.answer = "yes" => left >= Lease - Deadline + x.left
    /\ x.pc = "sleeping" => left >= Lease - Deadline - Behind(x.failures) - Interval + x.left
    /\ x.pc = "renewing" =>
          /\ x.answer # "no"
          /\ x.answer = "yes" => left >= Lease - Deadline + x.left
          /\ x.answer = "none" =>
                left >= Lease - Deadline - Behind(x.failures) - Interval - Deadline + x.left

Observed(x) ==
    /\ x.pc # "refused"
    /\ x.pc = "asking" => x.answer # "full"
    /\ x.pc = "releasing" => x.why = "client"

StreamsTyped ==
    /\ mode \in {"enforce", "shadow"} /\ capacity \in Capacity /\ from \in [Stream -> Address]
    /\ lease \in [Stream -> Nat] /\ stream \in [Stream -> StreamType] /\ lost \in BOOLEAN

LeasesHeld == mode = "enforce" /\ ~lost => \A s \in Stream : Held(stream[s], lease[s])

LeasedFrom(a) == {q \in Leased : from[q] = a}

LeasesCounted == mode = "enforce" =>
    /\ IsFiniteSet(Leased) /\ Cardinality(Leased) <= capacity.all
    /\ \A a \in Address : Cardinality(LeasedFrom(a)) <= capacity.each

OnlyObserved == mode = "shadow" => \A s \in Stream : Observed(stream[s])

StreamsInv == StreamsTyped /\ LeasesHeld /\ LeasesCounted /\ OnlyObserved

(* A lease is three intervals, and two failed renewals and a late reply fit. *)
LEMMA LeaseSpans ==
    /\ Lease \in Nat /\ Deadline \in Nat /\ Interval \in Nat /\ Interval > 0
    /\ Lease = 3 * Interval /\ 2 * Interval + 3 * Deadline < Lease
  <1>1. Lease \in Nat /\ Deadline \in Nat /\ Lease % 3 = 0
    BY LeaseAssumption
  <1>2. Lease = 3 * (Lease \div 3) + (Lease % 3) /\ Lease \div 3 \in Int
    BY <1>1
  <1>3. Interval \in Int /\ Lease = 3 * Interval
    BY <1>1, <1>2 DEF Interval
  <1>4. 2 * Interval + 3 * Deadline < Lease
    BY LeaseAssumption DEF Interval
  <1> QED BY <1>1, <1>3, <1>4

LEMMA Capacities ==
    ASSUME StreamsTyped
    PROVE  capacity.each \in Nat /\ capacity.all \in Nat
  BY CapacityAssumption DEF StreamsTyped

(* A stream that is open has a lease.                                        *)
LEMMA OpenIsLeased ==
    ASSUME NEW x \in StreamType, NEW left \in Nat, Held(x, left),
           x.pc \in {"sleeping", "renewing", "unleased"}
    PROVE  left > 0
  <1>1. CASE x.pc = "sleeping"
    <2>1. x \in [pc : {"sleeping"}, left : 0 .. Interval, failures : 0 .. 1]
      BY <1>1 DEF StreamType
    <2>2. Behind(x.failures) <= Interval + Deadline /\ Behind(x.failures) \in Nat /\ x.left \in Nat
      BY <2>1, LeaseSpans DEF Behind
    <2>3. left >= Lease - Deadline - Behind(x.failures) - Interval + x.left
      BY <1>1 DEF Held
    <2> QED BY <2>2, <2>3, LeaseSpans
  <1>2. CASE x.pc = "renewing"
    <2>1. x \in [pc : {"renewing"}, left : 0 .. Deadline, answer : {"none", "yes", "no"}, failures : 0 .. 1]
      BY <1>2 DEF StreamType
    <2>2. Behind(x.failures) <= Interval + Deadline /\ Behind(x.failures) \in Nat /\ x.left \in Nat
      BY <2>1, LeaseSpans DEF Behind
    <2>3. x.answer \in {"none", "yes"}
      BY <1>2, <2>1 DEF Held
    <2>4. \/ left >= Lease - Deadline + x.left
          \/ left >= Lease - Deadline - Behind(x.failures) - Interval - Deadline + x.left
      BY <1>2, <2>3 DEF Held
    <2> QED BY <2>2, <2>4, LeaseSpans
  <1> QED BY <1>1, <1>2 DEF Held

(* One stream and its lease change: what has to be shown of their new state. *)
LEMMA OneStreamChanges ==
    ASSUME StreamsInv, NEW s \in Stream, NEW x \in StreamType, NEW left \in Nat,
           stream' = [stream EXCEPT ![s] = x], lease' = [lease EXCEPT ![s] = left],
           UNCHANGED <<mode, capacity, from, lost>>,
           mode = "enforce" /\ ~lost => Held(x, left),
           mode = "shadow" => Observed(x),
           mode = "enforce" /\ left > 0 => lease[s] > 0 \/ ~NoPlace(s)
    PROVE  StreamsInv'
  <1>1. StreamsTyped'
    BY DEF StreamsInv, StreamsTyped
  <1>2. /\ stream'[s] = x /\ lease'[s] = left
        /\ \A q \in Stream \ {s} : stream'[q] = stream[q] /\ lease'[q] = lease[q]
    BY DEF StreamsInv, StreamsTyped
  <1>3. LeasesHeld'
    <2> SUFFICES ASSUME mode = "enforce" /\ ~lost, NEW q \in Stream
                 PROVE  Held(stream'[q], lease'[q])
      BY DEF LeasesHeld, Held, Behind, Interval
    <2> QED BY <1>2 DEF StreamsInv, LeasesHeld
  <1>4. OnlyObserved'
    BY <1>2 DEF StreamsInv, OnlyObserved, Observed
  <1>5. LeasesCounted'
    <2> SUFFICES ASSUME mode = "enforce" PROVE LeasesCounted'
      BY DEF LeasesCounted
    <2>1. /\ IsFiniteSet(Leased) /\ Cardinality(Leased) \in Nat
          /\ \A a \in Address : IsFiniteSet(LeasedFrom(a)) /\ Cardinality(LeasedFrom(a)) \in Nat
      <3>1. IsFiniteSet(Leased)
        BY DEF StreamsInv, LeasesCounted
      <3>2. \A a \in Address : LeasedFrom(a) \subseteq Leased
        BY DEF LeasedFrom
      <3> QED BY <3>1, <3>2, FS_Subset, FS_CardinalityType
    <2>2. /\ Cardinality(Leased) <= capacity.all
          /\ \A a \in Address : Cardinality(LeasedFrom(a)) <= capacity.each
      BY DEF StreamsInv, LeasesCounted
    <2>3. capacity.each \in Nat /\ capacity.all \in Nat /\ from[s] \in Address
      BY Capacities DEF StreamsInv, StreamsTyped
    <2>4. CASE left > 0 /\ lease[s] = 0
      <3>1. Leased' = Leased \cup {s} /\ s \notin Leased
        BY <1>2, <2>4 DEF Leased
      <3>2. IsFiniteSet(Leased') /\ Cardinality(Leased') = Cardinality(Leased) + 1
        BY <2>1, <3>1, FS_AddElement
      <3>3. /\ ~(Cardinality(Leased) >= capacity.all)
            /\ ~(Cardinality(LeasedFrom(from[s])) >= capacity.each)
        BY <2>4 DEF NoPlace, LeasedFrom
      <3>4. Cardinality(Leased') <= capacity.all
        BY <2>1, <2>3, <3>2, <3>3
      <3>5. ASSUME NEW a \in Address PROVE Cardinality(LeasedFrom(a)') <= capacity.each
        <4>1. CASE a = from[s]
          <5>1. LeasedFrom(a)' = LeasedFrom(a) \cup {s} /\ s \notin LeasedFrom(a)
            BY <3>1, <4>1 DEF LeasedFrom
          <5>2. Cardinality(LeasedFrom(a)') = Cardinality(LeasedFrom(a)) + 1
            BY <2>1, <5>1, FS_AddElement
          <5> QED BY <2>1, <2>3, <3>3, <4>1, <5>2
        <4>2. CASE a # from[s]
          <5>1. LeasedFrom(a)' = LeasedFrom(a)
            BY <3>1, <4>2 DEF LeasedFrom
          <5> QED BY <2>2, <5>1
        <4> QED BY <4>1, <4>2
      <3> QED BY <3>2, <3>4, <3>5 DEF LeasesCounted
    <2>5. CASE ~(left > 0 /\ lease[s] = 0)
      <3>1. lease[s] \in Nat
        BY DEF StreamsInv, StreamsTyped
      <3>2. Leased' \subseteq Leased
        BY <1>2, <2>5, <3>1 DEF Leased
      <3>3. IsFiniteSet(Leased') /\ Cardinality(Leased') <= Cardinality(Leased) /\ Cardinality(Leased') \in Nat
        BY <2>1, <3>2, FS_Subset, FS_CardinalityType
      <3>4. ASSUME NEW a \in Address PROVE Cardinality(LeasedFrom(a)') <= capacity.each
        <4>1. LeasedFrom(a)' \subseteq LeasedFrom(a)
          BY <3>2 DEF LeasedFrom
        <4>2. Cardinality(LeasedFrom(a)') <= Cardinality(LeasedFrom(a)) /\ Cardinality(LeasedFrom(a)') \in Nat
          BY <2>1, <4>1, FS_Subset, FS_CardinalityType
        <4> QED BY <2>1, <2>2, <2>3, <4>2
      <3> QED BY <2>1, <2>2, <2>3, <3>3, <3>4 DEF LeasesCounted
    <2> QED BY <2>4, <2>5 DEF StreamsInv, StreamsTyped
  <1> QED BY <1>1, <1>3, <1>4, <1>5 DEF StreamsInv

(* The same when the lease stays.                                            *)
LEMMA OneStreamMoves ==
    ASSUME StreamsInv, NEW s \in Stream, NEW x \in StreamType,
           Becomes(s, x), UNCHANGED <<Setting, lease, lost>>,
           mode = "enforce" /\ ~lost => Held(x, lease[s]),
           mode = "shadow" => Observed(x)
    PROVE  StreamsInv'
  <1>1. lease[s] \in Nat /\ lease' = [lease EXCEPT ![s] = lease[s]]
    BY DEF StreamsInv, StreamsTyped
  <1>2. stream' = [stream EXCEPT ![s] = x] /\ UNCHANGED <<mode, capacity, from, lost>>
    BY DEF Becomes, Setting
  <1> QED BY <1>1, <1>2, OneStreamChanges

(* States in which a stream holds nothing.                                   *)
LEMMA HoldsNothing ==
    ASSUME NEW left, NEW x \in StreamType,
           \/ x.pc \in {"away", "refused", "releasing"}
           \/ x.pc = "asking" /\ x.answer # "yes"
    PROVE  Held(x, left)
  BY DEF Held

(* A sleep begins with a lease that was good within the last deadline, or    *)
(* after one renewal that failed.                                            *)
LEMMA SleepHeld ==
    ASSUME NEW failures \in 0 .. 1, NEW left \in Nat,
           left >= Lease - Deadline - Behind(failures)
    PROVE  /\ Sleeping(failures) \in StreamType /\ Held(Sleeping(failures), left)
           /\ Observed(Sleeping(failures))
  <1> DEFINE x == Sleeping(failures)
  <1>1. /\ x.pc = "sleeping" /\ x.left = Interval /\ x.failures = failures
        /\ x \in [pc : {"sleeping"}, left : 0 .. Interval, failures : 0 .. 1]
    BY LeaseSpans DEF Sleeping
  <1>2. Behind(failures) \in Nat
    BY LeaseSpans DEF Behind
  <1> HIDE DEF x
  <1>3. Held(x, left)
    <2>1. left >= Lease - Deadline - Behind(x.failures) - Interval + x.left
      BY <1>1, <1>2, LeaseSpans
    <2> QED BY <1>1, <2>1 DEF Held
  <1>4. x \in StreamType /\ Observed(x)
    BY <1>1 DEF StreamType, Observed
  <1> QED BY <1>3, <1>4 DEF x

LEMMA ReleasingHeld ==
    ASSUME NEW why \in {"client", "lease"}, NEW left
    PROVE  /\ [pc |-> "releasing", why |-> why] \in StreamType
           /\ Held([pc |-> "releasing", why |-> why], left)
           /\ why = "client" => Observed([pc |-> "releasing", why |-> why])
  BY DEF StreamType, Held, Observed

LEMMA AtRest ==
    ASSUME NEW pc \in {"away", "refused", "unleased"}, NEW left
    PROVE  /\ [pc |-> pc] \in StreamType
           /\ pc # "unleased" => Held([pc |-> pc], left)
           /\ pc # "refused" => Observed([pc |-> pc])
  BY DEF StreamType, Held, Observed

(* A renewal that ends a stream: only its limits are watched in shadow mode. *)
LEMMA EndsHeld ==
    ASSUME NEW s \in Stream, mode \in {"enforce", "shadow"}, NEW left
    PROVE  /\ Ends(s) \in StreamType
           /\ mode = "enforce" => Held(Ends(s), left)
           /\ mode = "shadow" => Observed(Ends(s))
  BY DEF Ends, StreamType, Held, Observed

LEMMA OpenKeeps ==
    ASSUME StreamsInv, NEW s \in Stream, Open(s)
    PROVE  StreamsInv'
  <1>1. Asking \in StreamType /\ Asking.pc = "asking" /\ Asking.answer = "none"
    BY LeaseSpans DEF Asking, StreamType
  <1>2. Held(Asking, lease[s]) /\ Observed(Asking)
    BY <1>1, HoldsNothing DEF Observed
  <1> QED BY <1>1, <1>2, OneStreamMoves DEF Open

LEMMA AcquireKeeps ==
    ASSUME StreamsInv, NEW s \in Stream, Acquire(s)
    PROVE  StreamsInv'
  <1>1. /\ stream[s].pc = "asking" /\ stream[s].answer = "none"
        /\ UNCHANGED <<mode, capacity, from, lost>>
    BY DEF Acquire, Setting
  <1>2. stream[s] \in [pc : {"asking"}, left : 0 .. Deadline, answer : {"none", "full", "yes"}]
    BY <1>1 DEF StreamsInv, StreamsTyped, StreamType
  <1>3. lease[s] \in Nat /\ mode \in {"enforce", "shadow"}
    BY DEF StreamsInv, StreamsTyped
  <1>4. CASE NoPlace(s) /\ mode = "enforce"
    <2> DEFINE x == [stream[s] EXCEPT !.answer = "full"]
    <2>1. x \in StreamType /\ x.pc = "asking" /\ x.answer = "full"
      BY <1>2 DEF StreamType
    <2>2. Becomes(s, x) /\ UNCHANGED <<Setting, lease, lost>>
      BY <1>4 DEF Acquire, Becomes
    <2> HIDE DEF x
    <2>3. Held(x, lease[s])
      BY <2>1, HoldsNothing
    <2> QED BY <1>4, <2>1, <2>2, <2>3, OneStreamMoves
  <1>5. CASE ~(NoPlace(s) /\ mode = "enforce")
    <2> DEFINE x == [stream[s] EXCEPT !.answer = "yes"]
    <2>1. x \in StreamType /\ x.pc = "asking" /\ x.answer = "yes" /\ x.left \in 0 .. Deadline
      BY <1>2 DEF StreamType
    <2>2. stream' = [stream EXCEPT ![s] = x] /\ lease' = [lease EXCEPT ![s] = Lease]
      BY <1>5 DEF Acquire
    <2> HIDE DEF x
    <2>3. Lease >= Lease - Deadline + x.left /\ Lease \in Nat
      BY <2>1, LeaseSpans
    <2>4. Held(x, Lease) /\ Observed(x)
      BY <2>1, <2>3 DEF Held, Observed
    <2> QED BY <1>1, <1>5, <2>1, <2>2, <2>3, <2>4, OneStreamChanges
  <1> QED BY <1>4, <1>5

LEMMA AdmitKeeps ==
    ASSUME StreamsInv, NEW s \in Stream, Admit(s)
    PROVE  StreamsInv'
  <1>1. stream[s].pc = "asking" /\ UNCHANGED <<Setting, lease, lost>>
    BY DEF Admit
  <1>2. lease[s] \in Nat /\ mode \in {"enforce", "shadow"}
    BY DEF StreamsInv, StreamsTyped
  <1>3. stream[s] \in [pc : {"asking"}, left : 0 .. Deadline, answer : {"none", "full", "yes"}]
    BY <1>1 DEF StreamsInv, StreamsTyped, StreamType
  <1>4. CASE stream[s].answer = "yes" /\ Becomes(s, Sleeping(0))
    <2>1. Sleeping(0) \in StreamType /\ Observed(Sleeping(0))
      BY LeaseSpans DEF Sleeping, StreamType, Observed
    <2>2. ASSUME mode = "enforce" /\ ~lost PROVE Held(Sleeping(0), lease[s])
      <3>1. lease[s] >= Lease - Deadline + stream[s].left
        BY <1>1, <1>4, <2>2 DEF StreamsInv, LeasesHeld, Held
      <3>2. stream[s].left \in Nat
        BY <1>3
      <3>3. Behind(0) = 0
        BY DEF Behind
      <3>4. lease[s] >= Lease - Deadline - Behind(0)
        BY <1>2, <3>1, <3>2, <3>3, LeaseSpans
      <3> QED BY <1>2, <3>4, SleepHeld
    <2> QED BY <1>1, <1>4, <2>1, <2>2, OneStreamMoves
  <1>5. CASE stream[s].answer = "full" /\ Becomes(s, [pc |-> "refused"])
    <2>1. mode # "shadow"
      BY <1>1, <1>5 DEF StreamsInv, OnlyObserved, Observed
    <2> QED BY <1>1, <1>5, <2>1, AtRest, OneStreamMoves
  <1>6. CASE Becomes(s, [pc |-> Unavailable])
    <2>1. Unavailable \in {"unleased", "refused"} /\ (mode = "shadow" <=> Unavailable = "unleased")
      BY DEF Unavailable
    <2> QED BY <1>1, <1>2, <1>6, <2>1, AtRest, OneStreamMoves
  <1> QED BY <1>4, <1>5, <1>6 DEF Admit

LEMMA RenewKeeps ==
    ASSUME StreamsInv, NEW s \in Stream, Renew(s)
    PROVE  StreamsInv'
  <1> DEFINE x == [pc |-> "renewing", left |-> Deadline, answer |-> "none", failures |-> stream[s].failures]
  <1>1. /\ stream[s].pc = "sleeping" /\ stream[s].left = 0 /\ Becomes(s, x)
        /\ UNCHANGED <<Setting, lease, lost>>
    BY DEF Renew
  <1>2. stream[s] \in [pc : {"sleeping"}, left : 0 .. Interval, failures : 0 .. 1]
    BY <1>1 DEF StreamsInv, StreamsTyped, StreamType
  <1>3. lease[s] \in Nat /\ Behind(stream[s].failures) \in Nat
    BY LeaseSpans DEF StreamsInv, StreamsTyped, Behind
  <1>4. /\ x \in StreamType /\ x.pc = "renewing" /\ x.answer = "none" /\ x.left = Deadline
        /\ x.failures = stream[s].failures
    BY <1>2, LeaseSpans DEF StreamType
  <1> HIDE DEF x
  <1>5. ASSUME mode = "enforce" /\ ~lost PROVE Held(x, lease[s])
    <2>1. lease[s] >= Lease - Deadline - Behind(stream[s].failures) - Interval + stream[s].left
      BY <1>1, <1>5 DEF StreamsInv, LeasesHeld, Held
    <2>2. lease[s] >= Lease - Deadline - Behind(x.failures) - Interval - Deadline + x.left
      BY <1>1, <1>3, <1>4, <2>1, LeaseSpans
    <2> QED BY <1>4, <2>2 DEF Held
  <1>6. Observed(x)
    BY <1>4 DEF Observed
  <1> QED BY <1>1, <1>4, <1>5, <1>6, OneStreamMoves

LEMMA ExtendKeeps ==
    ASSUME StreamsInv, NEW s \in Stream, Extend(s)
    PROVE  StreamsInv'
  <1> DEFINE answer == IF lease[s] > 0 THEN "yes" ELSE "no"
             x == [stream[s] EXCEPT !.answer = answer]
             left == IF lease[s] > 0 THEN Lease ELSE 0
  <1>1. /\ stream[s].pc = "renewing" /\ UNCHANGED <<mode, capacity, from, lost>>
        /\ stream' = [stream EXCEPT ![s] = x] /\ lease' = [lease EXCEPT ![s] = left]
    BY DEF Extend, Setting
  <1>2. stream[s] \in [pc : {"renewing"}, left : 0 .. Deadline, answer : {"none", "yes", "no"},
                       failures : 0 .. 1]
    BY <1>1 DEF StreamsInv, StreamsTyped, StreamType
  <1>3. lease[s] \in Nat /\ stream[s] \in StreamType
    BY DEF StreamsInv, StreamsTyped
  <1>4. /\ x \in StreamType /\ x.pc = "renewing" /\ x.answer = answer /\ x.left \in 0 .. Deadline
    BY <1>2 DEF StreamType
  <1>5. left \in Nat /\ (left > 0 => lease[s] > 0)
    BY <1>3, LeaseSpans
  <1>6. ASSUME mode = "enforce" /\ ~lost PROVE Held(x, left)
    <2>1. lease[s] > 0
      BY <1>1, <1>3, <1>6, OpenIsLeased DEF StreamsInv, LeasesHeld
    <2>2. left >= Lease - Deadline + x.left /\ answer = "yes"
      BY <1>4, <2>1, LeaseSpans
    <2> HIDE DEF x, left, answer
    <2> QED BY <1>4, <2>2 DEF Held
  <1>7. Observed(x)
    BY <1>4 DEF Observed
  <1> HIDE DEF x, left
  <1> QED BY <1>1, <1>4, <1>5, <1>6, <1>7, OneStreamChanges

LEMMA AnswerKeeps ==
    ASSUME StreamsInv, NEW s \in Stream, Answer(s)
    PROVE  StreamsInv'
  <1>1. stream[s].pc = "renewing" /\ UNCHANGED <<Setting, lease, lost>>
    BY DEF Answer
  <1>2. stream[s] \in [pc : {"renewing"}, left : 0 .. Deadline, answer : {"none", "yes", "no"},
                       failures : 0 .. 1]
    BY <1>1 DEF StreamsInv, StreamsTyped, StreamType
  <1>3. lease[s] \in Nat /\ mode \in {"enforce", "shadow"}
    BY DEF StreamsInv, StreamsTyped
  <1>4. stream[s].left \in Nat /\ stream[s].failures \in 0 .. 1
    BY <1>2
  <1>5. Behind(0) = 0 /\ Behind(1) = Interval + Deadline
    BY DEF Behind
  <1>6. CASE stream[s].answer = "yes" /\ Becomes(s, Sleeping(0))
    <2>1. Sleeping(0) \in StreamType /\ Observed(Sleeping(0))
      BY LeaseSpans DEF Sleeping, StreamType, Observed
    <2>2. ASSUME mode = "enforce" /\ ~lost PROVE Held(Sleeping(0), lease[s])
      <3>1. lease[s] >= Lease - Deadline + stream[s].left
        BY <1>1, <1>6, <2>2 DEF StreamsInv, LeasesHeld, Held
      <3>2. lease[s] >= Lease - Deadline - Behind(0)
        BY <1>3, <1>4, <1>5, <3>1, LeaseSpans
      <3> QED BY <1>3, <3>2, SleepHeld
    <2> QED BY <1>1, <1>6, <2>1, <2>2, OneStreamMoves
  <1>7. CASE stream[s].answer = "no" /\ Becomes(s, NotRenewed(s))
    BY <1>1, <1>3, <1>7, EndsHeld, OneStreamMoves DEF NotRenewed
  <1>8. CASE Becomes(s, IF stream[s].failures + 1 >= Patience THEN Ends(s)
                        ELSE Sleeping(stream[s].failures + 1))
    <2>1. CASE stream[s].failures + 1 >= Patience
      BY <1>1, <1>3, <1>8, <2>1, EndsHeld, OneStreamMoves
    <2>2. CASE ~(stream[s].failures + 1 >= Patience)
      <3>1. stream[s].failures = 0
        BY <1>4, <2>2 DEF Patience
      <3>2. Becomes(s, Sleeping(1))
        BY <1>8, <2>2, <3>1
      <3>3. Sleeping(1) \in StreamType /\ Observed(Sleeping(1))
        BY LeaseSpans DEF Sleeping, StreamType, Observed
      <3>4. ASSUME mode = "enforce" /\ ~lost PROVE Held(Sleeping(1), lease[s])
        <4>1. stream[s].answer \in {"none", "yes"}
          BY <1>1, <1>2, <3>4 DEF StreamsInv, LeasesHeld, Held
        <4>2. \/ lease[s] >= Lease - Deadline + stream[s].left
              \/ lease[s] >= Lease - Deadline - Behind(stream[s].failures) - Interval - Deadline
                               + stream[s].left
          BY <1>1, <3>4, <4>1 DEF StreamsInv, LeasesHeld, Held
        <4>3. lease[s] >= Lease - Deadline - Behind(1)
          BY <1>3, <1>4, <1>5, <3>1, <4>2, LeaseSpans
        <4> QED BY <1>3, <4>3, SleepHeld
      <3> QED BY <1>1, <3>2, <3>3, <3>4, OneStreamMoves
    <2> QED BY <2>1, <2>2
  <1> QED BY <1>6, <1>7, <1>8 DEF Answer

LEMMA LeaveKeeps ==
    ASSUME StreamsInv, NEW s \in Stream, Leave(s)
    PROVE  StreamsInv'
  BY ReleasingHeld, OneStreamMoves DEF Leave

LEMMA ReleaseKeeps ==
    ASSUME StreamsInv, NEW s \in Stream, Release(s)
    PROVE  StreamsInv'
  <1>1. /\ stream' = [stream EXCEPT ![s] = Away] /\ UNCHANGED <<mode, capacity, from, lost>>
        /\ lease' \in {lease, [lease EXCEPT ![s] = 0]}
    BY DEF Release, Becomes, Setting
  <1>2. lease[s] \in Nat /\ lease = [lease EXCEPT ![s] = lease[s]]
    BY DEF StreamsInv, StreamsTyped
  <1>3. PICK left \in {0, lease[s]} : lease' = [lease EXCEPT ![s] = left]
    BY <1>1, <1>2
  <1>4. left \in Nat /\ (left > 0 => lease[s] > 0)
    BY <1>2
  <1>5. Away \in StreamType /\ Held(Away, left) /\ Observed(Away)
    BY AtRest DEF Away
  <1> QED BY <1>1, <1>3, <1>4, <1>5, OneStreamChanges

LEMMA RetryKeeps ==
    ASSUME StreamsInv, NEW s \in Stream, Retry(s)
    PROVE  StreamsInv'
  <1>1. Away \in StreamType /\ Held(Away, lease[s]) /\ Observed(Away)
    BY AtRest DEF Away
  <1> QED BY <1>1, OneStreamMoves DEF Retry

-----------------------------------------------------------------------------
(* Steps of every stream at once: leases only go.                            *)
LEMMA FewerLeases ==
    ASSUME StreamsTyped, LeasesCounted, UNCHANGED <<mode, capacity, from>>, Leased' \subseteq Leased
    PROVE  LeasesCounted'
  <1> SUFFICES ASSUME mode = "enforce" PROVE LeasesCounted'
    BY DEF LeasesCounted
  <1>1. capacity.each \in Nat /\ capacity.all \in Nat
    BY Capacities
  <1>2. IsFiniteSet(Leased) /\ Cardinality(Leased) \in Nat /\ Cardinality(Leased) <= capacity.all
    BY FS_CardinalityType DEF LeasesCounted
  <1>3. /\ IsFiniteSet(Leased') /\ Cardinality(Leased') <= Cardinality(Leased)
        /\ Cardinality(Leased') \in Nat
    BY <1>2, FS_Subset, FS_CardinalityType
  <1>4. ASSUME NEW a \in Address PROVE Cardinality(LeasedFrom(a)') <= capacity.each
    <2>1. LeasedFrom(a)' \subseteq LeasedFrom(a) /\ LeasedFrom(a) \subseteq Leased
      BY DEF LeasedFrom
    <2>2. IsFiniteSet(LeasedFrom(a)) /\ Cardinality(LeasedFrom(a)) \in Nat
      BY <1>2, <2>1, FS_Subset, FS_CardinalityType
    <2>3. Cardinality(LeasedFrom(a)') <= Cardinality(LeasedFrom(a)) /\ Cardinality(LeasedFrom(a)') \in Nat
      BY <2>1, <2>2, FS_Subset, FS_CardinalityType
    <2>4. Cardinality(LeasedFrom(a)) <= capacity.each
      BY DEF LeasesCounted
    <2> QED BY <1>1, <2>2, <2>3, <2>4
  <1> QED BY <1>1, <1>2, <1>3, <1>4 DEF LeasesCounted

LEMMA ApiCrashKeeps ==
    ASSUME StreamsInv, ApiCrash
    PROVE  StreamsInv'
  <1>1. stream' = [s \in Stream |-> Away] /\ UNCHANGED <<mode, capacity, from, lease, lost>>
    BY DEF ApiCrash, Setting
  <1>2. Away \in StreamType /\ Observed(Away) /\ \A left \in Nat : Held(Away, left)
    BY AtRest DEF Away
  <1>3. StreamsTyped'
    BY <1>1, <1>2 DEF StreamsInv, StreamsTyped
  <1>4. LeasesHeld'
    <2>1. \A s \in Stream : stream'[s] = Away /\ lease'[s] \in Nat
      BY <1>1 DEF StreamsInv, StreamsTyped
    <2> QED BY <1>2, <2>1 DEF LeasesHeld, Held, Behind, Interval
  <1>5. OnlyObserved'
    BY <1>1, <1>2 DEF OnlyObserved, Observed
  <1>6. LeasesCounted'
    BY <1>1, FewerLeases DEF StreamsInv, Leased
  <1> QED BY <1>3, <1>4, <1>5, <1>6 DEF StreamsInv

LEMMA RedisLossKeeps ==
    ASSUME StreamsInv, RedisLoss
    PROVE  StreamsInv'
  <1>1. /\ lost' = TRUE /\ lease' = [s \in Stream |-> 0]
        /\ UNCHANGED <<mode, capacity, from, stream>>
    BY DEF RedisLoss, Setting
  <1>2. StreamsTyped'
    BY <1>1 DEF StreamsInv, StreamsTyped
  <1>3. LeasesHeld' /\ OnlyObserved'
    BY <1>1 DEF StreamsInv, LeasesHeld, OnlyObserved, Observed
  <1>4. LeasesCounted'
    BY <1>1, FewerLeases DEF StreamsInv, Leased
  <1> QED BY <1>2, <1>3, <1>4 DEF StreamsInv

(* Time takes as much from a sleep, or from a deadline, as from the lease.   *)
LEMMA TimeKeepsHolds ==
    ASSUME NEW x \in StreamType, NEW left \in Nat, Held(x, left),
           x.pc \in {"asking", "sleeping", "renewing"}, x.left > 0
    PROVE  Held([x EXCEPT !.left = @ - 1], IF left > 0 THEN left - 1 ELSE 0)
  <1> DEFINE y == [x EXCEPT !.left = @ - 1]
             after == IF left > 0 THEN left - 1 ELSE 0
  <1>1. CASE x.pc = "asking"
    <2>1. x \in [pc : {"asking"}, left : 0 .. Deadline, answer : {"none", "full", "yes"}]
      BY <1>1 DEF StreamType
    <2>2. y.pc = "asking" /\ y.answer = x.answer /\ y.left = x.left - 1 /\ x.left \in Nat
      BY <2>1
    <2>3. ASSUME x.answer = "yes" PROVE after >= Lease - Deadline + y.left
      <3>1. left >= Lease - Deadline + x.left
        BY <1>1, <2>3 DEF Held
      <3>2. left > 0
        BY <2>2, <3>1, LeaseSpans
      <3> QED BY <2>2, <3>1, <3>2, LeaseSpans
    <2> HIDE DEF y, after
    <2>4. Held(y, after)
      BY <2>2, <2>3 DEF Held
    <2> QED BY <2>4 DEF y, after
  <1>2. CASE x.pc = "sleeping"
    <2>1. x \in [pc : {"sleeping"}, left : 0 .. Interval, failures : 0 .. 1]
      BY <1>2 DEF StreamType
    <2>2. y.pc = "sleeping" /\ y.failures = x.failures /\ y.left = x.left - 1 /\ x.left \in Nat
      BY <2>1
    <2>3. left > 0
      BY <1>2, OpenIsLeased
    <2>4. left >= Lease - Deadline - Behind(x.failures) - Interval + x.left
      BY <1>2 DEF Held
    <2>5. Behind(x.failures) \in Nat
      BY LeaseSpans DEF Behind
    <2>6. after >= Lease - Deadline - Behind(y.failures) - Interval + y.left
      BY <2>2, <2>3, <2>4, <2>5, LeaseSpans
    <2> HIDE DEF y, after
    <2>7. Held(y, after)
      BY <2>2, <2>6 DEF Held
    <2> QED BY <2>7 DEF y, after
  <1>3. CASE x.pc = "renewing"
    <2>1. x \in [pc : {"renewing"}, left : 0 .. Deadline, answer : {"none", "yes", "no"},
                 failures : 0 .. 1]
      BY <1>3 DEF StreamType
    <2>2. /\ y.pc = "renewing" /\ y.answer = x.answer /\ y.failures = x.failures
          /\ y.left = x.left - 1 /\ x.left \in Nat
      BY <2>1
    <2>3. left > 0
      BY <1>3, OpenIsLeased
    <2>4. Behind(x.failures) \in Nat
      BY LeaseSpans DEF Behind
    <2>5. ASSUME x.answer = "yes" PROVE after >= Lease - Deadline + y.left
      <3>1. left >= Lease - Deadline + x.left
        BY <1>3, <2>5 DEF Held
      <3> QED BY <2>2, <2>3, <3>1, LeaseSpans
    <2>6. ASSUME x.answer = "none"
          PROVE  after >= Lease - Deadline - Behind(y.failures) - Interval - Deadline + y.left
      <3>1. left >= Lease - Deadline - Behind(x.failures) - Interval - Deadline + x.left
        BY <1>3, <2>6 DEF Held
      <3> QED BY <2>2, <2>3, <2>4, <3>1, LeaseSpans
    <2>7. x.answer # "no"
      BY <1>3 DEF Held
    <2> HIDE DEF y, after
    <2>8. Held(y, after)
      BY <2>2, <2>5, <2>6, <2>7 DEF Held
    <2> QED BY <2>8 DEF y, after
  <1> QED BY <1>1, <1>2, <1>3

LEMMA TimeKeepsTypes ==
    ASSUME NEW x \in StreamType, x.pc \in {"asking", "sleeping", "renewing"}, x.left > 0
    PROVE  LET y == [x EXCEPT !.left = @ - 1]
           IN  y \in StreamType /\ (Observed(x) => Observed(y))
  <1>1. CASE x.pc = "asking"
    <2>1. x \in [pc : {"asking"}, left : 0 .. Deadline, answer : {"none", "full", "yes"}]
      BY <1>1 DEF StreamType
    <2>2. x.left - 1 \in 0 .. Deadline
      BY <2>1, LeaseSpans
    <2> QED BY <2>1, <2>2 DEF StreamType, Observed
  <1>2. CASE x.pc = "sleeping"
    <2>1. x \in [pc : {"sleeping"}, left : 0 .. Interval, failures : 0 .. 1]
      BY <1>2 DEF StreamType
    <2>2. x.left - 1 \in 0 .. Interval
      BY <2>1, LeaseSpans
    <2> QED BY <2>1, <2>2 DEF StreamType, Observed
  <1>3. CASE x.pc = "renewing"
    <2>1. x \in [pc : {"renewing"}, left : 0 .. Deadline, answer : {"none", "yes", "no"},
                 failures : 0 .. 1]
      BY <1>3 DEF StreamType
    <2>2. x.left - 1 \in 0 .. Deadline
      BY <2>1, LeaseSpans
    <2> QED BY <2>1, <2>2 DEF StreamType, Observed
  <1> QED BY <1>1, <1>2, <1>3

LEMMA TickKeeps ==
    ASSUME StreamsInv, Tick
    PROVE  StreamsInv'
  <1>1. /\ UNCHANGED <<mode, capacity, from, lost>>
        /\ lease' = [s \in Stream |-> IF lease[s] > 0 THEN lease[s] - 1 ELSE 0]
        /\ stream' = [s \in Stream |-> IF Timed(s) THEN [stream[s] EXCEPT !.left = @ - 1]
                                       ELSE stream[s]]
        /\ \A s \in Stream : Timed(s) => stream[s].left > 0
    BY DEF Tick, Setting
  <1>2. \A s \in Stream : lease[s] \in Nat /\ stream[s] \in StreamType
    BY DEF StreamsInv, StreamsTyped
  <1>3. ASSUME NEW s \in Stream
        PROVE  /\ stream'[s] \in StreamType /\ lease'[s] \in Nat
               /\ mode = "shadow" => Observed(stream'[s])
               /\ mode = "enforce" /\ ~lost => Held(stream'[s], lease'[s])
    <2>1. lease'[s] \in Nat
      BY <1>1, <1>2
    <2>2. /\ mode = "shadow" => Observed(stream[s])
          /\ mode = "enforce" /\ ~lost => Held(stream[s], lease[s])
      BY DEF StreamsInv, OnlyObserved, LeasesHeld
    <2>3. CASE Timed(s)
      <3>1. /\ stream'[s] = [stream[s] EXCEPT !.left = @ - 1] /\ stream[s].left > 0
            /\ lease'[s] = IF lease[s] > 0 THEN lease[s] - 1 ELSE 0
        BY <1>1, <2>3
      <3>2. stream'[s] \in StreamType /\ (Observed(stream[s]) => Observed(stream'[s]))
        BY <1>2, <2>3, <3>1, TimeKeepsTypes DEF Timed
      <3>3. Held(stream[s], lease[s]) => Held(stream'[s], lease'[s])
        BY <1>2, <2>3, <3>1, TimeKeepsHolds DEF Timed
      <3> QED BY <2>1, <2>2, <3>2, <3>3
    <2>4. CASE ~Timed(s)
      <3>1. stream'[s] = stream[s]
        BY <1>1, <2>4
      <3>2. Held(stream[s], lease[s]) => Held(stream[s], lease'[s])
        BY <2>4 DEF Timed, Held
      <3> QED BY <1>2, <2>1, <2>2, <3>1, <3>2
    <2> QED BY <2>3, <2>4
  <1>4. StreamsTyped'
    <2>1. /\ stream' = [s \in Stream |-> stream'[s]] /\ lease' = [s \in Stream |-> lease'[s]]
      BY <1>1
    <2>2. stream' \in [Stream -> StreamType] /\ lease' \in [Stream -> Nat]
      BY <1>3, <2>1
    <2> QED BY <1>1, <2>2 DEF StreamsInv, StreamsTyped
  <1>5. LeasesHeld'
    <2> SUFFICES ASSUME mode = "enforce" /\ ~lost, NEW s \in Stream
                 PROVE  Held(stream'[s], lease'[s])
      BY <1>1 DEF LeasesHeld, Held, Behind, Interval
    <2> QED BY <1>3
  <1>6. OnlyObserved'
    BY <1>1, <1>3 DEF OnlyObserved, Observed
  <1>7. LeasesCounted'
    <2>1. Leased' \subseteq Leased
      <3>1. \A s \in Stream : lease'[s] > 0 => lease[s] > 0
        BY <1>1
      <3> QED BY <3>1 DEF Leased
    <2> QED BY <1>1, <2>1, FewerLeases DEF StreamsInv
  <1> QED BY <1>4, <1>5, <1>6, <1>7 DEF StreamsInv

LEMMA StreamsBegin ==
    ASSUME StreamsInit
    PROVE  StreamsInv
  <1>1. Away \in StreamType /\ Observed(Away) /\ Held(Away, 0)
    BY AtRest DEF Away
  <1>2. /\ mode \in {"enforce", "shadow"} /\ capacity \in Capacity /\ from \in [Stream -> Address]
        /\ lease = [s \in Stream |-> 0] /\ stream = [s \in Stream |-> Away] /\ lost = FALSE
    BY DEF StreamsInit
  <1>3. StreamsTyped
    BY <1>1, <1>2 DEF StreamsTyped
  <1>4. LeasesHeld /\ OnlyObserved
    BY <1>1, <1>2 DEF LeasesHeld, OnlyObserved
  <1>5. LeasesCounted
    <2>1. Leased = {} /\ \A a \in Address : LeasedFrom(a) = {}
      BY <1>2 DEF Leased, LeasedFrom
    <2>2. IsFiniteSet({}) /\ Cardinality({}) = 0
      BY FS_EmptySet
    <2> QED BY <1>3, <2>1, <2>2, Capacities DEF LeasesCounted
  <1> QED BY <1>3, <1>4, <1>5 DEF StreamsInv

LEMMA StreamsSteps ==
    ASSUME StreamsInv, [StreamsNext]_streams
    PROVE  StreamsInv'
  <1>1. CASE Tick \/ ApiCrash \/ RedisLoss
    BY <1>1, TickKeeps, ApiCrashKeeps, RedisLossKeeps
  <1>2. CASE \E s \in Stream : Open(s) \/ Acquire(s) \/ Extend(s) \/ Leave(s) \/ Retry(s)
    BY <1>2, OpenKeeps, AcquireKeeps, ExtendKeeps, LeaveKeeps, RetryKeeps
  <1>3. CASE \E s \in Stream : StreamStep(s)
    BY <1>3, AdmitKeeps, RenewKeeps, AnswerKeeps, ReleaseKeeps DEF StreamStep
  <1>4. CASE UNCHANGED streams
    BY <1>4 DEF streams, StreamsInv, StreamsTyped, LeasesHeld, Held, Behind, Interval, LeasesCounted,
             Leased, LeasedFrom, OnlyObserved, Observed
  <1> QED BY <1>1, <1>2, <1>3, <1>4 DEF StreamsNext

(* The leases of streams: in enforce mode, while Redis keeps its data,       *)
(* failed and late calls, failed releases and crashes never let more streams *)
(* be open than one address or the service may have, and in shadow mode no   *)
(* stream is refused or ended (LeaseManager and renew_until_lost).           *)
THEOREM StreamsKeepLimits == StreamsSpec => [](OpenWithinLimits /\ ShadowServes)
  <1>1. StreamsInit => StreamsInv
    BY StreamsBegin
  <1>2. StreamsInv /\ [StreamsNext]_streams => StreamsInv'
    BY StreamsSteps
  <1>3. StreamsInv => OpenWithinLimits /\ ShadowServes
    <2> SUFFICES ASSUME StreamsInv PROVE OpenWithinLimits /\ ShadowServes
      OBVIOUS
    <2>1. ShadowServes
      BY DEF StreamsInv, OnlyObserved, Observed, ShadowServes
    <2>2. ASSUME mode = "enforce" /\ ~lost
          PROVE  /\ Cardinality({s \in Stream : Served(s)}) <= capacity.all
                 /\ \A a \in Address :
                       Cardinality({s \in Stream : Served(s) /\ from[s] = a}) <= capacity.each
      <3>1. ASSUME NEW s \in Stream, Served(s) PROVE s \in Leased
        <4>1. stream[s] \in StreamType /\ lease[s] \in Nat /\ Held(stream[s], lease[s])
          BY <2>2 DEF StreamsInv, StreamsTyped, LeasesHeld
        <4> QED BY <3>1, <4>1, OpenIsLeased DEF Served, Leased
      <3>2. /\ IsFiniteSet(Leased) /\ Cardinality(Leased) <= capacity.all
            /\ \A a \in Address : Cardinality(LeasedFrom(a)) <= capacity.each
        BY <2>2 DEF StreamsInv, LeasesCounted
      <3>3. capacity.each \in Nat /\ capacity.all \in Nat
        BY Capacities DEF StreamsInv
      <3>4. Cardinality({s \in Stream : Served(s)}) <= capacity.all
        <4> DEFINE opened == {s \in Stream : Served(s)}
        <4>1. opened \subseteq Leased
          BY <3>1
        <4> HIDE DEF opened
        <4>2. /\ Cardinality(opened) <= Cardinality(Leased) /\ Cardinality(opened) \in Nat
              /\ Cardinality(Leased) \in Nat
          BY <3>2, <4>1, FS_Subset, FS_CardinalityType
        <4>3. Cardinality(opened) <= capacity.all
          BY <3>2, <3>3, <4>2
        <4> QED BY <4>3 DEF opened
      <3>5. ASSUME NEW a \in Address
            PROVE  Cardinality({s \in Stream : Served(s) /\ from[s] = a}) <= capacity.each
        <4> DEFINE opened == {s \in Stream : Served(s) /\ from[s] = a}
        <4>1. opened \subseteq LeasedFrom(a) /\ LeasedFrom(a) \subseteq Leased
          BY <3>1 DEF LeasedFrom
        <4> HIDE DEF opened
        <4>2. IsFiniteSet(LeasedFrom(a))
          BY <3>2, <4>1, FS_Subset
        <4>3. /\ Cardinality(opened) <= Cardinality(LeasedFrom(a)) /\ Cardinality(opened) \in Nat
              /\ Cardinality(LeasedFrom(a)) \in Nat
          BY <4>1, <4>2, FS_Subset, FS_CardinalityType
        <4>4. Cardinality(opened) <= capacity.each
          BY <3>2, <3>3, <4>3
        <4> QED BY <4>4 DEF opened
      <3> QED BY <3>4, <3>5
    <2> QED BY <2>1, <2>2 DEF OpenWithinLimits
  <1> QED BY <1>1, <1>2, <1>3, PTL DEF StreamsSpec

-----------------------------------------------------------------------------
(* Trackers                                                                  *)

TrackersSpec == TrackersInit /\ [][TrackersNext]_trackers

Jobs == UNION {r.jobs : r \in {x \in ModelReply : x.state = "read"}}
Urls == {j.url : j \in Jobs}
CheckType == [baseline : BOOLEAN, jobs : SUBSET Jobs,
              changes : SUBSET [url : Urls, before : SUBSET Jobs, after : SUBSET Jobs,
                                kind : {"added", "missing", "updated"}]]
Phases == {"begin", "lock", "load", "check", "save", "unlock", "fail", "failed", "ended", "killed"}
Working == {"load", "check", "save", "unlock", "fail"}

TrackersTyped ==
    /\ document \in Seq(CheckType)
    /\ lockFile \in Command \cup {"none"}
    /\ command \in [Command -> [at : Phases, history : Seq(CheckType), check : CheckType \cup {NoFile}]]

\* a check tells how its jobs differ from those of a check before it
Explains(check, before) ==
    LET gone == UNION {x.before : x \in check.changes}
        come == UNION {x.after : x \in check.changes}
    IN  /\ ~check.baseline /\ check.jobs = (before \ gone) \cup come
        /\ \A x \in check.changes : x.before # x.after /\ x.before \subseteq before

Follows(history, check) ==
    /\ check \in CheckType
    /\ IF history = NoFile THEN check.baseline ELSE Explains(check, history[Len(history)].jobs)

\* what a command holds while others may run
CommandOK(c) ==
    /\ command[c].at \in Working => lockFile = c
    /\ command[c].at \in {"check", "save"} => command[c].history = document
    /\ command[c].at = "save" => Follows(document, command[c].check)
    /\ command[c].at = "lock" =>
         /\ document = NoFile /\ command[c].history = NoFile /\ Follows(NoFile, command[c].check)
         /\ \A d \in Command \ {c} : command[d].at = "begin"

TrackersInv == TrackersTyped /\ (\A c \in Command : CommandOK(c)) /\ HistoryExplains

(* CheckOf() explains its jobs by those of the last check it was given.      *)
LEMMA CheckFollows ==
    ASSUME NEW history \in Seq(CheckType), NEW jobs \in SUBSET Jobs
    PROVE  Follows(history, CheckOf(history, jobs))
  <1> DEFINE Of(set, url) == {j \in set : j.url = url}
             previous == Previous(history)
             urls == {j.url : j \in previous \cup jobs}
             changed == {v \in urls : Of(previous, v) # Of(jobs, v)}
             changes == {Change(u, Of(previous, u), Of(jobs, u)) : u \in changed}
             check == CheckOf(history, jobs)
  <1>1. CASE history = NoFile
    <2>1. check = [baseline |-> TRUE, jobs |-> jobs, changes |-> {}]
      BY <1>1 DEF CheckOf
    <2> HIDE DEF check
    <2>2. check \in CheckType /\ check.baseline
      BY <2>1 DEF CheckType
    <2> QED BY <1>1, <2>2 DEF Follows, check
  <1>2. CASE history # NoFile
    <2>1. check = [baseline |-> FALSE, jobs |-> jobs, changes |-> changes]
      BY <1>2 DEF CheckOf
    <2>2. previous = history[Len(history)].jobs /\ previous \in SUBSET Jobs
      <3>1. Len(history) \in 1 .. Len(history)
        BY <1>2 DEF NoFile
      <3>2. history[Len(history)] \in CheckType
        BY <3>1
      <3> QED BY <1>2, <3>2 DEF Previous, Snapshot, CheckType
    <2> HIDE DEF check, previous
    <2>3. \A u \in changed : /\ Change(u, Of(previous, u), Of(jobs, u)).before = Of(previous, u)
                             /\ Change(u, Of(previous, u), Of(jobs, u)).after = Of(jobs, u)
      BY DEF Change
    <2>4. /\ \A j \in UNION {x.before : x \in changes} : j \in previous /\ j.url \in changed
          /\ \A j \in previous : j.url \in changed => j \in UNION {x.before : x \in changes}
      <3>1. ASSUME NEW j \in UNION {x.before : x \in changes} PROVE j \in previous /\ j.url \in changed
        <4>1. PICK x \in changes : j \in x.before
          OBVIOUS
        <4>2. PICK u \in changed : x = Change(u, Of(previous, u), Of(jobs, u))
          OBVIOUS
        <4> QED BY <2>3, <4>1, <4>2
      <3>2. ASSUME NEW j \in previous, j.url \in changed PROVE j \in UNION {x.before : x \in changes}
        <4> DEFINE x == Change(j.url, Of(previous, j.url), Of(jobs, j.url))
        <4>1. x \in changes
          BY <3>2
        <4>2. j \in x.before
          BY <2>3, <3>2
        <4> QED BY <4>1, <4>2
      <3> QED BY <3>1, <3>2
    <2>5. /\ \A j \in UNION {x.after : x \in changes} : j \in jobs /\ j.url \in changed
          /\ \A j \in jobs : j.url \in changed => j \in UNION {x.after : x \in changes}
      <3>1. ASSUME NEW j \in UNION {x.after : x \in changes} PROVE j \in jobs /\ j.url \in changed
        <4>1. PICK x \in changes : j \in x.after
          OBVIOUS
        <4>2. PICK u \in changed : x = Change(u, Of(previous, u), Of(jobs, u))
          OBVIOUS
        <4> QED BY <2>3, <4>1, <4>2
      <3>2. ASSUME NEW j \in jobs, j.url \in changed PROVE j \in UNION {x.after : x \in changes}
        <4> DEFINE x == Change(j.url, Of(previous, j.url), Of(jobs, j.url))
        <4>1. x \in changes
          BY <3>2
        <4>2. j \in x.after
          BY <2>3, <3>2
        <4> QED BY <4>1, <4>2
      <3> QED BY <3>1, <3>2
    <2>6. \A j \in previous \cup jobs : j.url \notin changed => (j \in previous <=> j \in jobs)
      <3> SUFFICES ASSUME NEW j \in previous \cup jobs, j.url \notin changed
                   PROVE  j \in previous <=> j \in jobs
        OBVIOUS
      <3>1. Of(previous, j.url) = Of(jobs, j.url)
        OBVIOUS
      <3> QED BY <3>1
    <2>7. \A x \in changes : x.before # x.after /\ x.before \subseteq previous
      <3> SUFFICES ASSUME NEW x \in changes PROVE x.before # x.after /\ x.before \subseteq previous
        OBVIOUS
      <3>1. PICK u \in changed : x = Change(u, Of(previous, u), Of(jobs, u))
        OBVIOUS
      <3>2. x.before = Of(previous, u) /\ x.after = Of(jobs, u)
        BY <2>3, <3>1
      <3> QED BY <3>2
    <2>8. changes \subseteq [url : Urls, before : SUBSET Jobs, after : SUBSET Jobs,
                             kind : {"added", "missing", "updated"}]
      <3> SUFFICES ASSUME NEW u \in changed
                   PROVE  Change(u, Of(previous, u), Of(jobs, u)) \in
                            [url : Urls, before : SUBSET Jobs, after : SUBSET Jobs,
                             kind : {"added", "missing", "updated"}]
        OBVIOUS
      <3>1. u \in Urls /\ Of(previous, u) \in SUBSET Jobs /\ Of(jobs, u) \in SUBSET Jobs
        BY <2>2 DEF Urls
      <3> HIDE DEF Of, changed
      <3> QED BY <3>1 DEF Change
    <2> HIDE DEF changes
    <2>9. check \in CheckType
      BY <2>1, <2>8 DEF CheckType
    <2>10. jobs = (previous \ UNION {x.before : x \in changes}) \cup UNION {x.after : x \in changes}
      <3> DEFINE gone == UNION {x.before : x \in changes}
                 come == UNION {x.after : x \in changes}
      <3>1. \A j : j \in jobs => j \in previous \ gone \/ j \in come
        BY <2>4, <2>5, <2>6
      <3>2. \A j : j \in previous \ gone => j \in jobs
        BY <2>4, <2>6
      <3>3. \A j : j \in come => j \in jobs
        BY <2>5
      <3> HIDE DEF gone, come
      <3>4. jobs = (previous \ gone) \cup come
        BY <3>1, <3>2, <3>3
      <3> QED BY <3>4 DEF gone, come
    <2>11. Explains(check, previous)
      BY <2>1, <2>7, <2>10 DEF Explains
    <2> QED BY <1>2, <2>2, <2>9, <2>11 DEF Follows, check
  <1> QED BY <1>1, <1>2

\* HistoryExplains, said of any history
Chained(history) ==
    /\ \A i \in 1 .. Len(history) - 1 : Explains(history[i + 1], history[i].jobs)
    /\ history # NoFile /\ Len(history) < KeptChecks => history[1].baseline

LEMMA DocumentChained == HistoryExplains <=> Chained(document)
  BY DEF HistoryExplains, Chained, Explains

(* A save drops the oldest check at the limit, and nothing else.             *)
LEMMA SaveExtends ==
    ASSUME NEW history \in Seq(CheckType), Chained(history), NEW check, Follows(history, check)
    PROVE  LET saved == LastOf(Append(history, check))
           IN  saved \in Seq(CheckType) /\ saved # NoFile /\ Chained(saved)
  <1> DEFINE longer == Append(history, check)
             saved == LastOf(longer)
  <1>1. check \in CheckType
    BY DEF Follows
  <1>2. /\ longer \in Seq(CheckType) /\ Len(longer) = Len(history) + 1
        /\ longer[Len(history) + 1] = check
        /\ \A i \in 1 .. Len(history) : longer[i] = history[i]
    BY <1>1
  <1> HIDE DEF longer
  <1>3. PICK kept \in Nat : kept = KeptChecks /\ kept > 0
    BY TrackerAssumption
  <1>4. PICK old \in Nat : old = Len(history)
    BY LenProperties
  <1>5. Len(longer) = old + 1
    BY <1>2, <1>4
  <1>6. PICK first \in Nat : first = IF old + 1 > kept THEN old + 1 - kept + 1 ELSE 1
    <2>1. CASE old + 1 > kept
      <3>1. old + 1 - kept + 1 \in Nat
        BY <1>3, <1>4, <2>1
      <3> QED BY <2>1, <3>1
    <2>2. CASE ~(old + 1 > kept)
      BY <2>2
    <2> QED BY <2>1, <2>2
  <1>7. /\ first \in Nat /\ old \in Nat /\ 1 <= first /\ first <= old + 1
        /\ first = 1 \/ (old + 1 > kept /\ first = old + 1 - kept + 1)
    BY <1>3, <1>4, <1>6
  <1>8. saved = SubSeq(longer, first, old + 1)
    BY <1>3, <1>5, <1>6 DEF LastOf
  <1> HIDE DEF saved
  <1>9. /\ saved \in Seq(CheckType) /\ Len(saved) = old + 1 - first + 1
        /\ \A i \in 1 .. old + 1 - first + 1 : saved[i] = longer[first + i - 1]
    <2>1. 1 <= first /\ first <= old + 1 /\ old + 1 <= Len(longer)
      BY <1>4, <1>5, <1>7
    <2> QED BY <1>2, <1>5, <1>6, <1>8, <2>1, SubSeqProperties
  <1>10. PICK new \in Nat : new = old + 1 - first + 1 /\ new > 0
    <2>1. old + 1 - first + 1 \in Nat /\ old + 1 - first + 1 > 0
      BY <1>7
    <2> QED BY <2>1
  <1>11. Len(saved) = new
    BY <1>9, <1>10
  <1>12. \A i \in 1 .. new : saved[i] = longer[first + i - 1]
    BY <1>9, <1>10
  <1>13. saved # NoFile
    BY <1>10, <1>11 DEF NoFile
  <1>14. \A i \in 1 .. old : Explains(longer[i + 1], longer[i].jobs)
    <2> SUFFICES ASSUME NEW i \in 1 .. old
                 PROVE  Explains(longer[i + 1], longer[i].jobs)
      OBVIOUS
    <2>1. longer[i] = history[i]
      BY <1>2, <1>4
    <2>2. CASE i < old
      <3>1. i \in 1 .. Len(history) - 1 /\ i + 1 \in 1 .. Len(history)
        BY <1>4, <2>2
      <3>2. longer[i + 1] = history[i + 1]
        BY <1>2, <3>1
      <3> QED BY <2>1, <3>1, <3>2 DEF Chained
    <2>3. CASE i = old
      <3>1. history # NoFile
        BY <1>4, <2>3 DEF NoFile
      <3>2. longer[i + 1] = check
        BY <1>2, <1>4, <2>3
      <3> QED BY <1>4, <2>1, <2>3, <3>1, <3>2 DEF Follows
    <2> QED BY <1>4, <2>2, <2>3
  <1>15. \A i \in 1 .. Len(saved) - 1 : Explains(saved[i + 1], saved[i].jobs)
    <2> SUFFICES ASSUME NEW i \in 1 .. new - 1
                 PROVE  Explains(saved[i + 1], saved[i].jobs)
      BY <1>11
    <2>1. PICK k \in 1 .. old : k = first + i - 1
      <3>1. first + i - 1 \in 1 .. old
        BY <1>10, <1>7
      <3> QED BY <3>1
    <2>2. i \in 1 .. new /\ i + 1 \in 1 .. new /\ k + 1 = first + (i + 1) - 1
      BY <1>6, <1>10, <2>1
    <2>3. saved[i] = longer[k] /\ saved[i + 1] = longer[k + 1]
      BY <1>12, <2>1, <2>2
    <2> QED BY <1>14, <2>3
  <1>16. Len(saved) < KeptChecks => saved[1].baseline
    <2> SUFFICES ASSUME new < kept PROVE saved[1].baseline
      BY <1>3, <1>11
    <2>1. first = 1 /\ new = old + 1
      <3>1. CASE first = 1
        BY <1>4, <1>10, <3>1
      <3>2. CASE old + 1 > kept /\ first = old + 1 - kept + 1
        <4>1. new = kept
          BY <1>3, <1>4, <1>10, <3>2
        <4> QED BY <1>3, <1>10, <4>1
      <3> QED BY <1>7, <3>1, <3>2
    <2>2. saved[1] = longer[1]
      <3>1. 1 \in 1 .. new /\ first + 1 - 1 = 1
        BY <1>10, <2>1
      <3> QED BY <1>12, <3>1
    <2>3. CASE old = 0
      <3>1. history = NoFile
        BY <1>4, <2>3, EmptySeq DEF NoFile
      <3>2. longer[1] = check
        BY <1>2, <1>4, <2>3
      <3> QED BY <2>2, <3>1, <3>2 DEF Follows
    <2>4. CASE old # 0
      <3>1. history # NoFile
        BY <1>4, <2>4 DEF NoFile
      <3>2. 1 \in 1 .. Len(history)
        BY <1>4, <2>4
      <3>3. Len(history) < KeptChecks
        BY <1>3, <1>4, <2>1
      <3>4. longer[1] = history[1]
        BY <1>2, <3>2
      <3> QED BY <2>2, <3>1, <3>3, <3>4 DEF Chained
    <2> QED BY <2>3, <2>4
  <1>17. Chained(saved)
    BY <1>15, <1>16 DEF Chained
  <1> QED BY <1>9, <1>13, <1>17 DEF saved, longer

(* A page that was read yields jobs of an answer of the model.               *)
LEMMA ReadJobs ==
    ASSUME NEW reply \in ModelReply, NEW links, ReadAs(reply, links)
    PROVE  reply.jobs \in SUBSET Jobs
  BY DEF ReadAs, Jobs

-----------------------------------------------------------------------------
(* One command changes: the others keep what they hold if the document and   *)
(* the lock do.                                                              *)
LEMMA OthersKeep ==
    ASSUME TrackersInv, NEW d \in Command, command'[d] = command[d], document' = document,
           command[d].at # "lock", command[d].at \in Working => lockFile' = lockFile
    PROVE  CommandOK(d)'
  <1>1. CommandOK(d)
    BY DEF TrackersInv
  <1>2. (command[d].at \in Working => lockFile = d)'
    BY <1>1 DEF CommandOK, Working
  <1> QED BY <1>1, <1>2 DEF CommandOK, Follows, CheckType, Explains, Jobs, Urls

LEMMA CommandMoves ==
    ASSUME TrackersInv, NEW c \in Command,
           NEW x \in [at : Phases, history : Seq(CheckType), check : CheckType \cup {NoFile}],
           command' = [command EXCEPT ![c] = x], document' = document,
           lockFile' \in Command \cup {"none"},
           \A d \in Command \ {c} : command[d].at \in Working => lockFile' = lockFile,
           \A d \in Command \ {c} : command[d].at # "lock",
           CommandOK(c)'
    PROVE  TrackersInv'
  <1>1. command'[c] = x /\ \A d \in Command \ {c} : command'[d] = command[d]
    BY DEF TrackersInv, TrackersTyped
  <1>2. \A d \in Command \ {c} : CommandOK(d)'
    BY <1>1, OthersKeep
  <1>3. TrackersTyped'
    BY DEF TrackersInv, TrackersTyped, CheckType, Jobs, Urls
  <1>4. HistoryExplains'
    BY DEF TrackersInv, HistoryExplains
  <1> QED BY <1>2, <1>3, <1>4 DEF TrackersInv

\* nobody waits with a baseline while another command does anything
LEMMA Alone ==
    ASSUME TrackersInv, NEW c \in Command, command[c].at # "begin" \/ document # NoFile
    PROVE  \A d \in Command \ {c} : command[d].at # "lock"
  BY DEF TrackersInv, CommandOK

LEMMA CommandTyped ==
    ASSUME TrackersInv, NEW c \in Command
    PROVE  /\ command[c] \in [at : Phases, history : Seq(CheckType), check : CheckType \cup {NoFile}]
           /\ DOMAIN command = Command
  BY DEF TrackersInv, TrackersTyped

\* the tracker's steps, and a command that ends or waits again
LEMMA CommandLeaves ==
    ASSUME TrackersInv, NEW c \in Command, NEW at \in Phases \ {"check", "save", "lock"},
           command' = [command EXCEPT ![c].at = at], document' = document, lockFile' = lockFile,
           command[c].at # "begin" \/ document # NoFile \/ \A d \in Command : command[d].at = "begin",
           at \in Working => lockFile = c
    PROVE  TrackersInv'
  <1> DEFINE x == [command[c] EXCEPT !.at = at]
  <1>1. x \in [at : Phases, history : Seq(CheckType), check : CheckType \cup {NoFile}] /\ x.at = at
    BY CommandTyped
  <1>2. command' = [command EXCEPT ![c] = x] /\ command'[c] = x
    BY CommandTyped
  <1>3. \A d \in Command \ {c} : command[d].at # "lock"
    BY Alone
  <1>4. lockFile' \in Command \cup {"none"}
    BY DEF TrackersInv, TrackersTyped
  <1> HIDE DEF x
  <1>5. CommandOK(c)'
    BY <1>1, <1>2 DEF CommandOK
  <1> QED BY <1>1, <1>2, <1>3, <1>4, <1>5, CommandMoves

LEMMA PlanKeeps ==
    ASSUME TrackersInv, NEW c \in Command, NEW chain \in Chain, NEW reply \in ModelReply,
           Plan(c, chain, reply)
    PROVE  TrackersInv'
  <1>1. /\ document = NoFile /\ document' = document /\ lockFile' = lockFile
        /\ \A d \in Command : command[d].at = "begin"
    BY DEF Plan
  <1>2. CASE Fetched(chain) /\ ReadAs(reply, LinksOf(chain))
    <2> DEFINE check == CheckOf(NoFile, reply.jobs)
               x == [at |-> "lock", history |-> NoFile, check |-> check]
    <2>1. Follows(NoFile, check)
      <3>1. NoFile \in Seq(CheckType)
        BY DEF NoFile
      <3> QED BY <1>2, <3>1, ReadJobs, CheckFollows
    <2>2. command' = [command EXCEPT ![c] = x]
      BY <1>2 DEF Plan
    <2> HIDE DEF check
    <2>3. x \in [at : Phases, history : Seq(CheckType), check : CheckType \cup {NoFile}]
      BY <2>1 DEF Follows, Phases, NoFile
    <2>4. command'[c] = x /\ \A d \in Command \ {c} : command'[d] = command[d]
      BY <2>2, CommandTyped
    <2>5. CommandOK(c)'
      <3>1. (document = NoFile)' /\ command'[c].at = "lock" /\ command'[c].history = NoFile
        BY <1>1, <2>4
      <3>2. command'[c].check = check
        BY <2>4
      <3>3. \A d \in Command \ {c} : command'[d].at = "begin"
        BY <1>1, <2>4
      <3>4. Follows(NoFile, command[c].check)'
        BY <2>1, <3>2 DEF Follows, Explains, CheckType, Jobs, Urls, NoFile
      <3> QED BY <3>1, <3>3, <3>4 DEF CommandOK, Working
    <2>6. lockFile' \in Command \cup {"none"}
      BY <1>1 DEF TrackersInv, TrackersTyped
    <2>7. \A d \in Command \ {c} : command[d].at # "lock" /\ command[d].at \notin Working
      BY <1>1 DEF Working
    <2> HIDE DEF x
    <2> QED BY <1>1, <2>2, <2>3, <2>5, <2>6, <2>7, CommandMoves
  <1>3. CASE ~(Fetched(chain) /\ ReadAs(reply, LinksOf(chain)))
    <2>1. command' = [command EXCEPT ![c].at = "failed"]
      BY <1>3 DEF Plan, Goes
    <2>2. "failed" \in Phases \ {"check", "save", "lock"} /\ "failed" \notin Working
      BY DEF Phases, Working
    <2> QED BY <1>1, <2>1, <2>2, CommandLeaves
  <1> QED BY <1>2, <1>3

LEMMA LockKeeps ==
    ASSUME TrackersInv, NEW c \in Command, Lock(c)
    PROVE  TrackersInv'
  <1>1. /\ document' = document
        /\ command[c].at = "lock" \/ (command[c].at = "begin" /\ document # NoFile)
    BY DEF Lock
  <1>2. CASE lockFile = "none"
    <2> DEFINE at == IF command[c].at = "lock" THEN "save" ELSE "load"
               x == [command[c] EXCEPT !.at = at]
    <2>1. lockFile' = c /\ command' = [command EXCEPT ![c].at = at]
      BY <1>2 DEF Lock, Free, Goes
    <2>2. /\ x \in [at : Phases, history : Seq(CheckType), check : CheckType \cup {NoFile}]
          /\ x.at = at /\ x.history = command[c].history /\ x.check = command[c].check
      BY CommandTyped DEF Phases
    <2>3. command' = [command EXCEPT ![c] = x] /\ command'[c] = x
      BY <2>1, CommandTyped
    <2>4. \A d \in Command \ {c} : command[d].at # "lock"
      BY <1>1, Alone
    <2>5. \A d \in Command \ {c} : command[d].at \notin Working
      BY <1>2, TrackerAssumption DEF TrackersInv, CommandOK
    <2>6. CommandOK(c)'
      <3>1. CASE command[c].at = "lock"
        <4>1. /\ document = NoFile /\ command[c].history = NoFile
              /\ Follows(NoFile, command[c].check) /\ at = "save"
          BY <3>1 DEF TrackersInv, CommandOK
        <4>2. /\ command'[c].at = "save" /\ command'[c].history = document'
              /\ Follows(document', command'[c].check)
          BY <1>1, <2>2, <2>3, <4>1
        <4> QED BY <2>1, <4>2 DEF CommandOK, Follows, Explains, CheckType, Jobs, Urls
      <3>2. CASE command[c].at # "lock"
        <4>1. command'[c].at = "load"
          BY <2>2, <2>3, <3>2
        <4> QED BY <2>1, <4>1 DEF CommandOK
      <3> QED BY <3>1, <3>2
    <2> HIDE DEF x
    <2> QED BY <1>1, <2>1, <2>2, <2>3, <2>4, <2>5, <2>6, CommandMoves
  <1>3. CASE lockFile # "none"
    <2>1. lockFile' = lockFile /\ command' = [command EXCEPT ![c].at = "failed"]
      BY <1>3 DEF Lock, Free, Goes
    <2>2. "failed" \in Phases \ {"check", "save", "lock"} /\ "failed" \notin Working
      BY DEF Phases, Working
    <2> QED BY <1>1, <2>1, <2>2, CommandLeaves
  <1> QED BY <1>2, <1>3

LEMMA LoadKeeps ==
    ASSUME TrackersInv, NEW c \in Command, Load(c)
    PROVE  TrackersInv'
  <1> DEFINE x == [command[c] EXCEPT !.at = "check", !.history = document]
  <1>1. command[c].at = "load" /\ document' = document /\ lockFile' = lockFile
    BY DEF Load
  <1>2. lockFile = c /\ lockFile' \in Command \cup {"none"} /\ document \in Seq(CheckType)
    BY <1>1 DEF TrackersInv, TrackersTyped, CommandOK, Working
  <1>3. /\ x \in [at : Phases, history : Seq(CheckType), check : CheckType \cup {NoFile}]
        /\ x.at = "check" /\ x.history = document
    BY <1>2, CommandTyped DEF Phases
  <1>4. command' = [command EXCEPT ![c] = x] /\ command'[c] = x
    BY CommandTyped DEF Load
  <1>5. \A d \in Command \ {c} : command[d].at # "lock"
    BY <1>1, Alone
  <1>6. CommandOK(c)'
    BY <1>1, <1>2, <1>3, <1>4 DEF CommandOK
  <1> HIDE DEF x
  <1> QED BY <1>1, <1>2, <1>3, <1>4, <1>5, <1>6, CommandMoves

LEMMA TrackerCheckKeeps ==
    ASSUME TrackersInv, NEW c \in Command, NEW chain \in Chain, NEW reply \in ModelReply,
           CheckTracker(c, chain, reply)
    PROVE  TrackersInv'
  <1>1. command[c].at = "check" /\ document' = document /\ lockFile' = lockFile
    BY DEF CheckTracker
  <1>2. /\ lockFile = c /\ lockFile' \in Command \cup {"none"} /\ document \in Seq(CheckType)
        /\ command[c].history = document
    BY <1>1 DEF TrackersInv, TrackersTyped, CommandOK, Working
  <1>3. CASE Fetched(chain) /\ ReadAs(reply, LinksOf(chain))
    <2> DEFINE check == CheckOf(command[c].history, reply.jobs)
               x == [command[c] EXCEPT !.at = "save", !.check = check]
    <2>1. Follows(document, check)
      BY <1>2, <1>3, ReadJobs, CheckFollows
    <2>2. command' = [command EXCEPT ![c] = x] /\ command'[c] = x
      BY <1>3, CommandTyped DEF CheckTracker
    <2> HIDE DEF check
    <2>3. /\ x \in [at : Phases, history : Seq(CheckType), check : CheckType \cup {NoFile}]
          /\ x.at = "save" /\ x.history = document /\ x.check = check
      BY <1>2, <2>1, CommandTyped DEF Phases, Follows
    <2>4. \A d \in Command \ {c} : command[d].at # "lock"
      BY <1>1, Alone
    <2> HIDE DEF x
    <2>5. CommandOK(c)'
      <3>1. Follows(document', command'[c].check)
        BY <1>1, <2>1, <2>2, <2>3
      <3> QED BY <1>1, <1>2, <2>2, <2>3, <3>1 DEF CommandOK, Follows, Explains, CheckType, Jobs, Urls
    <2> QED BY <1>1, <1>2, <2>2, <2>3, <2>4, <2>5, CommandMoves
  <1>4. CASE ~(Fetched(chain) /\ ReadAs(reply, LinksOf(chain)))
    <2> DEFINE at == IF c \in Watches THEN "unlock" ELSE "fail"
    <2>1. command' = [command EXCEPT ![c].at = at]
      BY <1>4 DEF CheckTracker, Goes
    <2>2. at \in Phases \ {"check", "save", "lock"}
      BY DEF Phases
    <2> HIDE DEF at
    <2> QED BY <1>1, <1>2, <2>1, <2>2, CommandLeaves
  <1> QED BY <1>3, <1>4

LEMMA SaveKeeps ==
    ASSUME TrackersInv, NEW c \in Command, Save(c)
    PROVE  TrackersInv'
  <1>1. /\ command[c].at = "save" /\ lockFile' = lockFile
        /\ command' = [command EXCEPT ![c].at = "unlock"]
    BY DEF Save, Goes
  <1>2. /\ lockFile = c /\ command[c].history = document /\ document \in Seq(CheckType)
        /\ Follows(document, command[c].check)
    BY <1>1 DEF TrackersInv, TrackersTyped, CommandOK, Working
  <1>3. document' = LastOf(Append(document, command[c].check))
    BY <1>2 DEF Save
  <1>4. document' \in Seq(CheckType) /\ Chained(document')
    <2>1. Chained(document)
      BY DocumentChained DEF TrackersInv
    <2>2. \A check : Follows(document, check) =>
            /\ LastOf(Append(document, check)) \in Seq(CheckType)
            /\ Chained(LastOf(Append(document, check)))
      BY <1>2, <2>1, SaveExtends
    <2> QED BY <1>2, <1>3, <2>2
  <1>5. HistoryExplains'
    BY <1>4 DEF Chained, HistoryExplains, Explains
  <1>6. \A d \in Command : command'[d].at # "lock" /\ command'[d].at \notin {"check", "save"}
                           /\ (command'[d].at \in Working => lockFile' = d)
    <2> SUFFICES ASSUME NEW d \in Command
                 PROVE  command'[d].at # "lock" /\ command'[d].at \notin {"check", "save"}
                        /\ (command'[d].at \in Working => lockFile' = d)
      OBVIOUS
    <2>1. CASE d = c
      <3>1. command'[d].at = "unlock"
        BY <1>1, <2>1, CommandTyped
      <3> QED BY <1>1, <1>2, <2>1, <3>1
    <2>2. CASE d # c
      <3>1. command'[d] = command[d]
        BY <1>1, <2>2, CommandTyped
      <3>2. command[d].at # "lock"
        BY <1>1, <2>2, Alone
      <3>3. command[d].at \notin Working
        BY <1>2, <2>2 DEF TrackersInv, CommandOK
      <3> QED BY <3>1, <3>2, <3>3 DEF Working
    <2> QED BY <2>1, <2>2
  <1>7. \A d \in Command : CommandOK(d)'
    BY <1>6 DEF CommandOK
  <1>8. TrackersTyped'
    <2>1. command' \in [Command -> [at : Phases, history : Seq(CheckType), check : CheckType \cup {NoFile}]]
      <3> DEFINE x == [command[c] EXCEPT !.at = "unlock"]
      <3>1. x \in [at : Phases, history : Seq(CheckType), check : CheckType \cup {NoFile}]
        BY CommandTyped DEF Phases
      <3>2. command' = [command EXCEPT ![c] = x]
        BY <1>1, CommandTyped
      <3> HIDE DEF x
      <3> QED BY <3>1, <3>2 DEF TrackersInv, TrackersTyped
    <2>2. lockFile' \in Command \cup {"none"}
      BY <1>1 DEF TrackersInv, TrackersTyped
    <2> QED BY <1>4, <2>1, <2>2 DEF TrackersTyped, CheckType, Jobs, Urls
  <1> QED BY <1>5, <1>7, <1>8 DEF TrackersInv

LEMMA UnlockKeeps ==
    ASSUME TrackersInv, NEW c \in Command, Unlock(c)
    PROVE  TrackersInv'
  <1> DEFINE at == IF command[c].at = "fail" THEN "failed" ELSE IF c \in Watches THEN "begin" ELSE "ended"
             x == [Waiting EXCEPT !.at = at]
  <1>1. command[c].at \in {"unlock", "fail"} /\ document' = document /\ lockFile' = "none"
    BY DEF Unlock
  <1>2. command' = [command EXCEPT ![c] = x] /\ command'[c] = x
    BY CommandTyped DEF Unlock
  <1>3. /\ x \in [at : Phases, history : Seq(CheckType), check : CheckType \cup {NoFile}]
        /\ x.at \in {"failed", "begin", "ended"}
    <2>1. at \in {"failed", "begin", "ended"} /\ at \in Phases
      BY DEF Phases
    <2>2. NoFile \in Seq(CheckType)
      BY DEF NoFile
    <2>3. x = [at |-> at, history |-> NoFile, check |-> NoFile]
      BY DEF Waiting
    <2> HIDE DEF at, x
    <2> QED BY <2>1, <2>2, <2>3
  <1>4. \A d \in Command \ {c} : command[d].at # "lock"
    BY <1>1, Alone
  <1>5. \A d \in Command \ {c} : command[d].at \notin Working
    BY <1>1 DEF TrackersInv, CommandOK, Working
  <1> HIDE DEF x
  <1>6. CommandOK(c)'
    BY <1>2, <1>3 DEF CommandOK, Working
  <1> QED BY <1>1, <1>2, <1>3, <1>4, <1>5, <1>6, CommandMoves

\* no command holds the lock that is removed
LEMMA StaleKeeps ==
    ASSUME TrackersInv, RemoveStaleLock
    PROVE  TrackersInv'
  <1>1. lockFile' = "none" /\ document' = document /\ command' = command
    BY DEF RemoveStaleLock
  <1>2. \A d \in Command : command[d].at \notin Working
    BY DEF RemoveStaleLock, Busy, Working
  <1>3. \A d \in Command : CommandOK(d)'
    <2> SUFFICES ASSUME NEW d \in Command PROVE CommandOK(d)'
      OBVIOUS
    <2>1. command[d].at \notin Working /\ command[d].at \notin {"check", "save"}
      BY <1>2 DEF Working
    <2>2. CASE command[d].at = "lock"
      <3>1. /\ document = NoFile /\ command[d].history = NoFile /\ Follows(NoFile, command[d].check)
            /\ \A e \in Command \ {d} : command[e].at = "begin"
        BY <2>2 DEF TrackersInv, CommandOK
      <3> QED BY <1>1, <2>1, <2>2, <3>1 DEF CommandOK, Follows, Explains, CheckType, Jobs, Urls, NoFile
    <2>3. CASE command[d].at # "lock"
      BY <1>1, <2>1, <2>3 DEF CommandOK
    <2> QED BY <2>2, <2>3
  <1>4. TrackersTyped'
    BY <1>1 DEF TrackersInv, TrackersTyped, CheckType, Jobs, Urls
  <1>5. HistoryExplains'
    BY <1>1 DEF TrackersInv, HistoryExplains
  <1> QED BY <1>3, <1>4, <1>5 DEF TrackersInv

LEMMA TrackersStep ==
    ASSUME TrackersInv, [TrackersNext]_trackers
    PROVE  TrackersInv'
  <1>1. CASE UNCHANGED trackers
    <2>1. document' = document /\ lockFile' = lockFile /\ command' = command
      BY <1>1 DEF trackers
    <2>2. \A d \in Command : CommandOK(d)'
      BY <2>1 DEF TrackersInv, CommandOK, Follows, Explains, CheckType, Jobs, Urls, NoFile
    <2>3. TrackersTyped' /\ HistoryExplains'
      BY <2>1 DEF TrackersInv, TrackersTyped, HistoryExplains, CheckType, Jobs, Urls
    <2> QED BY <2>2, <2>3 DEF TrackersInv
  <1>2. ASSUME NEW c \in Command, Interrupt(c) \/ Kill(c)
        PROVE  TrackersInv'
    <2>1. PICK at \in {"fail", "killed"} : command' = [command EXCEPT ![c].at = at]
      BY <1>2 DEF Interrupt, Kill, Goes
    <2>2. command[c].at \in Working /\ document' = document /\ lockFile' = lockFile
      BY <1>2 DEF Interrupt, Kill, Working
    <2>3. lockFile = c /\ command[c].at # "begin"
      BY <2>2 DEF TrackersInv, CommandOK, Working
    <2>4. at \in Phases \ {"check", "save", "lock"}
      BY DEF Phases
    <2> QED BY <2>1, <2>2, <2>3, <2>4, CommandLeaves
  <1> QED BY <1>1, <1>2, PlanKeeps, LockKeeps, LoadKeeps, TrackerCheckKeeps, SaveKeeps, UnlockKeeps,
             StaleKeeps DEF TrackersNext

(* The document of a tracker is one chain of checks, whoever runs commands   *)
(* and wherever they stop: HistoryIsSound, for any number of commands,       *)
(* answers, jobs and kept checks.                                            *)
THEOREM TrackersStaySound == TrackersSpec => []HistoryIsSound
  <1>1. TrackersInit => TrackersInv
    <2> SUFFICES ASSUME TrackersInit PROVE TrackersInv
      OBVIOUS
    <2>1. \A c \in Command : command[c] = Waiting
      BY DEF TrackersInit
    <2>2. TrackersTyped
      BY DEF TrackersInit, TrackersTyped, Waiting, Phases, NoFile
    <2>3. \A c \in Command : CommandOK(c)
      BY <2>1 DEF CommandOK, Waiting, Working
    <2>4. HistoryExplains
      <3>1. document = <<>> /\ Len(document) = 0
        BY DEF TrackersInit, NoFile
      <3> QED BY <3>1 DEF HistoryExplains, NoFile
    <2> QED BY <2>2, <2>3, <2>4 DEF TrackersInv
  <1>2. TrackersInv => HistoryIsSound
    <2> SUFFICES ASSUME TrackersInv PROVE HistoryIsSound
      OBVIOUS
    <2>1. Busy \subseteq {lockFile}
      BY DEF TrackersInv, CommandOK, Busy, Working
    <2>2. Cardinality(Busy) <= 1
      <3>1. IsFiniteSet({lockFile}) /\ Cardinality({lockFile}) = 1
        BY FS_Singleton
      <3>2. Cardinality(Busy) <= Cardinality({lockFile})
        BY <2>1, <3>1, FS_Subset
      <3> QED BY <3>1, <3>2
    <2> QED BY <2>2 DEF HistoryIsSound, SavesExtend, TrackersInv, CommandOK
  <1> QED BY <1>1, <1>2, TrackersStep, PTL DEF TrackersSpec

-----------------------------------------------------------------------------
(* GitHub reads                                                              *)

GitHubReadsSpec == GitHubReadsInit /\ [][GitHubReadsNext]_reads

\* an attempt that may be followed by another
Due(try) ==
    /\ try.answer.is \in {"transient", "limited"}
    /\ try.pause <= MaxDelay
    /\ "after" \in DOMAIN try.answer => try.pause >= Capped(try.answer.after)

Pause == {0} \cup UNION {Pauses(answer, n) : answer \in Answers, n \in 1 .. Attempts}
Tries == Seq([answer : Answers, pause : Pause])

AskingType ==
    [at : {"asks", "pauses"}, op : {"file", "commit"}, ref : Nat, known : Nat, began : Nat,
     request : [get : {"contents", "commits", "commit", "blob"}, of : Nat], tries : Tries]
DoneType == [at : {"done"}, ref : Nat, sha : Nat, text : Nat, began : Nat, ended : Nat]
FailedType == [at : {"failed"}, error : {"closed", "transient", "limited", "missing", "refused"},
               tries : Tries]
ReadType == [at : {"idle"}] \cup AskingType \cup DoneType \cup FailedType

\* the revision of a read is settled by its first answer
AskingOK(x, latest) ==
    /\ x.began <= latest
    /\ IF x.ref > 0 THEN x.request.of = x.ref /\ x.known \in {0, x.ref}
       ELSE /\ x.request.of = x.known
            /\ x.known > 0 => x.began <= x.known /\ x.known <= latest
    /\ Len(x.tries) < Attempts /\ \A i \in 1 .. Len(x.tries) : Due(x.tries[i])

DoneOK(x) ==
    /\ x.text = x.sha
    /\ IF x.ref > 0 THEN x.sha = x.ref ELSE x.sha \in x.began .. x.ended

FailedOK(x) ==
    IF x.error = "closed"
      THEN Len(x.tries) <= Attempts /\ \A i \in 1 .. Len(x.tries) : Due(x.tries[i])
      ELSE /\ Len(x.tries) <= Attempts
           /\ \A i \in 1 .. Len(x.tries) - 1 : Due(x.tries[i])
           /\ Len(x.tries) = Attempts \/ x.error \in {"missing", "refused"}

ReadOK(x, latest) ==
    /\ x \in ReadType
    /\ x.at \in {"asks", "pauses"} => AskingOK(x, latest)
    /\ x.at = "done" => DoneOK(x)
    /\ x.at = "failed" => FailedOK(x)

GitHubReadsInv ==
    /\ branch \in Nat /\ DOMAIN read = Reader /\ read = [r \in Reader |-> read[r]]
    /\ \A r \in Reader : ReadOK(read[r], branch)

(* The pause after an answer that may pass is as long as GitHub asked, up to *)
(* the longest one.                                                          *)
LEMMA PausesAreDue ==
    ASSUME NEW answer \in Answers, IsTransient(answer), NEW n \in 1 .. Attempts,
           NEW pause \in Pauses(answer, n)
    PROVE  Due([answer |-> answer, pause |-> pause]) /\ pause \in Pause
  <1>1. MaxDelay \in Nat /\ RetryAfter \subseteq Nat
    BY GitHubReadsAssumption
  <1>2. pause \in Pause
    BY DEF Pause
  <1>3. \A delay : Capped(delay) <= MaxDelay
    BY <1>1 DEF Capped
  <1>4. answer.is \in {"transient", "limited"}
    BY DEF IsTransient
  <1>5. CASE "after" \in DOMAIN answer
    <2>1. PICK delay \in RetryAfter : answer = [is |-> "limited", after |-> delay]
      <3>1. CASE \E kind \in {"ok", "transient", "limited", "missing", "refused"} : answer = [is |-> kind]
        BY <1>5, <3>1
      <3> QED BY <3>1 DEF Answers
    <2>2. pause = Capped(delay) /\ answer.after = delay
      BY <1>5, <2>1 DEF Pauses
    <2>3. Capped(delay) \in Nat
      BY <1>1 DEF Capped
    <2>4. pause >= Capped(answer.after) /\ pause <= MaxDelay
      BY <1>1, <1>3, <2>2, <2>3
    <2> QED BY <1>2, <1>4, <2>4 DEF Due
  <1>6. CASE "after" \notin DOMAIN answer
    <2>1. \E j \in 0 .. Jitter : pause = Capped(Capped(MinDelay * 2^(n - 1)) + j)
      BY <1>6 DEF Pauses
    <2>2. pause <= MaxDelay
      BY <1>3, <2>1
    <2> QED BY <1>2, <1>4, <1>6, <2>2 DEF Due
  <1> QED BY <1>5, <1>6

-----------------------------------------------------------------------------
LEMMA ReaderMoves ==
    ASSUME GitHubReadsInv, NEW r \in Reader, NEW x, ReadOK(x, branch),
           read' = [read EXCEPT ![r] = x], branch' = branch
    PROVE  GitHubReadsInv'
  <1>1. read'[r] = x /\ \A d \in Reader \ {r} : read'[d] = read[d]
    BY DEF GitHubReadsInv
  <1>2. \A d \in Reader : ReadOK(read'[d], branch')
    BY <1>1 DEF GitHubReadsInv
  <1>3. DOMAIN read' = Reader /\ read' = [d \in Reader |-> read'[d]]
    BY DEF GitHubReadsInv
  <1> QED BY <1>2, <1>3 DEF GitHubReadsInv

LEMMA StartReadKeeps ==
    ASSUME GitHubReadsInv, NEW r \in Reader, NEW op \in {"file", "commit"}, NEW ref \in 0 .. branch,
           StartRead(r, op, ref)
    PROVE  GitHubReadsInv'
  <1> DEFINE x == [at |-> "asks", op |-> op, ref |-> ref, request |-> FirstRequest(op, ref),
                   known |-> 0, tries |-> <<>>, began |-> branch]
  <1>1. branch \in Nat /\ ref \in Nat
    BY DEF GitHubReadsInv
  <1>2. /\ FirstRequest(op, ref) \in [get : {"contents", "commits", "commit", "blob"}, of : Nat]
        /\ FirstRequest(op, ref).of = ref
    <2>1. CASE op = "file"
      BY <1>1, <2>1 DEF FirstRequest
    <2>2. CASE op = "commit" /\ ref = 0
      BY <2>2 DEF FirstRequest
    <2>3. CASE op = "commit" /\ ref > 0
      BY <1>1, <2>3 DEF FirstRequest
    <2> QED BY <1>1, <2>1, <2>2, <2>3
  <1>3. <<>> \in Tries /\ Len(<<>>) = 0 /\ 0 < Attempts
    BY GitHubReadsAssumption DEF Tries
  <1>4. x \in AskingType /\ AskingOK(x, branch)
    BY <1>1, <1>2, <1>3 DEF AskingType, AskingOK
  <1>5. ReadOK(x, branch)
    BY <1>4 DEF ReadOK, ReadType
  <1>6. read' = [read EXCEPT ![r] = x] /\ branch' = branch
    BY DEF StartRead
  <1> HIDE DEF x
  <1> QED BY <1>5, <1>6, ReaderMoves

\* what is known of a reader that asks
LEMMA ReadAsks ==
    ASSUME GitHubReadsInv, NEW r \in Reader, read[r].at \in {"asks", "pauses"}
    PROVE  branch \in Nat /\ read[r] \in AskingType /\ AskingOK(read[r], branch)
  <1>1. ReadOK(read[r], branch)
    BY DEF GitHubReadsInv
  <1> QED BY <1>1 DEF ReadOK, ReadType, DoneType, FailedType, GitHubReadsInv

LEMMA FailureKeeps ==
    ASSUME GitHubReadsInv, NEW r \in Reader, NEW error, NEW tries \in Tries,
           FailedOK([at |-> "failed", error |-> error, tries |-> tries]),
           error \in {"closed", "transient", "limited", "missing", "refused"},
           ReadEnds(r, [at |-> "failed", error |-> error, tries |-> tries]), branch' = branch
    PROVE  GitHubReadsInv'
  <1> DEFINE x == [at |-> "failed", error |-> error, tries |-> tries]
  <1>1. ReadOK(x, branch)
    BY DEF ReadOK, ReadType, FailedType
  <1>2. read' = [read EXCEPT ![r] = x]
    BY DEF ReadEnds
  <1> HIDE DEF x
  <1> QED BY <1>1, <1>2, ReaderMoves

LEMMA EarlyFailure ==
    ASSUME GitHubReadsInv, NEW r \in Reader, read[r].at \in {"asks", "pauses"},
           NEW error \in {"closed", "missing"}, ReadFails(r, error), branch' = branch
    PROVE  GitHubReadsInv'
  <1>1. read[r].tries \in Tries /\ AskingOK(read[r], branch)
    BY ReadAsks DEF AskingType
  <1>2. PICK n \in Nat : n = Len(read[r].tries)
    BY <1>1 DEF Tries
  <1>3. n < Attempts /\ Attempts \in Nat /\ \A i \in 1 .. n : Due(read[r].tries[i])
    BY <1>1, <1>2, GitHubReadsAssumption DEF AskingOK
  <1>4. FailedOK([at |-> "failed", error |-> error, tries |-> read[r].tries])
    BY <1>2, <1>3 DEF FailedOK
  <1> QED BY <1>1, <1>4, FailureKeeps DEF ReadFails

LEMMA ReceiveKeeps ==
    ASSUME GitHubReadsInv, NEW r \in Reader, read[r].at = "asks", Receive(r), branch' = branch
    PROVE  GitHubReadsInv'
  <1> DEFINE x == read[r]
             delivered == Delivered(x.request)
             identity == IF x.known > 0 THEN x.known ELSE delivered.revision
             next == IF x.request.get = "commits" THEN [get |-> "commit", of |-> delivered.revision]
                                                  ELSE BlobOf(delivered.revision)
  <1>1. branch \in Nat /\ x \in AskingType /\ AskingOK(x, branch)
    BY ReadAsks
  <1>2. PICK revision \in Nat : /\ delivered.revision = revision
                                /\ revision = IF x.request.of = 0 THEN branch ELSE x.request.of
    BY <1>1 DEF Delivered, AskingType
  <1>3. CASE revision = 0
    <2>1. ReadFails(r, "missing")
      BY <1>2, <1>3 DEF Receive
    <2> QED BY <2>1, EarlyFailure
  <1>4. CASE revision # 0 /\ (delivered.whole \/ x.known > 0)
    <2> DEFINE y == [at |-> "done", ref |-> x.ref, sha |-> identity, text |-> revision,
                     began |-> x.began, ended |-> branch]
    <2>1. read' = [read EXCEPT ![r] = y]
      BY <1>2, <1>4 DEF Receive, ReadEnds
    <2>2. x.ref \in Nat /\ x.began \in Nat /\ x.known \in Nat /\ x.request.of \in Nat
      BY <1>1 DEF AskingType
    <2>3. identity = revision
      BY <1>1, <1>2, <1>4, <2>2 DEF AskingOK
    <2>4. DoneOK(y)
      BY <1>1, <1>2, <1>4, <2>2, <2>3 DEF AskingOK, DoneOK
    <2>5. y \in DoneType
      BY <1>1, <2>2, <2>3 DEF DoneType
    <2>6. ReadOK(y, branch)
      BY <2>4, <2>5 DEF ReadOK, ReadType, DoneType
    <2> HIDE DEF y
    <2> QED BY <2>1, <2>6, ReaderMoves
  <1>5. CASE revision # 0 /\ ~(delivered.whole \/ x.known > 0)
    <2> DEFINE y == [x EXCEPT !.request = next, !.tries = <<>>, !.known = revision]
    <2>1. read' = [read EXCEPT ![r] = y]
      BY <1>2, <1>5 DEF Receive, ReadEnds
    <2>2. next \in [get : {"contents", "commits", "commit", "blob"}, of : Nat] /\ next.of = revision
      BY <1>2 DEF BlobOf
    <2>3. <<>> \in Tries /\ Len(<<>>) = 0 /\ 0 < Attempts
      BY GitHubReadsAssumption DEF Tries
    <2> HIDE DEF next
    <2>4. /\ y \in AskingType /\ y.request.of = revision /\ y.tries = <<>> /\ y.known = revision
          /\ y.ref = x.ref /\ y.began = x.began
      BY <1>1, <2>2, <2>3 DEF AskingType
    <2>5. x.ref \in Nat /\ x.began \in Nat /\ x.known \in Nat /\ x.request.of \in Nat
      BY <1>1 DEF AskingType
    <2> HIDE DEF y
    <2>6. AskingOK(y, branch)
      BY <1>1, <1>2, <1>5, <2>3, <2>4, <2>5 DEF AskingOK
    <2>7. ReadOK(y, branch)
      BY <2>4, <2>6 DEF ReadOK, ReadType, AskingType
    <2> QED BY <2>1, <2>7, ReaderMoves
  <1> QED BY <1>3, <1>4, <1>5

LEMMA AskReadKeeps ==
    ASSUME GitHubReadsInv, NEW r \in Reader, Ask(r)
    PROVE  GitHubReadsInv'
  <1> DEFINE x == read[r]
  <1>1. x.at = "asks" /\ branch' = branch
    BY DEF Ask
  <1>2. x \in AskingType /\ AskingOK(x, branch) /\ x.tries \in Tries
    BY <1>1, ReadAsks DEF AskingType
  <1>3. PICK n \in Nat : n = Len(x.tries)
    BY <1>2 DEF Tries
  <1>4. n < Attempts /\ Attempts \in Nat /\ \A i \in 1 .. n : Due(x.tries[i])
    BY <1>2, <1>3, GitHubReadsAssumption DEF AskingOK
  <1>5. ASSUME NEW answer \in Answers, NEW pause \in Pause
        PROVE  LET longer == Append(x.tries, [answer |-> answer, pause |-> pause])
               IN  /\ longer \in Tries /\ Len(longer) = n + 1
                   /\ \A i \in 1 .. n : longer[i] = x.tries[i]
                   /\ longer[n + 1] = [answer |-> answer, pause |-> pause]
    BY <1>2, <1>3, AppendProperties DEF Tries
  <1>6. CASE client = "closed" /\ ReadFails(r, "closed")
    BY <1>1, <1>6, EarlyFailure
  <1>7. ASSUME NEW answer \in Answers, answer.is = "ok" /\ Receive(r)
        PROVE  GitHubReadsInv'
    BY <1>1, <1>7, ReceiveKeeps
  <1>8. ASSUME NEW answer \in Answers, IsTransient(answer), n + 1 < Attempts,
               NEW pause \in Pauses(answer, n + 1),
               read' = [read EXCEPT ![r].at = "pauses", ![r].tries =
                          Append(@, [answer |-> answer, pause |-> pause])]
        PROVE  GitHubReadsInv'
    <2> DEFINE longer == Append(x.tries, [answer |-> answer, pause |-> pause])
               y == [x EXCEPT !.at = "pauses", !.tries = longer]
    <2>1. n + 1 \in 1 .. Attempts
      BY <1>4
    <2>2. Due([answer |-> answer, pause |-> pause]) /\ pause \in Pause
      BY <1>8, <2>1, PausesAreDue
    <2>3. /\ longer \in Tries /\ Len(longer) = n + 1
          /\ \A i \in 1 .. n : longer[i] = x.tries[i]
          /\ longer[n + 1] = [answer |-> answer, pause |-> pause]
      BY <1>5, <2>2
    <2>4. read' = [read EXCEPT ![r] = y]
      BY <1>8 DEF GitHubReadsInv
    <2> HIDE DEF longer
    <2>5. \A i \in 1 .. Len(longer) : Due(longer[i])
      BY <1>4, <2>2, <2>3
    <2>6. /\ y \in AskingType /\ y.tries = longer /\ y.request = x.request /\ y.known = x.known
          /\ y.ref = x.ref /\ y.began = x.began
      BY <1>2, <2>3 DEF AskingType
    <2> HIDE DEF y
    <2>7. AskingOK(y, branch)
      BY <1>2, <1>8, <2>3, <2>5, <2>6 DEF AskingOK
    <2>8. ReadOK(y, branch)
      BY <2>6, <2>7 DEF ReadOK, ReadType, AskingType
    <2> QED BY <1>1, <2>4, <2>8, ReaderMoves
  <1>9. ASSUME NEW answer \in Answers, answer.is # "ok", ~(IsTransient(answer) /\ n + 1 < Attempts),
               read' = [read EXCEPT ![r] = [at |-> "failed", error |-> answer.is, tries |->
                          Append(@.tries, [answer |-> answer, pause |-> 0])]]
        PROVE  GitHubReadsInv'
    <2> DEFINE longer == Append(x.tries, [answer |-> answer, pause |-> 0])
    <2>1. 0 \in Pause
      BY DEF Pause
    <2>2. /\ longer \in Tries /\ Len(longer) = n + 1
          /\ \A i \in 1 .. n : longer[i] = x.tries[i]
      BY <1>5, <2>1
    <2>3. ReadEnds(r, [at |-> "failed", error |-> answer.is, tries |-> longer])
      BY <1>9 DEF ReadEnds, GitHubReadsInv
    <2> HIDE DEF longer
    <2>4. answer.is \in {"transient", "limited", "missing", "refused"}
      BY <1>9 DEF Answers
    <2>5. answer.is \in {"missing", "refused"} \/ n + 1 = Attempts
      BY <1>4, <1>9, <2>4 DEF IsTransient
    <2>6. FailedOK([at |-> "failed", error |-> answer.is, tries |-> longer])
      BY <1>4, <2>2, <2>4, <2>5 DEF FailedOK
    <2> QED BY <1>1, <2>2, <2>3, <2>4, <2>6, FailureKeeps
  <1> QED BY <1>3, <1>6, <1>7, <1>8, <1>9 DEF Ask

LEMMA GitHubReadsStep ==
    ASSUME GitHubReadsInv, [GitHubReadsNext]_reads
    PROVE  GitHubReadsInv'
  <1>1. CASE UNCHANGED reads
    BY <1>1 DEF reads, GitHubReadsInv
  <1>2. ASSUME NEW r \in Reader, Resume(r)
        PROVE  GitHubReadsInv'
    <2> DEFINE y == [read[r] EXCEPT !.at = "asks"]
    <2>1. read[r] \in AskingType /\ AskingOK(read[r], branch)
      BY <1>2, ReadAsks DEF Resume
    <2>2. /\ y \in AskingType /\ y.tries = read[r].tries /\ y.request = read[r].request
          /\ y.known = read[r].known /\ y.ref = read[r].ref /\ y.began = read[r].began
      BY <2>1 DEF AskingType
    <2>3. read' = [read EXCEPT ![r] = y] /\ branch' = branch
      BY <1>2 DEF Resume, GitHubReadsInv
    <2> HIDE DEF y
    <2>4. ReadOK(y, branch)
      BY <2>1, <2>2 DEF ReadOK, ReadType, AskingType, AskingOK
    <2> QED BY <2>3, <2>4, ReaderMoves
  <1>3. ASSUME NEW r \in Reader, CancelRead(r)
        PROVE  GitHubReadsInv'
    <2>1. ReadOK([at |-> "idle"], branch)
      BY DEF ReadOK, ReadType
    <2> QED BY <1>3, <2>1, ReaderMoves DEF CancelRead, ReadEnds
  <1>4. CASE CloseClient
    BY <1>4 DEF CloseClient, GitHubReadsInv
  <1>5. CASE Push
    <2>1. branch \in Nat /\ branch' = branch + 1 /\ read' = read
      BY <1>5 DEF Push, GitHubReadsInv
    <2>2. ASSUME NEW r \in Reader PROVE ReadOK(read[r], branch + 1)
      <3>1. ReadOK(read[r], branch)
        BY DEF GitHubReadsInv
      <3>2. CASE read[r].at \in {"asks", "pauses"}
        <4>1. read[r] \in AskingType /\ AskingOK(read[r], branch)
          BY <3>2, ReadAsks
        <4>2. read[r].began \in Nat /\ read[r].known \in Nat
          BY <4>1 DEF AskingType
        <4>3. AskingOK(read[r], branch + 1)
          BY <2>1, <4>1, <4>2 DEF AskingOK
        <4> QED BY <3>1, <4>3 DEF ReadOK
      <3>3. CASE read[r].at \notin {"asks", "pauses"}
        BY <3>1, <3>3 DEF ReadOK
      <3> QED BY <3>2, <3>3
    <2> QED BY <2>1, <2>2 DEF GitHubReadsInv
  <1> QED BY <1>1, <1>2, <1>3, <1>4, <1>5, StartReadKeeps, AskReadKeeps DEF GitHubReadsNext

(* A read of several requests returns one revision or a failure that is due: *)
(* ReadsAreSound, for any number of readers, revisions and attempts.         *)
THEOREM ReadsStaySound == GitHubReadsSpec => []ReadsAreSound
  <1>1. GitHubReadsInit => GitHubReadsInv
    BY DEF GitHubReadsInit, GitHubReadsInv, ReadOK, ReadType
  <1>2. GitHubReadsInv => ReadsAreSound
    <2> SUFFICES ASSUME GitHubReadsInv PROVE ReadsAreSound
      OBVIOUS
    <2>1. ReadsOneRevision
      BY DEF GitHubReadsInv, ReadOK, DoneOK, ReadsOneRevision
    <2>2. ASSUME NEW r \in Reader, "tries" \in DOMAIN read[r]
          PROVE  LET tries == read[r].tries
                     again == IF read[r].at = "failed" /\ read[r].error # "closed"
                                THEN 1..Len(tries) - 1 ELSE DOMAIN tries
                 IN  /\ Len(tries) <= Attempts
                     /\ \A i \in again : Due(tries[i])
                     /\ (read[r].at = "failed" /\ read[r].error # "closed") =>
                          \/ Len(tries) = Attempts
                          \/ read[r].error \in {"missing", "refused"}
      <3>1. ReadOK(read[r], branch)
        BY DEF GitHubReadsInv
      <3>2. read[r] \in AskingType \/ read[r] \in FailedType
        BY <2>2, <3>1 DEF ReadOK, ReadType, DoneType
      <3>3. CASE read[r] \in AskingType
        <4>1. /\ AskingOK(read[r], branch) /\ read[r].at # "failed" /\ read[r].tries \in Tries
          BY <3>1, <3>3 DEF ReadOK, AskingType
        <4>2. PICK n \in Nat : n = Len(read[r].tries) /\ DOMAIN read[r].tries = 1 .. n
          BY <4>1 DEF Tries
        <4> QED BY <4>1, <4>2, GitHubReadsAssumption DEF AskingOK
      <3>4. CASE read[r] \in FailedType
        <4>1. FailedOK(read[r]) /\ read[r].at = "failed" /\ read[r].tries \in Tries
          BY <3>1, <3>4 DEF ReadOK, FailedType
        <4>2. DOMAIN read[r].tries = 1 .. Len(read[r].tries)
          BY <4>1 DEF Tries
        <4> QED BY <4>1, <4>2 DEF FailedOK
      <3> QED BY <3>2, <3>3, <3>4
    <2>3. RetriesAreDue
      BY <2>2 DEF RetriesAreDue, Due
    <2> QED BY <2>1, <2>3 DEF ReadsAreSound
  <1> QED BY <1>1, <1>2, GitHubReadsStep, PTL DEF GitHubReadsSpec

-----------------------------------------------------------------------------
(* Application attempts, for any postings, sessions and tools.              *)

(* A commit can requeue an attempt only if its decision did, so the         *)
(* invariant keeps, for each call under way, what the decision may have     *)
(* done to each row (CallRequeues).                                         *)

LEMMA Constants ==
    /\ Absent \in RowType /\ Queued \in RowType
    /\ Absent.status = "absent" /\ Queued.status = "queued"
    /\ Queued # Absent
  BY DEF Absent, Queued, RowType, Statuses, Stages

-----------------------------------------------------------------------------
(* What one call makes of one row.                                           *)

LEMMA EnsuredRows ==
    ASSUME NEW r \in RowType, NEW isOpen, NEW q \in Ensured(r, isOpen)
    PROVE  q \in RowType /\ (q = r \/ r = Absent)
  BY Constants DEF Ensured

LEMMA TransitionRows ==
    ASSUME NEW r \in RowType, NEW isOpen,
           NEW to \in Statuses \ {"absent", "queued"}, NEW n \in Transition(r, isOpen, to)
    PROVE  n \in RowType /\ n.status = to
  <1>1. PICK asked \in BOOLEAN :
          n = [status |-> to, stage |-> StageOf(r, to), count |-> Counted(r, to),
               submitted |-> r.submitted \/ to = "submitted",
               code |-> to = "failed" \/ (r.code /\ ~Restarts(r, to)),
               question |-> Question(r, to, asked)]
    BY DEF Transition
  <1>2. StageOf(r, to) \in Stages
    BY DEF StageOf, Stages, Statuses, RowType
  <1>3. Counted(r, to) \in Nat
    BY DEF Counted, RowType
  <1>4. Question(r, to, asked) \in BOOLEAN
    BY DEF Question, RowType
  <1> QED BY <1>1, <1>2, <1>3, <1>4 DEF RowType

\* a call puts a row in the queue only if it was there, is new, or is reset
Requeues(tool, r, q) ==
    q.status = "queued" => r.status = "queued" \/ r = Absent \/ tool = "reset"

LEMMA CheckpointedRows ==
    ASSUME NEW r \in RowType, NEW stages \in SUBSET Stages, NEW q \in Checkpointed(r, stages)
    PROVE  q \in RowType /\ q.status = r.status /\ r.status \in Ongoing
  BY DEF Checkpointed, RowType

LEMMA StartedRows ==
    ASSUME NEW r \in RowType, NEW isOpen, NEW q \in Started(r, isOpen)
    PROVE  q \in RowType /\ q.status = "in_progress"
  <1>1. PICK n \in Transition(r, isOpen, "in_progress") : q \in Checkpointed(n, {"opened"})
    BY DEF Started
  <1>2. n \in RowType /\ n.status = "in_progress"
    BY TransitionRows DEF Statuses
  <1> QED BY <1>1, <1>2, CheckpointedRows DEF Stages

LEMMA ResetRows ==
    ASSUME NEW r \in RowType, NEW isOpen, NEW q \in Reset(r, isOpen)
    PROVE  q \in RowType
  <1>1. CASE r = Absent
    BY <1>1, EnsuredRows DEF Reset
  <1>2. CASE r # Absent
    <2>1. q = [Queued EXCEPT !.count = r.count, !.submitted = r.submitted]
      BY <1>2 DEF Reset
    <2>2. r.count \in Nat /\ r.submitted \in BOOLEAN
      BY DEF RowType
    <2> QED BY <2>1, <2>2, Constants DEF RowType
  <1> QED BY <1>1, <1>2

LEMMA ResultRows ==
    ASSUME NEW tool \in Tools, NEW r \in RowType, NEW isOpen, NEW q \in ResultsOf(tool, r, isOpen)
    PROVE  q \in RowType /\ Requeues(tool, r, q)
  <1>1. CASE tool = "status"
    BY <1>1, EnsuredRows DEF ResultsOf, Viewed, Requeues
  <1>2. CASE tool = "answer"
    BY <1>2, EnsuredRows DEF ResultsOf, Requeues
  <1>3. CASE tool = "start"
    BY <1>3, StartedRows DEF ResultsOf, Requeues
  <1>4. CASE tool = "checkpoint"
    BY <1>4, CheckpointedRows DEF ResultsOf, Requeues, Ongoing
  <1>5. CASE tool \in {"verify", "resume", "review", "ready", "submit", "fail"}
    <2>1. PICK to \in Statuses \ {"absent", "queued"} : q \in Transition(r, isOpen, to)
      BY <1>5 DEF ResultsOf, Statuses
    <2> QED BY <2>1, TransitionRows DEF Requeues
  <1>6. CASE tool = "reset"
    BY <1>6, ResetRows DEF ResultsOf, Requeues
  <1>7. CASE tool \in {"next", "queue"}
    BY <1>7 DEF ResultsOf
  <1> QED BY <1>1, <1>2, <1>3, <1>4, <1>5, <1>6, <1>7 DEF Tools

-----------------------------------------------------------------------------
(* What one call makes of the table.                                         *)

LEMMA TableRows ==
    ASSUME AttemptsTypeOK, NEW tool \in Tools, NEW new \in Tables(tool)
    PROVE  new \in [Posting -> RowType] /\ \A j \in Posting : Requeues(tool, row[j], new[j])
  <1>1. CASE tool \in {"next", "queue"}
    <2>1. new = [j \in Posting |-> IF j \in Ensuring(tool) THEN Queued ELSE row[j]]
      BY <1>1 DEF Tables
    <2>2. \A j \in Ensuring(tool) : row[j] = Absent
      BY DEF Ensuring
    <2> QED BY <2>1, <2>2, Constants DEF AttemptsTypeOK, Requeues
  <1>2. CASE tool \notin {"next", "queue"}
    <2> PICK k \in Posting : \E r \in ResultsOf(tool, row[k], k \in open) : new = [row EXCEPT ![k] = r]
      BY <1>2 DEF Tables
    <2>1. PICK r \in ResultsOf(tool, row[k], k \in open) : new = [row EXCEPT ![k] = r]
      OBVIOUS
    <2>2. r \in RowType /\ Requeues(tool, row[k], r)
      BY ResultRows DEF AttemptsTypeOK
    <2>3. \A j \in Posting \ {k} : new[j] = row[j]
      BY <2>1 DEF AttemptsTypeOK
    <2>4. new[k] = r
      BY <2>1 DEF AttemptsTypeOK
    <2> QED BY <2>1, <2>2, <2>3, <2>4 DEF AttemptsTypeOK, Requeues
  <1> QED BY <1>1, <1>2

\* the columns a commit leaves are columns of rows
LEMMA ColumnRows ==
    ASSUME NEW seen \in RowType, NEW new \in RowType, NEW current \in RowType
    PROVE  /\ Columns(seen, new, current) \in RowType
           /\ Columns(seen, new, current).status
                = IF new.status # seen.status THEN new.status ELSE current.status
  BY DEF Columns, RowType

-----------------------------------------------------------------------------
(* The inductive invariant.                                                  *)

CallRequeues == \A s \in Session : call[s] # NoCall =>
    \A j \in Posting : Requeues(call[s].tool, call[s].seen[j], call[s].new[j])

CallInv == AttemptsTypeOK /\ CallRequeues

\* a call under way is one of a tool; NoCall is none
LEMMA UnderWay ==
    ASSUME AttemptsTypeOK, NEW s \in Session, call[s] # NoCall
    PROVE  call[s] \in CallType
  BY DEF AttemptsTypeOK

LEMMA CallInit == AttemptsInit => CallInv
  BY Constants DEF AttemptsInit, CallInv, AttemptsTypeOK, CallRequeues

LEMMA BeginKept ==
    ASSUME CallInv, NEW s \in Session, NEW tool \in Tools, Begin(s, tool)
    PROVE  CallInv'
  <1>1. PICK new \in Tables(tool) :
          call' = [call EXCEPT ![s] = [tool |-> tool, seen |-> row, new |-> new]]
    BY DEF Begin
  <1>2. new \in [Posting -> RowType] /\ \A j \in Posting : Requeues(tool, row[j], new[j])
    BY TableRows DEF CallInv
  <1>3. AttemptsTypeOK'
    BY <1>1, <1>2 DEF CallInv, AttemptsTypeOK, Begin, CallType
  <1>4. ASSUME NEW t \in Session, (call[t] # NoCall)', NEW j \in Posting
        PROVE  Requeues(call[t].tool, call[t].seen[j], call[t].new[j])'
    <2>1. CASE t = s
      <3>1. call'[t] = [tool |-> tool, seen |-> row, new |-> new]
        BY <1>1, <2>1 DEF CallInv, AttemptsTypeOK
      <3> QED BY <3>1, <1>2 DEF Requeues
    <2>2. CASE t # s
      <3>1. call'[t] = call[t]
        BY <1>1, <2>2 DEF CallInv, AttemptsTypeOK
      <3> QED BY <3>1, <1>4 DEF CallInv, CallRequeues, Requeues
    <2> QED BY <2>1, <2>2
  <1> QED BY <1>3, <1>4 DEF CallInv, CallRequeues

\* a session that becomes idle leaves the others' calls alone
LEMMA IdleKept ==
    ASSUME CallInv, NEW s \in Session, call' = [call EXCEPT ![s] = NoCall]
    PROVE  CallRequeues' /\ call' \in [Session -> CallType \cup {NoCall}]
  <1>1. \A t \in Session : call'[t] = NoCall \/ call'[t] = call[t]
    BY DEF CallInv, AttemptsTypeOK
  <1> QED BY <1>1 DEF CallInv, AttemptsTypeOK, CallRequeues, Requeues

LEMMA CommitKept ==
    ASSUME CallInv, NEW s \in Session, CommitCall(s)
    PROVE  CallInv'
  <1>1. call[s] \in CallType
    BY UnderWay DEF CallInv, CommitCall
  <1>2. \A j \in Posting : MergedRow(call[s], j) \in RowType
    BY <1>1, ColumnRows DEF CallInv, AttemptsTypeOK, CallType, MergedRow
  <1>3. row' \in [Posting -> RowType]
    BY <1>2 DEF CommitCall
  <1>4. starts' \in [Posting -> Nat]
    BY DEF CommitCall, CallInv, AttemptsTypeOK
  <1>5. raced' \subseteq Posting
    BY DEF CommitCall, Overtaken, CallInv, AttemptsTypeOK
  <1>6. CallRequeues' /\ call' \in [Session -> CallType \cup {NoCall}]
    BY IdleKept DEF CommitCall
  <1> QED BY <1>3, <1>4, <1>5, <1>6 DEF CallInv, AttemptsTypeOK, CommitCall

LEMMA AbortKept ==
    ASSUME CallInv, NEW s \in Session, AbortCall(s)
    PROVE  CallInv'
  BY IdleKept DEF AbortCall, CallInv, AttemptsTypeOK

LEMMA ListedKept ==
    ASSUME CallInv, NEW j \in Posting, Listed(j)
    PROVE  CallInv'
  BY DEF Listed, CallInv, AttemptsTypeOK, CallRequeues, Requeues

LEMMA CallStep == CallInv /\ [AttemptsNext]_attempts => CallInv'
  <1> SUFFICES ASSUME CallInv, [AttemptsNext]_attempts PROVE CallInv'
    OBVIOUS
  <1>1. CASE \E s \in Session, tool \in Tools : Begin(s, tool)
    BY <1>1, BeginKept
  <1>2. CASE \E s \in Session : CommitCall(s)
    BY <1>2, CommitKept
  <1>3. CASE \E s \in Session : AbortCall(s)
    BY <1>3, AbortKept
  <1>4. CASE \E j \in Posting : Listed(j)
    BY <1>4, ListedKept
  <1>5. CASE UNCHANGED attempts
    BY <1>5 DEF attempts, CallInv, AttemptsTypeOK, CallRequeues, Requeues
  <1> QED BY <1>1, <1>2, <1>3, <1>4, <1>5 DEF AttemptsNext

LEMMA CallInvariant == AttemptsSpec => []CallInv
  BY CallInit, CallStep, PTL DEF AttemptsSpec

-----------------------------------------------------------------------------

(* Every attempt and every call under way has the declared shape, whatever   *)
(* is committed between a call's reading and its writing.                    *)
THEOREM AttemptsTyped == AttemptsSpec => []AttemptsTypeOK
  BY CallInvariant, PTL DEF CallInv

(* Only an explicit reset puts an application that was begun back in the     *)
(* queue.  A call that found no attempt inserts one or keeps the one that    *)
(* has appeared (ensure_application_attempt); no other decision but a reset's*)
(* changes a status to queued, and a commit writes only what was decided.    *)
THEOREM RequeuedByReset == AttemptsSpec => OnlyResetRequeues
  <1> DEFINE Requeued(j) ==
        row[j].status \notin {"absent", "queued"} /\ row'[j].status = "queued"
  <1>1. ASSUME CallInv, [AttemptsNext]_attempts, NEW j \in Posting, Requeued(j)
        PROVE  \E s \in Session : call[s].tool = "reset" /\ call'[s] = NoCall
    <2>1. PICK s \in Session : CommitCall(s)
      BY <1>1 DEF AttemptsNext, attempts, Begin, AbortCall, Listed
    <2>2. call[s] # NoCall /\ call[s] \in CallType
      BY <1>1, <2>1, UnderWay DEF CallInv, CommitCall
    <2>3. row'[j] = MergedRow(call[s], j) /\ row[j] \in RowType
      BY <1>1, <2>1 DEF CommitCall, CallInv, AttemptsTypeOK
    <2>4. call[s].seen[j] \in RowType /\ call[s].new[j] \in RowType
      BY <2>2 DEF CallType
    <2>5. j \notin Inserts(call[s]) /\ row'[j] = Columns(call[s].seen[j], call[s].new[j], row[j])
      BY <1>1, <2>3, Constants DEF MergedRow
    <2>6. call[s].new[j].status = "queued" /\ call[s].seen[j].status # "queued"
      BY <1>1, <2>3, <2>4, <2>5, ColumnRows
    <2>7. call[s].seen[j] # Absent
      BY <2>5, <2>6, Constants DEF Inserts
    <2>8. Requeues(call[s].tool, call[s].seen[j], call[s].new[j])
      BY <1>1, <2>2 DEF CallInv, CallRequeues
    <2>9. call[s].tool = "reset"
      BY <2>6, <2>7, <2>8 DEF Requeues
    <2>10. call'[s] = NoCall
      BY <1>1, <2>1 DEF CommitCall, CallInv, AttemptsTypeOK
    <2> QED BY <2>9, <2>10
  <1>2. CallInv /\ [AttemptsNext]_attempts => [\A j \in Posting : Requeued(j) =>
          \E s \in Session : call[s].tool = "reset" /\ call'[s] = NoCall]_attempts
    BY <1>1
  <1> QED BY <1>2, CallInvariant, PTL DEF OnlyResetRequeues, AttemptsSpec

-----------------------------------------------------------------------------
(* Attempts no call wrote over unread, whatever the processes call.  A row   *)
(* that is not raced is what every decision on it found, so the columns a    *)
(* commit writes make the row that was decided.                              *)

Lists == {"next", "queue", "status", "answer"}

\* what the row of an attempt tells fits together
Fits(r) ==
    /\ r.code <=> r.status = "failed"
    /\ r.question => r.status = "needs_review"
    /\ r.status \notin {"absent", "queued", "in_progress"} => r.status \in StatusesOf(r.stage)
    /\ r.submitted <=> r.status = "submitted"

\* what a decision made of the row it read
Decided(tool, r, q) ==
    \/ q = r
    \/ /\ Fits(q) /\ q.count = Counted(r, q.status)
       /\ tool \in ReadsAgain => q.status = "queued"
       /\ tool \in Lists => r = Absent /\ q = Queued

LEMMA ConstantsFit ==
    /\ Fits(Absent) /\ Fits(Queued)
    /\ Queued.count = Counted(Absent, Queued.status)
    /\ Absent.count = 0 /\ Queued.count = 0
  BY DEF Fits, Absent, Queued, Counted, Restarts

LEMMA EnsuredFits ==
    ASSUME NEW r \in RowType, NEW isOpen, NEW q \in Ensured(r, isOpen), NEW tool \in ReadsAgain
    PROVE  Decided(tool, r, q)
  BY Constants, ConstantsFit DEF Ensured, Decided

LEMMA TransitionFits ==
    ASSUME NEW r \in RowType, Fits(r), NEW isOpen,
           NEW to \in Statuses \ {"absent", "queued"}, NEW q \in Transition(r, isOpen, to)
    PROVE  q \in RowType /\ q.status = to /\ Fits(q) /\ q.count = Counted(r, q.status)
  <1>1. PICK asked \in {a \in BOOLEAN : to \in Allowed[r.status] /\ (isOpen \/ to = "failed")} :
          q = [status |-> to, stage |-> StageOf(r, to), count |-> Counted(r, to),
               submitted |-> r.submitted \/ to = "submitted",
               code |-> to = "failed" \/ (r.code /\ ~Restarts(r, to)),
               question |-> Question(r, to, asked)]
    BY DEF Transition
  <1>2. q \in RowType /\ q.status = to
    BY TransitionRows
  <1>3. q.count = Counted(r, q.status)
    BY <1>1
  <1>4. r.status \in Statuses /\ to \in Allowed[r.status]
    BY <1>1 DEF RowType
  <1>5. to \in CASE r.status \in {"absent", "queued"} -> {"in_progress", "failed"}
                 [] r.status = "in_progress" ->
                      {"needs_verification", "needs_review", "ready_to_submit", "failed"}
                 [] r.status = "needs_verification" -> {"in_progress", "failed"}
                 [] r.status = "ready_to_submit" -> {"submitted", "failed"}
                 [] r.status = "failed" -> {"in_progress"}
                 [] r.status = "needs_review" -> {"failed"}
                 [] r.status = "submitted" -> {}
    BY <1>4 DEF Allowed
  <1>6. r.status = "failed" => to = "in_progress"
    BY <1>5
  <1>7. r.status = "needs_review" => to = "failed"
    BY <1>5
  <1>8. r.status # "submitted"
    BY <1>5
  <1>9. q.code <=> to = "failed"
    BY <1>1, <1>6 DEF Fits, Restarts
  <1>10. q.question => to = "needs_review"
    <2>1. q.question = Question(r, to, asked)
      BY <1>1
    <2>2. CASE to = "needs_review"
      BY <2>2
    <2>3. CASE to \in {"in_progress", "failed"}
      BY <2>1, <2>3 DEF Question
    <2>4. CASE to \notin {"needs_review", "in_progress", "failed"}
      <3>1. q.question = r.question
        BY <2>1, <2>4 DEF Question
      <3> QED BY <3>1, <2>4, <1>7 DEF Fits
    <2> QED BY <2>2, <2>3, <2>4
  <1>11. to # "in_progress" => to \in StatusesOf(q.stage)
    <2>1. q.stage = StageOf(r, to)
      BY <1>1
    <2> QED BY <2>1 DEF StageOf, StatusesOf, Statuses
  <1>12. q.submitted <=> to = "submitted"
    BY <1>1, <1>8 DEF Fits
  <1> QED BY <1>2, <1>3, <1>9, <1>10, <1>11, <1>12 DEF Fits

LEMMA CheckpointedFits ==
    ASSUME NEW r \in RowType, Fits(r), NEW stages \in SUBSET Stages,
           NEW q \in Checkpointed(r, stages)
    PROVE  q \in RowType /\ q.status = r.status /\ r.status \in Ongoing /\ Fits(q) /\ q.count = r.count
  <1>1. PICK t \in stages : q = [r EXCEPT !.stage = t] /\ r.status \in StatusesOf(t)
    BY DEF Checkpointed
  <1>2. q \in RowType /\ q.status = r.status /\ r.status \in Ongoing
    BY CheckpointedRows
  <1>3. /\ q.stage = t /\ q.code = r.code /\ q.question = r.question
        /\ q.submitted = r.submitted /\ q.count = r.count
    BY <1>1 DEF RowType
  <1> QED BY <1>1, <1>2, <1>3 DEF Fits

LEMMA StartedFits ==
    ASSUME NEW r \in RowType, Fits(r), NEW isOpen, NEW q \in Started(r, isOpen)
    PROVE  Fits(q) /\ q.count = Counted(r, q.status)
  <1>1. PICK n \in Transition(r, isOpen, "in_progress") : q \in Checkpointed(n, {"opened"})
    BY DEF Started
  <1>2. /\ n \in RowType /\ n.status = "in_progress" /\ Fits(n)
        /\ n.count = Counted(r, n.status)
    BY TransitionFits DEF Statuses
  <1>3. q.status = n.status /\ Fits(q) /\ q.count = n.count
    BY <1>1, <1>2, CheckpointedFits DEF Stages
  <1> QED BY <1>2, <1>3

LEMMA ResetFits ==
    ASSUME NEW r \in RowType, Fits(r), NEW isOpen, NEW q \in Reset(r, isOpen)
    PROVE  Decided("reset", r, q)
  <1>1. CASE r = Absent
    BY <1>1, EnsuredFits DEF Reset, ReadsAgain
  <1>2. CASE r # Absent
    <2>1. /\ q = [Queued EXCEPT !.count = r.count, !.submitted = r.submitted]
          /\ r.status # "submitted"
      BY <1>2 DEF Reset
    <2>2. q.status = "queued" /\ q.count = r.count /\ ~q.code /\ ~q.question /\ ~q.submitted
      BY <2>1 DEF Fits, Queued, Absent
    <2>3. Fits(q)
      BY <2>2 DEF Fits
    <2>4. q.count = Counted(r, q.status)
      BY <2>2 DEF Counted, Restarts
    <2> QED BY <2>2, <2>3, <2>4 DEF Decided, Lists
  <1> QED BY <1>1, <1>2

LEMMA ResultFits ==
    ASSUME NEW tool \in Tools, NEW r \in RowType, Fits(r), NEW isOpen,
           NEW q \in ResultsOf(tool, r, isOpen)
    PROVE  Decided(tool, r, q)
  <1>1. CASE tool = "status"
    <2>1. q = r \/ q \in Ensured(r, isOpen)
      BY <1>1 DEF ResultsOf, Viewed
    <2> QED BY <1>1, <2>1, EnsuredFits DEF Decided, ReadsAgain
  <1>2. CASE tool = "answer"
    BY <1>2, EnsuredFits DEF ResultsOf, ReadsAgain
  <1>3. CASE tool = "start"
    BY <1>3, StartedFits DEF ResultsOf, Decided, ReadsAgain, Lists
  <1>4. CASE tool = "checkpoint"
    <2>1. q.status = r.status /\ r.status \in Ongoing /\ Fits(q) /\ q.count = r.count
      BY <1>4, CheckpointedFits DEF ResultsOf
    <2>2. q.count = Counted(r, q.status)
      BY <2>1 DEF Counted, Restarts, Ongoing
    <2> QED BY <1>4, <2>1, <2>2 DEF Decided, ReadsAgain, Lists
  <1>5. CASE tool \in {"verify", "resume", "review", "ready", "submit", "fail"}
    <2>1. PICK to \in Statuses \ {"absent", "queued"} : q \in Transition(r, isOpen, to)
      BY <1>5 DEF ResultsOf, Statuses
    <2>2. Fits(q) /\ q.count = Counted(r, q.status)
      BY <2>1, TransitionFits
    <2> QED BY <1>5, <2>2 DEF Decided, ReadsAgain, Lists
  <1>6. CASE tool = "reset"
    BY <1>6, ResetFits DEF ResultsOf
  <1>7. CASE tool \in {"next", "queue"}
    BY <1>7 DEF ResultsOf
  <1> QED BY <1>1, <1>2, <1>3, <1>4, <1>5, <1>6, <1>7 DEF Tools

LEMMA TableFits ==
    ASSUME AttemptsTypeOK, NEW tool \in Tools, NEW new \in Tables(tool), NEW j \in Posting, Fits(row[j])
    PROVE  Decided(tool, row[j], new[j])
  <1>1. CASE tool \in {"next", "queue"}
    <2>1. new = [i \in Posting |-> IF i \in Ensuring(tool) THEN Queued ELSE row[i]]
      BY <1>1 DEF Tables
    <2>2. \A i \in Ensuring(tool) : row[i] = Absent
      BY DEF Ensuring
    <2> QED BY <2>1, <2>2, Constants, ConstantsFit DEF Decided
  <1>2. CASE tool \notin {"next", "queue"}
    <2> PICK k \in Posting : \E r \in ResultsOf(tool, row[k], k \in open) : new = [row EXCEPT ![k] = r]
      BY <1>2 DEF Tables
    <2>1. PICK r \in ResultsOf(tool, row[k], k \in open) : new = [row EXCEPT ![k] = r]
      OBVIOUS
    <2>2. j = k => Decided(tool, row[j], r)
      BY ResultFits DEF AttemptsTypeOK
    <2>3. new[j] = IF j = k THEN r ELSE row[j]
      BY <2>1 DEF AttemptsTypeOK
    <2> QED BY <2>2, <2>3 DEF Decided
  <1> QED BY <1>1, <1>2

SerialInv == \A j \in Posting \ raced :
    /\ Fits(row[j]) /\ row[j].count = starts[j]
    /\ \A s \in Session : call[s] # NoCall =>
          Decided(call[s].tool, call[s].seen[j], call[s].new[j])

LEMMA SerialInit == AttemptsInit => SerialInv
  BY ConstantsFit DEF AttemptsInit, SerialInv

\* columns written over the row they were decided on, or not written at all
LEMMA ColumnsOfSeen ==
    ASSUME NEW seen \in RowType, NEW new \in RowType
    PROVE  Columns(seen, new, seen) = new /\ Columns(seen, seen, new) = new
  BY DEF Columns, RowType

LEMMA SerialBegin ==
    ASSUME AttemptsTypeOK, SerialInv, NEW s \in Session, NEW tool \in Tools, Begin(s, tool)
    PROVE  SerialInv'
  <1>1. PICK new \in Tables(tool) :
          call' = [call EXCEPT ![s] = [tool |-> tool, seen |-> row, new |-> new]]
    BY DEF Begin
  <1>2. row' = row /\ starts' = starts /\ raced' = raced
    BY DEF Begin
  <1>3. \A j \in Posting \ raced : Decided(tool, row[j], new[j])
    BY TableFits DEF SerialInv
  <1>4. call'[s] = [tool |-> tool, seen |-> row, new |-> new]
    BY <1>1 DEF AttemptsTypeOK
  <1>5. \A t \in Session \ {s} : call'[t] = call[t]
    BY <1>1 DEF AttemptsTypeOK
  <1> QED BY <1>2, <1>3, <1>4, <1>5 DEF SerialInv

\* what a call leaves of a row it did not write over
LEMMA SerialCommit ==
    ASSUME AttemptsTypeOK, SerialInv, NEW s \in Session, CommitCall(s), NEW j \in Posting \ raced'
    PROVE  Fits(row'[j]) /\ row'[j].count = starts'[j]
  <1> DEFINE c == call[s]
  <1>1. c # NoCall /\ c \in CallType
    BY UnderWay DEF CommitCall
  <1>2. /\ row'[j] = MergedRow(c, j)
        /\ starts'[j] = IF Starting(c, j) THEN starts[j] + 1 ELSE starts[j]
        /\ j \notin raced /\ j \notin Overtaken(c)
    BY DEF CommitCall
  <1>3. Decided(c.tool, c.seen[j], c.new[j]) /\ Fits(row[j]) /\ row[j].count = starts[j]
    BY <1>1, <1>2 DEF SerialInv
  <1>4. c.seen[j] \in RowType /\ c.new[j] \in RowType /\ row[j] \in RowType
    BY <1>1 DEF CallType, AttemptsTypeOK
  <1>5. CASE c.new[j] = c.seen[j]
    <2>1. row'[j] = row[j]
      BY <1>2, <1>4, <1>5, ColumnsOfSeen DEF MergedRow
    <2>2. ~Starting(c, j)
      BY <1>5 DEF Starting, Restarts
    <2> QED BY <1>2, <1>3, <2>1, <2>2
  <1>6. CASE c.new[j] # c.seen[j] /\ row[j] = c.seen[j]
    <2>1. row'[j] = c.new[j]
      BY <1>2, <1>4, <1>6, ColumnsOfSeen DEF MergedRow, Inserts
    <2>2. Fits(c.new[j]) /\ c.new[j].count = Counted(c.seen[j], c.new[j].status)
      BY <1>3, <1>6 DEF Decided
    <2>3. starts'[j] = Counted(c.seen[j], c.new[j].status)
      BY <1>2, <1>3, <1>6 DEF Starting, Counted
    <2> QED BY <2>1, <2>2, <2>3
  <1>7. CASE c.new[j] # c.seen[j] /\ row[j] # c.seen[j]
    <2>1. j \in Inserts(c) /\ c.seen[j] = Absent
      BY <1>2, <1>7 DEF Overtaken, Inserts
    <2>2. row'[j] = row[j]
      BY <1>2, <1>7, <2>1 DEF MergedRow
    <2>3. c.tool \in ReadsAgain
      BY <1>7, <2>1 DEF CommitCall
    <2>4. c.new[j].status = "queued"
      BY <1>3, <1>7, <2>3 DEF Decided
    <2>5. ~Starting(c, j)
      BY <2>4 DEF Starting, Restarts
    <2> QED BY <1>2, <1>3, <2>2, <2>5
  <1> QED BY <1>5, <1>6, <1>7

LEMMA SerialStep == CallInv /\ SerialInv /\ [AttemptsNext]_attempts => SerialInv'
  <1> SUFFICES ASSUME CallInv, SerialInv, [AttemptsNext]_attempts PROVE SerialInv'
    OBVIOUS
  <1> AttemptsTypeOK
    BY DEF CallInv
  <1>1. CASE \E s \in Session, tool \in Tools : Begin(s, tool)
    BY <1>1, SerialBegin
  <1>2. CASE \E s \in Session : CommitCall(s)
    <2>1. PICK s \in Session : CommitCall(s)
      BY <1>2
    <2>2. \A t \in Session : call'[t] # NoCall => call'[t] = call[t]
      BY <2>1 DEF CommitCall, AttemptsTypeOK
    <2>3. raced \subseteq raced'
      BY <2>1 DEF CommitCall
    <2>4. \A j \in Posting \ raced' : Fits(row'[j]) /\ row'[j].count = starts'[j]
      BY <2>1, SerialCommit
    <2> QED BY <2>2, <2>3, <2>4 DEF SerialInv
  <1>3. CASE \E s \in Session : AbortCall(s)
    <2>1. PICK s \in Session : call' = [call EXCEPT ![s] = NoCall] /\ UNCHANGED <<row, starts, raced>>
      BY <1>3 DEF AbortCall
    <2>2. \A t \in Session : call'[t] # NoCall => call'[t] = call[t]
      BY <2>1 DEF AttemptsTypeOK
    <2> QED BY <2>1, <2>2 DEF SerialInv
  <1>4. CASE \E j \in Posting : Listed(j)
    BY <1>4 DEF Listed, SerialInv
  <1>5. CASE UNCHANGED attempts
    BY <1>5 DEF attempts, SerialInv
  <1> QED BY <1>1, <1>2, <1>3, <1>4, <1>5 DEF AttemptsNext

LEMMA SerialInvariant == AttemptsSpec => []SerialInv
  BY SerialInit, SerialStep, CallInvariant, PTL DEF AttemptsSpec

(* As long as no call wrote over a change it had not read, whatever the      *)
(* processes call and in whatever order they commit, what an attempt         *)
(* remembers agrees with what was done: the context the service stored fits  *)
(* the status, what was submitted stays so, and each start is counted.       *)
THEOREM SerialAttemptsAgree ==
    AttemptsSpec => [](\A j \in Posting \ raced : /\ ContextFitsStatus(row[j])
                                                  /\ SubmittedIsFinal(row[j])
                                                  /\ row[j].count = starts[j])
  <1>1. SerialInv => \A j \in Posting \ raced : /\ ContextFitsStatus(row[j])
                                                /\ SubmittedIsFinal(row[j])
                                                /\ row[j].count = starts[j]
    BY DEF SerialInv, Fits, ContextFitsStatus, SubmittedIsFinal
  <1> QED BY <1>1, SerialInvariant, PTL

-----------------------------------------------------------------------------
(* One agent, whose calls take an application from status to status, while   *)
(* the operator's processes list, look up, answer and reset at any moment.   *)
(* Between the agent's reading and its writing these change a row in few     *)
(* ways (Near), and so does what the agent writes over them.                 *)

Operates == Lists \cup {"reset"}

OneAgent == \E w \in Session : \A s \in Session \ {w} : ToolsOf[s] \subseteq Operates

Agent == CHOOSE w \in Session : \A s \in Session \ {w} : ToolsOf[s] \subseteq Operates

LEMMA TheAgent ==
    ASSUME OneAgent
    PROVE  Agent \in Session /\ \A s \in Session \ {Agent} : ToolsOf[s] \subseteq Operates
  BY DEF OneAgent, Agent

\* q is r, or r with columns a reset has cleared, or the attempt created where r was none
Near(r, q) ==
    /\ q.status \in {r.status, "queued"} /\ q.stage \in {r.stage, "none"}
    /\ (q.code => r.code) /\ (q.question => r.question)
    /\ q.count = r.count /\ q.submitted = r.submitted

\* what holds of every attempt, reset during a call or not
Sane(r) == ContextIsCurrent(r) /\ (r.status = "submitted" => r.submitted)

LEMMA NearRows ==
    /\ \A r \in RowType : Near(r, r)
    /\ \A r, q, p \in RowType : Near(r, q) /\ Near(q, p) => Near(r, p)
    /\ Near(Absent, Queued)
    /\ \A q \in RowType : Near(Absent, q) => q \in {Absent, Queued}
  <1>1. \A r \in RowType : Near(r, r)
    BY DEF Near
  <1>2. ASSUME NEW r \in RowType, NEW q \in RowType, NEW p \in RowType, Near(r, q), Near(q, p)
        PROVE  Near(r, p)
    BY <1>2 DEF Near
  <1>3. Near(Absent, Queued)
    BY DEF Near, Absent, Queued
  <1>4. ASSUME NEW q \in RowType, Near(Absent, q)
        PROVE  q \in {Absent, Queued}
    <2>1. q.status \in {"absent", "queued"} /\ q.stage = "none" /\ q.count = 0
      BY <1>4 DEF Near, Absent
    <2>2. q.submitted = FALSE /\ q.code = FALSE /\ q.question = FALSE
      BY <1>4 DEF Near, Absent, RowType
    <2>3. q = [status |-> q.status, stage |-> q.stage, count |-> q.count,
               submitted |-> q.submitted, code |-> q.code, question |-> q.question]
      BY DEF RowType
    <2>4. q = [status |-> q.status, stage |-> "none", count |-> 0,
               submitted |-> FALSE, code |-> FALSE, question |-> FALSE]
      BY <2>1, <2>2, <2>3
    <2>5. Queued = [status |-> "queued", stage |-> "none", count |-> 0,
                    submitted |-> FALSE, code |-> FALSE, question |-> FALSE]
      <3>1. Queued \in RowType
        BY Constants
      <3>2. Queued = [status |-> Queued.status, stage |-> Queued.stage, count |-> Queued.count,
                      submitted |-> Queued.submitted, code |-> Queued.code,
                      question |-> Queued.question]
        BY <3>1 DEF RowType
      <3>3. /\ Queued.status = "queued" /\ Queued.stage = "none" /\ Queued.count = 0
            /\ Queued.submitted = FALSE /\ Queued.code = FALSE /\ Queued.question = FALSE
        BY DEF Queued, Absent
      <3> QED BY <3>2, <3>3
    <2>6. q.status = "absent" => q = Absent
      BY <2>4 DEF Absent
    <2>7. q.status = "queued" => q = Queued
      BY <2>4, <2>5
    <2> QED BY <2>1, <2>6, <2>7
  <1> QED BY <1>1, <1>2, <1>3, <1>4

LEMMA NearSane ==
    ASSUME NEW r \in RowType, NEW q \in RowType, Near(r, q), Sane(r)
    PROVE  Sane(q)
  <1>1. CASE q.status = "queued"
    BY <1>1 DEF Sane, ContextIsCurrent
  <1>2. CASE q.status # "queued"
    <2>1. q.status = r.status
      BY <1>2 DEF Near
    <2> QED BY <2>1 DEF Near, Sane, ContextIsCurrent
  <1> QED BY <1>1, <1>2

\* the decided columns over a row near the one read make a row near the decided one
LEMMA NearColumns ==
    ASSUME NEW seen \in RowType, NEW new \in RowType, NEW current \in RowType, Near(seen, current)
    PROVE  Near(new, Columns(seen, new, current))
  BY DEF Near, Columns, RowType

\* what a decision made of the row it read
Made(tool, r, q) ==
    \/ q = r
    \/ /\ Sane(q) /\ q.count = Counted(r, q.status)
       /\ tool \in ReadsAgain => q.status = "queued"
       /\ tool \in Operates => \/ r = Absent /\ q = Queued
                               \/ q = [Queued EXCEPT !.count = r.count, !.submitted = r.submitted]

LEMMA EnsuredMade ==
    ASSUME NEW r \in RowType, NEW isOpen, NEW q \in Ensured(r, isOpen), NEW tool \in ReadsAgain
    PROVE  Made(tool, r, q)
  BY Constants, ConstantsFit DEF Ensured, Made, Sane, ContextIsCurrent

LEMMA TransitionMade ==
    ASSUME NEW r \in RowType, Sane(r), NEW isOpen,
           NEW to \in Statuses \ {"absent", "queued"}, NEW q \in Transition(r, isOpen, to)
    PROVE  q \in RowType /\ q.status = to /\ Sane(q) /\ q.count = Counted(r, q.status)
  <1>1. PICK asked \in {a \in BOOLEAN : to \in Allowed[r.status] /\ (isOpen \/ to = "failed")} :
          q = [status |-> to, stage |-> StageOf(r, to), count |-> Counted(r, to),
               submitted |-> r.submitted \/ to = "submitted",
               code |-> to = "failed" \/ (r.code /\ ~Restarts(r, to)),
               question |-> Question(r, to, asked)]
    BY DEF Transition
  <1>2. q \in RowType /\ q.status = to
    BY TransitionRows
  <1>3. q.count = Counted(r, q.status)
    BY <1>1
  <1>4. r.status \in Statuses /\ to \in Allowed[r.status]
    BY <1>1 DEF RowType
  <1>5. to \in CASE r.status \in {"absent", "queued"} -> {"in_progress", "failed"}
                 [] r.status = "in_progress" ->
                      {"needs_verification", "needs_review", "ready_to_submit", "failed"}
                 [] r.status = "needs_verification" -> {"in_progress", "failed"}
                 [] r.status = "ready_to_submit" -> {"submitted", "failed"}
                 [] r.status = "failed" -> {"in_progress"}
                 [] r.status = "needs_review" -> {"failed"}
                 [] r.status = "submitted" -> {}
    BY <1>4 DEF Allowed
  <1>6. r.status = "failed" => to = "in_progress"
    BY <1>5
  <1>7. r.status = "needs_review" => to = "failed"
    BY <1>5
  <1>8. r.status \in {"absent", "queued"} => to \in {"in_progress", "failed"}
    BY <1>5
  <1>9. q.code => to = "failed"
    BY <1>1, <1>6, <1>8 DEF Sane, ContextIsCurrent, Restarts
  <1>10. q.question => to = "needs_review"
    <2>1. q.question = Question(r, to, asked)
      BY <1>1
    <2>2. CASE to = "needs_review"
      BY <2>2
    <2>3. CASE to \in {"in_progress", "failed"}
      BY <2>1, <2>3 DEF Question
    <2>4. CASE to \notin {"needs_review", "in_progress", "failed"}
      <3>1. q.question = r.question
        BY <2>1, <2>4 DEF Question
      <3> QED BY <3>1, <2>4, <1>7, <1>8 DEF Sane, ContextIsCurrent
    <2> QED BY <2>2, <2>3, <2>4
  <1>11. to # "in_progress" => to \in StatusesOf(q.stage)
    <2>1. q.stage = StageOf(r, to)
      BY <1>1
    <2> QED BY <2>1 DEF StageOf, StatusesOf, Statuses
  <1>12. to = "submitted" => q.submitted
    BY <1>1
  <1> QED BY <1>2, <1>3, <1>9, <1>10, <1>11, <1>12 DEF Sane, ContextIsCurrent

LEMMA CheckpointedMade ==
    ASSUME NEW r \in RowType, Sane(r), NEW stages \in SUBSET Stages,
           NEW q \in Checkpointed(r, stages)
    PROVE  q \in RowType /\ q.status = r.status /\ r.status \in Ongoing /\ Sane(q) /\ q.count = r.count
  <1>1. PICK t \in stages : q = [r EXCEPT !.stage = t] /\ r.status \in StatusesOf(t)
    BY DEF Checkpointed
  <1>2. q \in RowType /\ q.status = r.status /\ r.status \in Ongoing
    BY CheckpointedRows
  <1>3. /\ q.stage = t /\ q.code = r.code /\ q.question = r.question
        /\ q.submitted = r.submitted /\ q.count = r.count
    BY <1>1 DEF RowType
  <1> QED BY <1>1, <1>2, <1>3 DEF Sane, ContextIsCurrent

LEMMA ResultMade ==
    ASSUME NEW tool \in Tools, NEW r \in RowType, Sane(r), NEW isOpen,
           NEW q \in ResultsOf(tool, r, isOpen)
    PROVE  Made(tool, r, q)
  <1>1. CASE tool = "status"
    <2>1. q = r \/ q \in Ensured(r, isOpen)
      BY <1>1 DEF ResultsOf, Viewed
    <2> QED BY <1>1, <2>1, EnsuredMade DEF Made, ReadsAgain
  <1>2. CASE tool = "answer"
    BY <1>2, EnsuredMade DEF ResultsOf, ReadsAgain
  <1>3. CASE tool = "start"
    <2>1. PICK n \in Transition(r, isOpen, "in_progress") : q \in Checkpointed(n, {"opened"})
      BY <1>3 DEF ResultsOf, Started
    <2>2. /\ n \in RowType /\ n.status = "in_progress" /\ Sane(n)
          /\ n.count = Counted(r, n.status)
      BY TransitionMade DEF Statuses
    <2>3. q.status = n.status /\ Sane(q) /\ q.count = n.count
      BY <2>1, <2>2, CheckpointedMade DEF Stages
    <2> QED BY <1>3, <2>2, <2>3 DEF Made, ReadsAgain, Operates, Lists
  <1>4. CASE tool = "checkpoint"
    <2>1. q.status = r.status /\ r.status \in Ongoing /\ Sane(q) /\ q.count = r.count
      BY <1>4, CheckpointedMade DEF ResultsOf
    <2>2. q.count = Counted(r, q.status)
      BY <2>1 DEF Counted, Restarts, Ongoing
    <2> QED BY <1>4, <2>1, <2>2 DEF Made, ReadsAgain, Operates, Lists
  <1>5. CASE tool \in {"verify", "resume", "review", "ready", "submit", "fail"}
    <2>1. PICK to \in Statuses \ {"absent", "queued"} : q \in Transition(r, isOpen, to)
      BY <1>5 DEF ResultsOf, Statuses
    <2>2. Sane(q) /\ q.count = Counted(r, q.status)
      BY <2>1, TransitionMade
    <2> QED BY <1>5, <2>2 DEF Made, ReadsAgain, Operates, Lists
  <1>6. CASE tool = "reset" /\ r = Absent
    BY <1>6, EnsuredMade DEF ResultsOf, Reset, ReadsAgain
  <1>7. CASE tool = "reset" /\ r # Absent
    <2>1. q = [Queued EXCEPT !.count = r.count, !.submitted = r.submitted]
      BY <1>7 DEF ResultsOf, Reset
    <2>2. q.status = "queued" /\ q.count = r.count
      BY <2>1 DEF Queued, Absent
    <2> QED BY <1>7, <2>1, <2>2 DEF Made, Sane, ContextIsCurrent, Counted, Restarts
  <1>8. CASE tool \in {"next", "queue"}
    BY <1>8 DEF ResultsOf
  <1> QED BY <1>1, <1>2, <1>3, <1>4, <1>5, <1>6, <1>7, <1>8 DEF Tools

LEMMA TableMade ==
    ASSUME AttemptsTypeOK, NEW tool \in Tools, NEW new \in Tables(tool), NEW j \in Posting, Sane(row[j])
    PROVE  Made(tool, row[j], new[j])
  <1>1. CASE tool \in {"next", "queue"}
    <2>1. new = [k \in Posting |-> IF k \in Ensuring(tool) THEN Queued ELSE row[k]]
      BY <1>1 DEF Tables
    <2>2. j \in Ensuring(tool) => row[j] = Absent
      BY DEF Ensuring
    <2> QED BY <2>1, <2>2, Constants, ConstantsFit DEF Made, Sane, ContextIsCurrent
  <1>2. CASE tool \notin {"next", "queue"}
    <2> PICK k \in Posting : \E r \in ResultsOf(tool, row[k], k \in open) : new = [row EXCEPT ![k] = r]
      BY <1>2 DEF Tables
    <2>1. PICK r \in ResultsOf(tool, row[k], k \in open) : new = [row EXCEPT ![k] = r]
      OBVIOUS
    <2>2. j = k => Made(tool, row[j], r)
      BY ResultMade DEF AttemptsTypeOK
    <2>3. new[j] = IF j = k THEN r ELSE row[j]
      BY <2>1 DEF AttemptsTypeOK
    <2> QED BY <2>2, <2>3 DEF Made
  <1> QED BY <1>1, <1>2

\* the agent's call read rows the rows are near to
AgentInv ==
    /\ \A j \in Posting : Sane(row[j]) /\ row[j].count = starts[j]
    /\ \A s \in Session : call[s] # NoCall =>
          /\ call[s].tool \in ToolsOf[s]
          /\ \A j \in Posting : /\ Made(call[s].tool, call[s].seen[j], call[s].new[j])
                                /\ s = Agent => Near(call[s].seen[j], row[j])

LEMMA AgentInit == AttemptsInit => AgentInv
  BY ConstantsFit, Constants DEF AttemptsInit, AgentInv, Sane, ContextIsCurrent

LEMMA AgentBegin ==
    ASSUME AttemptsTypeOK, AgentInv, NEW s \in Session, NEW tool \in Tools, Begin(s, tool)
    PROVE  AgentInv'
  <1>1. row' = row /\ starts' = starts /\ tool \in ToolsOf[s]
    BY DEF Begin
  <1>2. PICK new \in Tables(tool) :
          call' = [call EXCEPT ![s] = [tool |-> tool, seen |-> row, new |-> new]]
    BY DEF Begin
  <1>3. \A j \in Posting : Made(tool, row[j], new[j]) /\ Near(row[j], row[j])
    BY TableMade, NearRows DEF AgentInv, AttemptsTypeOK
  <1>4. call'[s] = [tool |-> tool, seen |-> row, new |-> new]
    BY <1>2 DEF AttemptsTypeOK
  <1>5. \A t \in Session \ {s} : call'[t] = call[t]
    BY <1>2 DEF AttemptsTypeOK
  <1> QED BY <1>1, <1>3, <1>4, <1>5 DEF AgentInv

\* a reset writes nothing but cleared columns, over any row
LEMMA ResetColumns ==
    ASSUME NEW seen \in RowType, NEW current \in RowType,
           NEW new, new = [Queued EXCEPT !.count = seen.count, !.submitted = seen.submitted]
    PROVE  Near(current, Columns(seen, new, current))
  <1>1. /\ new.status = "queued" /\ new.stage = "none" /\ ~new.code /\ ~new.question
        /\ new.count = seen.count /\ new.submitted = seen.submitted
    BY DEF Queued, Absent
  <1> QED BY <1>1 DEF Near, Columns, RowType

\* what the operator commits
LEMMA OperatorCommit ==
    ASSUME AttemptsTypeOK, AgentInv, NEW s \in Session, CommitCall(s), call[s].tool \in Operates, NEW j \in Posting
    PROVE  Near(row[j], row'[j]) /\ starts'[j] = starts[j]
  <1> DEFINE c == call[s]
  <1>1. c # NoCall /\ c \in CallType
    BY UnderWay DEF CommitCall
  <1>2. row'[j] = MergedRow(c, j) /\ starts'[j] = IF Starting(c, j) THEN starts[j] + 1 ELSE starts[j]
    BY DEF CommitCall
  <1>3. c.seen[j] \in RowType /\ c.new[j] \in RowType /\ row[j] \in RowType
    BY <1>1 DEF CallType, AttemptsTypeOK
  <1>4. Made(c.tool, c.seen[j], c.new[j])
    BY <1>1 DEF AgentInv
  <1>5. CASE c.new[j] = c.seen[j]
    <2>1. row'[j] = row[j]
      BY <1>2, <1>3, <1>5, ColumnsOfSeen DEF MergedRow
    <2> QED BY <1>2, <1>3, <1>5, <2>1, NearRows DEF Starting, Restarts
  <1>6. CASE c.seen[j] = Absent /\ c.new[j] = Queued
    <2>1. ~Starting(c, j)
      BY <1>6, Constants DEF Starting, Restarts
    <2>2. j \in Inserts(c)
      BY <1>6, Constants DEF Inserts
    <2>3. row[j] # Absent => row'[j] = row[j]
      BY <1>2, <2>2 DEF MergedRow
    <2>4. row[j] = Absent => row'[j] = Queued
      BY <1>2, <1>6, Constants, ColumnsOfSeen DEF MergedRow
    <2> QED BY <1>2, <1>3, <2>1, <2>3, <2>4, NearRows
  <1>7. CASE c.new[j] = [Queued EXCEPT !.count = c.seen[j].count, !.submitted = c.seen[j].submitted]
    <2>1. c.new[j].status = "queued"
      BY <1>7 DEF Queued, Absent
    <2>2. row'[j] = row[j] \/ row'[j] = Columns(c.seen[j], c.new[j], row[j])
      BY <1>2 DEF MergedRow
    <2>3. Near(row[j], row'[j])
      <3>1. Near(row[j], Columns(c.seen[j], c.new[j], row[j]))
        BY <1>3, <1>7, ResetColumns
      <3>2. Near(row[j], row[j])
        BY <1>3, NearRows
      <3> QED BY <2>2, <3>1, <3>2
    <2> QED BY <1>2, <2>1, <2>3 DEF Starting, Restarts
  <1> QED BY <1>4, <1>5, <1>6, <1>7 DEF Made

\* what the agent commits
LEMMA AgentCommit ==
    ASSUME AttemptsTypeOK, AgentInv, Agent \in Session, CommitCall(Agent), NEW j \in Posting
    PROVE  Sane(row'[j]) /\ row'[j].count = starts'[j]
  <1> DEFINE c == call[Agent]
  <1>1. c # NoCall /\ c \in CallType
    BY UnderWay DEF CommitCall
  <1>2. row'[j] = MergedRow(c, j) /\ starts'[j] = IF Starting(c, j) THEN starts[j] + 1 ELSE starts[j]
    BY DEF CommitCall
  <1>3. c.seen[j] \in RowType /\ c.new[j] \in RowType /\ row[j] \in RowType
    BY <1>1 DEF CallType, AttemptsTypeOK
  <1>4. Made(c.tool, c.seen[j], c.new[j]) /\ Near(c.seen[j], row[j])
    BY <1>1 DEF AgentInv
  <1>5. Sane(row[j]) /\ row[j].count = starts[j] /\ row[j].count = c.seen[j].count
    BY <1>4 DEF AgentInv, Near
  <1>6. CASE c.new[j] = c.seen[j]
    <2>1. row'[j] = row[j]
      BY <1>2, <1>3, <1>6, ColumnsOfSeen DEF MergedRow
    <2> QED BY <1>2, <1>5, <1>6, <2>1 DEF Starting, Restarts
  <1>7. CASE c.new[j] # c.seen[j] /\ j \in Inserts(c) /\ row[j] # Absent
    <2>1. row'[j] = row[j]
      BY <1>2, <1>7 DEF MergedRow
    <2>2. c.new[j].status = "queued"
      BY <1>4, <1>7 DEF CommitCall, Made
    <2> QED BY <1>2, <1>5, <2>1, <2>2 DEF Starting, Restarts
  <1>8. CASE c.new[j] # c.seen[j] /\ ~(j \in Inserts(c) /\ row[j] # Absent)
    <2>1. row'[j] = Columns(c.seen[j], c.new[j], row[j])
      BY <1>2, <1>8 DEF MergedRow
    <2>2. Near(c.new[j], row'[j]) /\ row'[j] \in RowType
      <3>1. Near(c.new[j], Columns(c.seen[j], c.new[j], row[j]))
        BY <1>3, <1>4, NearColumns
      <3>2. Columns(c.seen[j], c.new[j], row[j]) \in RowType
        BY <1>3, ColumnRows
      <3> QED BY <2>1, <3>1, <3>2
    <2>3. Sane(c.new[j]) /\ c.new[j].count = Counted(c.seen[j], c.new[j].status)
      BY <1>4, <1>8 DEF Made
    <2>4. Sane(row'[j])
      BY <1>3, <2>2, <2>3, NearSane
    <2>5. row'[j].count = Counted(c.seen[j], c.new[j].status)
      BY <2>2, <2>3 DEF Near
    <2> QED BY <1>2, <1>5, <2>4, <2>5 DEF Starting, Counted
  <1> QED BY <1>6, <1>7, <1>8

\* the calls of the others, when one ends
LEMMA CallsLeft ==
    ASSUME AttemptsTypeOK, AgentInv, NEW s \in Session, call' = [call EXCEPT ![s] = NoCall],
           row' \in [Posting -> RowType], s = Agent \/ \A j \in Posting : Near(row[j], row'[j]),
           \A j \in Posting : Sane(row'[j]) /\ row'[j].count = starts'[j]
    PROVE  AgentInv'
  <1>1. \A t \in Session : call'[t] # NoCall => t # s /\ call'[t] = call[t]
    BY DEF AttemptsTypeOK
  <1>2. ASSUME NEW t \in Session, call'[t] # NoCall, NEW j \in Posting
        PROVE  /\ Made(call'[t].tool, call'[t].seen[j], call'[t].new[j])
               /\ t = Agent => Near(call'[t].seen[j], row'[j])
    <2>1. t # s /\ call'[t] = call[t]
      BY <1>1, <1>2
    <2>2. /\ Made(call[t].tool, call[t].seen[j], call[t].new[j])
          /\ t = Agent => Near(call[t].seen[j], row[j])
      BY <1>2, <2>1 DEF AgentInv
    <2>3. call[t].seen[j] \in RowType /\ row[j] \in RowType /\ row'[j] \in RowType
      BY <1>2, <2>1, UnderWay DEF CallType, AttemptsTypeOK
    <2>4. t = Agent => Near(row[j], row'[j])
      BY <2>1
    <2>5. t = Agent => Near(call[t].seen[j], row'[j])
      BY <2>2, <2>3, <2>4, NearRows
    <2> QED BY <2>1, <2>2, <2>5
  <1>3. \A t \in Session : call'[t] # NoCall => call'[t].tool \in ToolsOf[t]
    BY <1>1 DEF AgentInv
  <1> QED BY <1>2, <1>3 DEF AgentInv

LEMMA AgentStep ==
    ASSUME OneAgent
    PROVE  CallInv /\ AgentInv /\ [AttemptsNext]_attempts => AgentInv'
  <1> SUFFICES ASSUME CallInv, AgentInv, [AttemptsNext]_attempts PROVE AgentInv'
    OBVIOUS
  <1> AttemptsTypeOK /\ AttemptsTypeOK'
    BY CallStep DEF CallInv
  <1>1. CASE \E s \in Session, tool \in Tools : Begin(s, tool)
    BY <1>1, AgentBegin
  <1>2. CASE \E s \in Session : CommitCall(s)
    <2>1. PICK s \in Session : CommitCall(s)
      BY <1>2
    <2>2. call' = [call EXCEPT ![s] = NoCall] /\ call[s] # NoCall /\ row' \in [Posting -> RowType]
      BY <2>1 DEF CommitCall, AttemptsTypeOK
    <2>3. CASE s = Agent
      <3>1. \A j \in Posting : Sane(row'[j]) /\ row'[j].count = starts'[j]
        BY <2>1, <2>3, AgentCommit
      <3> QED BY <2>2, <2>3, <3>1, CallsLeft
    <2>4. CASE s # Agent
      <3>1. call[s].tool \in Operates
        BY <2>2, <2>4, TheAgent DEF AgentInv
      <3>2. \A j \in Posting : Near(row[j], row'[j]) /\ starts'[j] = starts[j]
        BY <2>1, <3>1, OperatorCommit
      <3>3. \A j \in Posting : Sane(row'[j])
        BY <2>2, <3>2, NearSane DEF AgentInv, AttemptsTypeOK
      <3>4. \A j \in Posting : row'[j].count = starts'[j]
        BY <3>2 DEF AgentInv, Near
      <3> QED BY <2>2, <3>2, <3>3, <3>4, CallsLeft
    <2> QED BY <2>3, <2>4
  <1>3. CASE \E s \in Session : AbortCall(s)
    <2>1. PICK s \in Session : call' = [call EXCEPT ![s] = NoCall] /\ row' = row /\ starts' = starts
      BY <1>3 DEF AbortCall
    <2>2. \A j \in Posting : Near(row[j], row'[j]) /\ Sane(row'[j]) /\ row'[j].count = starts'[j]
      BY <2>1, NearRows DEF AgentInv, AttemptsTypeOK
    <2> QED BY <2>1, <2>2, CallsLeft DEF AttemptsTypeOK
  <1>4. CASE \E j \in Posting : Listed(j)
    BY <1>4 DEF Listed, AgentInv
  <1>5. CASE UNCHANGED attempts
    BY <1>5 DEF attempts, AgentInv
  <1> QED BY <1>1, <1>2, <1>3, <1>4, <1>5 DEF AttemptsNext

(* With one agent, and operators that list, look up, answer and reset while  *)
(* it works, each start is counted and no attempt shows what belongs to      *)
(* another try, even where a reset fell between a call's reading and its     *)
(* writing; where none did, context and submission are as they were stored.  *)
THEOREM AttemptsAgree ==
    ASSUME OneAgent
    PROVE  AttemptsSpec => []AttemptsConsistent
  <1>1. CallInv /\ SerialInv /\ AgentInv => AttemptsConsistent
    BY DEF CallInv, SerialInv, Fits, AgentInv, Sane, AttemptsConsistent, ContextFitsStatus,
           CountsStarts, SubmittedIsFinal
  <1>2. CallInv /\ AgentInv /\ [AttemptsNext]_attempts => AgentInv'
    BY AgentStep
  <1> QED BY <1>1, <1>2, AgentInit, CallInvariant, SerialInvariant, PTL DEF AttemptsSpec

-----------------------------------------------------------------------------
(* Deployments. The invariant says, for every line at which a command can    *)
(* stand, fail, be killed or be met by a reboot, which colour serves, which  *)
(* is kept for a rollback, which workers run, and how far the metadata has   *)
(* followed.                                                                 *)

DeploymentSpec == DeploymentInit /\ [][DeploymentNext]_deployment

Before == {"save", "journal"}
Trial == {"metadata", "start", "switch"}
Cutover == {"cut", "stop", "up", "record", "previous"}
Handler == {"traffic", "restored", "refit", "refit up", "target", "standby", "forget"}
Recovery == {"recover", "recover proxy", "recover workers", "recover up", "recover target", "recover active"}
RunStages == Before \cup Trial \cup {"ready", "verify", "clear"} \cup Cutover \cup Handler \cup Recovery

OptionalColor == Color \cup {"none"}

RunType == [at : RunStages, from : OptionalColor, to : Color, release : Nat, rollback : BOOLEAN,
            switched : BOOLEAN, workers : BOOLEAN, touched : BOOLEAN, whole : BOOLEAN]
JournalType == [from : OptionalColor, to : Color]
DiskType ==
    [active : OptionalColor, previous : OptionalColor, pending : JournalType \cup {NoJournal},
     env : [Color -> Nat], before : Nat, workers : OptionalColor, workersBefore : OptionalColor,
     at : Nat, atBefore : Nat]

DeploymentTypeOK ==
    /\ disk \in DiskType
    /\ proxy \in [file : Color, serves : Color]
    /\ api \in [Color -> Nat]
    /\ crew \in [{"legacy", "workers"} -> Nat]
    /\ run \in RunType \cup {NoRun}
    /\ misled \in BOOLEAN

Sound(color) == api[color] # 0 /\ api[color] = disk.env[color]

Commanding == run.at # "none"

\* a rollback returns to a container that is up: nothing is journalled while it is probed
Probing == run.at = "ready" /\ run.rollback

(* What a command has done by each step, and that its journal tells of it.   *)
RunInv ==
    /\ Commanding => run.from # run.to
    /\ run.at \in Before \/ Probing => disk.pending = NoJournal
    /\ Commanding /\ ~(run.at \in Before \/ Probing) =>
         disk.pending # NoJournal /\ disk.pending.from = run.from /\ disk.pending.to = run.to
    /\ disk.pending # NoJournal => disk.pending.from # disk.pending.to
    /\ run.at \in Recovery \cup {"restored"} => run.from # "none"
    /\ run.at \in Before \cup Trial \cup {"ready"} =>
         ~run.switched /\ ~run.workers /\ (~run.rollback => run.to # "legacy")
    /\ run.at \in Before \cup {"metadata"} => ~run.touched
    /\ run.at \in {"metadata", "start"} => ~run.rollback
    /\ run.at \in {"start", "ready", "switch", "verify"} \cup Cutover => run.touched \/ run.rollback
    /\ run.at \in {"verify", "restored"} \cup Cutover => run.switched
    /\ run.at \in Cutover \cup {"verify"} => (run.workers <=> run.at \notin {"verify", "cut"})
    /\ run.at = "clear" => run.workers /\ (run.switched => run.touched \/ run.rollback)
    /\ run.at \in Recovery => ~run.touched /\ ~run.rollback /\ ~run.switched
    /\ run.at \in Recovery \ {"recover", "recover proxy"} => run.workers
    /\ run.at = "standby" => run.touched /\ run.whole
    /\ Commanding /\ run.touched => run.to # "legacy" /\ ~run.rollback

(* The API that is active on disk is up, and so is the one a journal would   *)
(* return to; the adopted one is never replaced.                             *)
ApiInv ==
    /\ api["legacy"] = disk.env["legacy"]
    /\ disk.active # "none" => Sound(disk.active)
    /\ PreviousStaysUp

\* a recovery that failed at the workers leaves the active colour as it was
Reliable == run.touched \/ ~misled

(* Which colour is active on disk, by each step.                             *)
ActiveInv ==
    /\ run.at \in Before \cup Trial \cup {"ready", "verify"} => disk.active = run.from
    /\ run.at \in Cutover => disk.active = run.to
    /\ run.at = "clear" => disk.active = IF run.switched THEN run.to ELSE run.from
    /\ run.at = "traffic" /\ ~run.switched /\ Reliable => disk.active = run.from
    /\ run.at \in Handler \ {"traffic", "restored"} /\ run.whole /\ Reliable => disk.active = run.from

Serving(color) == proxy.file = color /\ proxy.serves = color

(* Where traffic goes, by each step, unless a recovery was misled.           *)
ProxyInv ==
    /\ run.at \in Cutover \cup {"verify"} => Serving(run.to)
    /\ ~misled =>
        /\ disk.pending = NoJournal /\ disk.active # "none" => Serving(disk.active)
        /\ run.at \in Trial \cup {"ready"} /\ run.from # "none" => Serving(run.from)
        /\ run.at = "clear" => Serving(disk.active)
        /\ run.at = "traffic" /\ ~run.switched /\ run.from # "none" => Serving(run.from)
        /\ run.at \in Handler \ {"traffic", "restored"} /\ run.whole /\ run.from # "none" =>
             Serving(run.from)
        /\ run.at \in (Recovery \ {"recover"}) \cup {"restored"} => Serving(run.from)

Standby(others) == disk.previous \in Color \ others => Sound(disk.previous)

(* The standby runs, or the journal tells how to bring it back.              *)
StandbyInv ==
    /\ run.at = "metadata" \/ (run.at = "journal" /\ ~run.rollback) => disk.before = disk.env[run.to]
    /\ ~misled =>
        /\ disk.pending = NoJournal => Standby({disk.active})
        /\ disk.pending # NoJournal =>
             \/ Standby({disk.pending.from})
             \/ disk.previous = disk.pending.to /\ disk.before # 0 /\ disk.pending.to # "legacy"
        /\ Commanding /\ run.touched /\ disk.previous = run.to => disk.before # 0
        /\ Commanding /\ run.rollback => Standby({run.from})
        /\ run.at = "recover active" => Standby({run.from})
        /\ run.at = "clear" => Standby({disk.active})
        /\ run.at \in Handler /\ ~run.touched => Standby({run.from})
        /\ run.at = "forget" /\ run.whole => Standby({run.from})

OnlyFor(color) == \A p \in {"legacy", "workers"} : crew[p] # 0 => color # "none" /\ p = Project(color)

(* Whose workers run, by each step.                                          *)
CrewInv ==
    /\ OneGeneration
    /\ disk.pending = NoJournal => OnlyFor(disk.workers)
    /\ disk.pending # NoJournal => \A p \in {"legacy", "workers"} : crew[p] # 0 =>
         p = Project(disk.pending.to) \/ (disk.workersBefore # "none" /\ p = Project(disk.workersBefore))
    /\ run.at = "journal" => disk.workersBefore = disk.workers
    /\ run.at \in Trial \cup {"ready", "verify", "cut"} => OnlyFor(disk.workers)
    /\ run.at \in {"traffic", "restored", "refit"} /\ ~run.workers => OnlyFor(disk.workers)
    /\ run.at \in {"stop", "refit up", "recover up"} => OnlyFor(disk.workersBefore)
    /\ run.at = "up" => OnlyFor("none")
    /\ run.at = "record" => OnlyFor(run.to)
    /\ run.at \in {"previous", "clear", "recover target", "recover active"} => OnlyFor(disk.workers)
    /\ run.at \in {"target", "standby", "forget"} /\ run.whole => OnlyFor(disk.workers)

DeploymentInv ==
    DeploymentTypeOK /\ RunInv /\ ApiInv /\ ActiveInv /\ ProxyInv /\ StandbyInv /\ CrewInv

-----------------------------------------------------------------------------
(* What a step makes of each record, field by field.                         *)

RunBecomes(at, switched, workers, touched, whole) ==
    /\ run' \in RunType
    /\ run'.at = at /\ run'.from = run.from /\ run'.to = run.to /\ run'.rollback = run.rollback
    /\ run'.switched = switched /\ run'.workers = workers /\ run'.touched = touched /\ run'.whole = whole

RunMoves(at) == RunBecomes(at, run.switched, run.workers, run.touched, run.whole)

DiskBecomes(serves, previous, pending, env, before) ==
    /\ disk' \in DiskType
    /\ disk'.active = serves /\ disk'.previous = previous /\ disk'.pending = pending /\ disk'.env = env
    /\ disk'.before = before

WorkersBecome(workers, workersBefore) == disk'.workers = workers /\ disk'.workersBefore = workersBefore

SameRoles == DiskBecomes(disk.active, disk.previous, disk.pending, disk.env, disk.before)
SameCrews == WorkersBecome(disk.workers, disk.workersBefore)

MisledStep == misled' = (misled \/ (run'.at = "traffic" /\ run.at \in RecoverySteps))

LEMMA RunFields ==
    ASSUME DeploymentTypeOK
    PROVE  /\ run.at # "none" => run \in RunType
           /\ run \in RunType => /\ run.at \in RunStages /\ run.from \in OptionalColor /\ run.to \in Color
                                 /\ run.release \in Nat /\ run.rollback \in BOOLEAN /\ run.switched \in BOOLEAN
                                 /\ run.workers \in BOOLEAN /\ run.touched \in BOOLEAN /\ run.whole \in BOOLEAN
           /\ run.at = "none" => run = NoRun
           /\ run.at \in RunStages \cup {"none"}
  <1>1. "none" \notin RunStages
    BY DEF RunStages, Before, Trial, Cutover, Handler, Recovery
  <1>2. NoRun.at = "none"
    BY DEF NoRun
  <1>3. run \in RunType => /\ run.at \in RunStages /\ run.from \in OptionalColor /\ run.to \in Color
                            /\ run.release \in Nat /\ run.rollback \in BOOLEAN /\ run.switched \in BOOLEAN
                            /\ run.workers \in BOOLEAN /\ run.touched \in BOOLEAN /\ run.whole \in BOOLEAN
    BY DEF RunType
  <1> QED BY <1>1, <1>2, <1>3 DEF DeploymentTypeOK

LEMMA DiskFields ==
    ASSUME DeploymentTypeOK
    PROVE  /\ disk.active \in OptionalColor /\ disk.previous \in OptionalColor
           /\ disk.pending \in JournalType \cup {NoJournal} /\ disk.env \in [Color -> Nat]
           /\ disk.before \in Nat /\ disk.workers \in OptionalColor /\ disk.workersBefore \in OptionalColor
           /\ disk.at \in Nat /\ disk.atBefore \in Nat
  BY DEF DeploymentTypeOK, DiskType

LEMMA JournalIsWritten == \A x, y : [from |-> x, to |-> y] # NoJournal
  <1> SUFFICES ASSUME NEW x, NEW y, [from |-> x, to |-> y] = NoJournal PROVE FALSE
    OBVIOUS
  <1>1. "from" \in DOMAIN [from |-> x, to |-> y] /\ DOMAIN NoJournal = 1 .. 0
    BY DEF NoJournal
  <1>2. "from" \in 1 .. 0
    BY <1>1
  <1> QED BY <1>2

LEMMA Moves ==
    ASSUME DeploymentTypeOK, run.at # "none", NEW at \in RunStages, Advance(at)
    PROVE  RunMoves(at)
  <1>1. run \in RunType
    BY RunFields
  <1> HIDE DEF RunStages
  <1> QED BY <1>1 DEF RunMoves, RunBecomes, RunType, Advance

LEMMA Breaks ==
    ASSUME DeploymentTypeOK, run.at # "none", NEW at \in RunStages, Broken(at)
    PROVE  RunBecomes(at, run.switched, run.workers, run.touched, FALSE)
  <1>1. run \in RunType
    BY RunFields
  <1> QED BY <1>1 DEF RunBecomes, RunType, Broken

LEMMA DiskStays ==
    ASSUME DeploymentTypeOK, UNCHANGED disk
    PROVE  SameRoles /\ SameCrews
  BY DEF DeploymentTypeOK, SameRoles, SameCrews, DiskBecomes, WorkersBecome

USE DEF RunInv, ApiInv, PreviousStaysUp, Sound, ActiveInv, Reliable, ProxyInv, Serving,
        StandbyInv, Standby, CrewInv, OneGeneration, OnlyFor, RunMoves, RunBecomes, SameRoles, SameCrews,
        DiskBecomes, WorkersBecome, Commanding, Probing, Before, Trial, Cutover, Handler, Recovery

LEMMA BackupKeeps == DeploymentInv /\ Backup /\ MisledStep => DeploymentInv'
  <1> SUFFICES ASSUME DeploymentInv, Backup, MisledStep PROVE DeploymentInv'
    OBVIOUS
  <1>1. /\ DeploymentTypeOK
        /\ run.at = "save"
        /\ UNCHANGED <<proxy, api, crew>>
    BY DEF DeploymentInv, Backup, At
  <1>2. RunMoves("journal")
    BY <1>1, Moves DEF Backup, RunStages
  <1>3. /\ DiskBecomes(disk.active, disk.previous, disk.pending, disk.env, SavedStandby(run))
        /\ WorkersBecome(disk.workers, disk.workers)
    BY <1>1, DiskFields, RunFields DEF Backup, DiskType, JournalType, OptionalColor, SavedStandby, DeploymentTypeOK
  <1>4. misled' = misled
    BY <1>1, <1>2 DEF DeploymentTypeOK, MisledStep, RecoverySteps
  <1>5. DeploymentTypeOK'
    BY <1>1, <1>2, <1>3, <1>4, RunFields, DiskFields DEF DeploymentTypeOK
  <1> QED BY <1>1, <1>2, <1>3, <1>4, <1>5, RunFields, DiskFields DEF DeploymentInv, SavedStandby

LEMMA JournalKeeps == DeploymentInv /\ Journal /\ MisledStep => DeploymentInv'
  <1> SUFFICES ASSUME DeploymentInv, Journal, MisledStep PROVE DeploymentInv'
    OBVIOUS
  <1>1. /\ DeploymentTypeOK
        /\ run.at = "journal"
        /\ UNCHANGED <<proxy, api, crew>>
    BY DEF DeploymentInv, Journal, At
  <1>2. RunMoves(IF run.rollback THEN "switch" ELSE "metadata")
    BY <1>1, Moves DEF Journal, RunStages
  <1>3. /\ DiskBecomes(disk.active, disk.previous, [from |-> run.from, to |-> run.to], disk.env, disk.before)
        /\ WorkersBecome(disk.workers, disk.workersBefore)
    BY <1>1, DiskFields, RunFields DEF Journal, DiskType, JournalType, OptionalColor, DeploymentTypeOK
  <1>4. misled' = misled
    BY <1>1, <1>2 DEF DeploymentTypeOK, MisledStep, RecoverySteps
  <1>5. DeploymentTypeOK'
    BY <1>1, <1>2, <1>3, <1>4, RunFields, DiskFields DEF DeploymentTypeOK
  <1> QED BY <1>1, <1>2, <1>3, <1>4, <1>5, RunFields, DiskFields, JournalIsWritten DEF DeploymentInv, NoJournal

LEMMA WriteMetadataKeeps == DeploymentInv /\ WriteMetadata /\ MisledStep => DeploymentInv'
  <1> SUFFICES ASSUME DeploymentInv, WriteMetadata, MisledStep PROVE DeploymentInv'
    OBVIOUS
  <1>1. /\ DeploymentTypeOK
        /\ run.at = "metadata"
        /\ UNCHANGED <<proxy, api, crew>>
    BY DEF DeploymentInv, WriteMetadata, At
  <1>2. RunBecomes("start", run.switched, run.workers, TRUE, run.whole)
    BY <1>1, RunFields DEF WriteMetadata, RunType, RunStages
  <1>3. /\ DiskBecomes(disk.active, disk.previous, disk.pending, [disk.env EXCEPT ![run.to] = run.release], disk.before)
        /\ WorkersBecome(disk.workers, disk.workersBefore)
    BY <1>1, DiskFields, RunFields DEF WriteMetadata, DiskType, JournalType, OptionalColor, DeploymentTypeOK
  <1>4. misled' = misled
    BY <1>1, <1>2 DEF DeploymentTypeOK, MisledStep, RecoverySteps
  <1>5. DeploymentTypeOK'
    BY <1>1, <1>2, <1>3, <1>4, RunFields, DiskFields DEF DeploymentTypeOK
  <1>6. /\ run \in RunType /\ run.to \in Color /\ api \in [Color -> Nat] /\ disk.env \in [Color -> Nat]
        /\ proxy \in [file : Color, serves : Color] /\ crew \in [{"legacy", "workers"} -> Nat]
    BY <1>1, RunFields, DiskFields DEF DeploymentTypeOK
  <1>7. RunInv'
    BY <1>1, <1>2, <1>3, <1>4, <1>6, RunFields, DiskFields DEF DeploymentInv
  <1>8. ApiInv'
    BY <1>1, <1>2, <1>3, <1>4, <1>6, RunFields, DiskFields DEF DeploymentInv
  <1>9. ActiveInv'
    BY <1>1, <1>2, <1>3, <1>4, <1>6, RunFields, DiskFields DEF DeploymentInv
  <1>10. ProxyInv'
    BY <1>1, <1>2, <1>3, <1>4, <1>6, RunFields, DiskFields DEF DeploymentInv
  <1>11. StandbyInv'
    BY <1>1, <1>2, <1>3, <1>4, <1>6, RunFields, DiskFields DEF DeploymentInv
  <1>12. CrewInv'
    BY <1>1, <1>2, <1>3, <1>4, <1>6, RunFields, DiskFields DEF DeploymentInv
  <1> QED BY <1>5, <1>7, <1>8, <1>9, <1>10, <1>11, <1>12 DEF DeploymentInv

LEMMA UpKeeps == DeploymentInv /\ Up /\ MisledStep => DeploymentInv'
  <1> SUFFICES ASSUME DeploymentInv, Up, MisledStep PROVE DeploymentInv'
    OBVIOUS
  <1>1. /\ DeploymentTypeOK
        /\ run.at = "start"
        /\ api' = [api EXCEPT ![run.to] = run.release]
        /\ UNCHANGED <<disk, proxy, crew>>
    BY DEF DeploymentInv, Up, At
  <1>2. RunMoves("ready")
    BY <1>1, Moves DEF Up, RunStages
  <1>3. SameRoles /\ SameCrews
    BY <1>1, DiskStays DEF Up
  <1>4. misled' = misled
    BY <1>1, <1>2 DEF DeploymentTypeOK, MisledStep, RecoverySteps
  <1>5. DeploymentTypeOK'
    BY <1>1, <1>2, <1>3, <1>4, RunFields, DiskFields DEF DeploymentTypeOK
  <1>6. /\ run \in RunType /\ run.to \in Color /\ api \in [Color -> Nat] /\ disk.env \in [Color -> Nat]
        /\ proxy \in [file : Color, serves : Color] /\ crew \in [{"legacy", "workers"} -> Nat]
    BY <1>1, RunFields, DiskFields DEF DeploymentTypeOK
  <1>7. RunInv'
    BY <1>1, <1>2, <1>3, <1>4, <1>6, RunFields, DiskFields DEF DeploymentInv
  <1>8. ApiInv'
    BY <1>1, <1>2, <1>3, <1>4, <1>6, RunFields, DiskFields DEF DeploymentInv
  <1>9. ActiveInv'
    BY <1>1, <1>2, <1>3, <1>4, <1>6, RunFields, DiskFields DEF DeploymentInv
  <1>10. ProxyInv'
    BY <1>1, <1>2, <1>3, <1>4, <1>6, RunFields, DiskFields DEF DeploymentInv
  <1>11. StandbyInv'
    BY <1>1, <1>2, <1>3, <1>4, <1>6, RunFields, DiskFields DEF DeploymentInv
  <1>12. CrewInv'
    BY <1>1, <1>2, <1>3, <1>4, <1>6, RunFields, DiskFields DEF DeploymentInv
  <1> QED BY <1>5, <1>7, <1>8, <1>9, <1>10, <1>11, <1>12 DEF DeploymentInv

LEMMA WaitReadyKeeps == DeploymentInv /\ WaitReady /\ MisledStep => DeploymentInv'
  <1> SUFFICES ASSUME DeploymentInv, WaitReady, MisledStep PROVE DeploymentInv'
    OBVIOUS
  <1>1. /\ DeploymentTypeOK
        /\ run.at = "ready"
        /\ UNCHANGED <<disk, proxy, api, crew>>
    BY DEF DeploymentInv, WaitReady, At
  <1>2. RunMoves(IF run.rollback THEN "save" ELSE "switch")
    BY <1>1, Moves DEF WaitReady, RunStages
  <1>3. SameRoles /\ SameCrews
    BY <1>1, DiskStays DEF WaitReady
  <1>4. misled' = misled
    BY <1>1, <1>2 DEF DeploymentTypeOK, MisledStep, RecoverySteps
  <1>5. DeploymentTypeOK'
    BY <1>1, <1>2, <1>3, <1>4, RunFields, DiskFields DEF DeploymentTypeOK
  <1> QED BY ZenonT(60), <1>1, <1>2, <1>3, <1>4, <1>5, RunFields, DiskFields DEF DeploymentInv

LEMMA SwitchKeeps == DeploymentInv /\ Switch /\ MisledStep => DeploymentInv'
  <1> SUFFICES ASSUME DeploymentInv, Switch, MisledStep PROVE DeploymentInv'
    OBVIOUS
  <1>1. /\ DeploymentTypeOK
        /\ run.at = "switch"
        /\ proxy' = [file |-> run.to, serves |-> run.to]
        /\ UNCHANGED <<disk, api, crew>>
    BY DEF DeploymentInv, Switch, At, Switched
  <1>2. RunBecomes("verify", TRUE, run.workers, run.touched, run.whole)
    BY <1>1, RunFields DEF Switch, RunType, RunStages
  <1>3. SameRoles /\ SameCrews
    BY <1>1, DiskStays DEF Switch
  <1>4. misled' = misled
    BY <1>1, <1>2 DEF DeploymentTypeOK, MisledStep, RecoverySteps
  <1>5. DeploymentTypeOK'
    BY <1>1, <1>2, <1>3, <1>4, RunFields, DiskFields DEF DeploymentTypeOK
  <1>6. /\ run \in RunType /\ run.to \in Color /\ api \in [Color -> Nat] /\ disk.env \in [Color -> Nat]
        /\ proxy \in [file : Color, serves : Color] /\ crew \in [{"legacy", "workers"} -> Nat]
    BY <1>1, RunFields, DiskFields DEF DeploymentTypeOK
  <1>7. RunInv'
    BY <1>1, <1>2, <1>3, <1>4, <1>6, RunFields, DiskFields DEF DeploymentInv
  <1>8. ApiInv'
    BY <1>1, <1>2, <1>3, <1>4, <1>6, RunFields, DiskFields DEF DeploymentInv
  <1>9. ActiveInv'
    BY <1>1, <1>2, <1>3, <1>4, <1>6, RunFields, DiskFields DEF DeploymentInv
  <1>10. ProxyInv'
    BY <1>1, <1>2, <1>3, <1>4, <1>6, RunFields, DiskFields DEF DeploymentInv
  <1>11. StandbyInv'
    BY <1>1, <1>2, <1>3, <1>4, <1>6, RunFields, DiskFields DEF DeploymentInv
  <1>12. CrewInv'
    BY <1>1, <1>2, <1>3, <1>4, <1>6, RunFields, DiskFields DEF DeploymentInv
  <1> QED BY <1>5, <1>7, <1>8, <1>9, <1>10, <1>11, <1>12 DEF DeploymentInv

LEMMA ActivateKeeps == DeploymentInv /\ Activate /\ MisledStep => DeploymentInv'
  <1> SUFFICES ASSUME DeploymentInv, Activate, MisledStep PROVE DeploymentInv'
    OBVIOUS
  <1>1. /\ DeploymentTypeOK
        /\ run.at = "verify"
        /\ ReadyByProxy(run.to)
        /\ UNCHANGED <<proxy, api, crew>>
    BY DEF DeploymentInv, Activate, At
  <1>2. RunMoves("cut")
    BY <1>1, Moves DEF Activate, RunStages
  <1>3. /\ DiskBecomes(run.to, disk.previous, disk.pending, disk.env, disk.before)
        /\ WorkersBecome(disk.workers, disk.workersBefore)
    BY <1>1, DiskFields, RunFields DEF Activate, DiskType, JournalType, OptionalColor, DeploymentTypeOK
  <1>4. misled' = misled
    BY <1>1, <1>2 DEF DeploymentTypeOK, MisledStep, RecoverySteps
  <1>5. DeploymentTypeOK'
    BY <1>1, <1>2, <1>3, <1>4, RunFields, DiskFields DEF DeploymentTypeOK
  <1>6. /\ run \in RunType /\ run.to \in Color /\ api \in [Color -> Nat] /\ disk.env \in [Color -> Nat]
        /\ proxy \in [file : Color, serves : Color] /\ crew \in [{"legacy", "workers"} -> Nat]
    BY <1>1, RunFields, DiskFields DEF DeploymentTypeOK
  <1>13. Sound(run.to)
    BY <1>1, <1>6 DEF DeploymentInv, ReadyByProxy, Ready
  <1>7. RunInv'
    BY <1>1, <1>2, <1>3, <1>4, <1>6, <1>13, RunFields, DiskFields DEF DeploymentInv, ReadyByProxy, Ready
  <1>8. ApiInv'
    BY <1>1, <1>2, <1>3, <1>4, <1>6, <1>13, RunFields, DiskFields DEF DeploymentInv, ReadyByProxy, Ready
  <1>9. ActiveInv'
    BY <1>1, <1>2, <1>3, <1>4, <1>6, <1>13, RunFields, DiskFields DEF DeploymentInv, ReadyByProxy, Ready
  <1>10. ProxyInv'
    BY <1>1, <1>2, <1>3, <1>4, <1>6, <1>13, RunFields, DiskFields DEF DeploymentInv, ReadyByProxy, Ready
  <1>11. StandbyInv'
    BY <1>1, <1>2, <1>3, <1>4, <1>6, <1>13, RunFields, DiskFields DEF DeploymentInv, ReadyByProxy, Ready
  <1>12. CrewInv'
    BY <1>1, <1>2, <1>3, <1>4, <1>6, RunFields, DiskFields DEF DeploymentInv, ReadyByProxy, Ready
  <1> QED BY <1>5, <1>7, <1>8, <1>9, <1>10, <1>11, <1>12 DEF DeploymentInv

LEMMA CutWorkersKeeps == DeploymentInv /\ CutWorkers /\ MisledStep => DeploymentInv'
  <1> SUFFICES ASSUME DeploymentInv, CutWorkers, MisledStep PROVE DeploymentInv'
    OBVIOUS
  <1>1. /\ DeploymentTypeOK
        /\ run.at = "cut"
        /\ UNCHANGED <<proxy, api, crew>>
    BY DEF DeploymentInv, CutWorkers, At
  <1>2. RunBecomes("stop", run.switched, TRUE, run.touched, run.whole)
    BY <1>1, RunFields DEF CutWorkers, RunType, RunStages
  <1>3. /\ DiskBecomes(disk.active, disk.previous, disk.pending, disk.env, disk.before)
        /\ WorkersBecome(disk.workers, disk.workers)
    BY <1>1, DiskFields, RunFields DEF CutWorkers, DiskType, JournalType, OptionalColor, DeploymentTypeOK
  <1>4. misled' = misled
    BY <1>1, <1>2 DEF DeploymentTypeOK, MisledStep, RecoverySteps
  <1>5. DeploymentTypeOK'
    BY <1>1, <1>2, <1>3, <1>4, RunFields, DiskFields DEF DeploymentTypeOK, Project
  <1> QED BY <1>1, <1>2, <1>3, <1>4, <1>5, RunFields, DiskFields DEF DeploymentInv

LEMMA StopWorkersKeeps == DeploymentInv /\ StopWorkers /\ MisledStep => DeploymentInv'
  <1> SUFFICES ASSUME DeploymentInv, StopWorkers, MisledStep PROVE DeploymentInv'
    OBVIOUS
  <1>1. /\ DeploymentTypeOK
        /\ run.at = "stop"
        /\ crew' = IF disk.workersBefore = "none" THEN crew ELSE [crew EXCEPT ![Project(disk.workersBefore)] = 0]
        /\ UNCHANGED <<disk, proxy, api>>
    BY DEF DeploymentInv, StopWorkers, At, Crewed, Stopped
  <1>2. RunMoves("up")
    BY <1>1, Moves DEF StopWorkers, RunStages
  <1>3. SameRoles /\ SameCrews
    BY <1>1, DiskStays DEF StopWorkers
  <1>4. misled' = misled
    BY <1>1, <1>2 DEF DeploymentTypeOK, MisledStep, RecoverySteps
  <1>5. DeploymentTypeOK'
    BY <1>1, <1>2, <1>3, <1>4, RunFields, DiskFields DEF DeploymentTypeOK, Project
  <1>6. /\ run \in RunType /\ run.to \in Color /\ api \in [Color -> Nat] /\ disk.env \in [Color -> Nat]
        /\ proxy \in [file : Color, serves : Color] /\ crew \in [{"legacy", "workers"} -> Nat]
    BY <1>1, RunFields, DiskFields DEF DeploymentTypeOK
  <1>7. RunInv'
    BY <1>1, <1>2, <1>3, <1>4, <1>6, RunFields, DiskFields DEF DeploymentInv, Project
  <1>8. ApiInv'
    BY <1>1, <1>2, <1>3, <1>4, <1>6, RunFields, DiskFields DEF DeploymentInv, Project
  <1>9. ActiveInv'
    BY <1>1, <1>2, <1>3, <1>4, <1>6, RunFields, DiskFields DEF DeploymentInv, Project
  <1>10. ProxyInv'
    BY <1>1, <1>2, <1>3, <1>4, <1>6, RunFields, DiskFields DEF DeploymentInv, Project
  <1>11. StandbyInv'
    BY <1>1, <1>2, <1>3, <1>4, <1>6, RunFields, DiskFields DEF DeploymentInv, Project
  <1>12. CrewInv'
    BY <1>1, <1>2, <1>3, <1>4, <1>6, RunFields, DiskFields DEF DeploymentInv, Project
  <1> QED BY <1>5, <1>7, <1>8, <1>9, <1>10, <1>11, <1>12 DEF DeploymentInv

LEMMA UpWorkersKeeps == DeploymentInv /\ UpWorkers /\ MisledStep => DeploymentInv'
  <1> SUFFICES ASSUME DeploymentInv, UpWorkers, MisledStep PROVE DeploymentInv'
    OBVIOUS
  <1>1. /\ DeploymentTypeOK
        /\ run.at = "up"
        /\ crew' = [crew EXCEPT ![Project(run.to)] = disk.env[run.to]]
        /\ UNCHANGED <<disk, proxy, api>>
    BY DEF DeploymentInv, UpWorkers, At, Crewed
  <1>2. RunMoves("record")
    BY <1>1, Moves DEF UpWorkers, RunStages
  <1>3. SameRoles /\ SameCrews
    BY <1>1, DiskStays DEF UpWorkers
  <1>4. misled' = misled
    BY <1>1, <1>2 DEF DeploymentTypeOK, MisledStep, RecoverySteps
  <1>5. DeploymentTypeOK'
    BY <1>1, <1>2, <1>3, <1>4, RunFields, DiskFields DEF DeploymentTypeOK, Project
  <1>6. /\ run \in RunType /\ run.to \in Color /\ api \in [Color -> Nat] /\ disk.env \in [Color -> Nat]
        /\ proxy \in [file : Color, serves : Color] /\ crew \in [{"legacy", "workers"} -> Nat]
    BY <1>1, RunFields, DiskFields DEF DeploymentTypeOK
  <1>13. /\ Project(run.to) \in {"legacy", "workers"} /\ disk.env[run.to] \in Nat
         /\ disk.pending # NoJournal /\ disk.pending.to = run.to
         /\ crew["legacy"] = 0 /\ crew["workers"] = 0 /\ run.to # "none"
    BY <1>1, <1>6 DEF DeploymentInv, Project, Color
  <1>7. RunInv'
    BY <1>1, <1>2, <1>3, <1>4, <1>6, <1>13, RunFields, DiskFields DEF DeploymentInv, Project
  <1>8. ApiInv'
    BY <1>1, <1>2, <1>3, <1>4, <1>6, <1>13, RunFields, DiskFields DEF DeploymentInv, Project
  <1>9. ActiveInv'
    BY <1>1, <1>2, <1>3, <1>4, <1>6, <1>13, RunFields, DiskFields DEF DeploymentInv, Project
  <1>10. ProxyInv'
    BY <1>1, <1>2, <1>3, <1>4, <1>6, <1>13, RunFields, DiskFields DEF DeploymentInv, Project
  <1>11. StandbyInv'
    BY <1>1, <1>2, <1>3, <1>4, <1>6, <1>13, RunFields, DiskFields DEF DeploymentInv, Project
  <1>12. CrewInv'
    BY <1>1, <1>2, <1>3, <1>4, <1>6, <1>13, RunFields, DiskFields DEF DeploymentInv, Project
  <1> QED BY <1>5, <1>7, <1>8, <1>9, <1>10, <1>11, <1>12 DEF DeploymentInv

LEMMA RecordWorkersKeeps == DeploymentInv /\ RecordWorkers /\ MisledStep => DeploymentInv'
  <1> SUFFICES ASSUME DeploymentInv, RecordWorkers, MisledStep PROVE DeploymentInv'
    OBVIOUS
  <1>1. /\ DeploymentTypeOK
        /\ run.at = "record"
        /\ UNCHANGED <<proxy, api, crew>>
    BY DEF DeploymentInv, RecordWorkers, At
  <1>2. RunMoves("previous")
    BY <1>1, Moves DEF RecordWorkers, RunStages
  <1>3. /\ DiskBecomes(disk.active, disk.previous, disk.pending, disk.env, disk.before)
        /\ WorkersBecome(run.to, disk.workersBefore)
    BY <1>1, DiskFields, RunFields DEF RecordWorkers, DiskType, JournalType, OptionalColor, DeploymentTypeOK
  <1>4. misled' = misled
    BY <1>1, <1>2 DEF DeploymentTypeOK, MisledStep, RecoverySteps
  <1>5. DeploymentTypeOK'
    BY <1>1, <1>2, <1>3, <1>4, RunFields, DiskFields DEF DeploymentTypeOK, Project
  <1> QED BY <1>1, <1>2, <1>3, <1>4, <1>5, RunFields, DiskFields DEF DeploymentInv

LEMMA RecordPreviousKeeps == DeploymentInv /\ RecordPrevious /\ MisledStep => DeploymentInv'
  <1> SUFFICES ASSUME DeploymentInv, RecordPrevious, MisledStep PROVE DeploymentInv'
    OBVIOUS
  <1>1. /\ DeploymentTypeOK
        /\ run.at = "previous"
        /\ UNCHANGED <<proxy, api, crew>>
    BY DEF DeploymentInv, RecordPrevious, At
  <1>2. RunMoves("clear")
    BY <1>1, Moves DEF RecordPrevious, RunStages
  <1>3. /\ DiskBecomes(disk.active, run.from, disk.pending, disk.env, disk.before)
        /\ WorkersBecome(disk.workers, disk.workersBefore)
    BY <1>1, DiskFields, RunFields DEF RecordPrevious, DiskType, JournalType, OptionalColor, DeploymentTypeOK
  <1>4. misled' = misled
    BY <1>1, <1>2 DEF DeploymentTypeOK, MisledStep, RecoverySteps
  <1>5. DeploymentTypeOK'
    BY <1>1, <1>2, <1>3, <1>4, RunFields, DiskFields DEF DeploymentTypeOK
  <1>6. /\ run \in RunType /\ run.to \in Color /\ api \in [Color -> Nat] /\ disk.env \in [Color -> Nat]
        /\ proxy \in [file : Color, serves : Color] /\ crew \in [{"legacy", "workers"} -> Nat]
    BY <1>1, RunFields, DiskFields DEF DeploymentTypeOK
  <1>13. disk.pending # NoJournal /\ disk.pending.from = run.from /\ disk.pending.to = run.to
         /\ run.from # run.to /\ (run.from # "none" => Sound(run.from))
         /\ disk.active = run.to
    BY <1>1 DEF DeploymentInv
  <1>7. RunInv'
    BY <1>1, <1>2, <1>3, <1>4, <1>6, <1>13, RunFields, DiskFields DEF DeploymentInv, Color
  <1>8. ApiInv'
    BY <1>1, <1>2, <1>3, <1>4, <1>6, <1>13, RunFields, DiskFields DEF DeploymentInv, Color
  <1>9. ActiveInv'
    BY <1>1, <1>2, <1>3, <1>4, <1>6, <1>13, RunFields, DiskFields DEF DeploymentInv, Color
  <1>10. ProxyInv'
    BY <1>1, <1>2, <1>3, <1>4, <1>6, <1>13, RunFields, DiskFields DEF DeploymentInv, Color
  <1>11. StandbyInv'
    BY <1>1, <1>2, <1>3, <1>4, <1>6, <1>13, RunFields, DiskFields DEF DeploymentInv, Color
  <1>12. CrewInv'
    BY <1>1, <1>2, <1>3, <1>4, <1>6, RunFields, DiskFields DEF DeploymentInv, Color
  <1> QED BY <1>5, <1>7, <1>8, <1>9, <1>10, <1>11, <1>12 DEF DeploymentInv

LEMMA ClearKeeps == DeploymentInv /\ Clear /\ MisledStep => DeploymentInv'
  <1> SUFFICES ASSUME DeploymentInv, Clear, MisledStep PROVE DeploymentInv'
    OBVIOUS
  <1>1. /\ DeploymentTypeOK
        /\ run.at = "clear"
        /\ UNCHANGED <<proxy, api, crew>>
    BY DEF DeploymentInv, Clear, At
  <1>2. run' = NoRun /\ run'.at = "none"
    BY <1>1 DEF Clear, NoRun
  <1>3. /\ DiskBecomes(disk.active, disk.previous, NoJournal, disk.env, disk.before)
        /\ WorkersBecome(disk.workers, disk.workersBefore)
    BY <1>1, DiskFields, RunFields DEF Clear, DiskType, JournalType, OptionalColor, DeploymentTypeOK
  <1>4. misled' = misled
    BY <1>1, <1>2 DEF DeploymentTypeOK, MisledStep, RecoverySteps
  <1>5. DeploymentTypeOK'
    BY <1>1, <1>2, <1>3, <1>4, RunFields, DiskFields DEF DeploymentTypeOK
  <1> QED BY ZenonT(60), <1>1, <1>2, <1>3, <1>4, <1>5, RunFields, DiskFields DEF DeploymentInv

LEMMA SwitchFailsKeeps == DeploymentInv /\ SwitchFails /\ MisledStep => DeploymentInv'
  <1> SUFFICES ASSUME DeploymentInv, SwitchFails, MisledStep PROVE DeploymentInv'
    OBVIOUS
  <1>1. /\ DeploymentTypeOK
        /\ run.at = "switch"
        /\ proxy' \in {proxy, [proxy EXCEPT !.file = run.to]}
        /\ UNCHANGED <<disk, api, crew>>
    BY DEF DeploymentInv, SwitchFails, At, SwitchFailed
  <1>2. RunBecomes("traffic", TRUE, run.workers, run.touched, run.whole)
    BY <1>1, RunFields DEF SwitchFails, RunType, RunStages
  <1>3. SameRoles /\ SameCrews
    BY <1>1, DiskStays DEF SwitchFails
  <1>4. misled' = misled
    BY <1>1, <1>2 DEF DeploymentTypeOK, MisledStep, RecoverySteps
  <1>5. DeploymentTypeOK'
    BY <1>1, <1>2, <1>3, <1>4, RunFields, DiskFields DEF DeploymentTypeOK
  <1>6. /\ run \in RunType /\ run.to \in Color /\ api \in [Color -> Nat] /\ disk.env \in [Color -> Nat]
        /\ proxy \in [file : Color, serves : Color] /\ crew \in [{"legacy", "workers"} -> Nat]
    BY <1>1, RunFields, DiskFields DEF DeploymentTypeOK
  <1>7. RunInv'
    BY <1>1, <1>2, <1>3, <1>4, <1>6, RunFields, DiskFields DEF DeploymentInv
  <1>8. ApiInv'
    BY <1>1, <1>2, <1>3, <1>4, <1>6, RunFields, DiskFields DEF DeploymentInv
  <1>9. ActiveInv'
    BY <1>1, <1>2, <1>3, <1>4, <1>6, RunFields, DiskFields DEF DeploymentInv
  <1>10. ProxyInv'
    BY <1>1, <1>2, <1>3, <1>4, <1>6, RunFields, DiskFields DEF DeploymentInv
  <1>11. StandbyInv'
    BY <1>1, <1>2, <1>3, <1>4, <1>6, RunFields, DiskFields DEF DeploymentInv
  <1>12. CrewInv'
    BY <1>1, <1>2, <1>3, <1>4, <1>6, RunFields, DiskFields DEF DeploymentInv
  <1> QED BY <1>5, <1>7, <1>8, <1>9, <1>10, <1>11, <1>12 DEF DeploymentInv

LEMMA ForgetKeeps == DeploymentInv /\ Forget /\ MisledStep => DeploymentInv'
  <1> SUFFICES ASSUME DeploymentInv, Forget, MisledStep PROVE DeploymentInv'
    OBVIOUS
  <1>1. /\ DeploymentTypeOK
        /\ run.at = "forget"
        /\ UNCHANGED <<proxy, api, crew>>
    BY DEF DeploymentInv, Forget, At
  <1>2. run' = NoRun /\ run'.at = "none"
    BY <1>1 DEF Forget, NoRun
  <1>3. /\ DiskBecomes(disk.active, disk.previous, IF run.whole THEN NoJournal ELSE disk.pending, disk.env, disk.before)
        /\ WorkersBecome(disk.workers, disk.workersBefore)
    BY <1>1, DiskFields, RunFields DEF Forget, DiskType, JournalType, OptionalColor, DeploymentTypeOK
  <1>4. misled' = misled
    BY <1>1, <1>2 DEF DeploymentTypeOK, MisledStep, RecoverySteps
  <1>5. DeploymentTypeOK'
    BY <1>1, <1>2, <1>3, <1>4, RunFields, DiskFields DEF DeploymentTypeOK
  <1> QED BY ZenonT(60), <1>1, <1>2, <1>3, <1>4, <1>5, RunFields, DiskFields DEF DeploymentInv

LEMMA RecoverActiveKeeps == DeploymentInv /\ RecoverActive /\ MisledStep => DeploymentInv'
  <1> SUFFICES ASSUME DeploymentInv, RecoverActive, MisledStep PROVE DeploymentInv'
    OBVIOUS
  <1>1. /\ DeploymentTypeOK
        /\ run.at = "recover active"
        /\ UNCHANGED <<proxy, api, crew>>
    BY DEF DeploymentInv, RecoverActive, At
  <1>2. RunMoves("clear")
    BY <1>1, Moves DEF RecoverActive, RunStages
  <1>3. /\ DiskBecomes(run.from, disk.previous, disk.pending, disk.env, disk.before)
        /\ WorkersBecome(disk.workers, disk.workersBefore)
    BY <1>1, DiskFields, RunFields DEF RecoverActive, DiskType, JournalType, OptionalColor, DeploymentTypeOK
  <1>4. misled' = misled
    BY <1>1, <1>2 DEF DeploymentTypeOK, MisledStep, RecoverySteps
  <1>5. DeploymentTypeOK'
    BY <1>1, <1>2, <1>3, <1>4, RunFields, DiskFields DEF DeploymentTypeOK
  <1>6. /\ run \in RunType /\ run.to \in Color /\ api \in [Color -> Nat] /\ disk.env \in [Color -> Nat]
        /\ proxy \in [file : Color, serves : Color] /\ crew \in [{"legacy", "workers"} -> Nat]
    BY <1>1, RunFields, DiskFields DEF DeploymentTypeOK
  <1>13. Sound(run.from) /\ disk.pending # NoJournal /\ disk.pending.from = run.from
    BY <1>1 DEF DeploymentInv
  <1>7. RunInv'
    BY <1>1, <1>2, <1>3, <1>4, <1>6, <1>13, RunFields, DiskFields DEF DeploymentInv
  <1>8. ApiInv'
    BY <1>1, <1>2, <1>3, <1>4, <1>6, <1>13, RunFields, DiskFields DEF DeploymentInv
  <1>9. ActiveInv'
    BY <1>1, <1>2, <1>3, <1>4, <1>6, <1>13, RunFields, DiskFields DEF DeploymentInv
  <1>10. ProxyInv'
    BY <1>1, <1>2, <1>3, <1>4, <1>6, <1>13, RunFields, DiskFields DEF DeploymentInv
  <1>11. StandbyInv'
    BY <1>1, <1>2, <1>3, <1>4, <1>6, <1>13, RunFields, DiskFields DEF DeploymentInv
  <1>12. CrewInv'
    BY ZenonT(60), <1>1, <1>2, <1>3, <1>4, <1>6, RunFields, DiskFields DEF DeploymentInv
  <1> QED BY <1>5, <1>7, <1>8, <1>9, <1>10, <1>11, <1>12 DEF DeploymentInv

LEMMA KilledKeeps == DeploymentInv /\ Killed /\ MisledStep => DeploymentInv'
  <1> SUFFICES ASSUME DeploymentInv, Killed, MisledStep PROVE DeploymentInv'
    OBVIOUS
  <1>1. /\ DeploymentTypeOK
        /\ UNCHANGED <<disk, proxy, api, crew>>
    BY DEF DeploymentInv, Killed, At
  <1>2. run' = NoRun /\ run'.at = "none"
    BY <1>1 DEF Killed, NoRun
  <1>3. SameRoles /\ SameCrews
    BY <1>1, DiskStays DEF Killed
  <1>4. misled' = misled
    BY <1>1, <1>2 DEF DeploymentTypeOK, MisledStep, RecoverySteps
  <1>5. DeploymentTypeOK'
    BY <1>1, <1>2, <1>3, <1>4, RunFields, DiskFields DEF DeploymentTypeOK
  <1> QED BY ZenonT(60), <1>1, <1>2, <1>3, <1>4, <1>5, RunFields, DiskFields DEF DeploymentInv

LEMMA RebootKeeps == DeploymentInv /\ Reboot /\ MisledStep => DeploymentInv'
  <1> SUFFICES ASSUME DeploymentInv, Reboot, MisledStep PROVE DeploymentInv'
    OBVIOUS
  <1>1. /\ DeploymentTypeOK
        /\ proxy' = [proxy EXCEPT !.serves = proxy.file]
        /\ UNCHANGED <<disk, api, crew>>
    BY DEF DeploymentInv, Reboot, At
  <1>2. run' = NoRun /\ run'.at = "none"
    BY <1>1 DEF Reboot, NoRun
  <1>3. SameRoles /\ SameCrews
    BY <1>1, DiskStays DEF Reboot
  <1>4. misled' = misled
    BY <1>1, <1>2 DEF DeploymentTypeOK, MisledStep, RecoverySteps
  <1>5. DeploymentTypeOK'
    BY <1>1, <1>2, <1>3, <1>4, RunFields, DiskFields DEF DeploymentTypeOK
  <1>6. proxy \in [file : Color, serves : Color]
    BY <1>1 DEF DeploymentTypeOK
  <1>7. RunInv'
    BY <1>1, <1>2, <1>3, <1>4, <1>6, RunFields, DiskFields DEF DeploymentInv
  <1>8. ApiInv'
    BY <1>1, <1>2, <1>3, <1>4, <1>6, RunFields, DiskFields DEF DeploymentInv
  <1>9. ActiveInv'
    BY <1>1, <1>2, <1>3, <1>4, <1>6, RunFields, DiskFields DEF DeploymentInv
  <1>10. ProxyInv'
    BY <1>1, <1>2, <1>3, <1>4, <1>6, RunFields, DiskFields DEF DeploymentInv
  <1>11. StandbyInv'
    BY <1>1, <1>2, <1>3, <1>4, <1>6, RunFields, DiskFields DEF DeploymentInv
  <1>12. CrewInv'
    BY <1>1, <1>2, <1>3, <1>4, <1>6, RunFields, DiskFields DEF DeploymentInv
  <1> QED BY <1>5, <1>7, <1>8, <1>9, <1>10, <1>11, <1>12 DEF DeploymentInv

LEMMA Begins ==
    ASSUME NEW at \in {"save", "ready", "recover"}, NEW x \in OptionalColor, NEW y \in Color,
           NEW release \in Nat, run' = Begun(at, x, y, release)
    PROVE  /\ run' \in RunType
           /\ run'.at = at /\ run'.from = x /\ run'.to = y /\ run'.rollback = (at = "ready")
           /\ run'.switched = FALSE /\ run'.workers = FALSE /\ run'.touched = FALSE /\ run'.whole = TRUE
  BY DEF Begun, RunType, RunStages

LEMMA DeployKeeps ==
    ASSUME DeploymentInv, NEW release \in 2 .. MaxRelease, Deploy(release), MisledStep
    PROVE  DeploymentInv'
  <1>1. /\ DeploymentTypeOK
        /\ run.at = "none" /\ disk.pending = NoJournal
        /\ UNCHANGED <<disk, proxy, api, crew>>
    BY DEF DeploymentInv, Deploy, At
  <1>2. /\ Inactive(disk.active) \in {"blue", "green"} /\ Inactive(disk.active) # disk.active
        /\ Inactive(disk.active) \in Color /\ release \in Nat
    BY DeploymentAssumption DEF Inactive, Color
  <1>3. /\ run' \in RunType
        /\ run'.at = "save" /\ run'.from = disk.active /\ run'.to = Inactive(disk.active)
        /\ run'.rollback = FALSE
        /\ run'.switched = FALSE /\ run'.workers = FALSE /\ run'.touched = FALSE /\ run'.whole = TRUE
    BY <1>1, <1>2, Begins, DiskFields DEF Deploy
  <1>4. misled' = misled
    BY <1>1, <1>3 DEF DeploymentTypeOK, MisledStep, RecoverySteps
  <1>5. DeploymentTypeOK'
    BY <1>1, <1>3, <1>4 DEF DeploymentTypeOK
  <1> QED BY <1>1, <1>2, <1>3, <1>4, <1>5 DEF DeploymentInv

LEMMA RollBackKeeps == DeploymentInv /\ RollBack /\ MisledStep => DeploymentInv'
  <1> SUFFICES ASSUME DeploymentInv, RollBack, MisledStep PROVE DeploymentInv'
    OBVIOUS
  <1>1. /\ DeploymentTypeOK
        /\ run.at = "none" /\ disk.pending = NoJournal
        /\ disk.previous \in Color /\ disk.previous # disk.active
        /\ UNCHANGED <<disk, proxy, api, crew>>
    BY DiskFields DEF DeploymentInv, RollBack, At, OptionalColor
  <1>2. /\ run' \in RunType
        /\ run'.at = "ready" /\ run'.from = disk.active /\ run'.to = disk.previous
        /\ run'.rollback = TRUE
        /\ run'.switched = FALSE /\ run'.workers = FALSE /\ run'.touched = FALSE /\ run'.whole = TRUE
    BY <1>1, Begins, DiskFields DEF RollBack
  <1>3. misled' = misled
    BY <1>1, <1>2 DEF DeploymentTypeOK, MisledStep, RecoverySteps
  <1>4. DeploymentTypeOK'
    BY <1>1, <1>2, <1>3 DEF DeploymentTypeOK
  <1> QED BY <1>1, <1>2, <1>3, <1>4 DEF DeploymentInv

LEMMA RecoverKeeps == DeploymentInv /\ Recover /\ MisledStep => DeploymentInv'
  <1> SUFFICES ASSUME DeploymentInv, Recover, MisledStep PROVE DeploymentInv'
    OBVIOUS
  <1>1. /\ DeploymentTypeOK
        /\ run.at = "none" /\ disk.pending # NoJournal /\ disk.pending.from # "none"
        /\ UNCHANGED <<disk, proxy, api, crew>>
    BY DEF DeploymentInv, Recover, At
  <1>2. disk.pending.from \in OptionalColor /\ disk.pending.to \in Color
    BY <1>1, DiskFields DEF JournalType
  <1>3. /\ run' \in RunType
        /\ run'.at = "recover" /\ run'.from = disk.pending.from /\ run'.to = disk.pending.to
        /\ run'.rollback = FALSE
        /\ run'.switched = FALSE /\ run'.workers = FALSE /\ run'.touched = FALSE /\ run'.whole = TRUE
    BY <1>1, <1>2, Begins DEF Recover
  <1>4. misled' = misled
    BY <1>1, <1>3 DEF DeploymentTypeOK, MisledStep, RecoverySteps
  <1>5. DeploymentTypeOK'
    BY <1>1, <1>3, <1>4 DEF DeploymentTypeOK
  <1> QED BY <1>1, <1>3, <1>4, <1>5 DEF DeploymentInv

LEMMA FailKeeps == DeploymentInv /\ Fail /\ MisledStep => DeploymentInv'
  <1> SUFFICES ASSUME DeploymentInv, Fail, MisledStep PROVE DeploymentInv'
    OBVIOUS
  <1>1. /\ DeploymentTypeOK
        /\ run.at \in {"save", "journal", "metadata", "start", "ready", "verify", "cut", "stop", "up",
                       "record", "previous", "clear"}
        /\ UNCHANGED <<disk, proxy, api, crew>>
    BY DEF DeploymentInv, Fail
  <1>2. SameRoles /\ SameCrews
    BY <1>1, DiskStays
  <1>3. misled' = misled
    BY <1>1 DEF DeploymentTypeOK, MisledStep, RecoverySteps
  <1>4. CASE Touched(run)
    <2>1. RunMoves("traffic")
      BY <1>1, <1>4, Moves DEF Fail, RunStages
    <2>2. DeploymentTypeOK'
      BY <1>1, <1>3, <2>1 DEF DeploymentTypeOK
    <2>3. run.touched \/ run.switched \/ run.workers
      BY <1>4 DEF Touched
    <2>4. RunInv'
      BY <1>1, <1>2, <2>1, <2>3 DEF DeploymentInv
    <2>5. ApiInv'
      BY <1>1, <1>2 DEF DeploymentInv
    <2>8. ActiveInv'
      BY <1>1, <1>2, <1>3, <2>1, <2>3 DEF DeploymentInv
    <2>9. ProxyInv'
      BY ZenonT(60), <1>1, <1>2, <1>3, <2>1, <2>3 DEF DeploymentInv
    <2>6. StandbyInv'
      BY ZenonT(60), <1>1, <1>2, <1>3, <2>1, <2>3, RunFields DEF DeploymentInv
    <2>7. CrewInv'
      BY <1>1, <1>2, <2>1, <2>3, RunFields DEF DeploymentInv
    <2> QED BY <2>2, <2>4, <2>5, <2>6, <2>7, <2>8, <2>9 DEF DeploymentInv
  <1>5. CASE ~Touched(run)
    <2>1. run' = NoRun /\ run'.at = "none"
      BY <1>5 DEF Fail, NoRun
    <2>2. DeploymentTypeOK'
      BY <1>1, <1>3, <2>1 DEF DeploymentTypeOK
    <2> QED BY <1>1, <1>2, <1>3, <2>1, <2>2, RunFields, DiskFields DEF DeploymentInv
  <1> QED BY <1>4, <1>5

LEMMA TrafficBackKeeps == DeploymentInv /\ TrafficBack /\ MisledStep => DeploymentInv'
  <1> SUFFICES ASSUME DeploymentInv, TrafficBack, MisledStep PROVE DeploymentInv'
    OBVIOUS
  <1>1. /\ DeploymentTypeOK /\ run.at = "traffic" /\ run \in RunType
        /\ UNCHANGED <<disk, api, crew>>
    BY RunFields DEF DeploymentInv, TrafficBack, At
  <1>2. SameRoles /\ SameCrews
    BY <1>1, DiskStays
  <1>3. misled' = misled
    BY <1>1 DEF DeploymentTypeOK, MisledStep, RecoverySteps
  <1>4. CASE ~run.switched /\ Advance("refit") /\ UNCHANGED proxy
    <2>1. RunMoves("refit")
      BY <1>1, <1>4, Moves DEF RunStages
    <2>2. DeploymentTypeOK'
      BY <1>1, <1>3, <1>4, <2>1 DEF DeploymentTypeOK
    <2> QED BY <1>1, <1>2, <1>3, <1>4, <2>1, <2>2, RunFields, DiskFields DEF DeploymentInv
  <1>5. CASE /\ run.switched /\ run.from # "none" /\ Ready(run.from)
             /\ proxy' = Switched(run.from) /\ Advance("restored")
    <2>1. RunMoves("restored") /\ run.from \in Color
      BY <1>1, <1>5, Moves, RunFields DEF RunStages, OptionalColor
    <2>2. Serving(run.from)' /\ proxy' \in [file : Color, serves : Color]
      BY <1>5, <2>1 DEF Switched
    <2>3. DeploymentTypeOK'
      BY <1>1, <1>3, <2>1, <2>2 DEF DeploymentTypeOK
    <2> QED BY <1>1, <1>2, <1>3, <1>5, <2>1, <2>2, <2>3, RunFields, DiskFields DEF DeploymentInv
  <1>6. CASE /\ run.switched /\ Broken("refit")
             /\ UNCHANGED proxy \/ (run.from # "none" /\ proxy' \in SwitchFailed(run.from))
    <2>1. RunBecomes("refit", run.switched, run.workers, run.touched, FALSE)
      BY <1>1, <1>6, Breaks DEF RunStages
    <2>2. proxy' \in [file : Color, serves : Color]
      BY <1>1, <1>6, RunFields DEF SwitchFailed, OptionalColor, DeploymentTypeOK
    <2>3. DeploymentTypeOK'
      BY <1>1, <1>3, <2>1, <2>2 DEF DeploymentTypeOK
    <2> QED BY <1>1, <1>2, <1>3, <1>6, <2>1, <2>3, RunFields, DiskFields DEF DeploymentInv
  <1> QED BY <1>4, <1>5, <1>6 DEF TrafficBack

LEMMA TrafficRestoredKeeps == DeploymentInv /\ TrafficRestored /\ MisledStep => DeploymentInv'
  <1> SUFFICES ASSUME DeploymentInv, TrafficRestored, MisledStep PROVE DeploymentInv'
    OBVIOUS
  <1>1. /\ DeploymentTypeOK /\ run.at = "restored" /\ run \in RunType
        /\ UNCHANGED <<proxy, api, crew>>
    BY RunFields DEF DeploymentInv, TrafficRestored, At
  <1>2. misled' = misled
    BY <1>1 DEF DeploymentTypeOK, MisledStep, RecoverySteps
  <1>3. CASE disk' = [disk EXCEPT !.active = run.from] /\ Advance("refit")
    <2>1. RunMoves("refit")
      BY <1>1, <1>3, Moves DEF RunStages
    <2>2. /\ DiskBecomes(run.from, disk.previous, disk.pending, disk.env, disk.before)
          /\ SameCrews
      BY <1>1, <1>3, RunFields DEF DeploymentTypeOK, DiskType
    <2>3. DeploymentTypeOK'
      BY <1>1, <1>2, <2>1, <2>2 DEF DeploymentTypeOK
    <2>4. Sound(run.from) /\ disk.pending # NoJournal /\ disk.pending.from = run.from
      BY <1>1 DEF DeploymentInv
    <2> QED BY <1>1, <1>2, <2>1, <2>2, <2>3, <2>4, RunFields, DiskFields DEF DeploymentInv
  <1>4. CASE Broken("refit") /\ UNCHANGED disk
    <2>1. RunBecomes("refit", run.switched, run.workers, run.touched, FALSE) /\ SameRoles /\ SameCrews
      BY <1>1, <1>4, Breaks, DiskStays DEF RunStages
    <2>2. DeploymentTypeOK'
      BY <1>1, <1>2, <1>4, <2>1 DEF DeploymentTypeOK
    <2> QED BY <1>1, <1>2, <2>1, <2>2, RunFields, DiskFields DEF DeploymentInv
  <1> QED BY <1>3, <1>4 DEF TrafficRestored, Reactivated

\* stopping the workers of the target leaves those of before, if any
LEMMA OthersStopped ==
    ASSUME DeploymentInv, run.at \in {"refit", "recover workers"}, run.workers,
           crew' = [crew EXCEPT ![Project(run.to)] = 0], UNCHANGED disk
    PROVE  OnlyFor(disk.workersBefore)' /\ OneGeneration'
  <1>1. DeploymentTypeOK /\ run.at # "none"
    BY DEF DeploymentInv
  <1>2. crew \in [{"legacy", "workers"} -> Nat] /\ Project(run.to) \in {"legacy", "workers"}
    BY <1>1 DEF DeploymentTypeOK, Project
  <1>3. \A p \in {"legacy", "workers"} : crew[p] # 0 =>
          p = Project(run.to) \/ (disk.workersBefore # "none" /\ p = Project(disk.workersBefore))
    BY DEF DeploymentInv
  <1>4. crew'[Project(run.to)] = 0 /\ \A p \in {"legacy", "workers"} : p # Project(run.to) => crew'[p] = crew[p]
    BY <1>2
  <1> HIDE DEF Project
  <1>5. OnlyFor(disk.workersBefore)'
    BY <1>2, <1>3, <1>4
  <1>6. OneGeneration'
    BY <1>5
  <1> QED BY <1>5, <1>6

\* and starting those of before again starts no second generation
LEMMA OthersStarted ==
    ASSUME DeploymentInv, run.at \in {"refit up", "recover up"},
           IF disk.workersBefore = "none" THEN UNCHANGED crew
             ELSE Crewed(Project(disk.workersBefore), disk.atBefore)
    PROVE  /\ crew' \in [{"legacy", "workers"} -> Nat] /\ OneGeneration'
           /\ \A p \in {"legacy", "workers"} :
                crew'[p] # 0 => disk.workersBefore # "none" /\ p = Project(disk.workersBefore)
  <1>1. DeploymentTypeOK /\ OnlyFor(disk.workersBefore)
    BY DEF DeploymentInv
  <1>2. /\ crew \in [{"legacy", "workers"} -> Nat] /\ Project(disk.workersBefore) \in {"legacy", "workers"}
        /\ disk.atBefore \in Nat
    BY <1>1, DiskFields DEF DeploymentTypeOK, Project
  <1>3. /\ crew' \in [{"legacy", "workers"} -> Nat]
        /\ \A p \in {"legacy", "workers"} :
             crew'[p] # 0 => disk.workersBefore # "none" /\ p = Project(disk.workersBefore)
    BY <1>1, <1>2 DEF Crewed
  <1> QED BY <1>3

LEMMA RestoreWorkersKeeps == DeploymentInv /\ RestoreWorkers /\ MisledStep => DeploymentInv'
  <1> SUFFICES ASSUME DeploymentInv, RestoreWorkers, MisledStep PROVE DeploymentInv'
    OBVIOUS
  <1>1. DeploymentTypeOK /\ run.at \in {"refit", "refit up"} /\ run \in RunType
    BY RunFields DEF DeploymentInv, RestoreWorkers, At
  <1>2. UNCHANGED <<proxy, api>> /\ misled' = misled
    BY <1>1 DEF RestoreWorkers, RefitStop, RefitUp, DeploymentTypeOK, MisledStep, RecoverySteps
  <1>3. CASE At("refit") /\ ~run.workers /\ Advance("target") /\ UNCHANGED <<disk, crew>>
    <2>1. RunMoves("target") /\ SameRoles /\ SameCrews
      BY <1>1, <1>3, Moves, DiskStays DEF RunStages
    <2>2. DeploymentTypeOK'
      BY <1>1, <1>2, <1>3, <2>1 DEF DeploymentTypeOK
    <2> QED BY <1>1, <1>2, <1>3, <2>1, <2>2, RunFields, DiskFields DEF DeploymentInv, At
  <1>4. CASE /\ At("refit") /\ run.workers /\ Crewed(Project(run.to), 0)
             /\ Advance("refit up") /\ UNCHANGED disk
    <2>1. RunMoves("refit up") /\ SameRoles /\ SameCrews
      BY <1>1, <1>4, Moves, DiskStays DEF RunStages
    <2>2. OnlyFor(disk.workersBefore)' /\ OneGeneration'
      BY <1>4, OthersStopped DEF Crewed, At
    <2>3. DeploymentTypeOK'
      BY <1>1, <1>2, <1>4, <2>1 DEF DeploymentTypeOK, Crewed, Project
    <2>4. (RunInv /\ ApiInv /\ ActiveInv /\ ProxyInv /\ StandbyInv)'
      <3>1. RunInv'
        BY ZenonT(60), <1>1, <1>2, <1>4, <2>1, RunFields DEF DeploymentInv, At
      <3>2. ApiInv'
        BY <1>1, <1>2, <1>4, <2>1, RunFields DEF DeploymentInv, At
      <3>3. ActiveInv'
        BY <1>1, <1>2, <1>4, <2>1, RunFields DEF DeploymentInv, At
      <3>4. ProxyInv'
        BY ZenonT(60), <1>1, <1>2, <1>4, <2>1, RunFields DEF DeploymentInv, At
      <3>5. StandbyInv'
        BY <1>1, <1>2, <1>4, <2>1, RunFields DEF DeploymentInv, At
      <3> QED BY <3>1, <3>2, <3>3, <3>4, <3>5
    <2>5. CrewInv'
      BY <1>1, <1>4, <2>1, <2>2 DEF DeploymentInv, At
    <2> QED BY <2>3, <2>4, <2>5 DEF DeploymentInv
  <1>5. CASE At("refit") /\ run.workers /\ Broken("target") /\ UNCHANGED <<disk, crew>>
    <2>1. RunBecomes("target", run.switched, run.workers, run.touched, FALSE) /\ SameRoles /\ SameCrews
      BY <1>1, <1>5, Breaks, DiskStays DEF RunStages
    <2>2. DeploymentTypeOK'
      BY <1>1, <1>2, <1>5, <2>1 DEF DeploymentTypeOK
    <2> QED BY <1>1, <1>2, <1>5, <2>1, <2>2, RunFields, DiskFields DEF DeploymentInv, At
  <1>6. CASE At("refit up") /\ RefitUp("target", Broken("target"))
    <2>1. /\ crew' \in [{"legacy", "workers"} -> Nat] /\ OneGeneration'
          /\ \A p \in {"legacy", "workers"} :
                crew'[p] # 0 => disk.workersBefore # "none" /\ p = Project(disk.workersBefore)
      BY <1>6, OthersStarted DEF RefitUp, At
    <2>2. CASE /\ disk' = [disk EXCEPT !.workers = disk.workersBefore, !.at = disk.atBefore]
               /\ Advance("target")
      <3>1. RunMoves("target")
        BY <1>1, <2>2, Moves DEF RunStages
      <3>2. /\ DiskBecomes(disk.active, disk.previous, disk.pending, disk.env, disk.before)
            /\ WorkersBecome(disk.workersBefore, disk.workersBefore)
        BY <1>1, <2>2, DiskFields DEF DeploymentTypeOK, DiskType
      <3>3. DeploymentTypeOK'
        BY <1>1, <1>2, <2>1, <3>1, <3>2 DEF DeploymentTypeOK
      <3>4. (RunInv /\ ApiInv /\ ActiveInv /\ ProxyInv /\ StandbyInv)'
        <4>1. RunInv'
          BY <1>1, <1>2, <1>6, <3>1, <3>2, RunFields DEF DeploymentInv, At
        <4>2. ApiInv'
          BY ZenonT(60), <1>1, <1>2, <1>6, <3>1, <3>2, RunFields DEF DeploymentInv, At
        <4>3. ActiveInv'
          BY <1>1, <1>2, <1>6, <3>1, <3>2, RunFields DEF DeploymentInv, At
        <4>4. ProxyInv'
          BY <1>1, <1>2, <1>6, <3>1, <3>2, RunFields DEF DeploymentInv, At
        <4>5. StandbyInv'
          BY ZenonT(60), <1>1, <1>2, <1>6, <3>1, <3>2, RunFields DEF DeploymentInv, At
        <4> QED BY <4>1, <4>2, <4>3, <4>4, <4>5
      <3>5. CrewInv'
        BY ZenonT(60), <1>1, <1>6, <2>1, <3>1, <3>2 DEF DeploymentInv, At
      <3> QED BY <3>3, <3>4, <3>5 DEF DeploymentInv
    <2>3. CASE Broken("target") /\ UNCHANGED disk
      <3>1. RunBecomes("target", run.switched, run.workers, run.touched, FALSE) /\ SameRoles /\ SameCrews
        BY <1>1, <2>3, Breaks, DiskStays DEF RunStages
      <3>2. DeploymentTypeOK'
        BY <1>1, <1>2, <2>1, <2>3, <3>1 DEF DeploymentTypeOK
      <3>3. (RunInv /\ ApiInv /\ ActiveInv /\ ProxyInv /\ StandbyInv)'
        <4>1. RunInv'
          BY <1>1, <1>2, <1>6, <3>1, RunFields DEF DeploymentInv, At
        <4>2. ApiInv'
          BY ZenonT(60), <1>1, <1>2, <1>6, <3>1, RunFields DEF DeploymentInv, At
        <4>3. ActiveInv'
          BY <1>1, <1>2, <1>6, <3>1, RunFields DEF DeploymentInv, At
        <4>4. ProxyInv'
          BY <1>1, <1>2, <1>6, <3>1, RunFields DEF DeploymentInv, At
        <4>5. StandbyInv'
          BY ZenonT(60), <1>1, <1>2, <1>6, <3>1, RunFields DEF DeploymentInv, At
        <4> QED BY <4>1, <4>2, <4>3, <4>4, <4>5
      <3>4. CrewInv'
        BY <1>1, <1>6, <2>1, <3>1 DEF DeploymentInv, At
      <3> QED BY <3>2, <3>3, <3>4 DEF DeploymentInv
    <2> QED BY <1>6, <2>2, <2>3 DEF RefitUp
  <1> QED BY <1>3, <1>4, <1>5, <1>6 DEF RestoreWorkers, RefitStop

LEMMA TargetStopKeeps == DeploymentInv /\ TargetStop /\ MisledStep => DeploymentInv'
  <1> SUFFICES ASSUME DeploymentInv, TargetStop, MisledStep PROVE DeploymentInv'
    OBVIOUS
  <1>1. /\ DeploymentTypeOK /\ run.at = "target" /\ run \in RunType
        /\ UNCHANGED <<disk, proxy, crew>>
    BY RunFields DEF DeploymentInv, TargetStop, At
  <1>2. SameRoles /\ SameCrews
    BY <1>1, DiskStays
  <1>3. misled' = misled
    BY <1>1 DEF DeploymentTypeOK, MisledStep, RecoverySteps
  <1>4. CASE Stops(run)
    <2>1. RunMoves("standby") /\ api' = [api EXCEPT ![run.to] = 0]
      BY <1>1, <1>4, Moves DEF TargetStop, RunStages
    <2>2. /\ run.to \in Color /\ api \in [Color -> Nat] /\ run.to # "legacy"
          /\ run.whole /\ run.touched /\ disk.active = run.from /\ run.from # run.to
          /\ disk.pending # NoJournal /\ disk.pending.from = run.from /\ disk.pending.to = run.to
      BY <1>1, <1>4, RunFields DEF Stops, DeploymentTypeOK, DeploymentInv
    <2>3. \A c \in Color : c # run.to => api'[c] = api[c]
      BY <2>1, <2>2
    <2>4. DeploymentTypeOK'
      BY <1>1, <1>3, <2>1, <2>2 DEF DeploymentTypeOK
    <2>5. (RunInv /\ ActiveInv /\ ProxyInv /\ CrewInv)'
      BY <1>1, <1>2, <1>3, <2>1, <2>2 DEF DeploymentInv
    <2>6. ApiInv'
      BY <1>1, <1>2, <2>2, <2>3, DiskFields DEF DeploymentInv, OptionalColor, Color
    <2>7. StandbyInv'
      BY <1>1, <1>2, <1>3, <2>1, <2>2, <2>3 DEF DeploymentInv
    <2> QED BY <2>4, <2>5, <2>6, <2>7 DEF DeploymentInv
  <1>5. CASE ~Stops(run)
    <2>1. RunMoves("forget") /\ UNCHANGED api
      BY <1>1, <1>5, Moves DEF TargetStop, RunStages
    <2>2. DeploymentTypeOK'
      BY <1>1, <1>3, <2>1 DEF DeploymentTypeOK
    <2>3. run.to = "legacy" \/ ~run.whole \/ ~run.touched
      BY <1>5 DEF Stops
    <2> QED BY <1>1, <1>2, <1>3, <2>1, <2>2, <2>3, RunFields, DiskFields DEF DeploymentInv
  <1> QED BY <1>4, <1>5

\* the standby is what it was before the command
StandbyIsBack ==
    /\ disk' = [disk EXCEPT !.env[run.to] = disk.before]
    /\ api' = [api EXCEPT ![run.to] = disk.before]

LEMMA BackAsBefore ==
    ASSUME DeploymentTypeOK, run \in RunType, disk.before # 0, StandbyIsBack
    PROVE  /\ DiskBecomes(disk.active, disk.previous, disk.pending,
                          [disk.env EXCEPT ![run.to] = disk.before], disk.before)
           /\ SameCrews
           /\ api' \in [Color -> Nat]
           /\ api'[run.to] = disk.before /\ disk'.env[run.to] = disk.before
           /\ \A c \in Color : c # run.to => api'[c] = api[c] /\ disk'.env[c] = disk.env[c]
  <1>1. run.to \in Color /\ api \in [Color -> Nat] /\ disk.env \in [Color -> Nat] /\ disk.before \in Nat
    BY RunFields, DiskFields DEF DeploymentTypeOK
  <1>2. /\ DiskBecomes(disk.active, disk.previous, disk.pending,
                       [disk.env EXCEPT ![run.to] = disk.before], disk.before)
        /\ SameCrews
    BY <1>1, DiskFields DEF StandbyIsBack, DeploymentTypeOK, DiskType
  <1>3. /\ api'[run.to] = disk.before /\ disk'.env[run.to] = disk.before
        /\ api' \in [Color -> Nat]
        /\ \A c \in Color : c # run.to => api'[c] = api[c] /\ disk'.env[c] = disk.env[c]
    BY <1>1, <1>2 DEF StandbyIsBack
  <1> QED BY <1>2, <1>3

LEMMA StandbyBackKeeps == DeploymentInv /\ StandbyBack /\ MisledStep => DeploymentInv'
  <1> SUFFICES ASSUME DeploymentInv, StandbyBack, MisledStep PROVE DeploymentInv'
    OBVIOUS
  <1>1. /\ DeploymentTypeOK /\ run.at = "standby" /\ run \in RunType
        /\ UNCHANGED <<proxy, crew>>
    BY RunFields DEF DeploymentInv, StandbyBack, At
  <1>2. misled' = misled
    BY <1>1 DEF DeploymentTypeOK, MisledStep, RecoverySteps
  <1>3. /\ run.to \in Color /\ run.to # "legacy" /\ run.touched /\ run.whole
        /\ disk.active = run.from /\ run.from # run.to
        /\ disk.pending # NoJournal /\ disk.pending.from = run.from /\ disk.pending.to = run.to
    BY <1>1, RunFields DEF DeploymentInv
  <1>4. CASE disk.before = 0
    <2>1. RunMoves("forget") /\ SameRoles /\ SameCrews /\ UNCHANGED api
      BY <1>1, <1>4, Moves, DiskStays DEF StandbyBack, RunStages
    <2>2. DeploymentTypeOK'
      BY <1>1, <1>2, <1>4, <2>1 DEF DeploymentTypeOK
    <2> QED BY <1>1, <1>2, <1>3, <1>4, <2>1, <2>2, DiskFields DEF DeploymentInv
  <1>5. CASE disk.before # 0
    <2>1. PICK whole \in BOOLEAN :
            /\ RunBecomes("forget", run.switched, run.workers, run.touched, whole) /\ (whole => run.whole)
      BY <1>1, <1>5, Moves, Breaks, RunFields DEF StandbyBack, RunStages
    <2>2. /\ DiskBecomes(disk.active, disk.previous, disk.pending,
                         [disk.env EXCEPT ![run.to] = disk.before], disk.before)
          /\ SameCrews
          /\ api' \in [Color -> Nat]
          /\ api'[run.to] = disk.before /\ disk'.env[run.to] = disk.before
          /\ \A c \in Color : c # run.to => api'[c] = api[c] /\ disk'.env[c] = disk.env[c]
      BY <1>1, <1>5, BackAsBefore DEF StandbyBack, StandbyIsBack
    <2>3. DeploymentTypeOK'
      BY <1>1, <1>2, <2>1, <2>2 DEF DeploymentTypeOK
    <2>4. (RunInv /\ ActiveInv /\ ProxyInv /\ CrewInv)'
      BY <1>1, <1>2, <1>3, <2>1, <2>2 DEF DeploymentInv
    <2>5. ApiInv'
      BY <1>1, <1>3, <2>2, DiskFields DEF DeploymentInv, OptionalColor, Color
    <2>6. StandbyInv'
      BY <1>1, <1>2, <1>3, <1>5, <2>1, <2>2, DiskFields DEF DeploymentInv, OptionalColor
    <2> QED BY <2>3, <2>4, <2>5, <2>6 DEF DeploymentInv
  <1> QED BY <1>4, <1>5

LEMMA RecoverTrafficKeeps == DeploymentInv /\ RecoverTraffic /\ MisledStep => DeploymentInv'
  <1> SUFFICES ASSUME DeploymentInv, RecoverTraffic, MisledStep PROVE DeploymentInv'
    OBVIOUS
  <1>1. /\ DeploymentTypeOK /\ run.at \in {"recover", "recover proxy"} /\ run \in RunType
        /\ UNCHANGED <<disk, api, crew>>
    BY RunFields DEF DeploymentInv, RecoverTraffic, At
  <1>2. SameRoles /\ SameCrews
    BY <1>1, DiskStays
  <1>3. misled' = misled
    BY <1>1 DEF DeploymentTypeOK, MisledStep, RecoverySteps
  <1>4. CASE /\ run.at = "recover" /\ proxy' = Switched(run.from) /\ Advance("recover proxy")
    <2>1. RunMoves("recover proxy") /\ run.from \in Color
      BY <1>1, <1>4, Moves, RunFields DEF RunStages, OptionalColor, DeploymentInv
    <2>2. Serving(run.from)' /\ proxy' \in [file : Color, serves : Color]
      BY <1>4, <2>1 DEF Switched
    <2>3. DeploymentTypeOK'
      BY <1>1, <1>3, <2>1, <2>2 DEF DeploymentTypeOK
    <2> QED BY ZenonT(60), <1>1, <1>2, <1>3, <1>4, <2>1, <2>2, <2>3 DEF DeploymentInv
  <1>5. CASE /\ run.at = "recover proxy" /\ UNCHANGED proxy
             /\ run' = [run EXCEPT !.at = "recover workers", !.workers = TRUE]
    <2>1. RunBecomes("recover workers", run.switched, TRUE, run.touched, run.whole)
      BY <1>1, <1>5, RunFields DEF RunType, RunStages
    <2>2. DeploymentTypeOK'
      BY <1>1, <1>3, <1>5, <2>1 DEF DeploymentTypeOK
    <2>3. RunInv'
      BY ZenonT(60), <1>1, <1>2, <1>5, <2>1 DEF DeploymentInv
    <2>4. ApiInv'
      BY <1>1, <1>2 DEF DeploymentInv
    <2>5. ActiveInv'
      BY <1>2, <2>1 DEF DeploymentInv
    <2>6. ProxyInv'
      BY <1>1, <1>2, <1>3, <1>5, <2>1 DEF DeploymentInv
    <2>7. StandbyInv'
      BY <1>1, <1>2, <1>3, <1>5, <2>1 DEF DeploymentInv
    <2>8. CrewInv'
      BY <1>1, <1>2, <1>5, <2>1 DEF DeploymentInv
    <2> QED BY <2>2, <2>3, <2>4, <2>5, <2>6, <2>7, <2>8 DEF DeploymentInv
  <1> QED BY <1>4, <1>5 DEF RecoverTraffic, At

LEMMA RecoverGivesUpKeeps == DeploymentInv /\ RecoverGivesUp /\ MisledStep => DeploymentInv'
  <1> SUFFICES ASSUME DeploymentInv, RecoverGivesUp, MisledStep PROVE DeploymentInv'
    OBVIOUS
  <1>1. /\ DeploymentTypeOK /\ run.at \in {"recover", "recover proxy"} /\ run \in RunType
        /\ run' = NoRun /\ run'.at = "none"
        /\ UNCHANGED <<disk, api, crew>>
        /\ proxy' \in {proxy} \cup SwitchFailed(run.from)
    BY RunFields DEF DeploymentInv, RecoverGivesUp, NoRun
  <1>2. SameRoles /\ SameCrews
    BY <1>1, DiskStays
  <1>3. misled' = misled
    BY <1>1 DEF DeploymentTypeOK, MisledStep, RecoverySteps
  <1>4. run.from \in Color
    BY <1>1, RunFields DEF DeploymentInv, OptionalColor
  <1>5. DeploymentTypeOK'
    BY <1>1, <1>3, <1>4 DEF DeploymentTypeOK, SwitchFailed
  <1>6. disk.pending # NoJournal
    BY <1>1 DEF DeploymentInv
  <1> QED BY <1>1, <1>2, <1>3, <1>5, <1>6 DEF DeploymentInv

\* a recovery that fails at the workers hands over to a handler that restores no colour
LEMMA RecoveryFailsKeeps ==
    ASSUME DeploymentInv, run.at \in RecoverySteps, RecoveryFails, MisledStep, DeploymentTypeOK',
           UNCHANGED proxy, SameRoles, SameCrews, UNCHANGED api, OneGeneration',
           \A p \in {"legacy", "workers"} : crew'[p] # 0 =>
             p = Project(run.to) \/ (disk.workersBefore # "none" /\ p = Project(disk.workersBefore))
    PROVE  DeploymentInv'
  <1>1. DeploymentTypeOK /\ run \in RunType /\ run.at \in {"recover workers", "recover up", "recover target"}
    BY RunFields DEF DeploymentInv, RecoverySteps
  <1>2. RunMoves("traffic")
    BY <1>1, Moves DEF RecoveryFails, RunStages
  <1>3. misled' = TRUE
    BY <1>2 DEF MisledStep
  <1>4. /\ run.workers /\ ~run.touched /\ ~run.switched /\ ~run.rollback
        /\ disk.pending # NoJournal /\ disk.pending.from = run.from /\ disk.pending.to = run.to
    BY <1>1 DEF DeploymentInv
  <1>5. (RunInv /\ ApiInv /\ ActiveInv /\ ProxyInv /\ StandbyInv)'
    <2>1. RunInv'
      BY <1>1, <1>2, <1>3, <1>4 DEF DeploymentInv
    <2>2. ApiInv'
      BY <1>1, <1>2, <1>3, <1>4 DEF DeploymentInv
    <2>3. ActiveInv'
      BY <1>1, <1>2, <1>3, <1>4 DEF DeploymentInv
    <2>4. ProxyInv'
      BY <1>1, <1>2, <1>3, <1>4 DEF DeploymentInv
    <2>5. StandbyInv'
      BY <1>1, <1>2, <1>3, <1>4 DEF DeploymentInv
    <2> QED BY <2>1, <2>2, <2>3, <2>4, <2>5
  <1>6. CrewInv'
    BY <1>2, <1>4
  <1> QED BY <1>5, <1>6 DEF DeploymentInv

LEMMA RecoverWorkersKeeps == DeploymentInv /\ RecoverWorkers /\ MisledStep => DeploymentInv'
  <1> SUFFICES ASSUME DeploymentInv, RecoverWorkers, MisledStep PROVE DeploymentInv'
    OBVIOUS
  <1>1. /\ DeploymentTypeOK /\ run.at \in {"recover workers", "recover up"} /\ run \in RunType
        /\ UNCHANGED <<proxy, api>> /\ run.at \in RecoverySteps /\ run.workers
    BY RunFields DEF DeploymentInv, RecoverWorkers, RefitStop, RefitUp, At, RecoverySteps
  <1>2. disk.pending # NoJournal /\ disk.pending.to = run.to /\ disk.pending.from = run.from
    BY <1>1 DEF DeploymentInv
  <1>3. CASE /\ run.at = "recover workers" /\ Crewed(Project(run.to), 0)
             /\ Advance("recover up") /\ UNCHANGED disk
    <2>1. RunMoves("recover up") /\ SameRoles /\ SameCrews
      BY <1>1, <1>3, Moves, DiskStays DEF RunStages
    <2>2. OnlyFor(disk.workersBefore)' /\ OneGeneration'
      BY <1>1, <1>3, OthersStopped DEF Crewed
    <2>3. misled' = misled
      BY <1>1, <2>1 DEF DeploymentTypeOK, MisledStep
    <2>4. DeploymentTypeOK'
      BY <1>1, <1>3, <2>1, <2>3 DEF DeploymentTypeOK, Crewed, Project
    <2>5. (RunInv /\ ApiInv /\ ActiveInv /\ ProxyInv /\ StandbyInv)'
      <3>1. RunInv'
        BY ZenonT(60), <1>1, <1>3, <2>1, <2>3, RunFields DEF DeploymentInv
      <3>2. ApiInv'
        BY <1>1, <1>3, <2>1, <2>3, RunFields DEF DeploymentInv
      <3>3. ActiveInv'
        BY <1>1, <1>3, <2>1, <2>3, RunFields DEF DeploymentInv
      <3>4. ProxyInv'
        BY <1>1, <1>3, <2>1, <2>3, RunFields DEF DeploymentInv
      <3>5. StandbyInv'
        BY <1>1, <1>3, <2>1, <2>3, RunFields DEF DeploymentInv
      <3> QED BY <3>1, <3>2, <3>3, <3>4, <3>5
    <2>6. CrewInv'
      BY <1>1, <1>3, <2>1, <2>2 DEF DeploymentInv
    <2> QED BY <2>4, <2>5, <2>6 DEF DeploymentInv
  <1>4. CASE run.at = "recover workers" /\ RecoveryFails /\ UNCHANGED <<disk, crew>>
    <2>1. RunMoves("traffic") /\ SameRoles /\ SameCrews
      BY <1>1, <1>4, Moves, DiskStays DEF RunStages, RecoveryFails
    <2>2. DeploymentTypeOK'
      BY <1>1, <1>4, <2>1 DEF DeploymentTypeOK, MisledStep
    <2>3. /\ OneGeneration'
          /\ \A p \in {"legacy", "workers"} : crew'[p] # 0 =>
               p = Project(run.to) \/ (disk.workersBefore # "none" /\ p = Project(disk.workersBefore))
      BY <1>2, <1>4 DEF DeploymentInv
    <2> QED BY <1>1, <1>4, <2>1, <2>2, <2>3, RecoveryFailsKeeps
  <1>5. CASE run.at = "recover up" /\ RefitUp("recover target", RecoveryFails)
    <2>1. /\ crew' \in [{"legacy", "workers"} -> Nat] /\ OneGeneration'
          /\ \A p \in {"legacy", "workers"} :
                crew'[p] # 0 => disk.workersBefore # "none" /\ p = Project(disk.workersBefore)
      BY <1>5, OthersStarted DEF RefitUp
    <2>2. CASE /\ disk' = [disk EXCEPT !.workers = disk.workersBefore, !.at = disk.atBefore]
               /\ Advance("recover target")
      <3>1. RunMoves("recover target")
        BY <1>1, <2>2, Moves DEF RunStages
      <3>2. /\ DiskBecomes(disk.active, disk.previous, disk.pending, disk.env, disk.before)
            /\ WorkersBecome(disk.workersBefore, disk.workersBefore)
        BY <1>1, <2>2, DiskFields DEF DeploymentTypeOK, DiskType
      <3>3. misled' = misled
        BY <1>1, <3>1 DEF DeploymentTypeOK, MisledStep
      <3>4. DeploymentTypeOK'
        BY <1>1, <2>1, <3>1, <3>2, <3>3 DEF DeploymentTypeOK
      <3>5. (RunInv /\ ApiInv /\ ActiveInv /\ ProxyInv /\ StandbyInv)'
        <4>1. RunInv'
          BY ZenonT(60), <1>1, <1>5, <3>1, <3>2, <3>3, RunFields DEF DeploymentInv
        <4>2. ApiInv'
          BY ZenonT(60), <1>1, <3>2 DEF DeploymentInv
        <4>3. ActiveInv'
          BY <1>1, <1>5, <3>1, <3>2, <3>3, RunFields DEF DeploymentInv
        <4>4. ProxyInv'
          BY <1>1, <1>5, <3>1, <3>2, <3>3, RunFields DEF DeploymentInv
        <4>5. StandbyInv'
          BY ZenonT(60), <1>1, <1>5, <3>1, <3>2, <3>3, RunFields DEF DeploymentInv
        <4> QED BY <4>1, <4>2, <4>3, <4>4, <4>5
      <3>6. CrewInv'
        BY ZenonT(60), <1>1, <1>2, <1>5, <2>1, <3>1, <3>2 DEF DeploymentInv
      <3> QED BY <3>4, <3>5, <3>6 DEF DeploymentInv
    <2>3. CASE RecoveryFails /\ UNCHANGED disk
      <3>1. RunMoves("traffic") /\ SameRoles /\ SameCrews
        BY <1>1, <2>3, Moves, DiskStays DEF RunStages, RecoveryFails
      <3>2. DeploymentTypeOK'
        BY <1>1, <2>1, <2>3, <3>1 DEF DeploymentTypeOK, MisledStep
      <3> QED BY <1>1, <2>1, <2>3, <3>1, <3>2, RecoveryFailsKeeps
    <2> QED BY <1>5, <2>2, <2>3 DEF RefitUp
  <1> QED BY <1>1, <1>3, <1>4, <1>5 DEF RecoverWorkers, RefitStop, At

LEMMA RecoverTargetKeeps == DeploymentInv /\ RecoverTarget /\ MisledStep => DeploymentInv'
  <1> SUFFICES ASSUME DeploymentInv, RecoverTarget, MisledStep PROVE DeploymentInv'
    OBVIOUS
  <1>1. /\ DeploymentTypeOK /\ run.at = "recover target" /\ run \in RunType
        /\ UNCHANGED <<proxy, crew>>
    BY RunFields DEF DeploymentInv, RecoverTarget, At
  <1>2. /\ run.to \in Color /\ run.from # run.to /\ run.from # "none"
        /\ run.workers /\ ~run.touched /\ ~run.switched /\ ~run.rollback
        /\ disk.pending # NoJournal /\ disk.pending.from = run.from /\ disk.pending.to = run.to
    BY <1>1, RunFields DEF DeploymentInv
  <1>3. CASE disk.before = 0 \/ run.to = "legacy"
    <2>1. RunMoves("recover active") /\ SameRoles /\ SameCrews /\ UNCHANGED api
      BY <1>1, <1>3, Moves, DiskStays DEF RecoverTarget, RunStages
    <2>2. misled' = misled
      BY <1>1, <2>1 DEF DeploymentTypeOK, MisledStep
    <2>3. DeploymentTypeOK'
      BY <1>1, <1>3, <2>1, <2>2 DEF DeploymentTypeOK, RecoverTarget
    <2>4. (RunInv /\ ApiInv /\ ActiveInv /\ ProxyInv /\ CrewInv)'
      <3>1. RunInv'
        BY <1>1, <1>2, <2>1, <2>2 DEF DeploymentInv
      <3>2. ApiInv'
        BY <1>1, <1>2, <2>1, <2>2 DEF DeploymentInv
      <3>3. ActiveInv'
        BY <1>1, <1>2, <2>1, <2>2 DEF DeploymentInv
      <3>4. ProxyInv'
        BY <1>1, <1>2, <2>1, <2>2 DEF DeploymentInv
      <3>5. CrewInv'
        BY ZenonT(60), <1>1, <1>2, <2>1, <2>2 DEF DeploymentInv
      <3> QED BY <3>1, <3>2, <3>3, <3>4, <3>5
    <2>5. StandbyInv'
      BY <1>1, <1>2, <1>3, <2>1, <2>2 DEF DeploymentInv
    <2> QED BY <2>3, <2>4, <2>5 DEF DeploymentInv
  <1>4. CASE disk.before # 0 /\ run.to # "legacy"
    <2>1. /\ DiskBecomes(disk.active, disk.previous, disk.pending,
                         [disk.env EXCEPT ![run.to] = disk.before], disk.before)
          /\ SameCrews
          /\ api' \in [Color -> Nat]
          /\ api'[run.to] = disk.before /\ disk'.env[run.to] = disk.before
          /\ \A c \in Color : c # run.to => api'[c] = api[c] /\ disk'.env[c] = disk.env[c]
      BY <1>1, <1>4, BackAsBefore DEF RecoverTarget, StandbyIsBack
    <2>2. PICK at \in {"recover active", "traffic"} : RunMoves(at)
      BY <1>1, <1>4, Moves DEF RecoverTarget, RecoveryFails, RunStages
    <2>3. misled' \in BOOLEAN /\ (at = "recover active" => misled' = misled) /\ (at = "traffic" => misled')
      BY <1>1, <2>2 DEF DeploymentTypeOK, MisledStep, RecoverySteps
    <2>4. DeploymentTypeOK'
      BY <1>1, <2>1, <2>2, <2>3 DEF DeploymentTypeOK
    <2>5. \A c \in Color : api[c] # 0 /\ api[c] = disk.env[c] => api'[c] # 0 /\ api'[c] = disk'.env[c]
      BY <1>4, <2>1
    <2>6. RunInv'
      BY <1>1, <1>2, <2>1, <2>2 DEF DeploymentInv
    <2>7. ApiInv'
      <3>1. api'["legacy"] = disk'.env["legacy"]
        BY <1>4, <2>1 DEF DeploymentInv, Color
      <3>2. disk'.active # "none" => Sound(disk.active)'
        <4>1. disk.active # "none" => disk.active \in Color /\ api[disk.active] # 0 /\ api[disk.active] = disk.env[disk.active]
          BY <1>1, DiskFields DEF DeploymentInv, OptionalColor
        <4>2. disk.active # "none" => api'[disk.active] # 0 /\ api'[disk.active] = disk'.env[disk.active]
          BY <2>5, <4>1
        <4>3. disk'.active = disk.active
          BY <2>1
        <4> QED BY <4>2, <4>3
      <3>3. run.from \in Color /\ api[run.from] # 0 /\ api[run.from] = disk.env[run.from]
        BY <1>1, <1>2, RunFields DEF DeploymentInv, OptionalColor
      <3>4. api'[run.from] # 0 /\ api'[run.from] = disk'.env[run.from]
        BY <2>5, <3>3
      <3>5. disk'.pending = disk.pending
        BY <2>1
      <3>6. PreviousStaysUp'
        BY <1>2, <3>4, <3>5
      <3> QED BY <3>1, <3>2, <3>6
    <2>8. ActiveInv'
      BY <1>1, <1>2, <2>1, <2>2, <2>3 DEF DeploymentInv
    <2>9. disk.previous \in Color \ {run.from} /\ ~misled =>
            api'[disk.previous] # 0 /\ api'[disk.previous] = disk'.env[disk.previous]
      <3>1. CASE disk.previous = run.to
        BY <1>4, <2>1, <3>1
      <3>2. CASE disk.previous # run.to
        <4>1. disk.previous \in Color \ {run.from} /\ ~misled =>
                api[disk.previous] # 0 /\ api[disk.previous] = disk.env[disk.previous]
          BY <1>1, <1>2, <3>2 DEF DeploymentInv
        <4> QED BY <2>5, <4>1
      <3> QED BY <3>1, <3>2
    <2>10. CrewInv'
      BY ZenonT(60), <1>1, <1>2, <2>1, <2>2 DEF DeploymentInv
    <2>11. CASE at = "recover active"
      <3>1. misled' = misled
        BY <2>3, <2>11
      <3>2. ProxyInv'
        BY <1>1, <1>2, <2>1, <2>2, <2>11, <3>1 DEF DeploymentInv
      <3>3. StandbyInv'
        BY ZenonT(60), <1>1, <1>2, <2>1, <2>2, <2>9, <2>11, <3>1 DEF DeploymentInv
      <3> QED BY <2>4, <2>6, <2>7, <2>8, <2>10, <3>2, <3>3 DEF DeploymentInv
    <2>12. CASE at = "traffic"
      <3>1. misled' = TRUE
        BY <2>3, <2>12
      <3>2. ProxyInv' /\ StandbyInv'
        BY <2>2, <2>12, <3>1
      <3> QED BY <2>4, <2>6, <2>7, <2>8, <2>10, <3>2 DEF DeploymentInv
    <2> QED BY <2>2, <2>11, <2>12
  <1> QED BY <1>3, <1>4

LEMMA DeploymentInitially == DeploymentInit => DeploymentInv
  <1> SUFFICES ASSUME DeploymentInit PROVE DeploymentInv
    OBVIOUS
  <1>1. PICK adopted \in Adoptions :
          /\ disk = [active |-> IF adopted = 0 THEN "none" ELSE "legacy", previous |-> "none",
                     pending |-> NoJournal, env |-> [c \in Color |-> IF c = "legacy" THEN adopted ELSE 0],
                     before |-> 0, workers |-> IF adopted = 0 THEN "none" ELSE "legacy",
                     workersBefore |-> "none", at |-> adopted, atBefore |-> 0]
          /\ proxy = [file |-> IF adopted = 0 THEN "blue" ELSE "legacy",
                      serves |-> IF adopted = 0 THEN "blue" ELSE "legacy"]
          /\ api = [c \in Color |-> IF c = "legacy" THEN adopted ELSE 0]
          /\ crew = [legacy |-> adopted, workers |-> 0]
          /\ run = NoRun /\ misled = FALSE
    BY DEF DeploymentInit
  <1>2. adopted \in {0, 1}
    BY DeploymentAssumption
  <1>3. run.at = "none"
    BY <1>1 DEF NoRun
  <1>4. /\ disk.active = (IF adopted = 0 THEN "none" ELSE "legacy") /\ disk.previous = "none"
        /\ disk.pending = NoJournal /\ disk.workers = disk.active
        /\ disk.env = [c \in Color |-> IF c = "legacy" THEN adopted ELSE 0]
    BY <1>1
  <1>5. crew["legacy"] = adopted /\ crew["workers"] = 0
    BY <1>1
  <1>6. api["legacy"] = adopted /\ disk.env["legacy"] = adopted
    BY <1>1, <1>4 DEF Color
  <1>7. DeploymentTypeOK
    <2>1. disk \in DiskType
      BY <1>1, <1>2 DEF DiskType, OptionalColor, Color
    <2>2. proxy \in [file : Color, serves : Color] /\ api \in [Color -> Nat]
      BY <1>1, <1>2 DEF Color
    <2>3. crew \in [{"legacy", "workers"} -> Nat]
      BY <1>1, <1>2
    <2> QED BY <1>1, <2>1, <2>2, <2>3 DEF DeploymentTypeOK
  <1>8. RunInv
    BY <1>3, <1>4
  <1>9. ApiInv
    BY <1>2, <1>4, <1>6
  <1>10. ActiveInv
    BY <1>3
  <1>11. ProxyInv
    BY <1>1, <1>3, <1>4
  <1>12. StandbyInv
    BY <1>3, <1>4 DEF Color
  <1>13. CrewInv
    BY <1>3, <1>4, <1>5 DEF Project
  <1> QED BY <1>7, <1>8, <1>9, <1>10, <1>11, <1>12, <1>13 DEF DeploymentInv

LEMMA DeploymentStutters == DeploymentInv /\ UNCHANGED deployment => DeploymentInv'
  <1> SUFFICES ASSUME DeploymentInv, UNCHANGED <<disk, proxy, api, crew, run, misled>> PROVE DeploymentInv'
    BY DEF deployment
  <1>1. DeploymentTypeOK'
    BY DEF DeploymentInv, DeploymentTypeOK
  <1>5. RunInv' /\ ActiveInv'
    BY ZenonT(60) DEF DeploymentInv
  <1>6. ApiInv'
    BY DEF DeploymentInv
  <1>2. ProxyInv'
    BY DEF DeploymentInv
  <1>3. StandbyInv'
    BY DEF DeploymentInv
  <1>4. CrewInv'
    BY DEF DeploymentInv
  <1> QED BY <1>1, <1>2, <1>3, <1>4, <1>5, <1>6 DEF DeploymentInv

LEMMA DeploymentStep == DeploymentInv /\ DeploymentNext => DeploymentInv'
  <1> SUFFICES ASSUME DeploymentInv, DeploymentSteps, MisledStep PROVE DeploymentInv'
    BY DEF DeploymentNext, MisledStep
  <1>1. ASSUME NEW release \in 2 .. MaxRelease, Deploy(release) PROVE DeploymentInv'
    BY <1>1, DeployKeeps
  <1>2. RollBack \/ Backup \/ Journal \/ WriteMetadata \/ Up \/ WaitReady \/ Switch \/ Activate
          => DeploymentInv'
    BY RollBackKeeps, BackupKeeps, JournalKeeps, WriteMetadataKeeps, UpKeeps, WaitReadyKeeps, SwitchKeeps,
       ActivateKeeps
  <1>3. CutWorkers \/ StopWorkers \/ UpWorkers \/ RecordWorkers \/ RecordPrevious \/ Clear => DeploymentInv'
    BY CutWorkersKeeps, StopWorkersKeeps, UpWorkersKeeps, RecordWorkersKeeps, RecordPreviousKeeps, ClearKeeps
  <1>4. Fail \/ SwitchFails \/ TrafficBack \/ TrafficRestored \/ RestoreWorkers \/ TargetStop
          \/ StandbyBack \/ Forget => DeploymentInv'
    BY FailKeeps, SwitchFailsKeeps, TrafficBackKeeps, TrafficRestoredKeeps, RestoreWorkersKeeps,
       TargetStopKeeps, StandbyBackKeeps, ForgetKeeps
  <1>5. Recover \/ RecoverTraffic \/ RecoverGivesUp \/ RecoverWorkers \/ RecoverTarget
          \/ RecoverActive \/ Killed \/ Reboot => DeploymentInv'
    BY RecoverKeeps, RecoverTrafficKeeps, RecoverGivesUpKeeps, RecoverWorkersKeeps, RecoverTargetKeeps,
       RecoverActiveKeeps, KilledKeeps, RebootKeeps
  <1> QED BY <1>1, <1>2, <1>3, <1>4, <1>5 DEF DeploymentSteps

\* the four steps that touch a container touch the target of the command,
\* and the colour that serves is the one the command came from
LEMMA ServingStays ==
    ASSUME DeploymentInv, DeploymentNext, disk.active # "none", api[proxy.serves] # 0, ~misled
    PROVE  api'[proxy.serves] = api[proxy.serves]
  <1>1. DeploymentTypeOK /\ api \in [Color -> Nat] /\ (run.at # "none" => run.to \in Color /\ run \in RunType)
    BY RunFields DEF DeploymentInv, DeploymentTypeOK
  <1>2. ASSUME run.at \in {"start", "standby", "recover target"} \/ (run.at = "target" /\ Stops(run))
        PROVE  proxy.serves # run.to
    <2>1. run.at # "none" /\ run.from # run.to
      BY <1>2 DEF DeploymentInv
    <2>2. run.at \in {"start", "target", "standby"} => run.from = disk.active
      BY <1>2 DEF DeploymentInv, Stops
    <2>3. run.from # "none"
      BY <1>2, <2>2 DEF DeploymentInv
    <2>4. proxy.serves = run.from
      BY <1>2, <2>3 DEF DeploymentInv, Stops
    <2> QED BY <2>1, <2>4
  <1>3. \/ UNCHANGED api
        \/ /\ run.at \in {"start", "standby", "recover target"} \/ (run.at = "target" /\ Stops(run))
           /\ \E release \in {run.release, 0, disk.before} : api' = [api EXCEPT ![run.to] = release]
    <2>1. Up \/ TargetStop \/ StandbyBack \/ RecoverTarget =>
            \/ UNCHANGED api
            \/ /\ run.at \in {"start", "standby", "recover target"} \/ (run.at = "target" /\ Stops(run))
               /\ \E release \in {run.release, 0, disk.before} : api' = [api EXCEPT ![run.to] = release]
      BY DEF Up, TargetStop, StandbyBack, RecoverTarget, At
    <2>2. \A release \in 2 .. MaxRelease : Deploy(release) => UNCHANGED api
      BY DEF Deploy
    <2>3. RollBack \/ Backup \/ Journal \/ WriteMetadata \/ WaitReady \/ Switch \/ Activate
            \/ CutWorkers \/ StopWorkers \/ UpWorkers \/ RecordWorkers \/ RecordPrevious \/ Clear
            => UNCHANGED api
      BY DEF RollBack, Backup, Journal, WriteMetadata, WaitReady, Switch, Activate, CutWorkers, StopWorkers,
             UpWorkers, RecordWorkers, RecordPrevious, Clear
    <2>4. Fail \/ SwitchFails \/ TrafficBack \/ TrafficRestored \/ RestoreWorkers \/ Forget => UNCHANGED api
      BY DEF Fail, SwitchFails, TrafficBack, TrafficRestored, RestoreWorkers, RefitStop, RefitUp, Forget
    <2>5. Recover \/ RecoverTraffic \/ RecoverGivesUp \/ RecoverWorkers \/ RecoverActive \/ Killed \/ Reboot
            => UNCHANGED api
      BY DEF Recover, RecoverTraffic, RecoverGivesUp, RecoverWorkers, RefitStop, RefitUp, RecoverActive,
             Killed, Reboot
    <2> QED BY <2>1, <2>2, <2>3, <2>4, <2>5 DEF DeploymentNext, DeploymentSteps
  <1>4. \A release : proxy.serves # run.to => [api EXCEPT ![run.to] = release][proxy.serves] = api[proxy.serves]
    BY <1>1 DEF DeploymentTypeOK
  <1> QED BY <1>2, <1>3, <1>4

LEMMA DeploymentPromises ==
    DeploymentInv => PreviousStaysUp /\ OneGeneration /\ StandbyKept /\ StateIsTrue
  <1> SUFFICES ASSUME DeploymentInv PROVE PreviousStaysUp /\ OneGeneration /\ StandbyKept /\ StateIsTrue
    OBVIOUS
  <1>1. PreviousStaysUp /\ OneGeneration
    BY DEF DeploymentInv
  <1>2. StandbyKept
    BY DiskFields DEF DeploymentInv, StandbyKept, OptionalColor
  <1>3. StateIsTrue
    BY DEF DeploymentInv, StateIsTrue
  <1> QED BY <1>1, <1>2, <1>3

LEMMA DeploymentInductive == DeploymentSpec => []DeploymentInv
  <1> HIDE DEF PreviousStaysUp, OneGeneration
  <1> QED BY DeploymentInitially, DeploymentStep, DeploymentStutters, PTL DEF DeploymentSpec

(* deploy, rollback and recover, with every step failing, killed or          *)
(* rebooted: what serves is not touched, what served can return, workers of  *)
(* two generations never run at once, and the metadata says what runs.       *)
THEOREM ReleasesAlwaysSurvive == DeploymentSpec => ReleasesSurvive
  <1> HIDE DEF PreviousStaysUp, OneGeneration
  <1>1. DeploymentInv /\ [DeploymentNext]_deployment =>
          [(disk.active # "none" /\ api[proxy.serves] # 0 /\ ~misled)
             => api'[proxy.serves] = api[proxy.serves]]_deployment
    BY ServingStays
  <1>2. DeploymentSpec => ServingUntouched
    BY <1>1, DeploymentInductive, PTL DEF DeploymentSpec, ServingUntouched
  <1>3. DeploymentSpec => [](PreviousStaysUp /\ OneGeneration /\ StandbyKept /\ StateIsTrue)
    BY DeploymentPromises, DeploymentInductive, PTL
  <1> QED BY <1>2, <1>3 DEF ReleasesSurvive
=============================================================================
