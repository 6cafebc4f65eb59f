------------------------- MODULE EmailDeliveryProofs -------------------------
(***************************************************************************)
(* What EmailDelivery guarantees for every number of users, workers and    *)
(* deliveries and every value of the durations and limits.                 *)
(***************************************************************************)
EXTENDS EmailMailbox, FiniteSetTheorems, TLAPS

-----------------------------------------------------------------------------
(* What the helpers of the handlers return.                                  *)

LEMMA RefreshedRow ==
    ASSUME TypeOK, NEW u \in User
    PROVE  /\ Refreshed(u) \in UserType
           /\ Refreshed(u).provider = usr[u].provider
           /\ Refreshed(u).version \in {usr[u].version, usr[u].version + 1}
           /\ Refreshed(u).suppressed => /\ usr[u].suppressed
                                         /\ Refreshed(u).email = usr[u].email
  <1>1. usr[u] \in UserType /\ idp[u].email \in Email /\ idp[u].verified \in BOOLEAN
    BY DEF TypeOK
  <1>2. CASE Moved(u)
    <2> DEFINE row == [usr[u] EXCEPT !.email = idp[u].email, !.alerts = FALSE,
                                     !.recap = FALSE, !.suppressed = FALSE,
                                     !.version = @ + 1]
    <2>1. row \in UserType
      <3>1. usr[u].version + 1 \in Nat
        BY <1>1 DEF UserType
      <3> QED BY <1>1, <3>1, Zenon DEF UserType
    <2>2. /\ row.provider = usr[u].provider
          /\ row.version = usr[u].version + 1
          /\ row.suppressed = FALSE
      BY <1>1 DEF UserType
    <2>3. Refreshed(u) = [row EXCEPT !.verified = idp[u].verified]
      BY <1>2 DEF Refreshed
    <2> HIDE DEF row
    <2> QED BY <1>1, <2>1, <2>2, <2>3 DEF UserType
  <1>3. CASE ~Moved(u)
    BY <1>1, <1>3 DEF Refreshed, UserType
  <1> QED BY <1>2, <1>3

LEMMA CancellingRows ==
    ASSUME TypeOK, NEW u, NEW kinds
    PROVE  /\ Cancelling(u, kinds) \in [Delivery -> RowType]
           /\ \A d \in Delivery :
                \/ Cancelling(u, kinds)[d] = dlv[d]
                \/ /\ dlv[d].status = "pending"
                   /\ Cancelling(u, kinds)[d] = [dlv[d] EXCEPT !.status = "cancelled"]
  <1> SUFFICES ASSUME NEW d \in Delivery
               PROVE  /\ Cancelling(u, kinds)[d] \in RowType
                      /\ \/ Cancelling(u, kinds)[d] = dlv[d]
                         \/ /\ dlv[d].status = "pending"
                            /\ Cancelling(u, kinds)[d] = [dlv[d] EXCEPT !.status = "cancelled"]
    BY DEF Cancelling
  <1>1. dlv[d] \in RowType
    BY DEF TypeOK
  <1>2. [dlv[d] EXCEPT !.status = "cancelled"] \in RowType
    BY <1>1 DEF RowType, Statuses
  <1> QED BY <1>1, <1>2 DEF Cancelling

LEMMA NewRowType == TypeOK => NewRow \in RowType
  BY DEF TypeOK, NewRow, NoRow, NoBody, RowType, BodyType, Statuses, Account, Listings

-----------------------------------------------------------------------------
(* What one scan of claim() does.                                            *)

\* a row the scan settles or passes over, but does not lease
Rewritten(d) ==
    \/ dlv'[d] = dlv[d]
    \/ /\ d \in Candidates
       /\ \/ \E s \in {"cancelled", "reconcile"} : dlv'[d] = [dlv[d] EXCEPT !.status = s]
          \/ dlv[d].first = 0 /\ dlv'[d] = [dlv[d] EXCEPT !.status = "expired"]
          \/ dlv'[d] = [dlv[d] EXCEPT !.due = now + FiveMinutes]

Verdicts == {"cancel", "reconnected", "skip", "give up", "expire", "pause", "invalid",
             "misconfigured", "claim"}

LEMMA VerdictGuards ==
    ASSUME NEW d, NEW dropped, NEW down, NEW broken
    PROVE  LET v == Verdict(d, dropped, down, broken) IN
           /\ v \in Verdicts
           /\ v = "claim" => ~Reconnected(d) /\ ~GivenUp(d) /\ ~OverBudget(d, dropped)
           /\ v = "expire" => dlv[d].first = 0
  BY DEF Verdict, Verdicts, Expired

LEMMA SettledRow ==
    ASSUME NEW d \in Candidates, NEW v \in Verdicts, v # "claim",
           v = "expire" => dlv[d].first = 0, dlv'[d] = Settled(d, v)
    PROVE  Rewritten(d)
  <1>1. CASE v \in {"cancel", "invalid"}
    BY <1>1 DEF Settled, Rewritten
  <1>2. CASE v = "reconnected"
    <2>1. CASE dlv[d].first # 0
      BY <1>2, <2>1 DEF Settled, Rewritten
    <2>2. CASE dlv[d].first = 0
      BY <1>2, <2>2 DEF Settled, Rewritten
    <2> QED BY <2>1, <2>2
  <1>3. CASE v \in {"give up", "expire", "pause"}
    BY <1>3 DEF Settled, Rewritten
  <1>4. CASE v \in {"skip", "misconfigured"}
    BY <1>4 DEF Settled, Rewritten
  <1> QED BY <1>1, <1>2, <1>3, <1>4 DEF Verdicts

LeasedBy(w, f) ==
    /\ f \in Candidates /\ ~Reconnected(f) /\ ~GivenUp(f)
    /\ dlv[f].first = 0 => \E dropped : Budget(AccountOf(Owner[f]), KindOf[f], dropped)
    /\ wrk' = [wrk EXCEPT ![w] = Job(f)] /\ dlv'[f] = Leased(f)
    /\ \A d \in Delivery \ {f} : Rewritten(d)

LEMMA ClaimEffect ==
    ASSUME TypeOK, NEW w \in Worker, Claim(w)
    PROVE  /\ wrk[w] = NoJob
           /\ dlv' = [d \in Delivery |-> dlv'[d]]
           /\ usr' = [u \in User |-> usr'[u]]
           /\ \A u \in User : \E v \in BOOLEAN, s \in {usr[u].status, "configuration_error"} :
                 usr'[u] = [usr[u] EXCEPT !.verified = v, !.status = s]
           /\ \/ wrk' = wrk /\ \A d \in Delivery : Rewritten(d)
              \/ \E f \in Candidates : LeasedBy(w, f)
  <1>1. PICK down \in Failing("identity"), broken \in Failing("configuration") :
             Claim(w)!2!(down, broken)
    BY DEF Claim
  <1> DEFINE dropped[d \in Candidates] ==
               {Owner[c] : c \in {x \in Candidates :
                    Before(x, d) /\ Verdict(x, dropped[x], down, broken) = "invalid"}}
             verdict == [d \in Candidates |-> Verdict(d, dropped[d], down, broken)]
             winners == {d \in Candidates : verdict[d] = "claim"}
             scanned(first) == first \cup
                    {x \in Candidates \ winners : \A d \in first : Before(x, d)}
             found(first, v) == {Owner[d] : d \in {x \in scanned(first) : verdict[x] = v}}
  <1>2. PICK first \in {{}} \cup {{d} : d \in winners} :
            /\ dlv' = [d \in Delivery |->
                          IF d \in scanned(first) THEN Settled(d, verdict[d]) ELSE dlv[d]]
            /\ usr' = [u \in User |->
                          [usr[u] EXCEPT
                            !.verified = @ /\ u \notin found(first, "invalid"),
                            !.status = IF u \in found(first, "misconfigured")
                                         THEN "configuration_error" ELSE @]]
            /\ wrk' = [v \in Worker |-> IF v = w /\ first # {}
                                          THEN Job(CHOOSE d \in first : TRUE) ELSE wrk[v]]
    BY <1>1
  <1>3. \A d \in Candidates : /\ verdict[d] \in Verdicts
                              /\ verdict[d] = "claim" => ~Reconnected(d) /\ ~GivenUp(d)
                              /\ verdict[d] = "expire" => dlv[d].first = 0
    BY VerdictGuards
  <1>12. ASSUME NEW d \in Candidates, verdict[d] = "claim", dlv[d].first = 0
         PROVE  \E x : Budget(AccountOf(Owner[d]), KindOf[d], x)
    <2>1. ~OverBudget(d, dropped[d])
      BY <1>12, VerdictGuards
    <2> HIDE DEF dropped
    <2> QED BY <1>12, <2>1 DEF OverBudget
  <1> HIDE DEF verdict
  <1>4. \A u \in User : \E v \in BOOLEAN, s \in {usr[u].status, "configuration_error"} :
           usr'[u] = [usr[u] EXCEPT !.verified = v, !.status = s]
    <2> TAKE u \in User
    <2>1. usr[u].verified \in BOOLEAN
      BY DEF TypeOK, UserType
    <2> DEFINE v == usr[u].verified /\ u \notin found(first, "invalid")
               s == IF u \in found(first, "misconfigured") THEN "configuration_error"
                                                           ELSE usr[u].status
    <2>2. usr'[u] = [usr[u] EXCEPT !.verified = v, !.status = s]
      BY <1>2
    <2>3. v \in BOOLEAN /\ s \in {usr[u].status, "configuration_error"}
      BY <2>1
    <2> HIDE DEF v, s
    <2> QED BY <2>2, <2>3
  <1>5. \A d \in Delivery \ first : Rewritten(d)
    <2> TAKE d \in Delivery \ first
    <2>1. CASE d \in Candidates \ winners /\ d \in scanned(first)
      <3>1. dlv'[d] = Settled(d, verdict[d])
        BY <1>2, <2>1
      <3>2. verdict[d] # "claim"
        BY <2>1
      <3> QED BY <1>3, <2>1, <3>1, <3>2, SettledRow
    <2>2. CASE d \notin scanned(first)
      BY <1>2, <2>2 DEF Rewritten
    <2> QED BY <2>1, <2>2
  <1>6. ASSUME first = {}
        PROVE  wrk' = wrk /\ \A d \in Delivery : Rewritten(d)
    <2>1. wrk' = [v \in Worker |-> wrk[v]]
      BY <1>2, <1>6
    <2>2. wrk' = wrk
      BY <2>1 DEF TypeOK
    <2> QED BY <1>5, <1>6, <2>2
  <1>7. ASSUME NEW f \in winners, first = {f}
        PROVE  LeasedBy(w, f)
    <2>1. f \in Candidates /\ verdict[f] = "claim" /\ f \in Delivery
      BY <1>7 DEF Candidates
    <2>2. dlv'[f] = Leased(f)
      BY <1>2, <1>7, <2>1 DEF Settled
    <2>3. wrk' = [wrk EXCEPT ![w] = Job(f)]
      <3>1. (CHOOSE d \in first : TRUE) = f
        BY <1>7
      <3>2. wrk' = [v \in Worker |-> IF v = w THEN Job(f) ELSE wrk[v]]
        BY <1>2, <1>7, <3>1
      <3> QED BY <3>2 DEF TypeOK
    <2> QED BY <1>3, <1>5, <1>7, <1>12, <2>1, <2>2, <2>3 DEF LeasedBy
  <1>8. dlv' = [d \in Delivery |-> dlv'[d]] /\ usr' = [u \in User |-> usr'[u]]
    <2> HIDE DEF scanned, found
    <2> QED BY <1>2
  <1>9. wrk[w] = NoJob
    BY DEF Claim
  <1>10. CASE \E f \in winners : first = {f}
    <2> PICK f \in winners : first = {f}
      BY <1>10
    <2>1. f \in Candidates /\ LeasedBy(w, f)
      BY <1>7
    <2> QED BY <1>4, <1>8, <1>9, <2>1
  <1>11. first = {} \/ \E f \in winners : first = {f}
    BY <1>2
  <1> HIDE DEF winners
  <1> QED BY <1>4, <1>6, <1>8, <1>9, <1>10, <1>11
LEMMA LeasedRow ==
    ASSUME TypeOK, NEW d \in Delivery
    PROVE  /\ Leased(d) \in RowType
           /\ Leased(d).status = "sending"
           /\ Leased(d).lease = now + LeaseTime
           /\ Leased(d).first = IF dlv[d].first = 0 THEN now ELSE dlv[d].first
           /\ Leased(d).body = Payload(d)
           /\ Leased(d).acct = AccountOf(Owner[d])
           /\ Leased(d).version = usr[Owner[d]].version
           /\ Leased(d).pid = dlv[d].pid
           /\ Payload(d) \in BodyType
           /\ Payload(d) # NoBody
           /\ AccountOf(Owner[d]) \in Account
  <1>1. /\ dlv[d] \in RowType /\ usr[Owner[d]] \in UserType /\ listing[d] \in Listings
        /\ Owner[d] \in User /\ now \in Nat /\ now + LeaseTime \in Nat
    BY OwnerAssumption, DurationAssumption DEF TypeOK
  <1>2. Rendered(d) \in BodyType /\ Rendered(d) # NoBody
    BY <1>1, EmailAssumption DEF Rendered, BodyType, NoBody, UserType
  <1>3. Payload(d) \in BodyType /\ Payload(d) # NoBody
    BY <1>1, <1>2 DEF Payload, RowType
  <1>4. AccountOf(Owner[d]) \in Account
    BY <1>1 DEF AccountOf, Account
  <1>5. /\ dlv[d].attempts + 1 \in Nat /\ usr[Owner[d]].version \in Nat
        /\ (IF dlv[d].first = 0 THEN now ELSE dlv[d].first) \in Nat
    BY <1>1 DEF RowType, UserType
  <1>6. Leased(d) \in RowType
    <2> DEFINE lease == now + LeaseTime
               attempts == dlv[d].attempts + 1
               first == IF dlv[d].first = 0 THEN now ELSE dlv[d].first
               version == usr[Owner[d]].version
    <2>1. /\ lease \in Nat /\ attempts \in Nat /\ first \in Nat /\ version \in Nat
          /\ "sending" \in Statuses
      BY <1>1, <1>5 DEF Statuses
    <2>2. Leased(d) = [dlv[d] EXCEPT !.status = "sending", !.lease = lease,
                          !.attempts = attempts, !.first = first, !.body = Payload(d),
                          !.acct = AccountOf(Owner[d]), !.version = version]
      BY DEF Leased
    <2> HIDE DEF lease, attempts, first, version
    <2> QED BY <1>1, <1>3, <1>4, <2>1, <2>2, ZenonT(40) DEF RowType
  <1>7. /\ Leased(d).status = "sending"
        /\ Leased(d).lease = now + LeaseTime
        /\ Leased(d).first = IF dlv[d].first = 0 THEN now ELSE dlv[d].first
        /\ Leased(d).body = Payload(d)
        /\ Leased(d).acct = AccountOf(Owner[d])
        /\ Leased(d).version = usr[Owner[d]].version
        /\ Leased(d).pid = dlv[d].pid
    BY <1>1 DEF Leased, RowType
  <1> QED BY <1>3, <1>4, <1>6, <1>7

LEMMA RewrittenRow ==
    ASSUME TypeOK, NEW d \in Delivery, Rewritten(d)
    PROVE  dlv'[d] \in RowType
  <1>1. dlv[d] \in RowType /\ now + FiveMinutes \in Nat
    BY DurationAssumption DEF TypeOK
  <1>2. \A s \in Statuses : [dlv[d] EXCEPT !.status = s] \in RowType
    BY <1>1 DEF RowType
  <1>3. [dlv[d] EXCEPT !.due = now + FiveMinutes] \in RowType
    BY <1>1 DEF RowType
  <1> QED BY <1>1, <1>2, <1>3 DEF Rewritten, Statuses

LEMMA JobRow ==
    ASSUME TypeOK, NEW d \in Delivery
    PROVE  /\ Job(d) \in JobType
           /\ Job(d).pc = "posting" /\ Job(d).d = d /\ Job(d).at = now
           /\ Job(d).acct = AccountOf(Owner[d]) /\ Job(d).body = Payload(d)
  <1>1. Payload(d) \in BodyType /\ AccountOf(Owner[d]) \in Account /\ now \in Nat
    BY LeasedRow DEF TypeOK
  <1> QED BY <1>1 DEF Job, NoJob, JobType, AllAnswers

-----------------------------------------------------------------------------
(* Type correctness, action by action.                                       *)

LEMMA ApiType ==
    ASSUME TypeOK, ApiStep
    PROVE  TypeOK'
  <1>1. PICK u \in User : \/ GetSettings(u) \/ PutProvider(u) \/ DeleteProvider(u)
                          \/ Unsubscribe(u)
                          \/ \E p \in Preferences : PutSettings(u, p[1], p[2])
    BY DEF ApiStep
  <1>2. usr[u] \in UserType /\ Refreshed(u) \in UserType /\ Refreshed(u).version + 1 \in Nat
    BY RefreshedRow DEF TypeOK, UserType
  <1>3. ASSUME NEW row \in UserType, usr' = [usr EXCEPT ![u] = row]
        PROVE  usr' \in [User -> UserType]
    BY <1>3 DEF TypeOK
  <1>4. \A kinds : Cancelling(u, kinds) \in [Delivery -> RowType]
    BY CancellingRows
  <1>5. CASE GetSettings(u)
    BY <1>2, <1>3, <1>4, <1>5 DEF TypeOK, GetSettings, ApiCall
  <1>6. CASE PutProvider(u)
    <2>1. [Refreshed(u) EXCEPT !.provider = "byok", !.status = "needs_test",
                               !.version = @ + 1] \in UserType
      BY <1>2, Zenon DEF UserType
    <2> QED BY <1>3, <1>4, <1>6, <2>1 DEF TypeOK, PutProvider, ApiCall
  <1>7. CASE DeleteProvider(u)
    <2>1. [Refreshed(u) EXCEPT !.provider = "shared", !.status = "ready", !.version = @ + 1,
                               !.alerts = FALSE, !.recap = FALSE] \in UserType
      BY <1>2, Zenon DEF UserType
    <2> QED BY <1>3, <1>4, <1>7, <2>1 DEF TypeOK, DeleteProvider, ApiCall
  <1>8. CASE Unsubscribe(u)
    <2>1. [usr[u] EXCEPT !.alerts = FALSE, !.recap = FALSE] \in UserType
      BY <1>2, Zenon DEF UserType
    <2>2. usr' = [usr EXCEPT ![u] = [usr[u] EXCEPT !.alerts = FALSE, !.recap = FALSE]]
      BY <1>8 DEF Unsubscribe, TypeOK
    <2> QED BY <1>3, <1>4, <1>8, <2>1, <2>2 DEF TypeOK, Unsubscribe
  <1>9. ASSUME NEW p \in Preferences, PutSettings(u, p[1], p[2])
        PROVE  TypeOK'
    <2>1. p[1] \in BOOLEAN /\ p[2] \in BOOLEAN
      BY ChoiceAssumption
    <2>2. [Refreshed(u) EXCEPT !.alerts = p[1], !.recap = p[2]] \in UserType
      BY <1>2, <2>1, Zenon DEF UserType
    <2> QED BY <1>3, <1>4, <1>9, <2>2 DEF TypeOK, PutSettings, ApiCall
  <1> QED BY <1>1, <1>5, <1>6, <1>7, <1>8, <1>9

LEMMA RerenderedType ==
    ASSUME TypeOK, NEW d \in Delivery
    PROVE  [dlv[d] EXCEPT !.body = NoBody, !.due = now] \in RowType
  <1>1. NoBody \in BodyType
    BY DEF NoBody, BodyType, Listings
  <1>2. dlv[d] \in RowType /\ now \in Nat
    BY DEF TypeOK
  <1> QED BY <1>1, <1>2, Zenon DEF RowType

LEMMA PrepareType ==
    ASSUME TypeOK, PrepareStep
    PROVE  TypeOK'
  <1>1. PICK d \in Delivery : TestProvider(d) \/ MatchAlert(d) \/ MakeRecap(d)
    BY DEF PrepareStep
  <1>2. NewRow \in RowType /\ dlv[d] \in RowType /\ now \in Nat
    BY NewRowType DEF TypeOK
  <1>3. CASE TestProvider(d)
    <2>1. Refreshed(Owner[d]) \in UserType
      BY RefreshedRow, OwnerAssumption
    <2>2. \A u, kinds : Cancelling(u, kinds) \in [Delivery -> RowType]
      BY CancellingRows
    <2> QED BY <1>2, <1>3, <2>1, <2>2 DEF TypeOK, TestProvider, ApiCall
  <1>4. CASE MatchAlert(d)
    BY <1>2, <1>4 DEF TypeOK, MatchAlert, PrepareFrame
  <1>5. CASE MakeRecap(d)
    <2> DEFINE row == IF dlv[d].status = "absent" THEN NewRow
                      ELSE [dlv[d] EXCEPT !.body = NoBody, !.due = now]
               rows == [dlv EXCEPT ![d] = row]
    <2>1. PICK alerts : dlv' = Folded(rows, alerts)
      BY <1>5 DEF MakeRecap
    <2>3. [dlv[d] EXCEPT !.body = NoBody, !.due = now] \in RowType
      BY RerenderedType
    <2>4. rows \in [Delivery -> RowType]
      BY <1>2, <2>3 DEF TypeOK
    <2> HIDE DEF rows
    <2>5. \A x \in Delivery : [rows[x] EXCEPT !.status = "recap_only"] \in RowType
      BY <2>4 DEF RowType, Statuses
    <2>6. dlv' \in [Delivery -> RowType]
      BY <2>1, <2>4, <2>5 DEF Folded
    <2> QED BY <1>5, <2>6 DEF TypeOK, MakeRecap, PrepareFrame
  <1> QED BY <1>1, <1>3, <1>4, <1>5

LEMMA ClaimType ==
    ASSUME TypeOK, NEW w \in Worker, Claim(w)
    PROVE  TypeOK'
  <1>1. usr' \in [User -> UserType]
    <2> SUFFICES ASSUME NEW u \in User
                 PROVE  usr'[u] \in UserType
      BY ClaimEffect
    <2>1. PICK v \in BOOLEAN, s \in {usr[u].status, "configuration_error"} :
              usr'[u] = [usr[u] EXCEPT !.verified = v, !.status = s]
      BY ClaimEffect
    <2>2. usr[u] \in UserType
      BY DEF TypeOK
    <2>3. s \in {"ready", "needs_test", "sender_error", "configuration_error"}
      BY <2>2 DEF UserType
    <2> QED BY <2>1, <2>2, <2>3, Zenon DEF UserType
  <1>2. CASE wrk' = wrk /\ \A d \in Delivery : Rewritten(d)
    <2>1. dlv' \in [Delivery -> RowType]
      BY <1>2, ClaimEffect, RewrittenRow
    <2> QED BY <1>1, <1>2, <2>1 DEF TypeOK, Claim
  <1>3. ASSUME NEW f \in Candidates, LeasedBy(w, f)
        PROVE  TypeOK'
    <2>1. f \in Delivery
      BY DEF Candidates
    <2>2. dlv' \in [Delivery -> RowType]
      BY <1>3, <2>1, ClaimEffect, RewrittenRow, LeasedRow DEF LeasedBy
    <2>3. wrk' \in [Worker -> JobType \cup {NoJob}]
      BY <1>3, <2>1, JobRow DEF LeasedBy, TypeOK
    <2> QED BY <1>1, <2>2, <2>3 DEF TypeOK, Claim
  <1> QED BY <1>2, <1>3, ClaimEffect

\* a claim in flight, and the request it stands for
LEMMA JobFields ==
    ASSUME TypeOK, NEW w \in Worker, wrk[w].pc # "idle"
    PROVE  /\ wrk[w] \in JobType
           /\ Request(wrk[w]) \in RequestType
           /\ \A a \in AllAnswers, pid \in Nat :
                 [wrk[w] EXCEPT !.pc = "answered", !.answer = a, !.pid = pid] \in JobType
           /\ \A a \in AllAnswers :
                 [wrk[w] EXCEPT !.pc = "answered", !.answer = a] \in JobType
  <1>1. wrk[w] \in JobType
    BY DEF TypeOK, NoJob
  <1>2. Request(wrk[w]) \in RequestType
    BY <1>1 DEF JobType, Request, RequestType
  <1>3. ASSUME NEW a \in AllAnswers, NEW pid \in Nat
        PROVE  [wrk[w] EXCEPT !.pc = "answered", !.answer = a, !.pid = pid] \in JobType
    BY <1>1, Zenon DEF JobType
  <1>4. ASSUME NEW a \in AllAnswers
        PROVE  [wrk[w] EXCEPT !.pc = "answered", !.answer = a] \in JobType
    BY <1>1, Zenon DEF JobType
  <1> QED BY <1>1, <1>2, <1>3, <1>4

ProvType == [sends : Nat, at : Nat, acct : Account, body : BodyType]

LEMMA AcceptingType ==
    ASSUME TypeOK, NEW r \in RequestType
    PROVE  Accepting(r) \in [Delivery -> ProvType]
  <1>1. r.d \in Delivery /\ prov[r.d] \in ProvType /\ now \in Nat
    BY DEF TypeOK, RequestType, ProvType
  <1>2. [sends |-> prov[r.d].sends + 1, at |-> now, acct |-> r.acct, body |-> r.body] \in ProvType
    BY <1>1 DEF ProvType, RequestType
  <1> QED BY <1>2 DEF TypeOK, Accepting, ProvType

LEMMA ArriveType ==
    ASSUME TypeOK, NEW w \in Worker, Arrive(w)
    PROVE  TypeOK'
  <1> DEFINE r == Request(wrk[w])
             accepted == Accepting(r)
             answered(a) == [wrk EXCEPT ![w].pc = "answered", ![w].answer = a]
  <1>1. wrk[w] \in JobType /\ r \in RequestType /\ accepted \in [Delivery -> ProvType]
    BY JobFields, AcceptingType DEF Arrive
  <1>2. accepted[r.d].sends \in Nat /\ accepted[r.d] \in ProvType
    BY <1>1 DEF ProvType, RequestType
  <1>3. \A a \in AllAnswers : answered(a) = [wrk EXCEPT ![w] =
                                 [wrk[w] EXCEPT !.pc = "answered", !.answer = a]]
    BY DEF TypeOK
  <1>4. \A a \in AllAnswers : answered(a) \in [Worker -> JobType \cup {NoJob}]
    <2> TAKE a \in AllAnswers
    <2>1. [wrk[w] EXCEPT !.pc = "answered", !.answer = a] \in JobType
      BY JobFields DEF Arrive
    <2> QED BY <1>3, <2>1 DEF TypeOK
  <1>5. [answered("accepted") EXCEPT ![w].pid = accepted[r.d].sends]
            \in [Worker -> JobType \cup {NoJob}]
    <2>1. [wrk[w] EXCEPT !.pc = "answered", !.answer = "accepted", !.pid = accepted[r.d].sends]
             \in JobType
      BY <1>2, JobFields DEF Arrive, AllAnswers
    <2>2. [answered("accepted") EXCEPT ![w].pid = accepted[r.d].sends]
             = [wrk EXCEPT ![w] = [wrk[w] EXCEPT !.pc = "answered", !.answer = "accepted",
                                                 !.pid = accepted[r.d].sends]]
      BY <1>3 DEF TypeOK, AllAnswers
    <2> QED BY <2>1, <2>2 DEF TypeOK
  <1>6. prov' \in [Delivery -> ProvType]
    BY <1>1 DEF Arrive, TypeOK, ProvType
  <1>7. wrk' \in [Worker -> JobType \cup {NoJob}]
    <2>1. Answers \subseteq AllAnswers /\ {"accepted", "lost", "retry"} \subseteq AllAnswers
      BY ChoiceAssumption DEF AllAnswers
    <2>2. \/ wrk' = [answered("accepted") EXCEPT ![w].pid = accepted[r.d].sends]
          \/ \E a \in AllAnswers : wrk' = answered(a)
      <3>1. CASE wrk' = [answered("accepted") EXCEPT ![w].pid = accepted[r.d].sends]
        BY <3>1
      <3>2. CASE wrk' = answered("lost")
        BY <2>1, <3>2
      <3>3. ASSUME NEW a \in IF Conflicts(r) THEN {"retry"} ELSE Answers \ {"accepted"},
                   wrk' = answered(a)
            PROVE  \E b \in AllAnswers : wrk' = answered(b)
        BY <2>1, <3>3
      <3> QED BY <3>1, <3>2, <3>3 DEF Arrive
    <2> HIDE DEF accepted, answered
    <2> QED BY <1>4, <1>5, <2>2
  <1> QED BY <1>6, <1>7 DEF TypeOK, Arrive, WireFrame, ProvType

LEMMA LostType ==
    ASSUME TypeOK, NEW w \in Worker, Timeout(w) \/ Crash(w)
    PROVE  TypeOK'
  <1>1. wrk[w] \in JobType /\ Request(wrk[w]) \in RequestType
    BY JobFields DEF Timeout, Crash
  <1>2. stray' \subseteq RequestType
    BY <1>1 DEF Timeout, Crash, TypeOK
  <1>3. CASE Timeout(w)
    <2>1. [wrk[w] EXCEPT !.pc = "answered", !.answer = "lost"] \in JobType
      BY <1>3, JobFields DEF Timeout, AllAnswers
    <2>2. wrk' = [wrk EXCEPT ![w] = [wrk[w] EXCEPT !.pc = "answered", !.answer = "lost"]]
      BY <1>3 DEF Timeout, TypeOK
    <2> QED BY <1>2, <1>3, <2>1, <2>2 DEF TypeOK, Timeout, WireFrame
  <1>4. CASE Crash(w)
    BY <1>2, <1>4 DEF TypeOK, Crash, WireFrame
  <1> QED BY <1>3, <1>4

LEMMA RecordedRow ==
    ASSUME TypeOK, NEW w \in Worker, wrk[w].pc = "answered", NEW retryAfter \in RetryAfter,
           dlv[wrk[w].d].attempts # 0
    PROVE  LET j == wrk[w]
               row == Recorded(j, retryAfter)
           IN  /\ row \in RowType
               /\ row.first = dlv[j.d].first /\ row.acct = dlv[j.d].acct
               /\ row.version = dlv[j.d].version /\ row.body = dlv[j.d].body
               /\ row.attempts = dlv[j.d].attempts
               /\ row.status \notin {"absent", "expired", "recap_only"}
  <1> DEFINE j == wrk[w]
             row == [dlv[j.d] EXCEPT !.lease = 0]
             delay == RetryDelay(row.attempts, retryAfter)
  <1>1. j \in JobType /\ dlv[j.d] \in RowType
    BY JobFields DEF TypeOK, JobType
  <1>2. /\ row \in RowType
        /\ row.first = dlv[j.d].first /\ row.acct = dlv[j.d].acct
        /\ row.version = dlv[j.d].version /\ row.body = dlv[j.d].body
        /\ row.status = dlv[j.d].status
    BY <1>1 DEF RowType
  <1>3. \A s \in Statuses, due \in Nat, pid \in Nat :
            /\ [row EXCEPT !.status = s, !.due = due] \in RowType
            /\ [row EXCEPT !.status = s] \in RowType
            /\ [row EXCEPT !.pid = pid, !.status = s] \in RowType
    BY <1>2, Zenon DEF RowType
  <1>4. j.at \in Nat /\ j.pid \in Nat /\ j.at + Day \in Nat /\ j.at + Month \in Nat
    BY <1>1, DurationAssumption DEF JobType
  <1>5. j.at + delay \in Nat
    <2>1. row.attempts \in Nat \ {0}
      BY <1>1 DEF RowType
    <2>2. Smaller(row.attempts, 8) \in Doublings
      BY <2>1 DEF Smaller, Doublings
    <2>3. Backoff[Smaller(row.attempts, 8)] \in Nat /\ retryAfter \in Nat
      BY <2>2, DurationAssumption
    <2> HIDE DEF row
    <2> QED BY <1>4, <2>3 DEF RetryDelay, Larger
  <1> DEFINE kept == IF row.status \in Outcomes THEN row.status ELSE "accepted"
             Later == Statuses \ {"absent", "expired", "recap_only"}
             Forms(s, due, pid) == {[row EXCEPT !.status = s, !.due = due],
                                    [row EXCEPT !.status = s],
                                    [row EXCEPT !.pid = pid, !.status = s]}
  <1>6. PICK s \in Later, due \in Nat, pid \in Nat : Recorded(j, retryAfter) \in Forms(s, due, pid)
    <2>1. kept \in Later /\ "pending" \in Later /\ "failed" \in Later
      BY DEF Outcomes, Statuses
    <2>2. \/ Recorded(j, retryAfter) = [row EXCEPT !.pid = j.pid, !.status = kept]
          \/ Recorded(j, retryAfter) = [row EXCEPT !.status = "pending", !.due = j.at + Day]
          \/ Recorded(j, retryAfter) = [row EXCEPT !.status = "pending", !.due = j.at + Month]
          \/ Recorded(j, retryAfter) = [row EXCEPT !.status = "failed"]
          \/ Recorded(j, retryAfter) = [row EXCEPT !.status = "pending", !.due = j.at + delay]
      BY DEF Recorded
    <2> HIDE DEF row, kept, delay, Later
    <2> QED BY <1>4, <1>5, <2>1, <2>2
  <1> HIDE DEF row, delay
  <1>7. s \in Statuses /\ s \notin {"absent", "expired", "recap_only"}
    OBVIOUS
  <1>8. \A r \in Forms(s, due, pid) :
            /\ r \in RowType
            /\ r.first = row.first /\ r.acct = row.acct /\ r.version = row.version
            /\ r.body = row.body /\ r.attempts = row.attempts /\ r.status = s
    <2>1. \A r \in Forms(s, due, pid) : r \in RowType
      BY <1>3, <1>7
    <2>2. row \in RowType
      BY <1>2
    <2> QED BY <2>1, <2>2 DEF RowType
  <1> HIDE DEF Forms
  <1>9. row.attempts = dlv[j.d].attempts
    BY <1>1 DEF row, RowType
  <1> QED BY <1>2, <1>6, <1>7, <1>8, <1>9
LEMMA RecordType ==
    ASSUME TypeOK, NEW w \in Worker, Record(w), dlv[wrk[w].d].attempts # 0
    PROVE  TypeOK'
  <1> DEFINE j == wrk[w]
  <1>1. j \in JobType /\ j.d \in Delivery /\ Owner[j.d] \in User /\ j.at \in Nat
    BY JobFields, OwnerAssumption DEF Record, JobType
  <1>2. dlv' \in [Delivery -> RowType]
    <2>1. PICK retryAfter \in RetryAfter : dlv' = [dlv EXCEPT ![j.d] = Recorded(j, retryAfter)]
      BY DEF Record
    <2>2. Recorded(j, retryAfter) \in RowType
      BY RecordedRow DEF Record
    <2> QED BY <1>1, <2>1, <2>2 DEF TypeOK
  <1>3. usr' \in [User -> UserType]
    <2>1. usr[Owner[j.d]] \in UserType
      BY <1>1 DEF TypeOK
    <2>2. ConnectionStatus(j) \in {"ready", "needs_test", "sender_error", "configuration_error"}
      BY <2>1 DEF ConnectionStatus, UserType
    <2>3. [usr[Owner[j.d]] EXCEPT !.status = ConnectionStatus(j)] \in UserType
      BY <2>1, <2>2, Zenon DEF UserType
    <2>4. usr' = [usr EXCEPT ![Owner[j.d]] =
                     [usr[Owner[j.d]] EXCEPT !.status = ConnectionStatus(j)]]
      BY <1>1 DEF Record, TypeOK
    <2> QED BY <1>1, <2>3, <2>4 DEF TypeOK
  <1>4. blocked' \in [Account -> Nat]
    <2>1. PICK exhausted : blocked' = Pause(j, exhausted)
      BY DEF Record
    <2> DEFINE a == dlv[j.d].acct
               base == CASE j.answer = "daily" -> j.at + Day
                         [] j.answer = "monthly" -> j.at + Month
                         [] OTHER -> blocked[a]
               daily == IF "daily" \in exhausted THEN Larger(base, j.at + Day) ELSE base
               until == IF "monthly" \in exhausted THEN Larger(daily, j.at + Month) ELSE daily
    <2>2. a \in Account /\ blocked[a] \in Nat /\ j.at + Day \in Nat /\ j.at + Month \in Nat
      BY <1>1, DurationAssumption DEF TypeOK, RowType
    <2>3. base \in Nat
      BY <2>2
    <2>4. \A x, y \in Nat : Larger(x, y) \in Nat
      BY DEF Larger
    <2> HIDE DEF base
    <2>5. daily \in Nat
      BY <2>2, <2>3, <2>4
    <2> HIDE DEF daily
    <2>6. until \in Nat
      BY <2>2, <2>4, <2>5
    <2>7. blocked' = [blocked EXCEPT ![a] = until]
      BY <2>1 DEF Pause, base, daily
    <2> HIDE DEF until, a
    <2> QED BY <2>2, <2>6, <2>7 DEF TypeOK
  <1>5. wrk' \in [Worker -> JobType \cup {NoJob}]
    BY DEF Record, TypeOK
  <1> QED BY <1>2, <1>3, <1>4, <1>5 DEF TypeOK, Record

LEMMA ProviderType ==
    ASSUME TypeOK, ProviderStep
    PROVE  TypeOK'
  <1>1. ASSUME NEW r \in stray, StrayArrives(r)
        PROVE  TypeOK'
    <2>1. Accepting(r) \in [Delivery -> ProvType]
      BY AcceptingType DEF TypeOK
    <2>2. prov' \in [Delivery -> ProvType] /\ stray' \subseteq RequestType
      BY <1>1, <2>1 DEF StrayArrives, TypeOK, ProvType
    <2> QED BY <1>1, <2>2 DEF TypeOK, StrayArrives, WireFrame, ProvType
  <1>2. ASSUME NEW d \in Delivery, NEW type \in HookTypes,
               \/ ProviderReports(d, type)
               \/ WebhookUnrelated(<<d, type>>)
               \/ WebhookDuplicate(<<d, type>>)
        PROVE  TypeOK'
    BY <1>2 DEF TypeOK, ProviderReports, WebhookUnrelated, WebhookDuplicate, Acked
  <1>3. ASSUME NEW d \in Delivery, NEW type \in HookTypes, WebhookApplied(<<d, type>>)
        PROVE  TypeOK'
    <2> DEFINE e == <<d, type>>
               u == Owner[d]
               rows == IF Suppresses(e) THEN Cancelling(u, Kinds) ELSE dlv
    <2>1. u \in User /\ usr[u] \in UserType /\ dlv[d] \in RowType /\ e[1] = d /\ e[2] = type
      BY OwnerAssumption DEF TypeOK
    <2>2. rows \in [Delivery -> RowType]
      BY CancellingRows DEF TypeOK
    <2>3. WebhookStatus(dlv[d].status, type) \in Statuses
      BY <2>1 DEF WebhookStatus, HookTypes, Outcomes, Statuses, RowType
    <2>4. dlv' = [rows EXCEPT ![d] = [rows[d] EXCEPT !.status = WebhookStatus(dlv[d].status, type)]]
      <3>1. dlv' = [rows EXCEPT ![d].status = WebhookStatus(dlv[d].status, type)]
        BY <1>3 DEF WebhookApplied
      <3> HIDE DEF rows
      <3> QED BY <2>2, <3>1
    <2>5. dlv' \in [Delivery -> RowType]
      <3> HIDE DEF rows
      <3>1. [rows[d] EXCEPT !.status = WebhookStatus(dlv[d].status, type)] \in RowType
        BY <2>2, <2>3 DEF RowType
      <3> QED BY <2>2, <2>4, <3>1
    <2>6. usr' \in [User -> UserType]
      <3>1. Suppresses(e) \in BOOLEAN
        BY DEF Suppresses
      <3>2. [usr[u] EXCEPT !.suppressed = @ \/ Suppresses(e)] \in UserType
        BY <2>1, <3>1 DEF UserType
      <3>3. usr' = [usr EXCEPT ![u] = [usr[u] EXCEPT !.suppressed = @ \/ Suppresses(e)]]
        BY <1>3, <2>1 DEF WebhookApplied, TypeOK
      <3> QED BY <2>1, <3>2, <3>3 DEF TypeOK
    <2>7. barred' \subseteq Email
      <3>1. Suppresses(e) => dlv[d].body.to \in Email
        BY <2>1 DEF Suppresses, UserType
      <3> QED BY <1>3, <3>1 DEF WebhookApplied, TypeOK
    <2>8. seen' \subseteq Delivery \X HookTypes
      BY <1>3 DEF WebhookApplied, TypeOK
    <2>9. /\ UNCHANGED <<now, idp, blocked, listing, wrk, stray, prov>>
          /\ hook' \in [Delivery \X HookTypes -> {"none", "outstanding", "acked"}]
      BY <1>3 DEF WebhookApplied, Acked, TypeOK
    <2> HIDE DEF rows, e, u
    <2> QED BY <2>5, <2>6, <2>7, <2>8, <2>9 DEF TypeOK
  <1> QED BY <1>1, <1>2, <1>3 DEF ProviderStep

LEMMA EnvironmentType ==
    ASSUME TypeOK, EnvironmentStep
    PROVE  TypeOK'
  <1>1. ASSUME Tick
        PROVE  TypeOK'
    <2>1. now' \in Nat
      BY <1>1, DurationAssumption DEF Tick, Smaller, TypeOK
    <2> QED BY <1>1, <2>1 DEF TypeOK, Tick
  <1>2. ASSUME NEW u \in User, IdentityChanges(u)
        PROVE  TypeOK'
    BY <1>2 DEF TypeOK, IdentityChanges
  <1>3. ASSUME NEW d \in Delivery, ListingChanges(d)
        PROVE  TypeOK'
    BY <1>3 DEF TypeOK, ListingChanges
  <1> QED BY <1>1, <1>2, <1>3 DEF EnvironmentStep

-----------------------------------------------------------------------------
(* The inductive invariant of the retry protocol.  It needs no assumption on *)
(* the durations: with it go type correctness, SamePayload and               *)
(* SentIsNotWrittenOff.                                                      *)

Unattempted == {"absent", "expired", "recap_only"}

\* a row that was charged keeps a body, and the account of its connection version
RowOK(d) ==
    LET row == dlv[d]
        u == Owner[d]
    IN  /\ row.status \in Unattempted => row.first = 0
        /\ row.first # 0 =>
             /\ row.first <= now /\ row.attempts # 0 /\ row.body # NoBody
             /\ row.version # 0 /\ row.version <= usr[u].version
             /\ row.version = usr[u].version => row.acct = AccountOf(u)

\* what the provider did for a delivery, it did with the row's payload and account
SentOK(d) ==
    prov[d].sends # 0 => /\ dlv[d].first # 0
                         /\ dlv[d].first <= prov[d].at /\ prov[d].at <= now
                         /\ prov[d].body = dlv[d].body /\ prov[d].acct = dlv[d].acct

\* a request carries the row's payload and account, and left before the worker gave up
RequestOK(r) ==
    LET row == dlv[r.d]
    IN  /\ row.first # 0 /\ row.first <= r.at /\ r.at < row.first + GiveUp
        /\ r.at <= now /\ now <= r.at + PostDelay
        /\ r.body = row.body /\ r.acct = row.acct

JobOK(w) ==
    /\ wrk[w].pc # "idle" => dlv[wrk[w].d].first # 0
    /\ wrk[w].pc = "posting" => RequestOK(Request(wrk[w]))

RetryInv ==
    /\ TypeOK
    /\ now \in 1 .. Horizon
    /\ \A u \in User : usr[u].version # 0
    /\ \A d \in Delivery : RowOK(d) /\ SentOK(d)
    /\ \A r \in stray : RequestOK(r)
    /\ \A w \in Worker : JobOK(w)

LEMMA RetryInit == Init => RetryInv
  <1> SUFFICES ASSUME Init PROVE RetryInv
    OBVIOUS
  <1>1. TypeOK
    <2>1. \A u \in User :
            [verified |-> TRUE, suppressed |-> FALSE, alerts |-> FALSE, recap |-> FALSE,
             status |-> "ready", provider |-> "shared", version |-> 1,
             email |-> FirstEmail[u]] \in UserType
      BY EmailAssumption DEF UserType
    <2>2. NoBody \in BodyType /\ "shared" \in Account
      BY DEF NoBody, BodyType, Listings, Account
    <2>3. NoRow \in RowType
      BY <2>2 DEF NoRow, RowType, Statuses
    <2>4. Unsent \in [sends : Nat, at : Nat, acct : Account, body : BodyType]
      BY <2>2 DEF Unsent
    <2>5. \A u \in User : [email |-> FirstEmail[u], verified |-> TRUE]
                            \in [email : Email, verified : BOOLEAN]
      BY EmailAssumption
    <2>6. "open" \in Listings
      BY DEF Listings
    <2> QED BY <2>1, <2>2, <2>3, <2>4, <2>5, <2>6 DEF Init, TypeOK
  <1>2. now \in 1 .. Horizon
    BY DurationAssumption DEF Init
  <1>3. \A d \in Delivery : RowOK(d) /\ SentOK(d)
    BY DEF Init, RowOK, SentOK, NoRow, Unsent
  <1>4. \A w \in Worker : JobOK(w)
    BY DEF Init, JobOK, NoJob
  <1> QED BY <1>1, <1>2, <1>3, <1>4 DEF RetryInv, Init

\* what every step but claim(), the arrivals and the clock does to rows and users
KeptRow(d) ==
    /\ dlv'[d].first = dlv[d].first
    /\ dlv[d].first # 0 => /\ dlv'[d].attempts = dlv[d].attempts
                           /\ dlv'[d].body = dlv[d].body
                           /\ dlv'[d].acct = dlv[d].acct
                           /\ dlv'[d].version = dlv[d].version
    /\ dlv'[d].status \in Unattempted => dlv[d].first = 0

KeptUser(u) ==
    /\ usr'[u].version >= usr[u].version
    /\ usr'[u].version = usr[u].version => usr'[u].provider = usr[u].provider

LEMMA RowsKept ==
    ASSUME RetryInv, TypeOK', UNCHANGED <<now, stray, prov>>,
           \A u \in User : KeptUser(u), \A d \in Delivery : KeptRow(d),
           \A w \in Worker : wrk'[w] = wrk[w] \/ wrk'[w] = NoJob
    PROVE  RetryInv'
  <1>1. \A u \in User : usr'[u].version # 0
    BY DEF RetryInv, TypeOK, UserType, KeptUser
  <1>2. ASSUME NEW d \in Delivery
        PROVE  RowOK(d)' /\ SentOK(d)'
    <2>1. /\ RowOK(d) /\ SentOK(d) /\ KeptRow(d) /\ KeptUser(Owner[d])
          /\ dlv[d] \in RowType /\ usr[Owner[d]].version \in Nat /\ usr'[Owner[d]].version \in Nat
      BY OwnerAssumption DEF RetryInv, TypeOK, UserType
    <2> QED BY <2>1 DEF RowOK, SentOK, KeptRow, KeptUser, RowType, AccountOf, Unattempted
  <1>3. ASSUME NEW r \in RequestType, RequestOK(r)
        PROVE  RequestOK(r)'
    BY <1>3 DEF RequestOK, KeptRow, RequestType
  <1>4. ASSUME NEW w \in Worker
        PROVE  JobOK(w)'
    <2>1. CASE wrk'[w] = wrk[w]
      <3>1. wrk[w].pc # "idle" => wrk[w].d \in Delivery /\ Request(wrk[w]) \in RequestType
        BY JobFields DEF RetryInv, JobType
      <3> QED BY <1>3, <2>1, <3>1 DEF JobOK, RetryInv, KeptRow, Request
    <2>2. CASE wrk'[w] = NoJob
      BY <2>2 DEF JobOK, NoJob
    <2> QED BY <2>1, <2>2
  <1> QED BY <1>1, <1>2, <1>3, <1>4 DEF RetryInv, TypeOK

LEMMA CancellingKept ==
    ASSUME RetryInv, NEW u, NEW kinds, NEW d \in Delivery
    PROVE  LET row == Cancelling(u, kinds)[d] IN
           /\ row.first = dlv[d].first /\ row.attempts = dlv[d].attempts
           /\ row.body = dlv[d].body /\ row.acct = dlv[d].acct
           /\ row.version = dlv[d].version /\ row.lease = dlv[d].lease /\ row.pid = dlv[d].pid
           /\ row.status \in Unattempted => dlv[d].first = 0
           /\ row.status = dlv[d].status \/ (dlv[d].status = "pending" /\ row.status = "cancelled")
  <1>1. dlv[d] \in RowType /\ RowOK(d)
    BY DEF RetryInv, TypeOK
  <1>2. \/ Cancelling(u, kinds)[d] = dlv[d]
        \/ /\ dlv[d].status = "pending"
           /\ Cancelling(u, kinds)[d] = [dlv[d] EXCEPT !.status = "cancelled"]
    BY CancellingRows DEF RetryInv
  <1> QED BY <1>1, <1>2 DEF RowType, RowOK, Unattempted

LEMMA ApiKept ==
    ASSUME RetryInv, ApiStep
    PROVE  /\ \A u \in User : KeptUser(u)
           /\ \A d \in Delivery : KeptRow(d) /\ dlv'[d].lease = dlv[d].lease
           /\ UNCHANGED <<now, wrk, stray, prov>>
  <1>1. PICK u \in User : \/ GetSettings(u) \/ PutProvider(u) \/ DeleteProvider(u)
                          \/ Unsubscribe(u)
                          \/ \E p \in Preferences : PutSettings(u, p[1], p[2])
    BY DEF ApiStep
  <1>2. \E kinds : dlv' = Cancelling(u, kinds)
    BY <1>1 DEF GetSettings, PutProvider, DeleteProvider, Unsubscribe, PutSettings
  <1>3. \A d \in Delivery : KeptRow(d) /\ dlv'[d].lease = dlv[d].lease
    BY <1>2, CancellingKept DEF KeptRow
  <1>4. /\ usr \in [User -> UserType] /\ usr[u] \in UserType /\ usr[u].version \in Nat
        /\ Refreshed(u) \in UserType /\ Refreshed(u).provider = usr[u].provider
        /\ Refreshed(u).version \in {usr[u].version, usr[u].version + 1}
    BY RefreshedRow DEF RetryInv, TypeOK, UserType
  <1>5. KeptUser(u) /\ \A v \in User \ {u} : usr'[v] = usr[v]
    <2>1. CASE GetSettings(u)
      BY <1>4, <2>1 DEF GetSettings, KeptUser
    <2>2. CASE PutProvider(u)
      BY <1>4, <2>2 DEF PutProvider, KeptUser, UserType
    <2>3. CASE DeleteProvider(u)
      BY <1>4, <2>3 DEF DeleteProvider, KeptUser, UserType
    <2>4. CASE Unsubscribe(u)
      BY <1>4, <2>4 DEF Unsubscribe, KeptUser, UserType
    <2>5. ASSUME NEW p \in Preferences, PutSettings(u, p[1], p[2])
          PROVE  KeptUser(u) /\ \A v \in User \ {u} : usr'[v] = usr[v]
      BY <1>4, <2>5 DEF PutSettings, KeptUser, UserType
    <2> QED BY <1>1, <2>1, <2>2, <2>3, <2>4, <2>5
  <1>6. \A v \in User : KeptUser(v)
    BY <1>5 DEF KeptUser, RetryInv, TypeOK, UserType
  <1>7. UNCHANGED <<now, wrk, stray, prov>>
    BY <1>1 DEF GetSettings, PutProvider, DeleteProvider, Unsubscribe, PutSettings, ApiCall
  <1> QED BY <1>3, <1>6, <1>7

LEMMA PrepareKept ==
    ASSUME RetryInv, PrepareStep
    PROVE  /\ \A u \in User : KeptUser(u)
           /\ \A d \in Delivery : KeptRow(d) /\ (dlv[d].first # 0 => dlv'[d].lease = dlv[d].lease)
           /\ UNCHANGED <<now, wrk, stray, prov>>
  <1>1. PICK d \in Delivery : TestProvider(d) \/ MatchAlert(d) \/ MakeRecap(d)
    BY DEF PrepareStep
  <1>2. /\ dlv \in [Delivery -> RowType] /\ usr \in [User -> UserType]
        /\ \A x \in Delivery : RowOK(x) /\ dlv[x] \in RowType
    BY DEF RetryInv, TypeOK
  <1>3. \A u \in User : usr'[u] = usr[u] => KeptUser(u)
    BY <1>2 DEF KeptUser, UserType
  <1>4. NewRow.first = 0 /\ NewRow.status = "pending"
    BY DEF NewRow, NoRow
  <1>5. \A x \in Delivery : dlv[x].first # 0 => dlv[x].status \notin Unattempted
    BY <1>2 DEF RowOK
  <1>6. \A x \in Delivery : dlv'[x] = dlv[x] =>
                 KeptRow(x) /\ (dlv[x].first # 0 => dlv'[x].lease = dlv[x].lease)
    BY <1>5 DEF KeptRow
  <1>7. CASE TestProvider(d)
    <2> DEFINE u == Owner[d]
    <2>1. u \in User /\ Refreshed(u).provider = usr[u].provider /\ usr[u].version \in Nat
          /\ Refreshed(u).version \in {usr[u].version, usr[u].version + 1}
      BY <1>2, RefreshedRow, OwnerAssumption DEF UserType, RetryInv
    <2>2. \A v \in User : KeptUser(v)
      BY <1>2, <1>3, <1>7, <2>1 DEF TestProvider, KeptUser
    <2>3. dlv[d].first = 0
      BY <1>5, <1>7 DEF TestProvider, Unattempted
    <2>4. \E kinds : dlv' = [Cancelling(u, kinds) EXCEPT ![d] = NewRow]
      BY <1>7 DEF TestProvider
    <2>5. \A x \in Delivery : KeptRow(x) /\ (dlv[x].first # 0 => dlv'[x].lease = dlv[x].lease)
      BY <1>4, <2>3, <2>4, CancellingKept, CancellingRows DEF KeptRow, RetryInv
    <2> QED BY <1>7, <2>2, <2>5 DEF TestProvider, ApiCall
  <1>8. CASE MatchAlert(d)
    <2>1. dlv[d].first = 0
      BY <1>5, <1>8 DEF MatchAlert, Unattempted
    <2>2. dlv' = [dlv EXCEPT ![d] = NewRow] /\ UNCHANGED <<now, usr, wrk, stray, prov>>
      BY <1>8 DEF MatchAlert, PrepareFrame
    <2> QED BY <1>2, <1>3, <1>4, <1>6, <2>1, <2>2 DEF KeptRow
  <1>9. CASE MakeRecap(d)
    <2> DEFINE row == IF dlv[d].status = "absent" THEN NewRow
                      ELSE [dlv[d] EXCEPT !.body = NoBody, !.due = now]
               rows == [dlv EXCEPT ![d] = row]
    <2>1. PICK alerts \in SUBSET {x \in Delivery : NeverAttempted(x)} :
              dlv' = Folded(rows, alerts)
      BY <1>9 DEF MakeRecap
    <2>2. dlv[d].first = 0 /\ (dlv[d].status = "absent" \/ dlv[d].status = "pending")
      BY <1>5, <1>9 DEF MakeRecap, UnsentRecaps, NeverAttempted, Unattempted
    <2>3. row.first = 0
      BY <1>2, <1>4, <2>2 DEF RowType
    <2>4. UNCHANGED <<now, usr, wrk, stray, prov>>
      BY <1>9 DEF MakeRecap, PrepareFrame
    <2> HIDE DEF row
    <2>5. \A x \in Delivery : /\ x # d => rows[x] = dlv[x]
                              /\ rows[x].first = dlv[x].first
                              /\ "first" \in DOMAIN rows[x]
      <3>1. row \in RowType
        BY NewRowType, RerenderedType DEF row, RetryInv
      <3> QED BY <1>2, <2>2, <2>3, <3>1 DEF RowType
    <2>6. ASSUME NEW x \in Delivery
          PROVE  KeptRow(x) /\ (dlv[x].first # 0 => dlv'[x].lease = dlv[x].lease)
      <3>1. CASE x \in alerts
        <4>1. dlv'[x] = [rows[x] EXCEPT !.status = "recap_only"] /\ dlv[x].first = 0
          BY <2>1, <3>1 DEF Folded, NeverAttempted
        <4> HIDE DEF rows
        <4>2. dlv'[x].first = 0
          BY <2>5, <4>1
        <4> QED BY <4>1, <4>2 DEF KeptRow
      <3>2. CASE x \notin alerts
        <4>1. dlv'[x] = rows[x]
          BY <2>1, <3>2 DEF Folded
        <4> QED BY <1>6, <2>2, <2>5, <4>1 DEF KeptRow
      <3> QED BY <3>1, <3>2
    <2> QED BY <1>3, <2>4, <2>6
  <1> QED BY <1>1, <1>7, <1>8, <1>9

LEMMA RecordKept ==
    ASSUME RetryInv, NEW w \in Worker, Record(w)
    PROVE  /\ dlv[wrk[w].d].attempts # 0
           /\ \A u \in User : KeptUser(u)
           /\ \A d \in Delivery : KeptRow(d)
           /\ \A d \in Delivery \ {wrk[w].d} : dlv'[d] = dlv[d]
           /\ \A v \in Worker : wrk'[v] = IF v = w THEN NoJob ELSE wrk[v]
           /\ UNCHANGED <<now, stray, prov>>
  <1> DEFINE j == wrk[w]
  <1>1. j.d \in Delivery /\ JobOK(w) /\ RowOK(j.d) /\ Owner[j.d] \in User
    BY JobFields, OwnerAssumption DEF Record, RetryInv, JobType
  <1>2. dlv[j.d].attempts # 0 /\ dlv[j.d].first # 0
    BY <1>1 DEF JobOK, RowOK, Record
  <1>3. PICK retryAfter \in RetryAfter : dlv' = [dlv EXCEPT ![j.d] = Recorded(j, retryAfter)]
    BY DEF Record
  <1>4. \A d \in Delivery \ {j.d} : dlv'[d] = dlv[d]
    BY <1>3 DEF RetryInv, TypeOK
  <1>5. \A d \in Delivery : KeptRow(d)
    <2>1. KeptRow(j.d)
      <3>1. dlv'[j.d] = Recorded(j, retryAfter)
        BY <1>1, <1>3 DEF RetryInv, TypeOK
      <3> QED BY <1>2, <3>1, RecordedRow DEF KeptRow, Record, RetryInv, Unattempted
    <2> QED BY <1>4, <2>1 DEF KeptRow, RetryInv, RowOK
  <1>6. \A u \in User : KeptUser(u)
    BY DEF Record, KeptUser, RetryInv, TypeOK, UserType
  <1>7. \A v \in Worker : wrk'[v] = IF v = w THEN NoJob ELSE wrk[v]
    BY DEF Record, RetryInv, TypeOK
  <1>8. UNCHANGED <<now, stray, prov>>
    BY DEF Record
  <1> QED BY <1>2, <1>4, <1>5, <1>6, <1>7, <1>8

LEMMA WebhookKept ==
    ASSUME RetryInv, NEW d \in Delivery, NEW type \in HookTypes, WebhookApplied(<<d, type>>)
    PROVE  /\ \A u \in User : KeptUser(u)
           /\ \A x \in Delivery : KeptRow(x) /\ dlv'[x].lease = dlv[x].lease
           /\ UNCHANGED <<now, wrk, stray, prov>>
  <1> DEFINE e == <<d, type>>
             u == Owner[d]
             rows == IF Suppresses(e) THEN Cancelling(u, Kinds) ELSE dlv
  <1>1. /\ rows \in [Delivery -> RowType]
        /\ \A x \in Delivery :
             /\ rows[x].first = dlv[x].first /\ rows[x].attempts = dlv[x].attempts
             /\ rows[x].body = dlv[x].body /\ rows[x].acct = dlv[x].acct
             /\ rows[x].version = dlv[x].version /\ rows[x].lease = dlv[x].lease
             /\ rows[x].status \in Unattempted => dlv[x].first = 0
    BY CancellingRows, CancellingKept DEF RetryInv, TypeOK, RowOK
  <1>2. dlv' = [rows EXCEPT ![d].status = WebhookStatus(dlv[d].status, type)]
    BY DEF WebhookApplied
  <1>3. WebhookStatus(dlv[d].status, type) \notin Unattempted
    BY DEF WebhookStatus, HookTypes, Outcomes, Unattempted
  <1> HIDE DEF rows
  <1>4. \A x \in Delivery : KeptRow(x) /\ dlv'[x].lease = dlv[x].lease
    BY <1>1, <1>2, <1>3 DEF KeptRow, RowType
  <1>5. \A v \in User : KeptUser(v)
    <2>1. usr' = [usr EXCEPT ![u].suppressed = @ \/ Suppresses(e)]
      BY DEF WebhookApplied
    <2> QED BY <2>1 DEF KeptUser, RetryInv, TypeOK, UserType
  <1> QED BY <1>4, <1>5 DEF WebhookApplied, Acked

LEMMA RewrittenKept ==
    ASSUME RetryInv, NEW d \in Delivery, Rewritten(d)
    PROVE  /\ KeptRow(d)
           /\ dlv'[d].lease = dlv[d].lease /\ dlv'[d].pid = dlv[d].pid
           /\ dlv'[d].status # dlv[d].status =>
                 /\ dlv[d].status \in {"pending", "sending"}
                 /\ dlv'[d].status \in {"cancelled", "reconcile", "expired"}
  <1>1. dlv[d] \in RowType /\ RowOK(d)
    BY DEF RetryInv, TypeOK
  <1>2. CASE dlv'[d] = dlv[d]
    BY <1>1, <1>2 DEF KeptRow, RowOK
  <1>3. ASSUME NEW s \in {"cancelled", "reconcile", "expired"},
               dlv'[d] = [dlv[d] EXCEPT !.status = s], d \in Candidates,
               s = "expired" => dlv[d].first = 0
        PROVE  /\ KeptRow(d)
               /\ dlv'[d].lease = dlv[d].lease /\ dlv'[d].pid = dlv[d].pid
               /\ dlv[d].status \in {"pending", "sending"}
               /\ dlv'[d].status \in {"cancelled", "reconcile", "expired"}
    BY <1>1, <1>3 DEF KeptRow, Unattempted, Candidates, RowType
  <1>4. CASE dlv'[d] = [dlv[d] EXCEPT !.due = now + FiveMinutes]
    BY <1>1, <1>4 DEF KeptRow, RowOK, RowType
  <1> QED BY <1>2, <1>3, <1>4 DEF Rewritten

\* what claim() does to the row it leases
LEMMA LeasedKept ==
    ASSUME RetryInv, NEW w \in Worker, Claim(w), NEW f \in Candidates, LeasedBy(w, f)
    PROVE  /\ f \in Delivery
           /\ dlv[f].first # 0 => /\ dlv'[f].first = dlv[f].first
                                  /\ dlv'[f].body = dlv[f].body /\ dlv'[f].acct = dlv[f].acct
                                  /\ now < dlv[f].first + GiveUp
           /\ dlv[f].first = 0 => dlv'[f].first = now
           /\ dlv'[f].body = Payload(f) /\ dlv'[f].acct = AccountOf(Owner[f])
           /\ dlv'[f].version = usr[Owner[f]].version
           /\ dlv'[f].status = "sending" /\ dlv'[f].lease = now + LeaseTime
           /\ dlv'[f].pid = dlv[f].pid
           /\ dlv'[f].attempts # 0 /\ dlv'[f].body # NoBody
  <1>1. /\ f \in Delivery /\ dlv[f] \in RowType /\ RowOK(f) /\ now \in Nat
        /\ dlv'[f] = Leased(f) /\ ~Reconnected(f) /\ ~GivenUp(f)
    BY DEF Candidates, RetryInv, TypeOK, LeasedBy
  <1>2. dlv'[f].attempts # 0
    BY <1>1 DEF Leased, RowType
  <1>3. ASSUME dlv[f].first # 0
        PROVE  /\ dlv'[f].first = dlv[f].first /\ dlv'[f].body = dlv[f].body
               /\ dlv'[f].acct = dlv[f].acct /\ now < dlv[f].first + GiveUp
    <2>1. dlv[f].version = usr[Owner[f]].version
      BY <1>1, <1>3 DEF Reconnected, RowOK
    <2>2. dlv[f].acct = AccountOf(Owner[f])
      BY <1>1, <1>3, <2>1 DEF RowOK
    <2>3. Payload(f) = dlv[f].body
      BY <1>1, <1>3 DEF RowOK, Payload
    <2>4. now < dlv[f].first + GiveUp
      BY <1>1, <1>3, DurationAssumption DEF GivenUp, RowType
    <2> QED BY <1>1, <1>3, <2>2, <2>3, <2>4, LeasedRow DEF RetryInv
  <1> QED BY <1>1, <1>2, <1>3, LeasedRow DEF RetryInv

LEMMA ClaimUsers ==
    ASSUME RetryInv, NEW w \in Worker, Claim(w)
    PROVE  \A u \in User : /\ usr'[u].version = usr[u].version
                           /\ usr'[u].provider = usr[u].provider
                           /\ KeptUser(u)
  <1> SUFFICES ASSUME NEW u \in User
               PROVE  /\ usr'[u].version = usr[u].version
                      /\ usr'[u].provider = usr[u].provider
                      /\ KeptUser(u)
    OBVIOUS
  <1>1. usr[u] \in UserType
    BY DEF RetryInv, TypeOK
  <1>2. PICK v, s : usr'[u] = [usr[u] EXCEPT !.verified = v, !.status = s]
    BY ClaimEffect DEF RetryInv
  <1> QED BY <1>1, <1>2 DEF UserType, KeptUser

LEMMA ClaimKept ==
    ASSUME RetryInv, NEW w \in Worker, Claim(w)
    PROVE  RetryInv'
  <1>1. TypeOK'
    BY ClaimType DEF RetryInv
  <1>2. UNCHANGED <<now, stray, prov>>
    BY DEF Claim
  <1>3. CASE wrk' = wrk /\ \A d \in Delivery : Rewritten(d)
    BY <1>1, <1>2, <1>3, ClaimUsers, RewrittenKept, RowsKept
  <1>4. ASSUME NEW f \in Candidates, LeasedBy(w, f)
        PROVE  RetryInv'
    <2>1. \A d \in Delivery \ {f} : KeptRow(d)
      BY <1>4, RewrittenKept DEF LeasedBy
    <2>2. f \in Delivery /\ Owner[f] \in User /\ now \in Nat /\ now >= 1 /\ GiveUp \in Nat \ {0}
          /\ PostDelay \in Nat
      BY <1>4, OwnerAssumption, DurationAssumption DEF Candidates, RetryInv, TypeOK
    <2>3. \A u \in User : AccountOf(u)' = AccountOf(u) /\ usr'[u].version = usr[u].version
                          /\ usr[u].version \in Nat /\ usr[u].version # 0
      BY ClaimUsers DEF AccountOf, RetryInv, TypeOK, UserType
    <2>4. ASSUME NEW d \in Delivery \ {f}
          PROVE  RowOK(d)' /\ SentOK(d)'
      <3>1. RowOK(d) /\ SentOK(d) /\ KeptRow(d) /\ dlv[d] \in RowType /\ Owner[d] \in User
        BY <2>1, OwnerAssumption DEF RetryInv, TypeOK
      <3> QED BY <1>2, <2>3, <3>1 DEF RowOK, SentOK, KeptRow, Unattempted, RowType
    <2>5. RowOK(f)'
      <3>1. dlv'[f].status = "sending" /\ dlv'[f].first # 0 => dlv'[f].first <= now
        BY <1>4, <2>2, LeasedKept DEF RetryInv, TypeOK, RowOK, RowType
      <3> QED BY <1>2, <1>4, <2>2, <2>3, <3>1, LeasedKept DEF RowOK, Unattempted
    <2>6. SentOK(f)'
      BY <1>2, <1>4, <2>2, LeasedKept DEF SentOK, RetryInv
    <2>7. ASSUME NEW r \in RequestType, RequestOK(r)
          PROVE  RequestOK(r)'
      <3>1. CASE r.d = f
        BY <1>2, <1>4, <2>7, <3>1, LeasedKept DEF RequestOK
      <3>2. CASE r.d # f
        BY <1>2, <2>1, <2>7, <3>2 DEF RequestOK, KeptRow, RequestType
      <3> QED BY <3>1, <3>2
    <2>8. ASSUME NEW v \in Worker
          PROVE  JobOK(v)'
      <3>1. CASE v = w
        <4>1. wrk'[v] = Job(f)
          BY <1>4, <3>1 DEF LeasedBy, RetryInv, TypeOK
        <4>2. Request(Job(f)) = [d |-> f, at |-> now, acct |-> AccountOf(Owner[f]),
                                 body |-> Payload(f)]
          BY <2>2, JobRow DEF Request, RetryInv
        <4>3. /\ dlv'[f].first # 0 /\ dlv'[f].first <= now /\ now < dlv'[f].first + GiveUp
              /\ dlv'[f].body = Payload(f) /\ dlv'[f].acct = AccountOf(Owner[f])
          BY <1>4, <2>2, LeasedKept DEF RetryInv, RowOK, TypeOK, RowType
        <4>4. ASSUME NEW r, r = Request(Job(f))
              PROVE  RequestOK(r)'
          BY <1>2, <2>2, <4>2, <4>3, <4>4 DEF RequestOK
        <4>5. wrk'[v].d = f /\ RequestOK(Request(wrk[v]))'
          BY <2>2, <4>1, <4>4, JobRow DEF RetryInv, Request
        <4> QED BY <4>3, <4>5 DEF JobOK
      <3>2. CASE v # w
        <4>1. wrk'[v] = wrk[v] /\ JobOK(v)
          BY <1>4, <3>2 DEF LeasedBy, RetryInv, TypeOK
        <4>2. wrk[v].pc # "idle" => wrk[v].d \in Delivery /\ Request(wrk[v]) \in RequestType
          BY JobFields DEF RetryInv, JobType
        <4>3. wrk[v].pc # "idle" => dlv'[wrk[v].d].first # 0
          BY <1>4, <2>1, <2>2, <4>1, <4>2, LeasedKept DEF JobOK, KeptRow
        <4> QED BY <2>7, <4>1, <4>2, <4>3 DEF JobOK, Request
      <3> QED BY <3>1, <3>2
    <2> QED BY <1>1, <1>2, <2>3, <2>4, <2>5, <2>6, <2>7, <2>8 DEF RetryInv, TypeOK
  <1> QED BY <1>3, <1>4, ClaimEffect DEF RetryInv

\* the provider's state after a request that agrees with the row it is for
LEMMA AcceptingKept ==
    ASSUME RetryInv, NEW r \in RequestType, RequestOK(r), UNCHANGED <<now, dlv>>,
           prov' \in {prov, Accepting(r)}
    PROVE  \A d \in Delivery : SentOK(d)'
  <1> SUFFICES ASSUME NEW d \in Delivery
               PROVE  SentOK(d)'
    OBVIOUS
  <1>1. SentOK(d) /\ dlv[d] \in RowType /\ now \in Nat /\ r.d \in Delivery /\ r.at \in Nat
    BY DEF RetryInv, TypeOK, RequestType
  <1>2. CASE prov'[d] = prov[d]
    BY <1>1, <1>2 DEF SentOK
  <1>3. CASE prov'[d] # prov[d]
    <2>1. d = r.d /\ prov'[d] = [sends |-> prov[d].sends + 1, at |-> now, acct |-> r.acct,
                                 body |-> r.body]
      BY <1>3 DEF Accepting, RetryInv, TypeOK
    <2> QED BY <1>1, <2>1 DEF SentOK, RequestOK, RowType
  <1> QED BY <1>2, <1>3

LEMMA ArriveKept ==
    ASSUME RetryInv, NEW w \in Worker, Arrive(w)
    PROVE  /\ RetryInv'
           /\ \A v \in Worker \ {w} : wrk'[v] = wrk[v]
           /\ wrk'[w].pc = "answered" /\ wrk'[w].d = wrk[w].d /\ wrk'[w].at = wrk[w].at
  <1> DEFINE r == Request(wrk[w])
  <1>1. TypeOK' /\ UNCHANGED <<now, usr, dlv, stray>>
    BY ArriveType DEF RetryInv, Arrive, WireFrame
  <1>2. r \in RequestType /\ RequestOK(r) /\ JobOK(w) /\ wrk[w] \in JobType
    BY JobFields DEF RetryInv, JobOK, Arrive
  <1>3. prov' \in {prov, Accepting(r)}
    BY DEF Arrive
  <1>4. \A d \in Delivery : SentOK(d)'
    BY <1>1, <1>2, <1>3, AcceptingKept
  <1>5. /\ \A v \in Worker \ {w} : wrk'[v] = wrk[v]
        /\ wrk'[w].pc = "answered" /\ wrk'[w].d = wrk[w].d /\ wrk'[w].at = wrk[w].at
    <2> DEFINE answered(a) == [wrk EXCEPT ![w].pc = "answered", ![w].answer = a]
               labelled(a, pid) == [answered(a) EXCEPT ![w].pid = pid]
    <2>1. \A a, pid :
            /\ answered(a) = [wrk EXCEPT ![w] = [wrk[w] EXCEPT !.pc = "answered", !.answer = a]]
            /\ labelled(a, pid) = [wrk EXCEPT ![w] = [wrk[w] EXCEPT !.pc = "answered",
                                                          !.answer = a, !.pid = pid]]
      BY DEF RetryInv, TypeOK
    <2>2. \/ \E a : wrk' = answered(a)
          \/ \E pid : wrk' = labelled("accepted", pid)
      BY DEF Arrive
    <2> HIDE DEF answered, labelled
    <2>3. \E a, pid, job :
             /\ \/ job = [wrk[w] EXCEPT !.pc = "answered", !.answer = a]
                \/ job = [wrk[w] EXCEPT !.pc = "answered", !.answer = a, !.pid = pid]
             /\ wrk' = [wrk EXCEPT ![w] = job]
      <3>1. CASE \E a : wrk' = answered(a)
        BY <2>1, <3>1
      <3>2. ASSUME NEW p, wrk' = labelled("accepted", p)
            PROVE  \E a, pid, job :
                      /\ \/ job = [wrk[w] EXCEPT !.pc = "answered", !.answer = a]
                         \/ job = [wrk[w] EXCEPT !.pc = "answered", !.answer = a, !.pid = pid]
                      /\ wrk' = [wrk EXCEPT ![w] = job]
        <4> WITNESS "accepted", p,
                    [wrk[w] EXCEPT !.pc = "answered", !.answer = "accepted", !.pid = p]
        <4> QED BY <2>1, <3>2
      <3> QED BY <2>2, <3>1, <3>2
    <2>4. PICK a, pid, job :
             /\ \/ job = [wrk[w] EXCEPT !.pc = "answered", !.answer = a]
                \/ job = [wrk[w] EXCEPT !.pc = "answered", !.answer = a, !.pid = pid]
             /\ wrk' = [wrk EXCEPT ![w] = job]
      BY <2>3
    <2>5. job.pc = "answered" /\ job.d = wrk[w].d /\ job.at = wrk[w].at
      BY <1>2, <2>4 DEF JobType
    <2> QED BY <2>4, <2>5 DEF RetryInv, TypeOK
  <1>6. \A v \in Worker : JobOK(v)'
    BY <1>1, <1>2, <1>5 DEF RetryInv, JobOK, RequestOK, Request
  <1>7. \A q \in stray : RequestOK(q)'
    BY <1>1 DEF RetryInv, RequestOK
  <1>8. \A d \in Delivery : RowOK(d)'
    BY <1>1 DEF RetryInv, RowOK, AccountOf
  <1> QED BY <1>1, <1>4, <1>5, <1>6, <1>7, <1>8 DEF RetryInv

LEMMA LostKept ==
    ASSUME RetryInv, NEW w \in Worker, Timeout(w) \/ Crash(w)
    PROVE  /\ RetryInv'
           /\ \A v \in Worker \ {w} : wrk'[v] = wrk[v]
           /\ \/ wrk'[w] = NoJob
              \/ wrk'[w].pc = "answered" /\ wrk'[w].d = wrk[w].d /\ wrk'[w].at = wrk[w].at
  <1> DEFINE r == Request(wrk[w])
  <1>1. TypeOK' /\ UNCHANGED <<now, usr, dlv, prov>>
    BY LostType DEF RetryInv, Timeout, Crash, WireFrame
  <1>2. JobOK(w) /\ wrk[w] \in JobType
    BY JobFields DEF RetryInv, Timeout, Crash
  <1>3. \A q \in stray' : RequestOK(q)'
    <2>1. \A q \in stray' : q \in stray \/ (q = r /\ wrk[w].pc = "posting")
      BY DEF Timeout, Crash
    <2> QED BY <1>1, <1>2, <2>1 DEF RetryInv, JobOK, RequestOK
  <1>4. /\ \A v \in Worker \ {w} : wrk'[v] = wrk[v]
        /\ \/ wrk'[w] = NoJob
           \/ wrk'[w].pc = "answered" /\ wrk'[w].d = wrk[w].d /\ wrk'[w].at = wrk[w].at
    BY <1>2 DEF Timeout, Crash, RetryInv, TypeOK, JobType
  <1>5. \A v \in Worker : JobOK(v)'
    BY <1>1, <1>2, <1>4 DEF RetryInv, JobOK, RequestOK, Request, NoJob, Timeout, Crash
  <1>6. \A d \in Delivery : RowOK(d)' /\ SentOK(d)'
    BY <1>1 DEF RetryInv, RowOK, SentOK, AccountOf
  <1> QED BY <1>1, <1>3, <1>4, <1>5, <1>6 DEF RetryInv

LEMMA StrayKept ==
    ASSUME RetryInv, NEW r \in stray, StrayArrives(r)
    PROVE  RetryInv'
  <1>1. TypeOK'
    BY ProviderType DEF ProviderStep, RetryInv
  <1>2. r \in RequestType /\ RequestOK(r) /\ UNCHANGED <<now, usr, dlv, wrk>> /\ stray' \subseteq stray
    BY DEF RetryInv, TypeOK, StrayArrives, WireFrame
  <1>3. prov' \in {prov, Accepting(r)}
    BY DEF StrayArrives
  <1>4. \A d \in Delivery : SentOK(d)'
    BY <1>2, <1>3, AcceptingKept
  <1>5. \A v \in Worker : JobOK(v)'
    BY <1>2 DEF RetryInv, JobOK, RequestOK, Request
  <1>6. \A q \in stray' : RequestOK(q)'
    BY <1>2 DEF RetryInv, RequestOK
  <1>7. \A d \in Delivery : RowOK(d)'
    BY <1>2 DEF RetryInv, RowOK, AccountOf
  <1> QED BY <1>1, <1>2, <1>4, <1>5, <1>6, <1>7 DEF RetryInv

LEMMA TickKept ==
    ASSUME RetryInv, Tick
    PROVE  RetryInv' /\ now <= now' /\ now' <= now + 1
  <1>1. TypeOK'
    BY EnvironmentType DEF EnvironmentStep, RetryInv
  <1>2. now \in Nat /\ now' \in 1 .. Horizon /\ now <= now' /\ now' <= now + 1
    <2>1. now' = Smaller(now + 1, Horizon)
      BY DEF Tick
    <2>2. Horizon \in Nat \ {0} /\ now \in 1 .. Horizon
      BY DurationAssumption DEF RetryInv
    <2> QED BY <2>1, <2>2 DEF Smaller
  <1>3. UNCHANGED <<usr, dlv, wrk, stray, prov>>
    BY DEF Tick
  <1>4. \A d \in Delivery : RowOK(d)' /\ SentOK(d)'
    <2> TAKE d \in Delivery
    <2>1. RowOK(d) /\ SentOK(d) /\ dlv[d] \in RowType /\ prov[d].at \in Nat
      BY DEF RetryInv, TypeOK
    <2> QED BY <1>2, <1>3, <2>1 DEF RowOK, SentOK, AccountOf, RowType
  <1>5. ASSUME NEW r \in RequestType, RequestOK(r), now < r.at + PostDelay
        PROVE  RequestOK(r)'
    BY <1>2, <1>3, <1>5, DurationAssumption DEF RequestOK, RequestType
  <1>6. \A r \in stray' : RequestOK(r)'
    BY <1>3, <1>5 DEF RetryInv, TypeOK, Tick
  <1>7. \A w \in Worker : JobOK(w)'
    <2> TAKE w \in Worker
    <2>1. JobOK(w) /\ (wrk[w].pc # "idle" => Request(wrk[w]) \in RequestType)
      BY JobFields DEF RetryInv
    <2>2. wrk[w].pc = "posting" => now < Request(wrk[w]).at + PostDelay
      BY DEF Tick, Request
    <2> QED BY <1>3, <1>5, <2>1, <2>2 DEF JobOK, Request
  <1> QED BY <1>1, <1>2, <1>3, <1>4, <1>6, <1>7 DEF RetryInv

LEMMA RetryStep == RetryInv /\ [Next]_vars => RetryInv'
  <1> SUFFICES ASSUME RetryInv, [Next]_vars
               PROVE  RetryInv'
    OBVIOUS
  <1>1. CASE ApiStep
    BY <1>1, ApiType, ApiKept, RowsKept DEF RetryInv
  <1>2. CASE PrepareStep
    BY <1>2, PrepareType, PrepareKept, RowsKept DEF RetryInv
  <1>3. CASE WorkerStep
    <2>1. PICK w \in Worker : Claim(w) \/ Arrive(w) \/ Timeout(w) \/ Crash(w) \/ Record(w)
      BY <1>3 DEF WorkerStep
    <2>2. CASE Claim(w)
      BY <2>2, ClaimKept
    <2>3. CASE Arrive(w)
      BY <2>3, ArriveKept
    <2>4. CASE Timeout(w) \/ Crash(w)
      BY <2>4, LostKept
    <2>5. CASE Record(w)
      BY <2>5, RecordKept, RecordType, RowsKept DEF RetryInv
    <2> QED BY <2>1, <2>2, <2>3, <2>4, <2>5
  <1>4. CASE ProviderStep
    <2>1. TypeOK'
      BY <1>4, ProviderType DEF RetryInv
    <2>2. ASSUME NEW r \in stray, StrayArrives(r)
          PROVE  RetryInv'
      BY <2>2, StrayKept
    <2>3. ASSUME NEW d \in Delivery, NEW type \in HookTypes,
                 \/ ProviderReports(d, type)
                 \/ WebhookUnrelated(<<d, type>>)
                 \/ WebhookDuplicate(<<d, type>>)
          PROVE  RetryInv'
      <3>1. UNCHANGED <<now, usr, dlv, wrk, stray, prov>>
        BY <2>3 DEF ProviderReports, WebhookUnrelated, WebhookDuplicate, Acked
      <3> QED BY <2>1, <3>1 DEF RetryInv, RowOK, SentOK, JobOK, RequestOK, AccountOf
    <2>4. ASSUME NEW d \in Delivery, NEW type \in HookTypes, WebhookApplied(<<d, type>>)
          PROVE  RetryInv'
      BY <2>1, <2>4, WebhookKept, RowsKept
    <2> QED BY <1>4, <2>2, <2>3, <2>4 DEF ProviderStep
  <1>5. CASE EnvironmentStep
    <2>1. TypeOK'
      BY <1>5, EnvironmentType DEF RetryInv
    <2>2. CASE Tick
      BY <2>2, TickKept
    <2>3. ASSUME \/ \E u \in User : IdentityChanges(u)
                 \/ \E d \in Delivery : ListingChanges(d)
          PROVE  RetryInv'
      <3>1. UNCHANGED <<now, usr, dlv, wrk, stray, prov>>
        BY <2>3 DEF IdentityChanges, ListingChanges
      <3> QED BY <2>1, <3>1 DEF RetryInv, RowOK, SentOK, JobOK, RequestOK, AccountOf
    <2> QED BY <1>5, <2>2, <2>3 DEF EnvironmentStep
  <1>6. CASE UNCHANGED vars
    BY <1>6 DEF RetryInv, RowOK, SentOK, JobOK, RequestOK, AccountOf, vars, TypeOK
  <1> QED BY <1>1, <1>2, <1>3, <1>4, <1>5, <1>6 DEF Next

LEMMA RetryInvariant == Spec => []RetryInv
  BY RetryInit, RetryStep, PTL DEF Spec

(* The rows, claims, requests and provider records keep the types models.py  *)
(* and worker.py give them.                                                  *)
THEOREM TypeCorrect == Spec => []TypeOK
  <1>1. RetryInv => TypeOK
    BY DEF RetryInv
  <1> QED BY <1>1, RetryInvariant, PTL

(* Every request carries the payload frozen at the first attempt and the     *)
(* account of that attempt, whatever was edited or reconnected in between.   *)
THEOREM RetriesRepeatPayload == Spec => []SamePayload
  <1>1. RetryInv => SamePayload
    <2> SUFFICES ASSUME RetryInv, NEW r \in Requests
                 PROVE  /\ dlv[r.d].body = r.body
                        /\ prov[r.d].sends > 0 => /\ prov[r.d].body = r.body
                                                  /\ prov[r.d].acct = r.acct
      BY DEF SamePayload
    <2>1. RequestOK(r) /\ r.d \in Delivery
      BY JobFields DEF Requests, RetryInv, JobOK, TypeOK, RequestType
    <2>2. SentOK(r.d) /\ prov[r.d].sends \in Nat
      BY <2>1 DEF RetryInv, TypeOK
    <2> QED BY <2>1, <2>2 DEF RequestOK, SentOK
  <1> QED BY <1>1, RetryInvariant, PTL

(* A delivery of which a request was ever sent is never written off as       *)
(* expired or folded into a recap.                                           *)
THEOREM SentStaysOnRecord == Spec => []SentIsNotWrittenOff
  <1>1. RetryInv => SentIsNotWrittenOff
    <2> SUFFICES ASSUME RetryInv, NEW d \in Delivery,
                        dlv[d].status \in {"absent", "expired", "recap_only"}
                 PROVE  prov[d].sends = 0 /\ \A r \in Requests : r.d # d
      BY DEF SentIsNotWrittenOff
    <2>1. dlv[d].first = 0 /\ prov[d].sends = 0
      BY DEF RetryInv, RowOK, SentOK, Unattempted
    <2>2. \A r \in Requests : RequestOK(r)
      BY DEF Requests, RetryInv, JobOK
    <2> QED BY <2>1, <2>2 DEF RequestOK
  <1> QED BY <1>1, RetryInvariant, PTL

-----------------------------------------------------------------------------
(* At most one e-mail.                                                       *)

LEMMA AcceptedOnce ==
    ASSUME RetryInv, GiveUp + PostDelay <= Window, AtMostOnce,
           NEW r \in RequestType, RequestOK(r), prov' \in {prov, Accepting(r)}
    PROVE  AtMostOnce'
  <1> SUFFICES ASSUME NEW d \in Delivery
               PROVE  prov'[d].sends <= 1
    BY DEF AtMostOnce
  <1>1. prov[d].sends \in Nat /\ prov[d].sends <= 1 /\ SentOK(d) /\ prov[d].at \in Nat
    BY DEF RetryInv, TypeOK, AtMostOnce
  <1>2. CASE prov'[d] = prov[d]
    BY <1>1, <1>2
  <1>3. CASE prov'[d] # prov[d]
    <2>1. d = r.d /\ ~Remembers(r)
          /\ prov'[d] = [sends |-> prov[d].sends + 1, at |-> now, acct |-> r.acct,
                         body |-> r.body]
      BY <1>3 DEF Accepting, RetryInv, TypeOK
    <2>2. prov[d].sends # 0 => Remembers(r)
      <3> SUFFICES ASSUME prov[d].sends # 0
                   PROVE  Remembers(r)
        OBVIOUS
      <3>1. prov[d].acct = r.acct
        BY <1>1, <2>1 DEF SentOK, RequestOK
      <3>2. now < prov[d].at + Window
        <4>1. dlv[d].first \in Nat /\ r.at \in Nat /\ now \in Nat
          BY DEF RetryInv, TypeOK, RowType, RequestType
        <4>2. /\ r.at < dlv[d].first + GiveUp /\ now <= r.at + PostDelay
              /\ dlv[d].first <= prov[d].at
          BY <1>1, <2>1 DEF SentOK, RequestOK
        <4>3. GiveUp \in Nat /\ PostDelay \in Nat /\ Window \in Nat
          BY DurationAssumption
        <4> QED BY <1>1, <4>1, <4>2, <4>3
      <3> QED BY <1>1, <2>1, <3>1, <3>2 DEF Remembers
    <2> QED BY <1>1, <2>1, <2>2
  <1> QED BY <1>2, <1>3

(* The retry window of claim(), GiveUp after the first attempt, plus the     *)
(* longest flight of a request fits into the provider's idempotency window:  *)
(* then no crash, timeout, retry or late arrival sends an e-mail twice.      *)
THEOREM NeverTwice ==
    ASSUME GiveUp + PostDelay <= Window
    PROVE  Spec => []AtMostOnce
  <1>1. Init => AtMostOnce
    BY DEF Init, AtMostOnce, Unsent
  <1>2. RetryInv /\ AtMostOnce /\ [Next]_vars => AtMostOnce'
    <2> SUFFICES ASSUME RetryInv, AtMostOnce, [Next]_vars
                 PROVE  AtMostOnce'
      OBVIOUS
    <2>1. ASSUME NEW w \in Worker, Arrive(w)
          PROVE  AtMostOnce'
      <3>1. Request(wrk[w]) \in RequestType /\ RequestOK(Request(wrk[w]))
        BY <2>1, JobFields DEF RetryInv, JobOK, Arrive
      <3>2. prov' \in {prov, Accepting(Request(wrk[w]))}
        BY <2>1 DEF Arrive
      <3> QED BY <3>1, <3>2, AcceptedOnce
    <2>2. ASSUME NEW r \in stray, StrayArrives(r)
          PROVE  AtMostOnce'
      <3>1. r \in RequestType /\ RequestOK(r) /\ prov' \in {prov, Accepting(r)}
        BY <2>2 DEF RetryInv, TypeOK, StrayArrives
      <3> QED BY <3>1, AcceptedOnce
    <2>3. CASE UNCHANGED prov
      BY <2>3 DEF AtMostOnce
    <2>4. \/ UNCHANGED prov
          \/ \E w \in Worker : Arrive(w)
          \/ \E r \in stray : StrayArrives(r)
      <3>1. CASE ApiStep
        BY <3>1, ApiKept
      <3>2. CASE PrepareStep
        BY <3>2, PrepareKept
      <3>3. CASE WorkerStep
        BY <3>3 DEF WorkerStep, Claim, Timeout, Crash, Record
      <3>4. CASE ProviderStep
        <4>1. ASSUME NEW d \in Delivery, NEW type \in HookTypes,
                     \/ ProviderReports(d, type)
                     \/ WebhookUnrelated(<<d, type>>)
                     \/ WebhookDuplicate(<<d, type>>)
                     \/ WebhookApplied(<<d, type>>)
              PROVE  UNCHANGED prov
          BY <4>1 DEF ProviderReports, WebhookUnrelated, WebhookDuplicate, WebhookApplied, Acked
        <4> QED BY <3>4, <4>1 DEF ProviderStep
      <3>5. CASE EnvironmentStep
        BY <3>5 DEF EnvironmentStep, Tick, IdentityChanges, ListingChanges
      <3> QED BY <3>1, <3>2, <3>3, <3>4, <3>5 DEF Next, vars
    <2> QED BY <2>1, <2>2, <2>3, <2>4
  <1> QED BY <1>1, <1>2, RetryInvariant, PTL DEF Spec

-----------------------------------------------------------------------------
(* One worker per delivery.                                                  *)

\* a claim in flight is covered by the lease its row carries
LeaseOK(w) ==
    wrk[w].pc # "idle" => /\ dlv[wrk[w].d].lease = wrk[w].at + LeaseTime
                          /\ now < wrk[w].at + LeaseTime

HolderInv == OneHolder /\ \A w \in Worker : LeaseOK(w)

LEMMA ClaimHolder ==
    ASSUME RetryInv, HolderInv, NEW w \in Worker, Claim(w)
    PROVE  HolderInv'
  <1>1. UNCHANGED now
    BY DEF Claim
  <1>2. \A v \in Worker : wrk[v].pc # "idle" => wrk[v].d \in Delivery
    BY JobFields DEF RetryInv, JobType
  <1>3. CASE wrk' = wrk /\ \A d \in Delivery : Rewritten(d)
    BY <1>1, <1>2, <1>3, RewrittenKept DEF HolderInv, OneHolder, LeaseOK
  <1>4. ASSUME NEW f \in Candidates, LeasedBy(w, f)
        PROVE  HolderInv'
    <2>1. /\ f \in Delivery /\ dlv'[f].lease = now + LeaseTime
          /\ now \in Nat /\ LeaseTime \in Nat \ {0}
      BY <1>4, LeasedKept, DurationAssumption DEF RetryInv, TypeOK
    <2>2. \A v \in Worker : wrk'[v] = IF v = w THEN Job(f) ELSE wrk[v]
      BY <1>4 DEF LeasedBy, RetryInv, TypeOK
    <2>3. Job(f).pc = "posting" /\ Job(f).d = f /\ Job(f).at = now
      BY <2>1, JobRow DEF RetryInv
    <2>4. ASSUME NEW v \in Worker \ {w}, wrk[v].pc # "idle"
          PROVE  wrk[v].d # f
      <3>1. LeaseOK(v) /\ wrk[v].at \in Nat
        BY <2>4, JobFields DEF HolderInv, RetryInv, JobType
      <3>2. dlv[f].lease <= now
        BY DEF Candidates, LeaseFree
      <3> QED BY <2>1, <2>4, <3>1, <3>2 DEF LeaseOK
    <2>5. ASSUME NEW v \in Worker
          PROVE  LeaseOK(v)'
      <3>1. CASE v = w
        BY <1>1, <2>1, <2>2, <2>3, <3>1 DEF LeaseOK
      <3>2. CASE v # w
        <4>1. wrk[v].pc # "idle" => dlv'[wrk[v].d].lease = dlv[wrk[v].d].lease
          BY <1>2, <1>4, <2>4, <3>2, RewrittenKept DEF LeasedBy
        <4> QED BY <1>1, <2>2, <3>2, <4>1 DEF LeaseOK, HolderInv
      <3> QED BY <3>1, <3>2
    <2>6. OneHolder'
      BY <2>2, <2>3, <2>4 DEF OneHolder, HolderInv
    <2> QED BY <2>5, <2>6 DEF HolderInv
  <1> QED BY <1>3, <1>4, ClaimEffect DEF RetryInv

\* a step that releases claims or keeps them, and touches no lease of a kept one
LEMMA HoldersKept ==
    ASSUME HolderInv, UNCHANGED now,
           \A w \in Worker :
              \/ wrk'[w] = NoJob
              \/ /\ wrk[w].pc # "idle" /\ wrk'[w].d = wrk[w].d /\ wrk'[w].at = wrk[w].at
                 /\ dlv'[wrk[w].d].lease = dlv[wrk[w].d].lease
    PROVE  HolderInv'
  <1>1. \A w \in Worker : wrk'[w].pc # "idle" =>
            /\ wrk[w].pc # "idle" /\ wrk'[w].d = wrk[w].d /\ wrk'[w].at = wrk[w].at
            /\ dlv'[wrk[w].d].lease = dlv[wrk[w].d].lease
    BY DEF NoJob
  <1>2. OneHolder'
    BY <1>1 DEF HolderInv, OneHolder
  <1> QED BY <1>1, <1>2 DEF HolderInv, LeaseOK

LEMMA HolderStep ==
    ASSUME RetryInv, HolderInv, [Next]_vars, PostDelay < LeaseTime, HoldTime < LeaseTime
    PROVE  HolderInv'
  <1>1. \A w \in Worker :
            /\ wrk[w] = NoJob \/ wrk[w].pc # "idle"
            /\ wrk[w].pc # "idle" => wrk[w].d \in Delivery /\ dlv[wrk[w].d].first # 0
                                     /\ wrk[w].at \in Nat /\ wrk[w].pc \in {"posting", "answered"}
    BY JobFields DEF RetryInv, TypeOK, JobType, JobOK
  <1>2. CASE ApiStep
    BY <1>1, <1>2, ApiKept, HoldersKept
  <1>3. CASE PrepareStep
    BY <1>1, <1>3, PrepareKept, HoldersKept
  <1>4. CASE WorkerStep
    <2>1. PICK w \in Worker : Claim(w) \/ Arrive(w) \/ Timeout(w) \/ Crash(w) \/ Record(w)
      BY <1>4 DEF WorkerStep
    <2>2. CASE Claim(w)
      BY <2>2, ClaimHolder
    <2>3. CASE Arrive(w)
      <3>1. UNCHANGED <<now, dlv>> /\ wrk[w].pc # "idle"
        BY <2>3 DEF Arrive, WireFrame
      <3> QED BY <1>1, <2>3, <3>1, ArriveKept, HoldersKept
    <2>4. CASE Timeout(w) \/ Crash(w)
      <3>1. UNCHANGED <<now, dlv>> /\ wrk[w].pc # "idle"
        BY <2>4 DEF Timeout, Crash, WireFrame
      <3> QED BY <1>1, <2>4, <3>1, LostKept, HoldersKept
    <2>5. CASE Record(w)
      <3>1. \A v \in Worker \ {w} : wrk[v].pc # "idle" => wrk[v].d # wrk[w].d
        BY <2>5 DEF Record, HolderInv, OneHolder
      <3> QED BY <1>1, <2>5, <3>1, RecordKept, HoldersKept
    <2> QED BY <2>1, <2>2, <2>3, <2>4, <2>5
  <1>5. CASE ProviderStep
    <2>1. ASSUME NEW r \in stray, StrayArrives(r)
          PROVE  HolderInv'
      BY <1>1, <2>1, HoldersKept DEF StrayArrives, WireFrame
    <2>2. ASSUME NEW d \in Delivery, NEW type \in HookTypes,
                 \/ ProviderReports(d, type)
                 \/ WebhookUnrelated(<<d, type>>)
                 \/ WebhookDuplicate(<<d, type>>)
          PROVE  HolderInv'
      BY <1>1, <2>2, HoldersKept DEF ProviderReports, WebhookUnrelated, WebhookDuplicate, Acked
    <2>3. ASSUME NEW d \in Delivery, NEW type \in HookTypes, WebhookApplied(<<d, type>>)
          PROVE  HolderInv'
      BY <1>1, <2>3, WebhookKept, HoldersKept
    <2> QED BY <1>5, <2>1, <2>2, <2>3 DEF ProviderStep
  <1>6. CASE EnvironmentStep
    <2>1. CASE Tick
      <3>1. UNCHANGED <<dlv, wrk>> /\ now \in Nat /\ now' \in Nat /\ now' <= now + 1
        BY <2>1, TickKept DEF Tick, RetryInv, TypeOK
      <3>2. ASSUME NEW w \in Worker, wrk[w].pc # "idle"
            PROVE  now' < wrk[w].at + LeaseTime
        <4>1. now < wrk[w].at + PostDelay \/ now < wrk[w].at + HoldTime
          BY <1>1, <2>1, <3>2 DEF Tick
        <4> QED BY <1>1, <3>1, <3>2, <4>1, DurationAssumption
      <3> QED BY <3>1, <3>2 DEF HolderInv, OneHolder, LeaseOK
    <2>2. CASE \/ \E u \in User : IdentityChanges(u)
               \/ \E d \in Delivery : ListingChanges(d)
      BY <1>1, <2>2, HoldersKept DEF IdentityChanges, ListingChanges
    <2> QED BY <1>6, <2>1, <2>2 DEF EnvironmentStep
  <1>7. CASE UNCHANGED vars
    BY <1>1, <1>7, HoldersKept DEF vars
  <1> QED BY <1>2, <1>3, <1>4, <1>5, <1>6, <1>7 DEF Next

LEMMA HolderInvariant ==
    ASSUME PostDelay < LeaseTime, HoldTime < LeaseTime
    PROVE  Spec => []HolderInv
  <1>1. Init => HolderInv
    BY DEF Init, HolderInv, OneHolder, LeaseOK, NoJob
  <1>2. RetryInv /\ HolderInv /\ [Next]_vars => HolderInv'
    BY HolderStep
  <1> QED BY <1>1, <1>2, RetryInvariant, PTL DEF Spec

(* While neither a request nor its record transaction outlives the lease,    *)
(* two workers never work on one delivery.                                   *)
THEOREM LeaseExcludes ==
    ASSUME PostDelay < LeaseTime, HoldTime < LeaseTime
    PROVE  Spec => []OneHolder
  <1>1. HolderInv => OneHolder
    BY DEF HolderInv
  <1> QED BY <1>1, HolderInvariant, PTL

-----------------------------------------------------------------------------
(* Suppression.                                                              *)

\* a step that suppresses nobody and moves no suppressed user to another address
LEMMA SuppressionKept ==
    ASSUME SuppressionIsDeserved, barred \subseteq barred',
           \A u \in User : usr'[u].suppressed =>
                usr[u].suppressed /\ usr'[u].email = usr[u].email
    PROVE  SuppressionIsDeserved'
  BY DEF SuppressionIsDeserved

(* A subscriber is suppressed only if a bounce or complaint was applied for  *)
(* the very address the subscription has now.                                *)
THEOREM OnlyBarredSuppressed == Spec => []SuppressionIsDeserved
  <1>1. Init => SuppressionIsDeserved
    BY DEF Init, SuppressionIsDeserved
  <1>2. RetryInv /\ SuppressionIsDeserved /\ [Next]_vars => SuppressionIsDeserved'
    <2> SUFFICES ASSUME RetryInv, SuppressionIsDeserved, [Next]_vars
                 PROVE  SuppressionIsDeserved'
      OBVIOUS
    <2>1. TypeOK /\ usr \in [User -> UserType] /\ \A u \in User : usr[u] \in UserType
      BY DEF RetryInv, TypeOK
    <2>2. ASSUME NEW u \in User, UNCHANGED barred, \A v \in User \ {u} : usr'[v] = usr[v],
                 usr'[u].suppressed => usr[u].suppressed /\ usr'[u].email = usr[u].email
          PROVE  SuppressionIsDeserved'
      BY <2>2, SuppressionKept
    <2>3. CASE ApiStep
      <3>1. PICK u \in User : \/ GetSettings(u) \/ PutProvider(u) \/ DeleteProvider(u)
                              \/ Unsubscribe(u)
                              \/ \E p \in Preferences : PutSettings(u, p[1], p[2])
        BY <2>3 DEF ApiStep
      <3>2. Refreshed(u) \in UserType /\ usr[u] \in UserType
        BY <2>1, RefreshedRow
      <3>3. Refreshed(u).suppressed => usr[u].suppressed /\ Refreshed(u).email = usr[u].email
        BY <2>1, RefreshedRow
      <3>4. UNCHANGED barred
        BY <3>1 DEF GetSettings, PutProvider, DeleteProvider, Unsubscribe, PutSettings, ApiCall
      <3>5. CASE GetSettings(u)
        BY <2>1, <2>2, <3>3, <3>4, <3>5 DEF GetSettings
      <3>6. CASE PutProvider(u)
        BY <2>1, <2>2, <3>2, <3>3, <3>4, <3>6 DEF PutProvider, UserType
      <3>7. CASE DeleteProvider(u)
        BY <2>1, <2>2, <3>2, <3>3, <3>4, <3>7 DEF DeleteProvider, UserType
      <3>8. CASE Unsubscribe(u)
        BY <2>1, <2>2, <3>2, <3>4, <3>8 DEF Unsubscribe, UserType
      <3>9. ASSUME NEW p \in Preferences, PutSettings(u, p[1], p[2])
            PROVE  SuppressionIsDeserved'
        BY <2>1, <2>2, <3>2, <3>3, <3>4, <3>9 DEF PutSettings, UserType
      <3> QED BY <3>1, <3>5, <3>6, <3>7, <3>8, <3>9
    <2>4. CASE PrepareStep
      <3>1. PICK d \in Delivery : TestProvider(d) \/ MatchAlert(d) \/ MakeRecap(d)
        BY <2>4 DEF PrepareStep
      <3>2. Owner[d] \in User
        BY OwnerAssumption
      <3>3. CASE TestProvider(d)
        BY <2>1, <2>2, <3>2, <3>3, RefreshedRow DEF TestProvider, ApiCall
      <3>4. CASE MatchAlert(d) \/ MakeRecap(d)
        BY <2>1, <2>2, <3>2, <3>4 DEF MatchAlert, MakeRecap, PrepareFrame
      <3> QED BY <3>1, <3>3, <3>4
    <2>5. CASE WorkerStep
      <3>1. PICK w \in Worker : Claim(w) \/ Arrive(w) \/ Timeout(w) \/ Crash(w) \/ Record(w)
        BY <2>5 DEF WorkerStep
      <3>2. CASE Claim(w)
        <4>1. ASSUME NEW u \in User
              PROVE  usr'[u].suppressed = usr[u].suppressed /\ usr'[u].email = usr[u].email
          <5>1. PICK v, s : usr'[u] = [usr[u] EXCEPT !.verified = v, !.status = s]
            BY <2>1, <3>2, ClaimEffect
          <5> QED BY <2>1, <5>1 DEF UserType
        <4> QED BY <3>2, <4>1, SuppressionKept DEF Claim
      <3>3. CASE Record(w)
        <4>1. Owner[wrk[w].d] \in User
          BY <2>1, <3>3, JobFields, OwnerAssumption DEF Record, JobType
        <4> QED BY <2>1, <2>2, <3>3, <4>1 DEF Record, UserType
      <3>4. CASE Arrive(w) \/ Timeout(w) \/ Crash(w)
        BY <3>4, SuppressionKept DEF Arrive, Timeout, Crash, WireFrame
      <3> QED BY <3>1, <3>2, <3>3, <3>4
    <2>6. CASE ProviderStep
      <3>1. ASSUME NEW d \in Delivery, NEW type \in HookTypes, WebhookApplied(<<d, type>>)
            PROVE  SuppressionIsDeserved'
        <4> DEFINE e == <<d, type>>
                   u == Owner[d]
        <4>1. /\ u \in User /\ usr' = [usr EXCEPT ![u].suppressed = @ \/ Suppresses(e)]
              /\ barred' = barred \cup (IF Suppresses(e) THEN {dlv[d].body.to} ELSE {})
          BY <3>1, OwnerAssumption DEF WebhookApplied
        <4>2. Suppresses(e) => dlv[d].body.to = usr[u].email
          BY DEF Suppresses
        <4>3. \A v \in User \ {u} : usr'[v] = usr[v]
          BY <2>1, <4>1
        <4>4. /\ usr'[u].email = usr[u].email
              /\ usr'[u].suppressed = (usr[u].suppressed \/ Suppresses(e))
          BY <2>1, <4>1 DEF UserType
        <4>5. ASSUME NEW v \in User, usr'[v].suppressed
              PROVE  usr'[v].email \in barred'
          <5>1. CASE v # u
            BY <4>1, <4>3, <4>5, <5>1 DEF SuppressionIsDeserved
          <5>2. CASE v = u /\ Suppresses(e)
            BY <4>1, <4>2, <4>4, <5>2
          <5>3. CASE v = u /\ ~Suppresses(e)
            <6> HIDE DEF e, u
            <6>1. usr[u].suppressed
              BY <4>4, <4>5, <5>3
            <6>2. usr[u].email \in barred
              BY <4>1, <6>1 DEF SuppressionIsDeserved
            <6> QED BY <4>1, <4>4, <5>3, <6>2
          <5> QED BY <5>1, <5>2, <5>3
        <4> QED BY <4>5 DEF SuppressionIsDeserved
      <3>2. CASE UNCHANGED <<usr, barred>>
        BY <3>2, SuppressionKept
      <3> QED BY <2>6, <3>1, <3>2 DEF ProviderStep, ProviderReports, WebhookUnrelated,
                    WebhookDuplicate, Acked, StrayArrives, WireFrame
    <2>7. CASE EnvironmentStep \/ UNCHANGED vars
      BY <2>7, SuppressionKept DEF EnvironmentStep, Tick, IdentityChanges, ListingChanges, vars
    <2> QED BY <2>3, <2>4, <2>5, <2>6, <2>7 DEF Next
  <1> QED BY <1>1, <1>2, RetryInvariant, PTL DEF Spec

-----------------------------------------------------------------------------
(* Outcomes.                                                                 *)

\* a recorded acceptance, and no other row, carries the id of an e-mail the provider
\* sent, and nobody holds that row; a row held is one that was tried
OutcomeRow(d) ==
    /\ dlv[d].status \in Outcomes \cup {"accepted"} => dlv[d].pid # 0
    /\ dlv[d].pid # 0 => /\ dlv[d].status \in Outcomes \cup {"accepted"}
                         /\ prov[d].sends # 0
                         /\ \A w \in Worker : wrk[w].pc # "idle" => wrk[w].d # d
    /\ dlv[d].status = "sending" => dlv[d].first # 0

OutcomeInv ==
    /\ \A d \in Delivery : OutcomeRow(d)
    /\ \A w \in Worker : wrk[w].pc = "answered" /\ wrk[w].answer = "accepted"
                          => wrk[w].pid # 0 /\ prov[wrk[w].d].sends # 0
    /\ \A d \in Delivery, type \in HookTypes : hook[<<d, type>>] # "none" => prov[d].sends # 0

OutcomeStays(d) ==
    /\ dlv[d].status \in Outcomes => dlv'[d].status \in Outcomes
    /\ dlv[d].status \in {"bounced", "complained"} => dlv'[d].status # "delivered"

Settlements == {"cancelled", "reconcile", "expired", "recap_only"}

\* a step that may write a row or settle an unsent one
Unlabelled(d) ==
    /\ dlv'[d].pid = dlv[d].pid
    /\ dlv'[d].status # dlv[d].status =>
          \/ dlv[d].status = "absent" /\ dlv'[d].status = "pending"
          \/ dlv[d].status \in {"pending", "sending"} /\ dlv'[d].status \in Settlements

LEMMA OutcomesKept ==
    ASSUME OutcomeInv, \A d \in Delivery : Unlabelled(d) /\ KeptRow(d),
           UNCHANGED <<prov, hook>>,
           \A w \in Worker : wrk'[w] = wrk[w] \/ wrk'[w] = NoJob
    PROVE  OutcomeInv' /\ \A d \in Delivery : OutcomeStays(d)
  <1>1. ASSUME NEW d \in Delivery
        PROVE  OutcomeRow(d)' /\ OutcomeStays(d)
    <2>1. Unlabelled(d) /\ OutcomeRow(d) /\ dlv'[d].first = dlv[d].first
      BY DEF OutcomeInv, KeptRow
    <2>2. \A w \in Worker : wrk'[w].pc # "idle" => wrk'[w] = wrk[w]
      BY DEF NoJob
    <2> QED BY <2>1, <2>2 DEF OutcomeRow, Unlabelled, OutcomeStays, Outcomes, Settlements
  <1>2. \A w \in Worker : wrk'[w].pc = "answered" => wrk'[w] = wrk[w]
    BY DEF NoJob
  <1> QED BY <1>1, <1>2 DEF OutcomeInv

LEMMA PrepareUnlabelled ==
    ASSUME RetryInv, OutcomeInv, PrepareStep
    PROVE  (\A d \in Delivery : Unlabelled(d)) /\ UNCHANGED hook
  <1>1. PICK d \in Delivery : TestProvider(d) \/ MatchAlert(d) \/ MakeRecap(d)
    BY DEF PrepareStep
  <1>2. /\ dlv \in [Delivery -> RowType]
        /\ \A x \in Delivery : dlv[x] \in RowType /\ OutcomeRow(x)
    BY DEF RetryInv, TypeOK, OutcomeInv
  <1>3. NewRow.pid = 0 /\ NewRow.status = "pending" /\ "pending" \notin Outcomes
    BY DEF NewRow, NoRow, Outcomes
  <1>4. \A x \in Delivery : dlv[x].status \in {"absent", "pending"} => dlv[x].pid = 0
    BY <1>2 DEF OutcomeRow, Outcomes
  <1>5. CASE TestProvider(d)
    <2>1. \E kinds : dlv' = [Cancelling(Owner[d], kinds) EXCEPT ![d] = NewRow]
      BY <1>5 DEF TestProvider
    <2>2. dlv[d].status = "absent" /\ UNCHANGED hook
      BY <1>5 DEF TestProvider, ApiCall
    <2>3. PICK kinds : dlv' = [Cancelling(Owner[d], kinds) EXCEPT ![d] = NewRow]
      BY <2>1
    <2>4. Unlabelled(d)
      BY <1>3, <1>4, <2>2, <2>3, CancellingRows DEF Unlabelled, RetryInv
    <2>5. ASSUME NEW x \in Delivery \ {d}
          PROVE  Unlabelled(x)
      <3>1. dlv'[x] = Cancelling(Owner[d], kinds)[x]
        BY <2>3, CancellingRows DEF RetryInv
      <3> QED BY <3>1, CancellingKept DEF Unlabelled, Settlements
    <2> QED BY <2>2, <2>4, <2>5
  <1>6. CASE MatchAlert(d)
    BY <1>2, <1>3, <1>4, <1>6 DEF MatchAlert, PrepareFrame, Unlabelled
  <1>7. CASE MakeRecap(d)
    <2> DEFINE row == IF dlv[d].status = "absent" THEN NewRow
                      ELSE [dlv[d] EXCEPT !.body = NoBody, !.due = now]
               rows == [dlv EXCEPT ![d] = row]
    <2>1. PICK alerts \in SUBSET {x \in Delivery : NeverAttempted(x)} :
              dlv' = Folded(rows, alerts)
      BY <1>7 DEF MakeRecap
    <2>2. dlv[d].status = "absent" \/ dlv[d].status = "pending"
      BY <1>7 DEF MakeRecap, UnsentRecaps, NeverAttempted
    <2>3. row.pid = 0 /\ row.status = "pending" /\ row \in RowType
      BY <1>2, <1>3, <1>4, <2>2, NewRowType, RerenderedType DEF RetryInv, RowType
    <2> HIDE DEF row
    <2>4. \A x \in Delivery : /\ rows[x] \in RowType /\ rows[x].pid = dlv[x].pid
                              /\ rows[x].status # dlv[x].status =>
                                    dlv[x].status = "absent" /\ rows[x].status = "pending"
      BY <1>2, <1>4, <2>2, <2>3
    <2> HIDE DEF rows
    <2>5. ASSUME NEW x \in Delivery
          PROVE  Unlabelled(x)
      <3>1. CASE x \in alerts
        <4>1. dlv'[x] = [rows[x] EXCEPT !.status = "recap_only"] /\ dlv[x].status = "pending"
          BY <2>1, <3>1 DEF Folded, NeverAttempted
        <4>2. dlv'[x].pid = dlv[x].pid /\ dlv'[x].status = "recap_only"
          BY <2>4, <4>1 DEF RowType
        <4> QED BY <4>1, <4>2 DEF Unlabelled, Settlements
      <3>2. CASE x \notin alerts
        <4>1. dlv'[x] = rows[x]
          BY <2>1, <3>2 DEF Folded
        <4> QED BY <1>3, <2>4, <4>1 DEF Unlabelled
      <3> QED BY <3>1, <3>2
    <2> QED BY <1>7, <2>5 DEF MakeRecap, PrepareFrame
  <1> QED BY <1>1, <1>5, <1>6, <1>7

LEMMA ClaimOutcome ==
    ASSUME RetryInv, OutcomeInv, NEW w \in Worker, Claim(w)
    PROVE  OutcomeInv' /\ \A d \in Delivery : OutcomeStays(d)
  <1>1. UNCHANGED <<prov, hook>>
    BY DEF Claim
  <1>2. ASSUME NEW d \in Delivery, Rewritten(d)
        PROVE  Unlabelled(d) /\ KeptRow(d)
    BY <1>2, RewrittenKept DEF Unlabelled, Settlements
  <1>3. CASE wrk' = wrk /\ \A d \in Delivery : Rewritten(d)
    BY <1>1, <1>2, <1>3, OutcomesKept
  <1>4. ASSUME NEW f \in Candidates, LeasedBy(w, f)
        PROVE  OutcomeInv' /\ \A d \in Delivery : OutcomeStays(d)
    <2>1. /\ f \in Delivery /\ dlv[f].status \in {"pending", "sending"}
          /\ dlv'[f].status = "sending" /\ dlv'[f].pid = dlv[f].pid /\ dlv'[f].first # 0
      <3>1. now # 0
        BY DurationAssumption DEF RetryInv
      <3> QED BY <1>4, <3>1, LeasedKept DEF Candidates
    <2>2. dlv[f].pid = 0
      BY <2>1 DEF OutcomeInv, OutcomeRow, Outcomes
    <2>3. \A v \in Worker : wrk'[v] = IF v = w THEN Job(f) ELSE wrk[v]
      BY <1>4 DEF LeasedBy, RetryInv, TypeOK
    <2>4. Job(f).pc = "posting" /\ Job(f).d = f
      BY <2>1, JobRow DEF RetryInv
    <2>5. OutcomeRow(f)' /\ OutcomeStays(f)
      BY <2>1, <2>2 DEF OutcomeRow, OutcomeStays, Outcomes
    <2>6. ASSUME NEW d \in Delivery \ {f}
          PROVE  OutcomeRow(d)' /\ OutcomeStays(d)
      <3>1. Unlabelled(d) /\ OutcomeRow(d) /\ dlv'[d].first = dlv[d].first
        BY <1>2, <1>4 DEF LeasedBy, OutcomeInv, KeptRow
      <3>2. \A v \in Worker : wrk'[v].pc # "idle" => wrk'[v].d = f \/ wrk'[v] = wrk[v]
        BY <2>3, <2>4
      <3> QED BY <1>1, <3>1, <3>2
              DEF OutcomeRow, Unlabelled, OutcomeStays, Outcomes, Settlements
    <2>7. \A v \in Worker : wrk'[v].pc = "answered" => wrk'[v] = wrk[v]
      BY <2>3, <2>4
    <2> QED BY <1>1, <2>5, <2>6, <2>7 DEF OutcomeInv
  <1> QED BY <1>3, <1>4, ClaimEffect DEF RetryInv

\* an acceptance a worker hears of, and nothing the provider sent is taken back
LEMMA ArriveSends ==
    ASSUME RetryInv, NEW w \in Worker, Arrive(w)
    PROVE  /\ wrk'[w].answer = "accepted" => wrk'[w].pid # 0 /\ prov'[wrk[w].d].sends # 0
           /\ \A d \in Delivery : prov[d].sends # 0 => prov'[d].sends # 0
  <1> DEFINE r == Request(wrk[w])
             accepted == Accepting(r)
             answered(a) == [wrk EXCEPT ![w].pc = "answered", ![w].answer = a]
  <1>1. /\ UNCHANGED <<dlv, hook>> /\ wrk[w].pc = "posting"
        /\ wrk[w] \in JobType /\ r \in RequestType /\ r.d \in Delivery
    BY JobFields DEF Arrive, WireFrame, RequestType, RetryInv
  <1>2. /\ \A d \in Delivery : prov[d].sends \in Nat /\ prov[d] \in ProvType
        /\ prov \in [Delivery -> ProvType]
    BY DEF RetryInv, TypeOK, ProvType
  <1>3. accepted[r.d].sends # 0 /\ \A d \in Delivery : prov[d].sends # 0 => accepted[d].sends # 0
    <2>1. CASE Remembers(r)
      BY <1>1, <1>2, <2>1 DEF Accepting, Remembers
    <2>2. CASE ~Remembers(r)
      <3>1. accepted = [prov EXCEPT ![r.d] = [sends |-> prov[r.d].sends + 1, at |-> now,
                                              acct |-> r.acct, body |-> r.body]]
        BY <2>2 DEF Accepting
      <3> QED BY <1>1, <1>2, <3>1
    <2> QED BY <2>1, <2>2
  <1> HIDE DEF accepted
  <1>4. wrk'[w].answer = "accepted" => wrk'[w].pid # 0 /\ prov'[r.d].sends # 0
    <2>1. \A a : answered(a)[w] = [wrk[w] EXCEPT !.pc = "answered", !.answer = a]
      BY DEF RetryInv, TypeOK
    <2>2. CASE wrk' = [answered("accepted") EXCEPT ![w].pid = accepted[r.d].sends]
      <3>1. wrk'[w] = [wrk[w] EXCEPT !.pc = "answered", !.answer = "accepted",
                                     !.pid = accepted[r.d].sends]
        BY <2>2 DEF RetryInv, TypeOK
      <3>2. wrk'[w].pid = accepted[r.d].sends /\ wrk'[w].answer = "accepted"
        BY <1>1, <3>1 DEF JobType
      <3>3. prov' = accepted
        <4>1. ASSUME NEW a, wrk' = answered(a)
              PROVE  wrk'[w].answer # "accepted" \/ a = "accepted"
          <5>1. wrk'[w] = [wrk[w] EXCEPT !.pc = "answered", !.answer = a]
            BY <2>1, <4>1
          <5> QED BY <1>1, <5>1 DEF JobType
        <4>2. \A a \in IF Conflicts(r) THEN {"retry"} ELSE Answers \ {"accepted"} :
                 wrk' # answered(a)
          BY <3>2, <4>1
        <4> HIDE DEF answered
        <4> QED BY <4>2 DEF Arrive, accepted, answered
      <3> QED BY <1>3, <3>2, <3>3
    <2>3. ASSUME NEW a, wrk' = answered(a), a # "accepted"
          PROVE  wrk'[w].answer # "accepted"
      <3>1. wrk'[w] = [wrk[w] EXCEPT !.pc = "answered", !.answer = a]
        BY <2>1, <2>3
      <3>2. wrk'[w].answer = a
        BY <1>1, <3>1 DEF JobType
      <3> QED BY <2>3, <3>2
    <2>4. \/ wrk' = [answered("accepted") EXCEPT ![w].pid = accepted[r.d].sends]
          \/ \E a : a # "accepted" /\ wrk' = answered(a)
      <3>1. CASE wrk' = answered("lost")
        BY <3>1
      <3>2. ASSUME NEW a \in IF Conflicts(r) THEN {"retry"} ELSE Answers \ {"accepted"},
                   wrk' = answered(a)
            PROVE  \E b : b # "accepted" /\ wrk' = answered(b)
        BY <3>2
      <3> QED BY <3>1, <3>2 DEF Arrive, accepted
    <2> HIDE DEF answered
    <2> QED BY <2>2, <2>3, <2>4
  <1>5. \A d \in Delivery : prov[d].sends # 0 => prov'[d].sends # 0
    BY <1>3 DEF Arrive, accepted
  <1> QED BY <1>4, <1>5 DEF Request

LEMMA ArriveOutcome ==
    ASSUME RetryInv, OutcomeInv, NEW w \in Worker, Arrive(w)
    PROVE  OutcomeInv' /\ \A d \in Delivery : OutcomeStays(d)
  <1>1. UNCHANGED <<dlv, hook>> /\ wrk[w].pc = "posting"
    BY DEF Arrive, WireFrame
  <1>2. \A d \in Delivery, type \in HookTypes : hook'[<<d, type>>] # "none" => prov'[d].sends # 0
    BY <1>1, ArriveSends DEF OutcomeInv
  <1>3. \A v \in Worker \ {w} : wrk'[v] = wrk[v]
    BY ArriveKept
  <1>4. wrk'[w].answer = "accepted" => wrk'[w].pid # 0 /\ prov'[wrk[w].d].sends # 0
    BY ArriveSends
  <1>5. \A d \in Delivery : prov[d].sends # 0 => prov'[d].sends # 0
    BY ArriveSends
  <1>6. \A d \in Delivery : OutcomeRow(d)' /\ OutcomeStays(d)
    <2>1. \A v \in Worker : wrk'[v].pc # "idle" => wrk[v].pc # "idle" /\ wrk'[v].d = wrk[v].d
      BY <1>1, ArriveKept
    <2> QED BY <1>1, <1>5, <2>1 DEF OutcomeInv, OutcomeRow, OutcomeStays, Outcomes
  <1>7. ASSUME NEW v \in Worker, wrk'[v].pc = "answered", wrk'[v].answer = "accepted"
        PROVE  wrk'[v].pid # 0 /\ prov'[wrk'[v].d].sends # 0
    <2>1. CASE v = w
      <3>1. wrk'[w].d = wrk[w].d
        BY ArriveKept
      <3> QED BY <1>4, <1>7, <2>1, <3>1
    <2>2. CASE v # w
      <3>1. wrk[v].d \in Delivery /\ wrk'[v] = wrk[v]
        BY <1>3, <1>7, <2>2, JobFields DEF RetryInv, JobType
      <3> QED BY <1>5, <1>7, <3>1 DEF OutcomeInv
    <2> QED BY <2>1, <2>2
  <1> QED BY <1>2, <1>6, <1>7 DEF OutcomeInv

LEMMA LostOutcome ==
    ASSUME RetryInv, OutcomeInv, NEW w \in Worker, Timeout(w) \/ Crash(w)
    PROVE  OutcomeInv' /\ \A d \in Delivery : OutcomeStays(d)
  <1>1. UNCHANGED <<dlv, prov, hook>> /\ wrk[w] \in JobType /\ wrk[w].pc # "idle"
    BY JobFields DEF Timeout, Crash, WireFrame, RetryInv
  <1>2. wrk'[w] = NoJob \/ (wrk'[w].pc = "answered" /\ wrk'[w].answer = "lost"
                            /\ wrk'[w].d = wrk[w].d)
    <2>1. CASE Timeout(w)
      <3>1. wrk'[w] = [wrk[w] EXCEPT !.pc = "answered", !.answer = "lost"]
        BY <2>1 DEF Timeout, RetryInv, TypeOK
      <3> QED BY <1>1, <3>1 DEF JobType
    <2>2. CASE Crash(w)
      BY <2>2 DEF Crash, RetryInv, TypeOK
    <2> QED BY <2>1, <2>2
  <1>3. \A v \in Worker \ {w} : wrk'[v] = wrk[v]
    BY LostKept
  <1>4. \A v \in Worker : wrk'[v].pc # "idle" => wrk[v].pc # "idle" /\ wrk'[v].d = wrk[v].d
    BY <1>1, <1>2, <1>3 DEF NoJob
  <1>5. \A d \in Delivery : OutcomeRow(d)' /\ OutcomeStays(d)
    BY <1>1, <1>4 DEF OutcomeInv, OutcomeRow, OutcomeStays, Outcomes
  <1>6. \A v \in Worker : wrk'[v].pc = "answered" /\ wrk'[v].answer = "accepted"
                             => wrk'[v].pid # 0 /\ prov[wrk'[v].d].sends # 0
    BY <1>2, <1>3 DEF NoJob, OutcomeInv
  <1> QED BY <1>1, <1>5, <1>6 DEF OutcomeInv

LEMMA RecordOutcome ==
    ASSUME RetryInv, HolderInv, OutcomeInv, NEW w \in Worker, Record(w)
    PROVE  OutcomeInv' /\ \A d \in Delivery : OutcomeStays(d)
  <1> DEFINE j == wrk[w]
  <1>1. /\ j \in JobType /\ j.d \in Delivery /\ dlv[j.d] \in RowType /\ j.pc = "answered"
        /\ UNCHANGED <<prov, hook>>
    BY JobFields DEF Record, RetryInv, JobType, TypeOK
  <1>2. dlv[j.d].pid = 0 /\ dlv[j.d].status \notin Outcomes \cup {"accepted"}
    BY <1>1 DEF OutcomeInv, OutcomeRow
  <1>3. PICK retryAfter \in RetryAfter : dlv' = [dlv EXCEPT ![j.d] = Recorded(j, retryAfter)]
    BY DEF Record
  <1>4. dlv'[j.d] = Recorded(j, retryAfter)
    BY <1>1, <1>3 DEF RetryInv, TypeOK
  <1> DEFINE row == [dlv[j.d] EXCEPT !.lease = 0]
  <1>5. row \in RowType /\ row.pid = 0 /\ row.status \notin Outcomes
    BY <1>1, <1>2 DEF RowType
  <1>6. CASE j.answer = "accepted"
    <2>1. dlv'[j.d] = [row EXCEPT !.pid = j.pid, !.status = "accepted"]
      BY <1>4, <1>5, <1>6 DEF Recorded
    <2>2. dlv'[j.d].status = "accepted" /\ dlv'[j.d].pid = j.pid
      BY <1>5, <2>1 DEF RowType
    <2>3. \A v \in Worker : wrk'[v] = IF v = w THEN NoJob ELSE wrk[v]
      BY RecordKept
    <2>4. \A d \in Delivery \ {j.d} : dlv'[d] = dlv[d]
      BY RecordKept
    <2>5. \A v \in Worker : wrk'[v].pc # "idle" => wrk'[v].d # j.d
      BY <1>1, <2>3 DEF HolderInv, OneHolder, NoJob
    <2>6. ASSUME NEW d \in Delivery, d = j.d
          PROVE  OutcomeRow(d)' /\ OutcomeStays(d)
      BY <1>1, <1>2, <1>6, <2>2, <2>5, <2>6 DEF OutcomeInv, OutcomeRow, OutcomeStays, Outcomes
    <2>7. \A d \in Delivery \ {j.d} : OutcomeRow(d)' /\ OutcomeStays(d)
      BY <1>1, <2>3, <2>4 DEF OutcomeInv, OutcomeRow, OutcomeStays, NoJob, Outcomes
    <2>8. \A v \in Worker : wrk'[v].pc = "answered" => wrk'[v] = wrk[v]
      BY <2>3 DEF NoJob
    <2> QED BY <1>1, <2>6, <2>7, <2>8 DEF OutcomeInv
  <1>7. CASE j.answer # "accepted"
    <2>1. \E s \in {"pending", "failed"} : \E due :
             dlv'[j.d] \in {[row EXCEPT !.status = s, !.due = due], [row EXCEPT !.status = s]}
      BY <1>4, <1>7 DEF Recorded
    <2>2. dlv'[j.d].status \in {"pending", "failed"} /\ dlv'[j.d].pid = 0
      <3> HIDE DEF row
      <3> QED BY <1>5, <2>1 DEF RowType
    <2>3. \A v \in Worker : wrk'[v] = IF v = w THEN NoJob ELSE wrk[v]
      BY RecordKept
    <2>4. \A d \in Delivery \ {j.d} : dlv'[d] = dlv[d]
      BY RecordKept
    <2>5. ASSUME NEW d \in Delivery, d = j.d
          PROVE  OutcomeRow(d)' /\ OutcomeStays(d)
      BY <1>2, <2>2, <2>5 DEF OutcomeRow, OutcomeStays, Outcomes
    <2>6. \A d \in Delivery \ {j.d} : OutcomeRow(d)' /\ OutcomeStays(d)
      BY <1>1, <2>3, <2>4 DEF OutcomeInv, OutcomeRow, OutcomeStays, NoJob, Outcomes
    <2>7. \A v \in Worker : wrk'[v].pc = "answered" => wrk'[v] = wrk[v]
      BY <2>3 DEF NoJob
    <2> QED BY <1>1, <2>5, <2>6, <2>7 DEF OutcomeInv
  <1> QED BY <1>6, <1>7

LEMMA WebhookOutcome ==
    ASSUME RetryInv, OutcomeInv, NEW d \in Delivery, NEW type \in HookTypes,
           WebhookApplied(<<d, type>>)
    PROVE  OutcomeInv' /\ \A x \in Delivery : OutcomeStays(x)
  <1> DEFINE e == <<d, type>>
             rows == IF Suppresses(e) THEN Cancelling(Owner[d], Kinds) ELSE dlv
  <1>1. /\ UNCHANGED <<wrk, prov>> /\ hook[e] = "outstanding"
        /\ \A f \in Delivery, t \in HookTypes : hook'[<<f, t>>] # "none" => hook[<<f, t>>] # "none"
    BY DEF WebhookApplied, Acked, RetryInv, TypeOK
  <1>2. /\ rows \in [Delivery -> RowType]
        /\ \A x \in Delivery :
             /\ rows[x].pid = dlv[x].pid
             /\ rows[x].status = dlv[x].status
                \/ (dlv[x].status = "pending" /\ rows[x].status = "cancelled")
    BY CancellingRows, CancellingKept DEF RetryInv, TypeOK
  <1>3. dlv' = [rows EXCEPT ![d].status = WebhookStatus(dlv[d].status, type)]
    BY DEF WebhookApplied
  <1>4. dlv[d].pid # 0 /\ prov[d].sends # 0
    BY <1>1 DEF WebhookApplied, Known, OutcomeInv
  <1> HIDE DEF rows, e
  <1>5. /\ dlv'[d].pid = dlv[d].pid /\ dlv'[d].status = WebhookStatus(dlv[d].status, type)
        /\ \A x \in Delivery \ {d} : dlv'[x] = rows[x]
    BY <1>2, <1>3 DEF RowType
  <1>6. OutcomeRow(d)' /\ OutcomeStays(d)
    BY <1>1, <1>4, <1>5 DEF OutcomeInv, OutcomeRow, OutcomeStays, WebhookStatus, Outcomes, HookTypes
  <1>7. ASSUME NEW x \in Delivery \ {d}
        PROVE  OutcomeRow(x)' /\ OutcomeStays(x)
    <2>1. OutcomeRow(x) /\ Unlabelled(x) /\ dlv'[x].first = dlv[x].first
      BY <1>2, <1>5, WebhookKept DEF OutcomeInv, Unlabelled, Settlements, KeptRow
    <2> QED BY <1>1, <2>1 DEF OutcomeRow, OutcomeStays, Unlabelled, Outcomes, Settlements
  <1> QED BY <1>1, <1>6, <1>7 DEF OutcomeInv

LEMMA OutcomeStep ==
    ASSUME RetryInv, HolderInv, OutcomeInv, [Next]_vars
    PROVE  OutcomeInv' /\ \A d \in Delivery : OutcomeStays(d)
  <1>1. UNCHANGED dlv => \A d \in Delivery : Unlabelled(d) /\ KeptRow(d)
    BY DEF Unlabelled, KeptRow, RetryInv, RowOK
  <1>2. CASE ApiStep
    <2>1. \A d \in Delivery : Unlabelled(d)
      <3>1. \E u, kinds : dlv' = Cancelling(u, kinds)
        BY <1>2 DEF ApiStep, GetSettings, PutProvider, DeleteProvider, Unsubscribe, PutSettings
      <3> QED BY <3>1, CancellingKept DEF Unlabelled, Settlements
    <2>2. UNCHANGED hook
      BY <1>2 DEF ApiStep, GetSettings, PutProvider, DeleteProvider, Unsubscribe, PutSettings,
                  ApiCall
    <2> QED BY <1>2, <2>1, <2>2, ApiKept, OutcomesKept
  <1>3. CASE PrepareStep
    BY <1>3, PrepareKept, PrepareUnlabelled, OutcomesKept
  <1>4. CASE WorkerStep
    BY <1>4, ClaimOutcome, ArriveOutcome, LostOutcome, RecordOutcome DEF WorkerStep
  <1>5. CASE ProviderStep
    <2>1. ASSUME NEW r \in stray, StrayArrives(r)
          PROVE  OutcomeInv' /\ \A d \in Delivery : OutcomeStays(d)
      <3>1. \A d \in Delivery : prov[d].sends # 0 => prov'[d].sends # 0
        <4>1. \A d \in Delivery : prov'[d] = prov[d] \/ prov'[d].sends = prov[d].sends + 1
          BY <2>1 DEF StrayArrives, Accepting, RetryInv, TypeOK
        <4>2. \A d \in Delivery : prov[d].sends \in Nat
          BY DEF RetryInv, TypeOK
        <4> QED BY <4>1, <4>2
      <3>2. UNCHANGED <<dlv, wrk, hook>>
        BY <2>1 DEF StrayArrives, WireFrame
      <3>3. \A w \in Worker : wrk[w].pc = "answered" => wrk[w].d \in Delivery
        BY JobFields DEF RetryInv, JobType
      <3>4. \A d \in Delivery : OutcomeRow(d)' /\ OutcomeStays(d)
        BY <3>1, <3>2 DEF OutcomeInv, OutcomeRow, OutcomeStays, Outcomes
      <3> QED BY <3>1, <3>2, <3>3, <3>4 DEF OutcomeInv
    <2>2. ASSUME NEW d \in Delivery, NEW type \in HookTypes, ProviderReports(d, type)
          PROVE  OutcomeInv' /\ \A x \in Delivery : OutcomeStays(x)
      <3>1. UNCHANGED <<dlv, wrk, prov>> /\ prov[d].sends # 0
        BY <2>2 DEF ProviderReports, RetryInv, TypeOK
      <3>2. \A x \in Delivery, t \in HookTypes :
               hook'[<<x, t>>] # "none" => hook[<<x, t>>] # "none" \/ x = d
        BY <2>2 DEF ProviderReports, RetryInv, TypeOK
      <3> QED BY <3>1, <3>2 DEF OutcomeInv, OutcomeRow, OutcomeStays, Outcomes
    <2>3. ASSUME NEW d \in Delivery, NEW type \in HookTypes,
                 WebhookUnrelated(<<d, type>>) \/ WebhookDuplicate(<<d, type>>)
          PROVE  OutcomeInv' /\ \A x \in Delivery : OutcomeStays(x)
      <3>1. /\ UNCHANGED <<dlv, wrk, prov>>
            /\ \A x \in Delivery, t \in HookTypes :
                  hook'[<<x, t>>] # "none" => hook[<<x, t>>] # "none"
        BY <2>3 DEF WebhookUnrelated, WebhookDuplicate, Acked, RetryInv, TypeOK
      <3> QED BY <3>1 DEF OutcomeInv, OutcomeRow, OutcomeStays, Outcomes
    <2>4. ASSUME NEW d \in Delivery, NEW type \in HookTypes, WebhookApplied(<<d, type>>)
          PROVE  OutcomeInv' /\ \A x \in Delivery : OutcomeStays(x)
      BY <2>4, WebhookOutcome
    <2> QED BY <1>5, <2>1, <2>2, <2>3, <2>4 DEF ProviderStep
  <1>6. CASE EnvironmentStep \/ UNCHANGED vars
    <2>1. UNCHANGED <<dlv, wrk, prov, hook>>
      BY <1>6 DEF EnvironmentStep, Tick, IdentityChanges, ListingChanges, vars
    <2> QED BY <1>1, <2>1, OutcomesKept
  <1> QED BY <1>2, <1>3, <1>4, <1>5, <1>6 DEF Next

LEMMA OutcomeInvariant ==
    ASSUME PostDelay < LeaseTime, HoldTime < LeaseTime
    PROVE  Spec => []OutcomeInv
  <1>1. Init => OutcomeInv
    BY DEF Init, OutcomeInv, OutcomeRow, NoRow, NoJob, Outcomes
  <1>2. RetryInv /\ HolderInv /\ OutcomeInv /\ [Next]_vars => OutcomeInv'
    BY OutcomeStep
  <1> QED BY <1>1, <1>2, RetryInvariant, HolderInvariant, PTL DEF Spec

(* An outcome the provider reported is never taken back by a late record     *)
(* transaction, a cancellation or another report.                            *)
THEOREM OutcomesAreFinal ==
    ASSUME PostDelay < LeaseTime, HoldTime < LeaseTime
    PROVE  Spec => OutcomeKept
  <1>1. RetryInv /\ HolderInv /\ OutcomeInv /\ [Next]_vars
            => [\A d \in Delivery :
                   /\ dlv[d].status \in Outcomes => dlv'[d].status \in Outcomes
                   /\ dlv[d].status \in {"bounced", "complained"}
                         => dlv'[d].status # "delivered"]_vars
    BY OutcomeStep DEF OutcomeStays
  <1> QED BY <1>1, OutcomeInvariant, RetryInvariant, HolderInvariant, PTL DEF Spec, OutcomeKept

-----------------------------------------------------------------------------
(* Shared places and tested connections: what steps do to subscribers.       *)

TakesPlace(r) == r.provider = "shared" /\ ~r.suppressed /\ (r.alerts \/ r.recap)

\* a connection in use stays as it was tested, or its address was replaced
StaysActivated(old, new) ==
    Activated(new) => /\ Activated(old)
                      /\ new.version = old.version \/ new.email # old.email

\* a step that gives nobody a place and activates no connection
Mild(old, new) == (TakesPlace(new) => TakesPlace(old)) /\ StaysActivated(old, new)

LEMMA RefreshedFields ==
    ASSUME TypeOK, NEW u \in User
    PROVE  /\ Refreshed(u).provider = usr[u].provider /\ Refreshed(u).status = usr[u].status
           /\ \/ Refreshed(u).version = usr[u].version
              \/ Refreshed(u).email # usr[u].email
           /\ Refreshed(u).alerts \/ Refreshed(u).recap =>
                 /\ Refreshed(u).suppressed = usr[u].suppressed
                 /\ Refreshed(u).alerts = usr[u].alerts /\ Refreshed(u).recap = usr[u].recap
  <1>1. usr[u] \in UserType
    BY DEF TypeOK
  <1>2. CASE Moved(u)
    <2> DEFINE row == [usr[u] EXCEPT !.email = idp[u].email, !.alerts = FALSE,
                                     !.recap = FALSE, !.suppressed = FALSE,
                                     !.version = @ + 1]
    <2>1. /\ row.provider = usr[u].provider /\ row.status = usr[u].status
          /\ row.email = idp[u].email /\ ~row.alerts /\ ~row.recap
          /\ DOMAIN row = DOMAIN usr[u]
      BY <1>1 DEF UserType
    <2>2. Refreshed(u) = [row EXCEPT !.verified = idp[u].verified]
      BY <1>2 DEF Refreshed
    <2>3. idp[u].email # usr[u].email
      BY <1>2 DEF Moved
    <2> HIDE DEF row
    <2> QED BY <1>1, <2>1, <2>2, <2>3 DEF UserType
  <1>3. CASE ~Moved(u)
    BY <1>1, <1>3 DEF Refreshed, UserType
  <1> QED BY <1>2, <1>3

LEMMA RefreshedMild ==
    ASSUME TypeOK, NEW u \in User
    PROVE  Mild(usr[u], Refreshed(u))
  BY RefreshedFields DEF Mild, TakesPlace, StaysActivated, Activated

LEMMA UnchangedMild == \A r : Mild(r, r)
  BY DEF Mild, StaysActivated

\* settings may take a place; the record of a test may activate a connection
LEMMA UsersMild ==
    ASSUME RetryInv, [Next]_vars,
           \A u \in User, p \in Preferences : ~PutSettings(u, p[1], p[2]),
           \A w \in Worker : ~Record(w)
    PROVE  \A u \in User : Mild(usr[u], usr'[u])
  <1>1. TypeOK /\ usr \in [User -> UserType] /\ \A u \in User : usr[u] \in UserType
    BY DEF RetryInv, TypeOK
  <1>2. ASSUME NEW u \in User, NEW row, Mild(usr[u], row), usr' = [usr EXCEPT ![u] = row]
        PROVE  \A v \in User : Mild(usr[v], usr'[v])
    BY <1>1, <1>2, UnchangedMild
  <1>3. CASE ApiStep
    <2>1. PICK u \in User : GetSettings(u) \/ PutProvider(u) \/ DeleteProvider(u) \/ Unsubscribe(u)
      BY <1>3 DEF ApiStep
    <2>2. Refreshed(u) \in UserType /\ usr[u] \in UserType
      BY <1>1, RefreshedRow
    <2>3. CASE GetSettings(u)
      BY <1>1, <1>2, <2>3, RefreshedMild DEF GetSettings
    <2>4. CASE PutProvider(u)
      <3> DEFINE row == [Refreshed(u) EXCEPT !.provider = "byok", !.status = "needs_test",
                                             !.version = @ + 1]
      <3>1. row.provider = "byok" /\ row.status = "needs_test"
        BY <2>2 DEF UserType
      <3>2. Mild(usr[u], row)
        BY <3>1 DEF Mild, TakesPlace, StaysActivated, Activated
      <3>3. usr' = [usr EXCEPT ![u] = row]
        BY <2>4 DEF PutProvider
      <3> QED BY <1>2, <3>2, <3>3
    <2>5. CASE DeleteProvider(u)
      <3> DEFINE row == [Refreshed(u) EXCEPT !.provider = "shared", !.status = "ready",
                                             !.version = @ + 1, !.alerts = FALSE, !.recap = FALSE]
      <3>1. row.provider = "shared" /\ ~row.alerts /\ ~row.recap
        BY <2>2 DEF UserType
      <3>2. Mild(usr[u], row)
        BY <3>1 DEF Mild, TakesPlace, StaysActivated, Activated
      <3>3. usr' = [usr EXCEPT ![u] = row]
        BY <2>5 DEF DeleteProvider
      <3> QED BY <1>2, <3>2, <3>3
    <2>6. CASE Unsubscribe(u)
      <3> DEFINE row == [usr[u] EXCEPT !.alerts = FALSE, !.recap = FALSE]
      <3>1. /\ row.provider = usr[u].provider /\ row.status = usr[u].status
            /\ row.version = usr[u].version /\ ~row.alerts /\ ~row.recap
        BY <2>2 DEF UserType
      <3>2. Mild(usr[u], row)
        BY <3>1 DEF Mild, TakesPlace, StaysActivated, Activated
      <3>3. usr' = [usr EXCEPT ![u] = row]
        BY <1>1, <2>6 DEF Unsubscribe
      <3> QED BY <1>2, <3>2, <3>3
    <2> QED BY <2>1, <2>3, <2>4, <2>5, <2>6
  <1>4. CASE PrepareStep
    <2>1. PICK d \in Delivery : TestProvider(d) \/ MatchAlert(d) \/ MakeRecap(d)
      BY <1>4 DEF PrepareStep
    <2>2. Owner[d] \in User
      BY OwnerAssumption
    <2>3. CASE TestProvider(d)
      BY <1>1, <1>2, <2>2, <2>3, RefreshedMild DEF TestProvider
    <2>4. CASE MatchAlert(d) \/ MakeRecap(d)
      BY <2>4, UnchangedMild DEF MatchAlert, MakeRecap, PrepareFrame
    <2> QED BY <2>1, <2>3, <2>4
  <1>5. CASE WorkerStep
    <2>1. PICK w \in Worker : Claim(w) \/ Arrive(w) \/ Timeout(w) \/ Crash(w)
      BY <1>5 DEF WorkerStep
    <2>2. CASE Claim(w)
      <3> SUFFICES ASSUME NEW u \in User
                   PROVE  Mild(usr[u], usr'[u])
        OBVIOUS
      <3>1. PICK v \in BOOLEAN, s \in {usr[u].status, "configuration_error"} :
               usr'[u] = [usr[u] EXCEPT !.verified = v, !.status = s]
        BY <1>1, <2>2, ClaimEffect
      <3>2. /\ usr'[u].provider = usr[u].provider /\ usr'[u].suppressed = usr[u].suppressed
            /\ usr'[u].alerts = usr[u].alerts /\ usr'[u].recap = usr[u].recap
            /\ usr'[u].version = usr[u].version /\ usr'[u].status = s
        BY <1>1, <3>1 DEF UserType
      <3> QED BY <3>2 DEF Mild, TakesPlace, StaysActivated, Activated
    <2>3. CASE Arrive(w) \/ Timeout(w) \/ Crash(w)
      BY <2>3, UnchangedMild DEF Arrive, Timeout, Crash, WireFrame
    <2> QED BY <2>1, <2>2, <2>3
  <1>6. CASE ProviderStep
    <2>1. ASSUME NEW d \in Delivery, NEW type \in HookTypes, WebhookApplied(<<d, type>>)
          PROVE  \A u \in User : Mild(usr[u], usr'[u])
      <3> DEFINE u == Owner[d]
                 s == usr[u].suppressed \/ Suppresses(<<d, type>>)
                 row == [usr[u] EXCEPT !.suppressed = s]
      <3>1. u \in User /\ usr' = [usr EXCEPT ![u] = row]
        BY <1>1, <2>1, OwnerAssumption DEF WebhookApplied
      <3>2. usr[u] \in UserType
        BY <1>1, <3>1
      <3>3. ASSUME NEW r, r = row
            PROVE  Mild(usr[u], r)
        <4> HIDE DEF s
        <4>1. /\ r.provider = usr[u].provider /\ r.suppressed = s
              /\ r.alerts = usr[u].alerts /\ r.recap = usr[u].recap
              /\ r.version = usr[u].version /\ r.status = usr[u].status
          BY <3>2, <3>3 DEF UserType
        <4>2. usr[u].suppressed => s
          BY DEF s
        <4> QED BY <4>1, <4>2 DEF Mild, TakesPlace, StaysActivated, Activated
      <3> QED BY <1>2, <3>1, <3>3
    <2>2. CASE UNCHANGED usr
      BY <2>2, UnchangedMild
    <2> QED BY <1>6, <2>1, <2>2 DEF ProviderStep, ProviderReports, WebhookUnrelated,
                  WebhookDuplicate, StrayArrives, WireFrame
  <1>7. CASE EnvironmentStep \/ UNCHANGED vars
    BY <1>7, UnchangedMild DEF EnvironmentStep, Tick, IdentityChanges, ListingChanges, vars
  <1> QED BY <1>3, <1>4, <1>5, <1>6, <1>7 DEF Next

\* the row settings write: a place only if one is free, and the same connection
LEMMA SettingsUsers ==
    ASSUME RetryInv, NEW u \in User, NEW p \in Preferences, PutSettings(u, p[1], p[2])
    PROVE  /\ TakesPlace(usr'[u]) => HasPlace(u) /\ usr[u].provider = "shared"
           /\ StaysActivated(usr[u], usr'[u])
           /\ \A v \in User \ {u} : usr'[v] = usr[v]
  <1>1. TypeOK /\ usr \in [User -> UserType] /\ Refreshed(u) \in UserType
    BY RefreshedRow DEF RetryInv, TypeOK
  <1>2. usr'[u] = [Refreshed(u) EXCEPT !.alerts = p[1], !.recap = p[2]]
    BY <1>1 DEF PutSettings
  <1>3. /\ usr'[u].provider = usr[u].provider /\ usr'[u].status = usr[u].status
        /\ usr'[u].alerts = p[1] /\ usr'[u].recap = p[2]
        /\ usr'[u].version = usr[u].version \/ usr'[u].email # usr[u].email
    BY <1>1, <1>2, RefreshedFields DEF UserType
  <1>4. p[1] \/ p[2] => HasPlace(u)
    BY DEF PutSettings
  <1>5. \A v \in User \ {u} : usr'[v] = usr[v]
    BY <1>1 DEF PutSettings
  <1> QED BY <1>3, <1>4, <1>5 DEF TakesPlace, StaysActivated, Activated

\* the record of an answer changes the status of one connection
LEMMA RecordUsers ==
    ASSUME RetryInv, NEW w \in Worker, Record(w), NEW u \in User
    PROVE  /\ TakesPlace(usr'[u]) <=> TakesPlace(usr[u])
           /\ usr'[u].provider = usr[u].provider /\ usr'[u].version = usr[u].version
           /\ usr'[u].status = IF u = Owner[wrk[w].d] THEN ConnectionStatus(wrk[w])
                                                      ELSE usr[u].status
  <1>1. usr \in [User -> UserType] /\ usr[u] \in UserType
    BY DEF RetryInv, TypeOK
  <1>2. usr' = [usr EXCEPT ![Owner[wrk[w].d]].status = ConnectionStatus(wrk[w])]
    BY DEF Record
  <1>3. usr'[u] = IF u = Owner[wrk[w].d] THEN [usr[u] EXCEPT !.status = ConnectionStatus(wrk[w])]
                                         ELSE usr[u]
    BY <1>1, <1>2
  <1> QED BY <1>1, <1>3 DEF UserType, TakesPlace

LEMMA PlacesKept ==
    ASSUME SharedPlacesBound, \A u \in User : TakesPlace(usr'[u]) => TakesPlace(usr[u])
    PROVE  SharedPlacesBound'
  <1> DEFINE taken == {u \in User : TakesPlace(usr[u])}
             later == {u \in User : TakesPlace(usr'[u])}
  <1>1. IsFiniteSet(taken) /\ Cardinality(taken) <= SharedPlaces
    BY UserAssumption, FS_Subset DEF SharedPlacesBound, TakesPlace
  <1>2. later \in SUBSET taken
    OBVIOUS
  <1>3. Cardinality(later) <= Cardinality(taken)
    BY <1>1, <1>2, FS_Subset
  <1>4. Cardinality(later) \in Nat /\ Cardinality(taken) \in Nat /\ SharedPlaces \in Nat
    BY <1>1, <1>2, FS_Subset, FS_CardinalityType, LimitAssumption
  <1> HIDE DEF taken
  <1>5. Cardinality(later) <= SharedPlaces
    BY <1>1, <1>3, <1>4
  <1> QED BY <1>5 DEF SharedPlacesBound, TakesPlace

(* shared_capacity() admits a subscriber while a place is free, and nothing  *)
(* else gives one: the places of the shared account are never exceeded,      *)
(* whatever is removed, suppressed, tested or moved meanwhile.               *)
THEOREM PlacesSuffice == Spec => []SharedPlacesBound
  <1>1. Init => SharedPlacesBound
    <2> SUFFICES ASSUME Init PROVE SharedPlacesBound
      OBVIOUS
    <2>1. {u \in User : TakesPlace(usr[u])} = {}
      BY DEF Init, TakesPlace
    <2>2. Cardinality({u \in User : TakesPlace(usr[u])}) = 0
      BY <2>1, FS_EmptySet
    <2>3. Cardinality({u \in User : TakesPlace(usr[u])}) <= SharedPlaces
      BY <2>2, LimitAssumption
    <2> QED BY <2>3 DEF SharedPlacesBound, TakesPlace
  <1>2. RetryInv /\ SharedPlacesBound /\ [Next]_vars => SharedPlacesBound'
    <2> SUFFICES ASSUME RetryInv, SharedPlacesBound, [Next]_vars
                 PROVE  SharedPlacesBound'
      OBVIOUS
    <2>1. ASSUME NEW u \in User, NEW p \in Preferences, PutSettings(u, p[1], p[2])
          PROVE  SharedPlacesBound'
      <3>1. /\ TakesPlace(usr'[u]) => HasPlace(u) /\ usr[u].provider = "shared"
            /\ \A v \in User \ {u} : usr'[v] = usr[v]
        BY <2>1, SettingsUsers
      <3>2. CASE ~TakesPlace(usr'[u])
        BY <3>1, <3>2, PlacesKept
      <3>3. CASE TakesPlace(usr'[u])
        <4> DEFINE others == SharedUsers(usr, u)
                   later == {v \in User : TakesPlace(usr'[v])}
        <4>1. IsFiniteSet(others) /\ Cardinality(others) \in Nat
          BY UserAssumption, FS_Subset, FS_CardinalityType DEF SharedUsers
        <4>2. Cardinality(others) < SharedPlaces
          BY <3>1, <3>3 DEF HasPlace
        <4>3. later \in SUBSET (others \cup {u})
          BY <3>1 DEF SharedUsers, TakesPlace
        <4> HIDE DEF others, later
        <4>4. /\ IsFiniteSet(others \cup {u})
              /\ Cardinality(others \cup {u}) <= Cardinality(others) + 1
              /\ Cardinality(others \cup {u}) \in Nat
          <5>1. IsFiniteSet(others \cup {u})
            BY <4>1, FS_AddElement
          <5>2. Cardinality(others \cup {u}) =
                  IF u \in others THEN Cardinality(others) ELSE Cardinality(others) + 1
            BY <4>1, FS_AddElement
          <5>3. Cardinality(others \cup {u}) \in Nat
            BY <5>1, FS_CardinalityType
          <5> QED BY <4>1, <5>1, <5>2, <5>3
        <4>5. Cardinality(later) <= Cardinality(others \cup {u}) /\ Cardinality(later) \in Nat
          BY <4>3, <4>4, FS_Subset, FS_CardinalityType
        <4>6. Cardinality(later) <= SharedPlaces
          BY <4>1, <4>2, <4>4, <4>5, LimitAssumption
        <4> QED BY <4>6 DEF SharedPlacesBound, TakesPlace, later
      <3> QED BY <3>2, <3>3
    <2>2. ASSUME NEW w \in Worker, Record(w)
          PROVE  SharedPlacesBound'
      BY <2>2, RecordUsers, PlacesKept
    <2>3. CASE /\ \A u \in User, p \in Preferences : ~PutSettings(u, p[1], p[2])
               /\ \A w \in Worker : ~Record(w)
      BY <2>3, UsersMild, PlacesKept DEF Mild
    <2> QED BY <2>1, <2>2, <2>3
  <1> QED BY <1>1, <1>2, RetryInvariant, PTL DEF Spec

-----------------------------------------------------------------------------
(* Limits.                                                                   *)

ChargesFit(a) == /\ Cardinality(ChargedSince(a, dlv, Day)) <= DailyLimit
                 /\ Cardinality(ChargedSince(a, dlv, Month)) <= MonthlyLimit

LEMMA ChargesFinite ==
    \A a, span : /\ IsFiniteSet(ChargedSince(a, dlv, span))
                 /\ Cardinality(ChargedSince(a, dlv, span)) \in Nat
  <1> SUFFICES ASSUME NEW a, NEW span
               PROVE  /\ IsFiniteSet(ChargedSince(a, dlv, span))
                      /\ Cardinality(ChargedSince(a, dlv, span)) \in Nat
    OBVIOUS
  <1>1. ChargedSince(a, dlv, span) \in SUBSET Delivery
    BY DEF ChargedSince, Charged
  <1>2. IsFiniteSet(ChargedSince(a, dlv, span))
    BY <1>1, DeliveryAssumption, FS_Subset
  <1> QED BY <1>2, FS_CardinalityType

\* a charge is never moved to another account, and grows old
LEMMA ChargesShrink ==
    ASSUME RetryInv, RetryInv', now <= now', NEW a, NEW span \in Nat, NEW new,
           \A d \in Delivery \ new : /\ dlv'[d].first = dlv[d].first
                                     /\ dlv[d].first # 0 => dlv'[d].acct = dlv[d].acct
    PROVE  ChargedSince(a, dlv, span)' \subseteq ChargedSince(a, dlv, span) \cup new
  <1> SUFFICES ASSUME NEW d \in Delivery \ new, d \in ChargedSince(a, dlv, span)'
               PROVE  d \in ChargedSince(a, dlv, span)
    BY DEF ChargedSince, Charged
  <1>1. dlv'[d].acct = a /\ dlv'[d].first # 0 /\ dlv'[d].first >= now' - span
    BY DEF ChargedSince, Charged
  <1>2. dlv[d].acct = a /\ dlv[d].first # 0 /\ dlv[d].first >= now' - span
    BY <1>1
  <1>3. dlv[d].first \in Nat /\ now \in Nat /\ now' \in Nat
    BY DEF RetryInv, TypeOK, RowType
  <1>4. dlv[d].first >= now - span
    BY <1>2, <1>3
  <1> QED BY <1>2, <1>4 DEF ChargedSince, Charged

\* a row first charged now had room in its account's budget
LEMMA FirstCharge ==
    ASSUME RetryInv, RetryInv', UNCHANGED now, NEW f \in Delivery, NEW a, NEW dropped,
           Budget(AccountOf(Owner[f]), KindOf[f], dropped),
           dlv'[f].acct = AccountOf(Owner[f]), ChargesFit(a),
           \A d \in Delivery \ {f} : /\ dlv'[d].first = dlv[d].first
                                     /\ dlv[d].first # 0 => dlv'[d].acct = dlv[d].acct
    PROVE  ChargesFit(a)'
  <1>1. Day \in Nat /\ Month \in Nat /\ now \in Nat /\ now <= now'
    BY DurationAssumption DEF RetryInv, TypeOK
  <1>2. DailyLimit \in Nat /\ MonthlyLimit \in Nat /\ MonthDays \in Nat
    BY LimitAssumption
  <1>3. CASE a # AccountOf(Owner[f])
    <2>1. \A span \in Nat : ChargedSince(a, dlv, span)' \subseteq ChargedSince(a, dlv, span)
      <3> TAKE span \in Nat
      <3>1. ChargedSince(a, dlv, span)' \subseteq ChargedSince(a, dlv, span) \cup {f}
        BY <1>1, ChargesShrink
      <3>2. f \notin ChargedSince(a, dlv, span)'
        BY <1>3 DEF ChargedSince, Charged
      <3> QED BY <3>1, <3>2
    <2>2. \A span \in Nat : Cardinality(ChargedSince(a, dlv, span)')
                              <= Cardinality(ChargedSince(a, dlv, span))
      BY <2>1, ChargesFinite, FS_Subset
    <2>3. \A span \in Nat : Cardinality(ChargedSince(a, dlv, span)') \in Nat
      BY <2>1, ChargesFinite, FS_Subset, FS_CardinalityType
    <2> QED BY <1>1, <1>2, <2>2, <2>3, ChargesFinite DEF ChargesFit
  <1>4. CASE a = AccountOf(Owner[f])
    <2> DEFINE recaps == IF KindOf[f] = "recap" THEN 0
                         ELSE Cardinality(RecapUsers(a, dropped))
    <2>1. recaps \in Nat
      <3>1. IsFiniteSet(RecapUsers(a, dropped))
        BY UserAssumption, FS_Subset DEF RecapUsers
      <3> QED BY <3>1, FS_CardinalityType
    <2>2. /\ Cardinality(ChargedSince(a, dlv, Day)) < DailyLimit - recaps
          /\ Cardinality(ChargedSince(a, dlv, Month)) < MonthlyLimit - recaps * MonthDays
      BY <1>4 DEF Budget
    <2> HIDE DEF recaps
    <2>3. recaps * MonthDays \in Nat
      BY <1>2, <2>1
    <2>4. /\ Cardinality(ChargedSince(a, dlv, Day)) < DailyLimit
          /\ Cardinality(ChargedSince(a, dlv, Month)) < MonthlyLimit
      BY <1>2, <2>1, <2>2, <2>3, ChargesFinite
    <2>5. ASSUME NEW span \in Nat
          PROVE  /\ Cardinality(ChargedSince(a, dlv, span)') \in Nat
                 /\ Cardinality(ChargedSince(a, dlv, span)')
                      <= Cardinality(ChargedSince(a, dlv, span)) + 1
      <3> DEFINE old == ChargedSince(a, dlv, span)
                 later == ChargedSince(a, dlv, span)'
      <3>1. later \in SUBSET (old \cup {f})
        BY <1>1, ChargesShrink
      <3>2. IsFiniteSet(old) /\ Cardinality(old) \in Nat
        BY ChargesFinite
      <3> HIDE DEF old, later
      <3>3. IsFiniteSet(old \cup {f})
        BY <3>2, FS_AddElement
      <3>4. Cardinality(old \cup {f}) = IF f \in old THEN Cardinality(old) ELSE Cardinality(old) + 1
        BY <3>2, FS_AddElement
      <3>5. Cardinality(later) <= Cardinality(old \cup {f}) /\ IsFiniteSet(later)
        BY <3>1, <3>3, FS_Subset
      <3>6. Cardinality(later) \in Nat
        BY <3>5, FS_CardinalityType
      <3>7. Cardinality(later) <= Cardinality(old) + 1
        BY <3>2, <3>4, <3>5, <3>6
      <3> QED BY <3>6, <3>7 DEF old, later
    <2> QED BY <1>1, <1>2, <2>4, <2>5, ChargesFinite DEF ChargesFit
  <1> QED BY <1>3, <1>4

\* a step that charges nothing
LEMMA ChargesKept ==
    ASSUME RetryInv, RetryInv', now <= now', \A d \in Delivery : KeptRow(d),
           NEW a, ChargesFit(a)
    PROVE  ChargesFit(a)'
  <1>1. \A span \in Nat : ChargedSince(a, dlv, span)' \subseteq ChargedSince(a, dlv, span)
    <2> TAKE span \in Nat
    <2>1. ChargedSince(a, dlv, span)' \subseteq ChargedSince(a, dlv, span) \cup {}
      BY ChargesShrink DEF KeptRow
    <2> QED BY <2>1
  <1>2. \A span \in Nat : Cardinality(ChargedSince(a, dlv, span)')
                            <= Cardinality(ChargedSince(a, dlv, span))
    BY <1>1, ChargesFinite, FS_Subset
  <1>3. \A span \in Nat : Cardinality(ChargedSince(a, dlv, span)') \in Nat
    BY <1>1, ChargesFinite, FS_Subset, FS_CardinalityType
  <1> QED BY <1>2, <1>3, ChargesFinite, DurationAssumption, LimitAssumption DEF ChargesFit

(* budget(): in any rolling day and month the deliveries first attempted     *)
(* through an account stay within its limits, whatever becomes of them, for  *)
(* a row is charged once and to the account of its connection version.       *)
THEOREM BudgetHolds == Spec => []ChargedWithinLimits
  <1>1. Init => ChargedWithinLimits
    <2> SUFFICES ASSUME Init, NEW a \in Account
                 PROVE  ChargesFit(a)
      BY DEF ChargedWithinLimits, ChargesFit
    <2>1. \A span : ChargedSince(a, dlv, span) = {}
      BY DEF Init, NoRow, ChargedSince, Charged
    <2>2. \A span : Cardinality(ChargedSince(a, dlv, span)) = 0
      BY <2>1, FS_EmptySet
    <2> QED BY <2>2, LimitAssumption DEF ChargesFit
  <1>2. RetryInv /\ ChargedWithinLimits /\ RetryInv' /\ [Next]_vars => ChargedWithinLimits'
    <2> SUFFICES ASSUME RetryInv, ChargedWithinLimits, RetryInv', [Next]_vars,
                        NEW a \in Account
                 PROVE  ChargesFit(a)'
      BY DEF ChargedWithinLimits, ChargesFit
    <2>1. ChargesFit(a) /\ now <= now
      BY DEF ChargedWithinLimits, ChargesFit, RetryInv, TypeOK
    <2>2. UNCHANGED dlv => \A d \in Delivery : KeptRow(d)
      BY DEF KeptRow, RetryInv, RowOK
    <2>3. CASE UNCHANGED now /\ \A d \in Delivery : KeptRow(d)
      BY <2>1, <2>3, ChargesKept
    <2>4. ASSUME NEW w \in Worker, Claim(w)
          PROVE  ChargesFit(a)'
      <3>1. UNCHANGED now
        BY <2>4 DEF Claim
      <3>2. CASE \A d \in Delivery : Rewritten(d)
        BY <2>3, <3>1, <3>2, RewrittenKept
      <3>3. ASSUME NEW f \in Candidates, LeasedBy(w, f)
            PROVE  ChargesFit(a)'
        <4>1. \A d \in Delivery \ {f} : KeptRow(d)
          BY <3>3, RewrittenKept DEF LeasedBy
        <4>2. CASE dlv[f].first # 0
          <5>1. dlv'[f].first = dlv[f].first /\ dlv'[f].acct = dlv[f].acct
            BY <2>4, <3>3, <4>2, LeasedKept
          <5>2. \A d \in Delivery : /\ dlv'[d].first = dlv[d].first
                                    /\ dlv[d].first # 0 => dlv'[d].acct = dlv[d].acct
            BY <4>1, <5>1 DEF KeptRow
          <5>3. \A span \in Nat : ChargedSince(a, dlv, span)' \subseteq ChargedSince(a, dlv, span)
            <6> TAKE span \in Nat
            <6>1. ChargedSince(a, dlv, span)' \subseteq ChargedSince(a, dlv, span) \cup {}
              BY <2>1, <3>1, <5>2, ChargesShrink
            <6> QED BY <6>1
          <5>4. \A span \in Nat : Cardinality(ChargedSince(a, dlv, span)')
                                    <= Cardinality(ChargedSince(a, dlv, span))
            BY <5>3, ChargesFinite, FS_Subset
          <5>5. \A span \in Nat : Cardinality(ChargedSince(a, dlv, span)') \in Nat
            BY <5>3, ChargesFinite, FS_Subset, FS_CardinalityType
          <5> QED BY <2>1, <5>4, <5>5, ChargesFinite, DurationAssumption, LimitAssumption
                  DEF ChargesFit
        <4>3. CASE dlv[f].first = 0
          <5>1. PICK dropped : Budget(AccountOf(Owner[f]), KindOf[f], dropped)
            BY <3>3, <4>3 DEF LeasedBy
          <5>2. f \in Delivery /\ dlv'[f].acct = AccountOf(Owner[f])
            BY <2>4, <3>3, LeasedKept
          <5> QED BY <2>1, <3>1, <4>1, <5>1, <5>2, FirstCharge DEF KeptRow
        <4> QED BY <4>2, <4>3
      <3> QED BY <2>4, <3>2, <3>3, ClaimEffect DEF RetryInv
    <2>5. CASE ApiStep
      BY <2>3, <2>5, ApiKept
    <2>6. CASE PrepareStep
      BY <2>3, <2>6, PrepareKept
    <2>7. ASSUME NEW w \in Worker, Arrive(w) \/ Timeout(w) \/ Crash(w) \/ Record(w)
          PROVE  ChargesFit(a)'
      <3>1. CASE Record(w)
        BY <2>3, <3>1, RecordKept
      <3>2. CASE Arrive(w) \/ Timeout(w) \/ Crash(w)
        BY <2>2, <2>3, <3>2 DEF Arrive, Timeout, Crash, WireFrame
      <3> QED BY <2>7, <3>1, <3>2
    <2>8. CASE ProviderStep
      <3>1. ASSUME NEW d \in Delivery, NEW type \in HookTypes, WebhookApplied(<<d, type>>)
            PROVE  ChargesFit(a)'
        BY <2>3, <3>1, WebhookKept
      <3>2. CASE UNCHANGED <<now, dlv>>
        BY <2>2, <2>3, <3>2
      <3> QED BY <2>8, <3>1, <3>2 DEF ProviderStep, ProviderReports, WebhookUnrelated,
                    WebhookDuplicate, Acked, StrayArrives, WireFrame
    <2>9. CASE Tick
      <3>1. now <= now' /\ UNCHANGED dlv
        BY <2>9, TickKept DEF Tick
      <3> QED BY <2>1, <2>2, <3>1, ChargesKept
    <2>10. CASE UNCHANGED <<now, dlv>>
      BY <2>2, <2>3, <2>10
    <2>11. CASE EnvironmentStep \/ UNCHANGED vars
      BY <2>9, <2>10, <2>11 DEF EnvironmentStep, IdentityChanges, ListingChanges, vars
    <2> QED BY <2>4, <2>5, <2>6, <2>7, <2>8, <2>11 DEF Next, WorkerStep
  <1> QED BY <1>1, <1>2, RetryInvariant, PTL DEF Spec

-----------------------------------------------------------------------------
(* Connections.                                                              *)

\* a row has a body from its first attempt on, rendered for its connection version
TextOK(d) == IF dlv[d].first = 0 THEN dlv[d].body = NoBody
                                 ELSE dlv[d].body.from = dlv[d].version

\* a worker told that its message was accepted was told so by the provider
AnswerOK(w) == wrk[w].pc = "answered" /\ wrk[w].answer = "accepted"
                  => prov[wrk[w].d].sends # 0

TestInv == (\A d \in Delivery : TextOK(d)) /\ (\A w \in Worker : AnswerOK(w))

\* rows that no claim touches
TextKept(d) == KeptRow(d) /\ (dlv[d].first = 0 => dlv'[d].body \in {dlv[d].body, NoBody})

LEMMA TextsKept ==
    ASSUME NEW d \in Delivery, TextOK(d), TextKept(d)
    PROVE  TextOK(d)'
  BY DEF TextOK, TextKept, KeptRow

LEMMA PrepareText ==
    ASSUME RetryInv, PrepareStep
    PROVE  \A d \in Delivery : TextKept(d)
  <1>1. PICK d \in Delivery : TestProvider(d) \/ MatchAlert(d) \/ MakeRecap(d)
    BY DEF PrepareStep
  <1>2. /\ dlv \in [Delivery -> RowType] /\ \A x \in Delivery : KeptRow(x) /\ dlv[x] \in RowType
        /\ NewRow.body = NoBody /\ NewRow \in RowType
    BY PrepareKept, NewRowType DEF RetryInv, TypeOK, NewRow, NoRow
  <1> SUFFICES ASSUME NEW x \in Delivery
               PROVE  dlv'[x].body \in {dlv[x].body, NoBody}
    BY <1>2 DEF TextKept
  <1>3. CASE TestProvider(d)
    <2>1. PICK kinds : dlv' = [Cancelling(Owner[d], kinds) EXCEPT ![d] = NewRow]
      BY <1>3 DEF TestProvider
    <2> QED BY <1>2, <2>1, CancellingKept, CancellingRows DEF RetryInv
  <1>4. CASE MatchAlert(d)
    BY <1>2, <1>4 DEF MatchAlert
  <1>5. CASE MakeRecap(d)
    <2> DEFINE row == IF dlv[d].status = "absent" THEN NewRow
                      ELSE [dlv[d] EXCEPT !.body = NoBody, !.due = now]
               rows == [dlv EXCEPT ![d] = row]
    <2>1. PICK alerts : dlv' = Folded(rows, alerts)
      BY <1>5 DEF MakeRecap
    <2>2. row.body = NoBody /\ row \in RowType
      BY <1>2, RerenderedType DEF RowType, RetryInv
    <2> HIDE DEF row
    <2>3. rows[x] \in RowType /\ rows[x].body \in {dlv[x].body, NoBody}
      BY <1>2, <2>2
    <2> HIDE DEF rows
    <2>4. dlv'[x] = rows[x] \/ dlv'[x] = [rows[x] EXCEPT !.status = "recap_only"]
      BY <2>1 DEF Folded
    <2> QED BY <2>3, <2>4 DEF RowType
  <1> QED BY <1>1, <1>3, <1>4, <1>5

LEMMA RewrittenText ==
    ASSUME RetryInv, NEW d \in Delivery, Rewritten(d)
    PROVE  TextKept(d)
  <1>1. dlv[d] \in RowType
    BY DEF RetryInv, TypeOK
  <1>2. dlv'[d].body = dlv[d].body
    BY <1>1 DEF Rewritten, RowType
  <1> QED BY <1>2, RewrittenKept DEF TextKept

LEMMA ClaimText ==
    ASSUME RetryInv, NEW w \in Worker, Claim(w), \A d \in Delivery : TextOK(d)
    PROVE  \A d \in Delivery : TextOK(d)'
  <1>1. CASE \A d \in Delivery : Rewritten(d)
    BY <1>1, RewrittenText, TextsKept
  <1>2. ASSUME NEW f \in Candidates, LeasedBy(w, f)
        PROVE  \A d \in Delivery : TextOK(d)'
    <2>1. \A d \in Delivery \ {f} : TextOK(d)'
      BY <1>2, RewrittenText, TextsKept DEF LeasedBy
    <2>2. f \in Delivery /\ dlv[f] \in RowType /\ RowOK(f) /\ ~Reconnected(f) /\ now \in Nat
      BY <1>2 DEF Candidates, RetryInv, TypeOK, LeasedBy
    <2>3. /\ dlv'[f].body = Payload(f) /\ dlv'[f].version = usr[Owner[f]].version
          /\ dlv'[f].first # 0
      <3>1. now # 0
        BY DurationAssumption DEF RetryInv
      <3> QED BY <1>2, <3>1, LeasedKept
    <2>4. Payload(f).from = usr[Owner[f]].version
      <3>1. CASE dlv[f].first = 0
        BY <2>2, <3>1 DEF TextOK, Payload, Rendered
      <3>2. CASE dlv[f].first # 0
        <4>1. dlv[f].body # NoBody /\ dlv[f].version = usr[Owner[f]].version
          BY <2>2, <3>2 DEF RowOK, Reconnected
        <4> QED BY <2>2, <3>2, <4>1 DEF TextOK, Payload
      <3> QED BY <3>1, <3>2
    <2>5. ASSUME NEW d \in Delivery, d = f
          PROVE  TextOK(d)'
      BY <2>3, <2>4, <2>5 DEF TextOK
    <2> QED BY <2>1, <2>5
  <1> QED BY <1>1, <1>2, ClaimEffect DEF RetryInv

LEMMA TestStep == RetryInv /\ TestInv /\ [Next]_vars => TestInv'
  <1> SUFFICES ASSUME RetryInv, TestInv, [Next]_vars
               PROVE  TestInv'
    OBVIOUS
  <1>1. UNCHANGED dlv => \A d \in Delivery : TextKept(d)
    BY DEF TextKept, KeptRow, RetryInv, RowOK
  <1>2. ASSUME \A d \in Delivery : TextKept(d), UNCHANGED prov,
               \A w \in Worker : wrk'[w] = wrk[w] \/ wrk'[w] = NoJob
        PROVE  TestInv'
    <2>1. \A w \in Worker : wrk'[w].pc = "answered" => wrk'[w] = wrk[w]
      BY <1>2 DEF NoJob
    <2>2. \A w \in Worker : AnswerOK(w)'
      BY <1>2, <2>1 DEF AnswerOK, TestInv
    <2> QED BY <1>2, <2>2, TextsKept DEF TestInv
  <1>3. CASE ApiStep
    <2>1. \E u, kinds : dlv' = Cancelling(u, kinds)
      BY <1>3 DEF ApiStep, GetSettings, PutProvider, DeleteProvider, Unsubscribe, PutSettings
    <2>2. \A d \in Delivery : TextKept(d)
      BY <1>3, <2>1, ApiKept, CancellingKept DEF TextKept
    <2> QED BY <1>2, <1>3, <2>2, ApiKept
  <1>4. CASE PrepareStep
    BY <1>2, <1>4, PrepareKept, PrepareText
  <1>5. ASSUME NEW w \in Worker, Claim(w)
        PROVE  TestInv'
    <2>1. \A v \in Worker : wrk'[v].pc = "answered" => wrk'[v] = wrk[v]
      <3>1. CASE wrk' = wrk
        BY <3>1
      <3>2. ASSUME NEW f \in Candidates, LeasedBy(w, f)
            PROVE  \A v \in Worker : wrk'[v].pc = "answered" => wrk'[v] = wrk[v]
        <4>1. f \in Delivery /\ \A v \in Worker : wrk'[v] = IF v = w THEN Job(f) ELSE wrk[v]
          BY <3>2 DEF LeasedBy, RetryInv, TypeOK, Candidates
        <4> QED BY <4>1, JobRow DEF RetryInv
      <3> QED BY <1>5, <3>1, <3>2, ClaimEffect DEF RetryInv
    <2>2. UNCHANGED prov
      BY <1>5 DEF Claim
    <2>3. \A v \in Worker : AnswerOK(v)'
      BY <2>1, <2>2 DEF AnswerOK, TestInv
    <2> QED BY <1>5, <2>3, ClaimText DEF TestInv
  <1>6. ASSUME NEW w \in Worker, Arrive(w)
        PROVE  TestInv'
    <2>1. /\ \A v \in Worker : wrk'[v] = wrk[v] \/ v = w
          /\ wrk'[w].d = wrk[w].d /\ UNCHANGED dlv
      BY <1>6, ArriveKept DEF Arrive, WireFrame
    <2>2. \A d \in Delivery : prov[d].sends # 0 => prov'[d].sends # 0
      BY <1>6, ArriveSends
    <2>3. AnswerOK(w)'
      BY <1>6, <2>1, ArriveSends DEF AnswerOK
    <2>4. ASSUME NEW v \in Worker, v # w
          PROVE  AnswerOK(v)'
      <3>1. wrk'[v] = wrk[v] /\ AnswerOK(v)
        BY <2>1, <2>4 DEF TestInv
      <3>2. wrk[v].pc = "answered" => wrk[v].d \in Delivery
        BY JobFields DEF RetryInv, JobType
      <3> QED BY <2>2, <3>1, <3>2 DEF AnswerOK
    <2>5. \A d \in Delivery : TextOK(d)'
      BY <1>1, <2>1, TextsKept DEF TestInv
    <2> QED BY <2>3, <2>4, <2>5 DEF TestInv
  <1>7. ASSUME NEW w \in Worker, Timeout(w) \/ Crash(w)
        PROVE  TestInv'
    <2>1. UNCHANGED <<dlv, prov>> /\ \A v \in Worker \ {w} : wrk'[v] = wrk[v]
      BY <1>7, LostKept DEF Timeout, Crash, WireFrame
    <2>2. wrk'[w].pc # "answered" \/ wrk'[w].answer # "accepted"
      <3>1. CASE Timeout(w)
        <4>1. wrk[w] \in JobType
          BY <3>1, JobFields DEF Timeout, RetryInv
        <4>2. wrk'[w] = [wrk[w] EXCEPT !.pc = "answered", !.answer = "lost"]
          BY <3>1 DEF Timeout, RetryInv, TypeOK
        <4> QED BY <4>1, <4>2 DEF JobType
      <3>2. CASE Crash(w)
        BY <3>2 DEF Crash, RetryInv, TypeOK, NoJob
      <3> QED BY <1>7, <3>1, <3>2
    <2>3. \A v \in Worker : AnswerOK(v)'
      BY <2>1, <2>2 DEF AnswerOK, TestInv
    <2> QED BY <1>1, <2>1, <2>3, TextsKept DEF TestInv
  <1>8. ASSUME NEW w \in Worker, Record(w)
        PROVE  TestInv'
    <2>1. dlv[wrk[w].d].first # 0
      BY <1>8 DEF RetryInv, JobOK, Record
    <2>2. \A d \in Delivery : TextKept(d)
      BY <1>8, <2>1, RecordKept DEF TextKept
    <2> QED BY <1>2, <1>8, <2>2, RecordKept
  <1>9. CASE ProviderStep
    <2>1. ASSUME NEW r \in stray, StrayArrives(r)
          PROVE  TestInv'
      <3>1. UNCHANGED <<dlv, wrk>>
        BY <2>1 DEF StrayArrives, WireFrame
      <3>2. \A d \in Delivery : prov[d].sends # 0 => prov'[d].sends # 0
        <4>1. \A d \in Delivery : prov'[d] = prov[d] \/ prov'[d].sends = prov[d].sends + 1
          BY <2>1 DEF StrayArrives, Accepting, RetryInv, TypeOK
        <4>2. \A d \in Delivery : prov[d].sends \in Nat
          BY DEF RetryInv, TypeOK
        <4> QED BY <4>1, <4>2
      <3>3. \A w \in Worker : wrk[w].pc = "answered" => wrk[w].d \in Delivery
        BY JobFields DEF RetryInv, JobType
      <3>4. \A w \in Worker : AnswerOK(w)'
        BY <3>1, <3>2, <3>3 DEF AnswerOK, TestInv
      <3> QED BY <1>1, <3>1, <3>4, TextsKept DEF TestInv
    <2>2. ASSUME NEW d \in Delivery, NEW type \in HookTypes, WebhookApplied(<<d, type>>)
          PROVE  TestInv'
      <3>1. \A x \in Delivery : dlv'[x].body = dlv[x].body
        <4> DEFINE rows == IF Suppresses(<<d, type>>) THEN Cancelling(Owner[d], Kinds) ELSE dlv
        <4>1. /\ rows \in [Delivery -> RowType]
              /\ \A x \in Delivery : rows[x].body = dlv[x].body
          BY CancellingRows, CancellingKept DEF RetryInv, TypeOK
        <4>2. dlv' = [rows EXCEPT ![d].status = WebhookStatus(dlv[d].status, type)]
          BY <2>2 DEF WebhookApplied
        <4> HIDE DEF rows
        <4> QED BY <4>1, <4>2 DEF RowType
      <3>2. \A x \in Delivery : TextKept(x)
        BY <2>2, <3>1, WebhookKept DEF TextKept
      <3> QED BY <1>2, <2>2, <3>2, WebhookKept
    <2>3. CASE UNCHANGED <<dlv, wrk, prov>>
      BY <1>1, <1>2, <2>3
    <2> QED BY <1>9, <2>1, <2>2, <2>3 DEF ProviderStep, ProviderReports, WebhookUnrelated,
                  WebhookDuplicate, Acked
  <1>10. CASE EnvironmentStep \/ UNCHANGED vars
    <2>1. UNCHANGED <<dlv, wrk, prov>>
      BY <1>10 DEF EnvironmentStep, Tick, IdentityChanges, ListingChanges, vars
    <2> QED BY <1>1, <1>2, <2>1
  <1> QED BY <1>3, <1>4, <1>5, <1>6, <1>7, <1>8, <1>9, <1>10 DEF Next, WorkerStep

LEMMA TestInvariant == Spec => []TestInv
  <1>1. Init => TestInv
    BY DEF Init, TestInv, TextOK, AnswerOK, NoRow, NoJob
  <1> QED BY <1>1, TestStep, RetryInvariant, PTL DEF Spec

(* A private connection becomes ready only by the record of a test message   *)
(* that the provider accepted on that very version of the connection, and a  *)
(* ready one keeps its version unless its address is replaced: no late test  *)
(* of older credentials, no refresh and no claim makes one ready.            *)
THEOREM ConnectionsAreTested == Spec => ReadyIsTested
  <1> DEFINE tested(u) ==
        \E d \in Delivery : /\ Owner[d] = u /\ KindOf[d] = "test"
                            /\ dlv'[d].version = usr'[u].version
                            /\ prov[d].sends > 0 /\ prov[d].body.from = usr'[u].version
  <1>1. ASSUME RetryInv, TestInv, [Next]_vars, NEW u \in User, Activated(usr'[u])
        PROVE  \/ /\ Activated(usr[u])
                  /\ usr'[u].version = usr[u].version \/ usr'[u].email # usr[u].email
               \/ tested(u)
    <2>1. StaysActivated(usr[u], usr'[u]) \/ tested(u)
      <3>1. ASSUME NEW v \in User, NEW p \in Preferences, PutSettings(v, p[1], p[2])
            PROVE  StaysActivated(usr[u], usr'[u])
        <4>1. CASE u = v
          BY <1>1, <3>1, <4>1, SettingsUsers
        <4>2. CASE u # v
          <5>1. usr'[u] = usr[u]
            BY <1>1, <3>1, <4>2, SettingsUsers
          <5> QED BY <5>1 DEF StaysActivated
        <4> QED BY <4>1, <4>2
      <3>2. ASSUME NEW w \in Worker, Record(w)
            PROVE  StaysActivated(usr[u], usr'[u]) \/ tested(u)
        <4> DEFINE j == wrk[w]
        <4>1. /\ usr'[u].provider = usr[u].provider /\ usr'[u].version = usr[u].version
              /\ usr'[u].status = IF u = Owner[j.d] THEN ConnectionStatus(j) ELSE usr[u].status
          BY <1>1, <3>2, RecordUsers
        <4>2. CASE usr'[u].status = usr[u].status
          BY <4>1, <4>2 DEF StaysActivated, Activated
        <4>3. CASE usr'[u].status # usr[u].status
          <5>1. /\ u = Owner[j.d] /\ j.answer = "accepted" /\ KindOf[j.d] = "test"
                /\ SameConnection(j.d)
            BY <1>1, <4>1, <4>3 DEF Activated, ConnectionStatus
          <5>2. /\ j.d \in Delivery /\ j.pc = "answered" /\ dlv[j.d].first # 0
                /\ prov[j.d].sends \in Nat
            BY <1>1, <3>2, JobFields DEF Record, RetryInv, JobType, JobOK, TypeOK
          <5>3. prov[j.d].sends # 0
            BY <1>1, <5>1, <5>2 DEF TestInv, AnswerOK
          <5>4. prov[j.d].body = dlv[j.d].body /\ dlv[j.d].body.from = dlv[j.d].version
            BY <1>1, <5>2, <5>3 DEF RetryInv, SentOK, TestInv, TextOK
          <5>5. dlv'[j.d].version = dlv[j.d].version
            BY <1>1, <3>2, <5>2, RecordKept DEF KeptRow
          <5>6. dlv[j.d].version = usr'[u].version
            BY <4>1, <5>1 DEF SameConnection
          <5>7. prov[j.d].sends > 0
            BY <5>2, <5>3
          <5> QED BY <5>1, <5>2, <5>4, <5>5, <5>6, <5>7
        <4> QED BY <4>2, <4>3
      <3>3. CASE /\ \A v \in User, p \in Preferences : ~PutSettings(v, p[1], p[2])
                 /\ \A w \in Worker : ~Record(w)
        BY <1>1, <3>3, UsersMild DEF Mild
      <3> QED BY <3>1, <3>2, <3>3
    <2> QED BY <1>1, <2>1 DEF StaysActivated
  <1>2. RetryInv /\ TestInv /\ [Next]_vars =>
          [\A u \in User : Activated(usr'[u]) =>
             \/ /\ Activated(usr[u])
                /\ usr'[u].version = usr[u].version \/ usr'[u].email # usr[u].email
             \/ tested(u)]_vars
    BY <1>1
  <1> QED BY <1>2, RetryInvariant, TestInvariant, PTL DEF Spec, ReadyIsTested

-----------------------------------------------------------------------------
(* E-mail delivery implements the mailbox, for every number of users, workers *)

(* and deliveries: each step of a handler, a worker, the network or the     *)
(* provider is, letter by letter, a step of the mailbox or none.            *)

LetterStep(d) == \/ Letters!Keep(d) \/ Letters!Write(d) \/ Letters!Drop(d)
                 \/ Letters!FirstTry(d) \/ Letters!Post(d) \/ Letters!Confirm(d)

TextOf(row) == IF row.first = 0 THEN NoBody ELSE row.body

\* the letter's variables are these functions of the row and of the provider's record
LEMMA LetterView ==
    ASSUME NEW d \in Delivery
    PROVE  /\ Letters!TextKept(d) <=> TextOf(dlv'[d]) = TextOf(dlv[d])
           /\ Letters!MailKept(d) <=> prov'[d].body = prov[d].body /\ prov'[d].sends = prov[d].sends
           /\ Letters!Keep(d) <=> /\ StageOf(dlv'[d]) = StageOf(dlv[d])
                                  /\ Letters!TextKept(d) /\ Letters!MailKept(d)
           /\ \A from, to : Letters!Goes(d, from, to)
                               <=> StageOf(dlv[d]) = from /\ StageOf(dlv'[d]) = to
           /\ Letters!FirstTry(d) <=> /\ Letters!Goes(d, "waiting", "tried")
                                      /\ TextOf(dlv'[d]) # NoBody /\ Letters!MailKept(d)
           /\ Letters!Post(d) <=> /\ Letters!Goes(d, "tried", "tried") /\ Letters!TextKept(d)
                                  /\ prov[d].sends = 0 /\ prov'[d].sends = 1
                                  /\ prov'[d].body = TextOf(dlv[d])
           /\ Letters!Confirm(d) <=> /\ Letters!Goes(d, "tried", "sent") /\ prov[d].sends = 1
                                     /\ Letters!TextKept(d) /\ Letters!MailKept(d)
  BY DEF Letters!TextKept, Letters!MailKept, Letters!Keep, Letters!Goes, Letters!FirstTry,
         Letters!Post, Letters!Confirm, TextOf

LEMMA StageView ==
    ASSUME NEW row
    PROVE  /\ row.status = "absent" => StageOf(row) = "none"
           /\ row.status # "absent" /\ row.first = 0 =>
                 StageOf(row) = IF row.status = "pending" THEN "waiting" ELSE "dropped"
           /\ row.status # "absent" /\ row.first # 0 =>
                 StageOf(row) = IF row.status \in Confirmed THEN "sent" ELSE "tried"
  BY DEF StageOf

\* a step that writes the row, settles it unsent or leaves it alone
LEMMA KeptLetter ==
    ASSUME RetryInv, OutcomeInv, NEW d \in Delivery, Unlabelled(d), KeptRow(d),
           prov'[d] = prov[d]
    PROVE  LetterStep(d)
  <1>1. RowOK(d) /\ OutcomeRow(d)
    BY DEF RetryInv, OutcomeInv
  <1>2. TextOf(dlv'[d]) = TextOf(dlv[d])
    BY DEF KeptRow, TextOf
  <1>3. Letters!TextKept(d) /\ Letters!MailKept(d)
    BY <1>2, LetterView
  <1>4. CASE dlv'[d].status = dlv[d].status
    <2>1. StageOf(dlv'[d]) = StageOf(dlv[d])
      BY <1>4 DEF StageOf, KeptRow
    <2> QED BY <1>3, <2>1, LetterView DEF LetterStep
  <1>5. CASE dlv[d].status = "absent" /\ dlv'[d].status = "pending"
    <2>1. dlv[d].first = 0 /\ dlv'[d].first = 0
      BY <1>1, <1>5 DEF RowOK, KeptRow, Unattempted
    <2>2. Letters!Goes(d, "none", "waiting")
      BY <1>5, <2>1, LetterView, StageView
    <2> QED BY <1>3, <2>2 DEF LetterStep, Letters!Write
  <1>6. CASE dlv[d].status \in {"pending", "sending"} /\ dlv'[d].status \in Settlements
    <2>1. CASE dlv[d].first = 0
      <3>1. dlv[d].status = "pending" /\ dlv'[d].first = 0
        BY <1>1, <1>6, <2>1 DEF OutcomeRow, KeptRow
      <3>2. Letters!Goes(d, "waiting", "dropped")
        BY <1>6, <2>1, <3>1, LetterView, StageView DEF Settlements
      <3> QED BY <1>3, <3>2 DEF LetterStep, Letters!Drop
    <2>2. CASE dlv[d].first # 0
      <3>1. dlv'[d].first # 0
        BY <2>2 DEF KeptRow
      <3>2. StageOf(dlv[d]) = "tried" /\ StageOf(dlv'[d]) = "tried"
        BY <1>6, <2>2, <3>1, StageView DEF Settlements, Confirmed, Outcomes
      <3> QED BY <1>3, <3>2, LetterView DEF LetterStep
    <2> QED BY <2>1, <2>2
  <1> QED BY <1>4, <1>5, <1>6 DEF Unlabelled

LEMMA ClaimLetters ==
    ASSUME RetryInv, OutcomeInv, NEW w \in Worker, Claim(w), NEW d \in Delivery
    PROVE  LetterStep(d)
  <1>1. prov' = prov
    BY DEF Claim
  <1>2. CASE Rewritten(d)
    BY <1>1, <1>2, RewrittenKept, KeptLetter DEF Unlabelled, Settlements
  <1>3. CASE d \in Candidates /\ LeasedBy(w, d)
    <2>1. /\ dlv'[d].status = "sending" /\ dlv'[d].body # NoBody /\ now # 0
          /\ dlv[d].first = 0 => dlv'[d].first = now
          /\ dlv[d].first # 0 => dlv'[d].first = dlv[d].first /\ dlv'[d].body = dlv[d].body
      BY <1>3, LeasedKept, DurationAssumption DEF RetryInv
    <2>2. dlv[d].status \in {"pending", "sending"} /\ OutcomeRow(d)
      BY <1>3 DEF Candidates, OutcomeInv
    <2>3. StageOf(dlv'[d]) = "tried" /\ Letters!MailKept(d)
      BY <1>1, <2>1, LetterView, StageView DEF Confirmed, Outcomes
    <2>4. CASE dlv[d].first = 0
      <3>1. StageOf(dlv[d]) = "waiting"
        BY <2>2, <2>4, StageView DEF OutcomeRow
      <3>2. TextOf(dlv'[d]) # NoBody
        BY <2>1, <2>4 DEF TextOf
      <3> QED BY <2>3, <3>1, <3>2, LetterView DEF LetterStep
    <2>5. CASE dlv[d].first # 0
      <3>1. StageOf(dlv[d]) = "tried"
        BY <2>2, <2>5, StageView DEF Confirmed, Outcomes
      <3>2. TextOf(dlv'[d]) = TextOf(dlv[d])
        BY <2>1, <2>5 DEF TextOf
      <3> QED BY <2>3, <3>1, <3>2, LetterView DEF LetterStep
    <2> QED BY <2>4, <2>5
  <1>4. Rewritten(d) \/ (d \in Candidates /\ LeasedBy(w, d))
    BY ClaimEffect DEF LeasedBy, RetryInv
  <1> QED BY <1>2, <1>3, <1>4

\* a request that reaches the provider mails the letter's text, unless it did before
LEMMA PostedLetter ==
    ASSUME RetryInv, OutcomeInv, AtMostOnce, AtMostOnce', UNCHANGED dlv,
           NEW r \in RequestType, RequestOK(r), prov' \in {prov, Accepting(r)},
           NEW d \in Delivery
    PROVE  LetterStep(d)
  <1>1. StageOf(dlv'[d]) = StageOf(dlv[d]) /\ Letters!TextKept(d)
    BY LetterView
  <1>2. CASE prov'[d] = prov[d]
    BY <1>1, <1>2, LetterView DEF LetterStep
  <1>3. CASE prov'[d] # prov[d]
    <2>1. d = r.d /\ prov'[d] = [sends |-> prov[d].sends + 1, at |-> now, acct |-> r.acct,
                                 body |-> r.body]
      BY <1>3 DEF Accepting, RetryInv, TypeOK
    <2>2. prov[d].sends = 0 /\ prov'[d].sends = 1 /\ prov'[d].body = r.body
      <3>1. prov[d].sends \in Nat /\ prov'[d].sends = prov[d].sends + 1 /\ prov'[d].sends <= 1
        BY <2>1 DEF RetryInv, TypeOK, AtMostOnce
      <3> QED BY <2>1, <3>1
    <2>3. dlv[d].first # 0 /\ r.body = dlv[d].body
      BY <2>1 DEF RequestOK
    <2>4. dlv[d].status # "absent" /\ dlv[d].status \notin Confirmed
      BY <2>2, <2>3 DEF OutcomeInv, OutcomeRow, Confirmed, RetryInv, RowOK, Unattempted
    <2>5. StageOf(dlv[d]) = "tried" /\ TextOf(dlv[d]) = r.body
      BY <2>3, <2>4, StageView DEF TextOf
    <2> QED BY <1>1, <2>2, <2>5, LetterView DEF LetterStep
  <1> QED BY <1>2, <1>3

LEMMA RecordLetters ==
    ASSUME RetryInv, OutcomeInv, AtMostOnce, NEW w \in Worker, Record(w), NEW d \in Delivery
    PROVE  LetterStep(d)
  <1> DEFINE j == wrk[w]
  <1>1. /\ j \in JobType /\ j.d \in Delivery /\ j.pc = "answered" /\ UNCHANGED prov
    BY JobFields DEF Record, RetryInv, JobType
  <1>2. Letters!MailKept(d) /\ Letters!TextKept(d) /\ dlv'[d].first = dlv[d].first
    <2>1. TextOf(dlv'[d]) = TextOf(dlv[d]) /\ dlv'[d].first = dlv[d].first
      BY RecordKept DEF KeptRow, TextOf
    <2> QED BY <1>1, <2>1, LetterView
  <1>3. CASE d # j.d
    BY <1>2, <1>3, RecordKept, LetterView DEF LetterStep
  <1>4. CASE d = j.d
    <2>1. dlv[d].first # 0 /\ dlv[d].pid = 0 /\ dlv[d].status \notin Confirmed
      BY <1>1, <1>4 DEF RetryInv, JobOK, OutcomeInv, OutcomeRow, Confirmed
    <2>2. dlv[d].status # "absent" /\ dlv'[d].status # "absent"
      BY <2>1, RecordKept DEF RetryInv, RowOK, Unattempted, KeptRow
    <2>3. StageOf(dlv[d]) = "tried"
      BY <2>1, <2>2, StageView
    <2>4. PICK retryAfter \in RetryAfter : dlv'[d] = Recorded(j, retryAfter)
      <3>1. PICK retryAfter \in RetryAfter : dlv' = [dlv EXCEPT ![j.d] = Recorded(j, retryAfter)]
        BY DEF Record
      <3> QED BY <1>1, <1>4, <3>1 DEF RetryInv, TypeOK
    <2> DEFINE row == [dlv[d] EXCEPT !.lease = 0]
    <2>5. row \in RowType /\ row.status = dlv[d].status
      <3>1. dlv[d] \in RowType
        BY DEF RetryInv, TypeOK
      <3> QED BY <3>1 DEF RowType
    <2>6. CASE j.answer = "accepted"
      <3>1. dlv'[d] = [row EXCEPT !.pid = j.pid, !.status = "accepted"]
        BY <1>4, <2>1, <2>4, <2>5, <2>6 DEF Recorded, Confirmed
      <3>2. dlv'[d].status = "accepted"
        BY <2>5, <3>1 DEF RowType
      <3>3. StageOf(dlv'[d]) = "sent"
        BY <1>2, <2>1, <3>2, StageView DEF Confirmed
      <3>4. prov[d].sends = 1
        <4>1. prov[d].sends # 0 /\ prov[d].sends <= 1
          BY <1>1, <1>4, <2>6 DEF OutcomeInv, AtMostOnce
        <4>2. prov[d].sends \in Nat
          BY DEF RetryInv, TypeOK
        <4> QED BY <4>1, <4>2
      <3> QED BY <1>2, <2>3, <3>3, <3>4, LetterView DEF LetterStep
    <2>7. CASE j.answer # "accepted"
      <3>1. \E s \in {"pending", "failed"} : \E due :
               dlv'[d] \in {[row EXCEPT !.status = s, !.due = due], [row EXCEPT !.status = s]}
        BY <1>4, <2>4, <2>7 DEF Recorded
      <3>2. dlv'[d].status \in {"pending", "failed"}
        <4> HIDE DEF row
        <4> QED BY <2>5, <3>1 DEF RowType
      <3>3. StageOf(dlv'[d]) = "tried"
        BY <1>2, <2>1, <3>2, StageView DEF Confirmed, Outcomes
      <3> QED BY <1>2, <2>3, <3>3, LetterView DEF LetterStep
    <2> QED BY <2>6, <2>7
  <1> QED BY <1>3, <1>4

LEMMA WebhookLetters ==
    ASSUME RetryInv, OutcomeInv, NEW f \in Delivery, NEW type \in HookTypes,
           WebhookApplied(<<f, type>>), NEW d \in Delivery
    PROVE  LetterStep(d)
  <1> DEFINE e == <<f, type>>
             rows == IF Suppresses(e) THEN Cancelling(Owner[f], Kinds) ELSE dlv
  <1>1. KeptRow(d) /\ UNCHANGED prov
    BY WebhookKept
  <1>2. /\ rows \in [Delivery -> RowType]
        /\ \A x \in Delivery :
             /\ rows[x].pid = dlv[x].pid
             /\ rows[x].status = dlv[x].status
                \/ (dlv[x].status = "pending" /\ rows[x].status = "cancelled")
    BY CancellingRows, CancellingKept DEF RetryInv, TypeOK
  <1>3. dlv' = [rows EXCEPT ![f].status = WebhookStatus(dlv[f].status, type)]
    BY DEF WebhookApplied
  <1>4. dlv[f].pid # 0 /\ prov[f].sends # 0
    BY DEF WebhookApplied, Known, OutcomeInv
  <1> HIDE DEF rows, e
  <1>5. CASE d = f
    <2>1. dlv'[d].status = WebhookStatus(dlv[d].status, type)
      BY <1>2, <1>3, <1>5 DEF RowType
    <2>2. dlv[d].status \in Confirmed /\ dlv'[d].status \in Confirmed
      BY <1>4, <1>5, <2>1 DEF OutcomeInv, OutcomeRow, Confirmed, WebhookStatus, HookTypes, Outcomes
    <2>3. dlv[d].first # 0 /\ dlv'[d].first = dlv[d].first /\ TextOf(dlv'[d]) = TextOf(dlv[d])
      BY <1>1, <1>4, <1>5 DEF RetryInv, SentOK, KeptRow, TextOf
    <2>4. StageOf(dlv[d]) = "sent" /\ StageOf(dlv'[d]) = "sent"
      BY <2>2, <2>3, StageView DEF Confirmed, Outcomes
    <2> QED BY <1>1, <2>3, <2>4, LetterView DEF LetterStep
  <1>6. CASE d # f
    <2>1. dlv'[d] = rows[d]
      BY <1>2, <1>3, <1>6
    <2>2. Unlabelled(d)
      BY <1>2, <2>1 DEF Unlabelled, Settlements
    <2> QED BY <1>1, <2>2, KeptLetter
  <1> QED BY <1>5, <1>6

LEMMA MailboxStep ==
    ASSUME RetryInv, OutcomeInv, AtMostOnce, AtMostOnce', [Next]_vars, NEW d \in Delivery
    PROVE  LetterStep(d)
  <1>1. CASE ApiStep
    <2>1. \E u, kinds : dlv' = Cancelling(u, kinds)
      BY <1>1 DEF ApiStep, GetSettings, PutProvider, DeleteProvider, Unsubscribe, PutSettings
    <2>2. Unlabelled(d)
      BY <2>1, CancellingKept DEF Unlabelled, Settlements
    <2> QED BY <1>1, <2>2, ApiKept, KeptLetter
  <1>2. CASE PrepareStep
    BY <1>2, PrepareKept, PrepareUnlabelled, KeptLetter
  <1>3. CASE WorkerStep
    <2>1. PICK w \in Worker : Claim(w) \/ Arrive(w) \/ Timeout(w) \/ Crash(w) \/ Record(w)
      BY <1>3 DEF WorkerStep
    <2>2. CASE Claim(w)
      BY <2>2, ClaimLetters
    <2>3. CASE Arrive(w)
      <3>1. Request(wrk[w]) \in RequestType /\ RequestOK(Request(wrk[w])) /\ UNCHANGED dlv
        BY <2>3, JobFields DEF RetryInv, JobOK, Arrive, WireFrame
      <3>2. prov' \in {prov, Accepting(Request(wrk[w]))}
        BY <2>3 DEF Arrive
      <3> QED BY <3>1, <3>2, PostedLetter
    <2>4. CASE Timeout(w) \/ Crash(w)
      <3>1. UNCHANGED <<dlv, prov>>
        BY <2>4 DEF Timeout, Crash, WireFrame
      <3> QED BY <3>1, LetterView DEF LetterStep
    <2>5. CASE Record(w)
      BY <2>5, RecordLetters
    <2> QED BY <2>1, <2>2, <2>3, <2>4, <2>5
  <1>4. CASE ProviderStep
    <2>1. ASSUME NEW r \in stray, StrayArrives(r)
          PROVE  LetterStep(d)
      <3>1. /\ r \in RequestType /\ RequestOK(r) /\ prov' \in {prov, Accepting(r)}
            /\ UNCHANGED dlv
        BY <2>1 DEF RetryInv, TypeOK, StrayArrives, WireFrame
      <3> QED BY <3>1, PostedLetter
    <2>2. ASSUME NEW f \in Delivery, NEW type \in HookTypes,
                 \/ ProviderReports(f, type)
                 \/ WebhookUnrelated(<<f, type>>)
                 \/ WebhookDuplicate(<<f, type>>)
          PROVE  LetterStep(d)
      <3>1. UNCHANGED <<dlv, prov>>
        BY <2>2 DEF ProviderReports, WebhookUnrelated, WebhookDuplicate, Acked
      <3> QED BY <3>1, LetterView DEF LetterStep
    <2> QED BY <1>4, <2>1, <2>2, WebhookLetters DEF ProviderStep
  <1>5. CASE EnvironmentStep \/ UNCHANGED vars
    <2>1. UNCHANGED <<dlv, prov>>
      BY <1>5 DEF EnvironmentStep, Tick, IdentityChanges, ListingChanges, vars
    <2> QED BY <2>1, LetterView DEF LetterStep
  <1> QED BY <1>1, <1>2, <1>3, <1>4, <1>5 DEF Next

(* While the provider remembers a key for longer than a delivery is retried  *)
(* and no claim outlives its lease, every behaviour of the workers, the API, *)
(* the webhooks, the network and the provider is one of the mailbox: a       *)
(* letter never tried may be dropped for good, its text is fixed at the      *)
(* first try, that text is mailed at most once, and it is said to be sent    *)
(* only after it was.                                                        *)
THEOREM DeliveryIsAMailbox ==
    ASSUME GiveUp + PostDelay <= Window, PostDelay < LeaseTime, HoldTime < LeaseTime
    PROVE  Spec => ImplementsMailbox
  <1>1. Init => Letters!MailboxInit
    BY DEF Init, Letters!MailboxInit, StageOf, NoRow, Unsent
  <1>2. RetryInv /\ OutcomeInv /\ AtMostOnce /\ AtMostOnce' /\ [Next]_vars
            => [Letters!MailboxNext]_Letters!mailbox
    <2>1. RetryInv /\ OutcomeInv /\ AtMostOnce /\ AtMostOnce' /\ [Next]_vars
             => \A d \in Delivery : LetterStep(d)
      BY MailboxStep
    <2> QED BY <2>1 DEF Letters!MailboxNext, LetterStep
  <1> QED BY <1>1, <1>2, RetryInvariant, OutcomeInvariant, NeverTwice, PTL
          DEF Spec, ImplementsMailbox, Letters!MailboxSpec
=============================================================================
