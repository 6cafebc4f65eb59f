--------------------------- MODULE AdvertisedFacts ---------------------------
(***************************************************************************)
(* What feeds advertise about one posting (app/services/job_details.py):   *)
(* extract_job_details() turns an observation into stated policies and     *)
(* pay, merge_details() folds observations of several sources into the     *)
(* details that are shown.                                                 *)
(*                                                                         *)
(* A line is a clause about one topic with the wordings the patterns tell  *)
(* apart.  Observations come in any order; what a source was seen to state *)
(* is kept in a history variable.                                          *)
(***************************************************************************)
EXTENDS Integers, Sequences, SequencesExt

CONSTANTS
    Source,             \* values of RawJobPayload.source
    Direct,             \* sources that publish for the employer
    Listed,             \* aggregators merge_details() ranks above the rest
    Marked,             \* sources whose row markers are read
    Payload,            \* lines, row markers and pay of an observation
    Observation,        \* [source, at, payload]: what may be observed
    MaxEvidence,        \* 10: excerpts a fact keeps
    MaxObservations     \* bound: observations

Topic == {"cpt", "opt", "sponsorship", "future_sponsorship"}

ASSUME FeedAssumption ==
    /\ Direct \subseteq Source /\ Listed \subseteq Source \ Direct /\ Marked \subseteq Source
    /\ MaxEvidence \in Nat \ {0} /\ MaxObservations \in Nat
    /\ \A o \in Observation : o.source \in Source /\ o.payload \in Payload /\ o.at \in Nat
    /\ \A p \in Payload : p.lines \in Seq(ToSet(p.lines))

VARIABLES
    details,    \* policies and pay shown for the posting
    told        \* history: what each source was seen to state, and when

NoFact == [value |-> "unknown", evidence |-> <<>>]
NoDetailsYet == [policies |-> [t \in Topic |-> NoFact], pay |-> {}]

FactsInit == details = NoDetailsYet /\ told = {}

-----------------------------------------------------------------------------
(* extract_job_details()                                                     *)

PolicyValue(l) ==
    IF l.negative THEN "denied"
    ELSE IF l.positive THEN (IF l.conditional THEN "conditional" ELSE "allowed")
    ELSE "unknown"

\* lines of a set, in their order
Among(lines, S) == FoldLeft(LAMBDA kept, l : IF l \in S THEN Append(kept, l) ELSE kept, <<>>, lines)

StatedLines(payload, topic) ==
    Among(payload.lines, {l \in ToSet(payload.lines) :
                            l.topic = topic /\ ~l.question /\ PolicyValue(l) # "unknown"})

Kept(evidence) ==
    IF Len(evidence) <= MaxEvidence THEN evidence ELSE SubSeq(evidence, 1, MaxEvidence)

OneValue(values) == IF \E v \in values : values = {v} THEN CHOOSE v \in values : TRUE ELSE "conflicting"

ExcerptOf(o) == [source |-> o.source, at |-> o.at]

FactOf(o, lines) ==
    IF lines = <<>> THEN NoFact
    ELSE [value |-> OneValue({PolicyValue(lines[i]) : i \in 1 .. Len(lines)}),
          evidence |-> Kept([i \in 1 .. Len(lines) |-> ExcerptOf(o)])]

DeniedBy(o) == [value |-> "denied", evidence |-> <<ExcerptOf(o)>>]

\* only kept sponsorship lines are searched for the future; markers come last
Advertised(o) ==
    LET sponsorship == StatedLines(o.payload, "sponsorship")
        MarkedRow(m) == o.source \in Marked /\ m \in o.payload.markers
    IN  [t \in Topic |->
           CASE t = "sponsorship" /\ MarkedRow("no_sponsorship") -> DeniedBy(o)
             [] t \in {"cpt", "opt"} /\ MarkedRow("citizens") -> DeniedBy(o)
             [] t = "future_sponsorship" ->
                  FactOf(o, Among(Kept(sponsorship), {l \in ToSet(sponsorship) : l.future}))
             [] OTHER -> FactOf(o, StatedLines(o.payload, t))]

\* a range label states a period if it names exactly one
RangePeriod(periods) == IF \E p \in periods : periods = {p} THEN CHOOSE p \in periods : TRUE ELSE "unknown"

\* an amount in dollars needs a location in the US
TextPay(o) ==
    {[amount |-> p.amount, period |-> p.period, currency |-> IF p.currency = "$" THEN "USD" ELSE p.currency,
      source |-> o.source, at |-> o.at] :
        p \in {q \in o.payload.text : q.currency # "$" \/ o.payload.us}}

StructuredPay(o) ==
    {[amount |-> p.amount, period |-> RangePeriod(p.periods), currency |-> p.currency,
      source |-> o.source, at |-> o.at] : p \in o.payload.ranges}

AdvertisedPay(o) ==
    IF o.source \notin Direct THEN {}
    ELSE IF StructuredPay(o) # {} THEN StructuredPay(o) ELSE TextPay(o)

-----------------------------------------------------------------------------
(* merge_details()                                                           *)

Rank(s) == IF s \in Direct THEN 3 ELSE IF s \in Listed THEN 2 ELSE 1

SourcesOf(fact) == {fact.evidence[i].source : i \in 1 .. Len(fact.evidence)}
Greatest(S) == IF S = {} THEN 0 ELSE CHOOSE x \in S : \A y \in S : y <= x
RankOf(fact) == Greatest({Rank(s) : s \in SourcesOf(fact)})
NewestOf(fact) == Greatest({fact.evidence[i].at : i \in 1 .. Len(fact.evidence)})

Latter(evidence) ==
    IF Len(evidence) <= MaxEvidence THEN evidence
    ELSE SubSeq(evidence, Len(evidence) - MaxEvidence + 1, Len(evidence))

Disputed(before, fact) ==
    [value |-> "conflicting", evidence |-> Latter(before.evidence \o fact.evidence)]

\* equal ranks: an older observation changes nothing
Reobserved(before, fact) ==
    IF NewestOf(fact) < NewestOf(before) THEN before
    ELSE IF SourcesOf(before) = SourcesOf(fact) \/ before.value = fact.value THEN fact
    ELSE Disputed(before, fact)

MergedPolicy_Newest(before, fact) ==      \* mutant
    IF fact = NoFact THEN before ELSE IF before = NoFact THEN fact ELSE Reobserved(before, fact)

MergedPolicy(before, fact) ==
    IF fact = NoFact \/ RankOf(fact) < RankOf(before) THEN before
    ELSE IF before = NoFact \/ RankOf(fact) > RankOf(before) THEN fact
    ELSE Reobserved(before, fact)

PayRank(pay) == Greatest({Rank(p.source) : p \in pay})
PayTime(pay) == Greatest({p.at : p \in pay})

MergedPay(before, pay) ==
    IF pay # {} /\ PayRank(pay) >= PayRank(before)
         /\ (before = {} \/ PayTime(pay) >= PayTime(before))
      THEN pay ELSE before

Observed(o) ==
    /\ Cardinality(told) < MaxObservations /\ o \notin told
    /\ told' = told \cup {o}
    /\ LET policies == Advertised(o)
       IN  details' = [policies |-> [t \in Topic |-> MergedPolicy(details.policies[t], policies[t])],
                       pay |-> MergedPay(details.pay, AdvertisedPay(o))]

FactsNext == \E o \in Observation : Observed(o)

-----------------------------------------------------------------------------
(* Properties                                                                *)

Speaks(o, t) == Advertised(o)[t] # NoFact

(* "Direct ATS evidence outranks aggregator evidence": once a better source  *)
(* has spoken of a topic, in whatever order observations come, nothing shown *)
(* of it rests on a lesser one.                                              *)
BestSourceShown == \A t \in Topic : \A o \in told :
    Speaks(o, t) => \A s \in SourcesOf(details.policies[t]) : Rank(s) >= Rank(o.source)

(* "Newer same-source observations replace older ones": while one source     *)
(* alone has spoken of a topic, what is shown is what it stated last.        *)
NewestOfOneSource == \A t \in Topic :
    LET spoken == {o \in told : Speaks(o, t)}
    IN  (\E s \in Source : \A o \in spoken : o.source = s) /\ spoken # {} =>
          \E o \in spoken : /\ \A q \in spoken : q.at <= o.at
                            /\ details.policies[t] = Advertised(o)[t]

(* "Only direct employer-posted pay is extracted", of the newest direct      *)
(* observation that stated one, whatever aggregators say before or after.    *)
PayIsDirect ==
    LET paid == {o \in told : o.source \in Direct /\ AdvertisedPay(o) # {}}
    IN  /\ details.pay = {} <=> paid = {}
        /\ \A p \in details.pay : p.source \in Direct /\ \A o \in paid : o.at <= p.at

(* merge_details(): what a posting shows is the newest word of its best      *)
(* source, however observations are delayed and repeated.                    *)
ShownIsBest == BestSourceShown /\ NewestOfOneSource /\ PayIsDirect
=============================================================================
