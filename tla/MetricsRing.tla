----------------------------- MODULE MetricsRing -----------------------------
(***************************************************************************)
(* adapters/common/metrics_buffer.py: one bounded ring of samples per      *)
(* topic, the topics in order of insertion, and the metrics computed from  *)
(* a ring.  heard keeps every sample ever recorded and is read by the      *)
(* properties only.  A sample is [topic, at, seq, domain, writer, sent];   *)
(* seq and sent are NoNumber where the binding does not expose them.       *)
(***************************************************************************)
EXTENDS Integers, Sequences, FiniteSets, TLC
LOCAL INSTANCE SequencesExt
LOCAL INSTANCE FiniteSetsExt

CONSTANTS MaxSamplesPerTopic, MaxTopics, MaxPlausibleGap,
          Heard,       \* the samples that may be recorded, at any time
          MaxRecords   \* bound: samples recorded

NoNumber == -1

VARIABLES rings,    \* the tracked topics, oldest inserted first: [topic, samples]
          heard     \* history: every sample, in order

ringvars == <<rings, heard>>
RingInit == rings = <<>> /\ heard = <<>>

Tracked == {rings[i].topic : i \in DOMAIN rings}
Latest(samples) == SubSeq(samples, Max({1, Len(samples) - MaxSamplesPerTopic + 1}), Len(samples))

(* record: a new topic at the cap evicts the one inserted first.           *)
Record(sample) ==
  LET topic == sample.topic
      kept  == IF Len(rings) >= MaxTopics THEN Tail(rings) ELSE rings
  IN  /\ Len(heard) < MaxRecords
      /\ heard' = Append(heard, sample)
      /\ rings' = IF topic \in Tracked
                    THEN [i \in DOMAIN rings |->
                            IF rings[i].topic = topic
                              THEN [rings[i] EXCEPT !.samples = Latest(Append(@, sample))]
                              ELSE rings[i]]
                    ELSE Append(kept, [topic |-> topic, samples |-> <<sample>>])

RingNext ==
  \E s \in Heard, at \in 0 .. MaxRecords :
    /\ heard # <<>> => at >= heard[Len(heard)].at
    /\ Record([s EXCEPT !.at = at])

-----------------------------------------------------------------------------
(* _count_sequence_gaps of one writer: sorted, deduplicated, a hole wider  *)
(* than a plausible one is a restart.                                      *)
SequenceGaps(seqs) ==
  LET next(n) == Min({m \in seqs : m > n})
      holes   == {n \in seqs : \E m \in seqs : m > n}
      lost(n) == IF next(n) - n <= MaxPlausibleGap THEN next(n) - n - 1 ELSE 0
  IN  MapThenSumSet(lost, holes)

Percentile(sorted, q) == sorted[Max({0, Min({Len(sorted) - 1, (q * Len(sorted) + 99) \div 100 - 1})}) + 1]

RingOf(topic) ==
  LET own == SelectSeq(rings, LAMBDA r : r.topic = topic)
  IN  IF own = <<>> THEN <<>> ELSE own[1].samples
Numbers(samples, writer) ==
  {samples[i].seq : i \in {j \in DOMAIN samples : /\ samples[j].writer = writer
                                                  /\ samples[j].seq # NoNumber}}
GapsCount_merged(samples) ==
  SequenceGaps({samples[i].seq : i \in {j \in DOMAIN samples : samples[j].seq # NoNumber}})
GapsCount(samples) ==
  MapThenSumSet(LAMBDA w : SequenceGaps(Numbers(samples, w)),
                {samples[i].writer : i \in DOMAIN samples})
(* compute_metrics, as the intervals and the span a frequency is made of.  *)
ComputeMetrics(topic, window, now, domain) ==
  LET samples == SelectSeq(RingOf(topic), LAMBDA s : s.at >= now - window /\ s.domain = domain)
      ats     == {samples[i].at : i \in DOMAIN samples}
      delayed == SelectSeq(samples, LAMBDA s : s.sent # NoNumber /\ s.at >= s.sent)
      delays  == SortSeq([i \in DOMAIN delayed |-> delayed[i].at - delayed[i].sent], <)
  IN  [observed |-> Len(samples),
       intervals |-> IF Len(samples) >= 2 /\ Max(ats) > Min(ats) THEN Len(samples) - 1 ELSE 0,
       span |-> IF samples = <<>> THEN 0 ELSE Max(ats) - Min(ats),
       gaps |-> GapsCount(samples),
       numbered |-> \E i \in DOMAIN samples : samples[i].seq # NoNumber,
       p50 |-> IF delays = <<>> THEN NoNumber ELSE Percentile(delays, 50),
       p95 |-> IF delays = <<>> THEN NoNumber ELSE Percentile(delays, 95)]

-----------------------------------------------------------------------------
(* topic_metrics: a ring holds the last samples recorded of its topic and  *)
(* no more than its cap; the gaps counted are the numbers missing between  *)
(* those of one writer, none for a sample that arrived late or twice or    *)
(* for a restart of the count; the median delay is at most the 95th        *)
(* percentile.                                                             *)
GapsAreCounted(topic, window, now, domain) ==
  LET m     == ComputeMetrics(topic, window, now, domain)
      own   == SelectSeq(heard, LAMBDA s : s.topic = topic)
      ring  == RingOf(topic)
      inWindow == SelectSeq(ring, LAMBDA s : s.at >= now - window /\ s.domain = domain)
      missing(w) ==
        {n \in 0 .. Max({0} \cup Numbers(inWindow, w)) :
           /\ n \notin Numbers(inWindow, w)
           /\ \E lo, hi \in Numbers(inWindow, w) :
                /\ lo < n /\ n < hi /\ hi - lo <= MaxPlausibleGap
                /\ \A k \in lo + 1 .. hi - 1 : k \notin Numbers(inWindow, w)}
  IN  /\ Len(ring) <= MaxSamplesPerTopic /\ Len(rings) <= MaxTopics
      /\ IsSuffix(ring, own)
      /\ topic \in Tracked => Len(ring) > 0
      /\ m.gaps = MapThenSumSet(LAMBDA w : Cardinality(missing(w)),
                                {inWindow[i].writer : i \in DOMAIN inWindow})
      /\ m.intervals > 0 => m.span > 0 /\ m.intervals < Len(own)
      /\ m.p50 # NoNumber => m.p50 <= m.p95
=============================================================================
