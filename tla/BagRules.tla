------------------------------ MODULE BagRules ------------------------------
(***************************************************************************)
(* What one pass over a bag finds: adapters/common/bag_scan.py,            *)
(* bag_anomalies.py, bag_stats.py and bag_range.py.  Times are record      *)
(* times in ticks.  A message is [topic, ts, sim, edges, stamp, frame]:    *)
(* the clock value of /clock, the edges of /tf, the header stamp of the    *)
(* others, None where it does not decode.  A bag is the sequence of its    *)
(* messages in reading order, with what it records of each topic.          *)
(***************************************************************************)
EXTENDS Integers, Sequences, FiniteSets, TLC
LOCAL INSTANCE SequencesExt
LOCAL INSTANCE FiniteSetsExt

CONSTANT L   \* the thresholds of the detectors and of the readers, by name

None == -1

MinOf(S) == CHOOSE n \in S : \A m \in S : n <= m
MaxOf(S) == Max(S)
CeilDiv(a, b) == (a + b - 1) \div b
Times(messages) == [i \in DOMAIN messages |-> messages[i].ts]
Of(messages, topic) == SelectSeq(messages, LAMBDA m : m.topic = topic)
Distinct(s) == SelectSeq([i \in DOMAIN s |-> IF \E j \in 1 .. i - 1 : s[j] = s[i]
                                              THEN <<>> ELSE <<s[i]>>],
                         LAMBDA one : one # <<>>)
FirstSeen(s) == [i \in DOMAIN Distinct(s) |-> Distinct(s)[i][1]]
Take(s, n) == SubSeq(s, 1, MinOf({n, Len(s)}))

-----------------------------------------------------------------------------
(* Rhythm *)
Intervals(times) == SortSeq([i \in 1 .. Len(times) - 1 |-> times[i + 1] - times[i]], <)
Middle(sorted) == sorted[Len(sorted) \div 2 + 1]

(* The median interval of a steady series, None for one that is short,     *)
(* bursty or batched.                                                      *)
SteadyPeriod(times, least) ==
  IF Len(times) <= least THEN None
  ELSE LET steps  == Intervals(times)
           median == Middle(steps)
           p90    == steps[(9 * (Len(steps) - 1)) \div 10 + 1]
       IN  IF median <= 0 \/ p90 > 2 * median THEN None ELSE median

Length(gap) == gap.to - gap.from
Longest(gaps) ==
  SortSeq(gaps, LAMBDA g, h : Length(g) > Length(h) \/ (Length(g) = Length(h) /\ g.from < h.from))

(* _gaps, of the period, factor and floor in how; the tail runs to end.    *)
LimitOf(how) == MaxOf({how.factor * how.period, how.floor})
Gaps_first(series, times, how, end) ==
  LET pairs == [i \in 1 .. Len(times) - 1 |->
                  [series |-> series, from |-> times[i], to |-> times[i + 1]]]
  IN  Take(SelectSeq(pairs, LAMBDA g : Length(g) > LimitOf(how)), L.gapsPerSeries)
Gaps(series, times, how, end) ==
  LET last  == times[Len(times)]
      pairs == [i \in 1 .. Len(times) - 1 |->
                  [series |-> series, from |-> times[i], to |-> times[i + 1]]]
      tail  == IF how.tail THEN <<[series |-> series, from |-> last, to |-> end]>> ELSE <<>>
  IN  Take(Longest(SelectSeq(pairs \o tail, LAMBDA g : Length(g) > LimitOf(how))), L.gapsPerSeries)

SilenceOf(period) == [period |-> period, factor |-> L.gapFactor, floor |-> L.gapFloor, tail |-> TRUE]
EdgeSilenceOf(period) ==
  [period |-> period, factor |-> L.edgeFactor, floor |-> L.edgeFloor, tail |-> FALSE]

-----------------------------------------------------------------------------
(* Grouping: gaps swept by start, one that still overlaps half of the      *)
(* shorter of the two joins the cluster.                                   *)
Common(c, g) == MinOf({c.to, g.to}) - MaxOf({c.from, g.from})
Joins_touch(c, g) == Common(c, g) >= 0
Joins(c, g) == Common(c, g) > 0 /\ 2 * Common(c, g) >= MinOf({Length(c), Length(g)})
Cluster(gaps) ==
  LET sweep(clusters, g) ==
        LET c == clusters[Len(clusters)]
        IN  IF clusters # <<>> /\ Joins(c, g)
              THEN [clusters EXCEPT ![Len(clusters)] =
                      [from |-> MaxOf({c.from, g.from}), to |-> MinOf({c.to, g.to}),
                       gaps |-> Append(c.gaps, g)]]
              ELSE Append(clusters, [from |-> g.from, to |-> g.to, gaps |-> <<g>>])
  IN  FoldLeft(sweep, <<>>, gaps)

SeriesOf(cluster) == {cluster.gaps[i].series : i \in DOMAIN cluster.gaps}
Grouped(cluster) == Cardinality(SeriesOf(cluster)) >= 2
InsideACluster(g, clusters) ==
  \E i \in DOMAIN clusters : 2 * Common(clusters[i], g) >= Length(g)

-----------------------------------------------------------------------------
(* The lines of the answer *)
Line(kind, names, from, to) == [kind |-> kind, names |-> names, from |-> from, to |-> to]

GapLines(kind, gaps) ==
  LET names == FirstSeen([i \in DOMAIN gaps |-> gaps[i].series])
      own(s) == Longest(SelectSeq(gaps, LAMBDA g : g.series = s))
      told(s) == LET first == Take(own(s), L.perSeries)
                 IN  [i \in DOMAIN first |-> Line(kind, {s}, first[i].from, first[i].to)]
      more(s) == IF Len(own(s)) > L.perSeries THEN <<Line("more silences", {s}, 0, 0)>> ELSE <<>>
  IN  FlattenSeq([i \in DOMAIN names |-> told(names[i]) \o more(names[i])])

GroupLines(clusters) ==
  LET many == SelectSeq(clusters, Grouped)
  IN  [i \in DOMAIN many |-> Line("together", SeriesOf(many[i]), many[i].from, many[i].to)]

(* _clock_lines: a ratio a/b above 5 times the middle one is compared      *)
(* without dividing.                                                       *)
ClockLines(clock) ==
  LET steps == [i \in 1 .. Len(clock) - 1 |->
                  [at |-> clock[i + 1].ts, delta |-> clock[i + 1].sim - clock[i].sim,
                   rec |-> clock[i + 1].ts - clock[i].ts]]
      ahead == SortSeq([i \in DOMAIN SelectSeq(steps, LAMBDA s : s.delta > 0) |->
                          SelectSeq(steps, LAMBDA s : s.delta > 0)[i].delta], <)
      usual == IF Len(ahead) >= L.clockSteps THEN Middle(ahead) ELSE None
      rates == SortSeq(SelectSeq(steps, LAMBDA s : s.rec > 0 /\ s.delta > 0),
                       LAMBDA s, u : s.delta * u.rec < u.delta * s.rec)
      unlike(s) == \/ s.rec <= 0 \/ rates = <<>>
                   \/ s.delta * Middle(rates).rec > 5 * Middle(rates).delta * s.rec
      back(s) == s.delta < -L.clockBack
      jump(s) == /\ usual # None
                 /\ s.delta > MaxOf({L.clockFactor * usual, L.clockFloor})
                 /\ unlike(s)
      odd == SelectSeq(steps, LAMBDA s : back(s) \/ jump(s))
  IN  Take([i \in DOMAIN odd |->
              Line(IF back(odd[i]) THEN "clock back" ELSE "clock forward", {"/clock"},
                   odd[i].at, odd[i].at)], L.perSeries)

(* _stamp_lines: stamps compared within one frame.                         *)
StampLines(topic, pairs, period) ==
  LET frames == FirstSeen([i \in DOMAIN pairs |-> pairs[i].frame])
      tolerance == MaxOf({L.stampFloor, L.stampFactor * period})
      usable(f) == SelectSeq(pairs, LAMBDA p : p.frame = f /\ p.stamp > 0)
      backs(f) == LET u == usable(f)
                      is == IF Len(u) < L.stampSamples THEN {}
                            ELSE {i \in 2 .. Len(u) : u[i].stamp < u[i - 1].stamp - tolerance}
                      at == SetToSortSeq(is, <)
                  IN  [i \in DOMAIN at |-> Line("stamp", {topic}, u[at[i]].ts, u[at[i]].ts)]
  IN  Take(FlattenSeq([i \in DOMAIN frames |-> backs(frames[i])]), L.perSeries)

(* _tf_gaps: edges present for most of the span of a /tf that goes on.     *)
EdgeGaps(edges, tf, clusters) ==
  LET span == MaxOf({tf[i] : i \in DOMAIN tf}) - MinOf({tf[i] : i \in DOMAIN tf})
      judged(times) == /\ span > 0
                       /\ 5 * (times[Len(times)] - times[1]) >= 4 * span
                       /\ SteadyPeriod(times, L.edgeIntervals) # None
      found(e) == Gaps(e.name, e.times, EdgeSilenceOf(SteadyPeriod(e.times, L.edgeIntervals)),
                       e.times[Len(e.times)])
      each(e) == IF judged(e.times)
                   THEN SelectSeq(found(e), LAMBDA g : ~InsideACluster(g, clusters))
                   ELSE <<>>
  IN  IF tf = <<>> THEN <<>> ELSE FlattenSeq([i \in DOMAIN edges |-> each(edges[i])])

-----------------------------------------------------------------------------
(* The pass.  A topic is judged when its type is one that keeps a rhythm.  *)
Judged(bag, name) ==
  /\ name \in DOMAIN bag.topic
  /\ bag.topic[name].steady /\ bag.topic[name].latched # "yes"
  /\ name \notin {"/tf_static", "/rosout", "/parameter_events"}
Stampable(bag, name) ==
  Judged(bag, name) /\ name \notin {"/clock", "/tf"} /\ bag.topic[name].publishers <= 1

(* One message in every stride is decoded; one without a stamp stops the   *)
(* sampling of its topic and forgets what was sampled.                     *)
SampledPairs(bag, seen, name) ==
  LET own     == Of(seen, name)
      stride  == MaxOf({1, CeilDiv(Len(Of(bag.messages, name)), L.stampsPerTopic)})
      sampled == [i \in 1 .. CeilDiv(Len(own), stride) |-> own[(i - 1) * stride + 1]]
  IN  IF ~Stampable(bag, name) \/ \E i \in DOMAIN sampled : sampled[i].stamp = None
        THEN <<>> ELSE sampled

EdgesOf(seen) ==
  LET tf    == Of(seen, "/tf")
      names == FirstSeen(FlattenSeq([i \in DOMAIN tf |-> tf[i].edges]))
  IN  [i \in DOMAIN names |->
         [name |-> names[i],
          times |-> Times(SelectSeq(tf, LAMBDA m : \E j \in DOMAIN m.edges : m.edges[j] = names[i]))]]

(* find_anomalies over the messages seen, up to end.  Its own time may run *)
(* out after judging some series, then no edge and no stamp is looked at,  *)
(* or after some stamps.                                                   *)
FindAnomalies(bag, seen, end, judged, stamped) ==
  LET series  == SelectSeq(bag.order, LAMBDA n : Judged(bag, n))
      inTime  == Take(series, judged)
      times(n) == SortSeq(Times(Of(seen, n)), <)
      period(n) == SteadyPeriod(times(n), L.intervals)
      steady  == SelectSeq(inTime, LAMBDA n : period(n) # None)
      gaps    == FlattenSeq([i \in DOMAIN steady |->
                   Gaps(steady[i], times(steady[i]), SilenceOf(period(steady[i])), end)])
      rank(n) == CHOOSE i \in DOMAIN series : series[i] = n
      byStart == SortSeq(gaps, LAMBDA g, h : \/ g.from < h.from
                                             \/ g.from = h.from /\ rank(g.series) < rank(h.series))
      clusters == Cluster(byStart)
      alone   == SelectSeq(clusters, LAMBDA c : ~Grouped(c))
      edges   == IF judged < Len(series) \/ ~Judged(bag, "/tf") THEN <<>>
                 ELSE EdgeGaps(EdgesOf(seen), times("/tf"), clusters)
      topics  == SelectSeq(bag.order, LAMBDA n : SampledPairs(bag, seen, n) # <<>>)
      looked  == SelectSeq(Take(topics, stamped),
                           LAMBDA n : \E i \in DOMAIN steady : steady[i] = n)
      lines   == ClockLines(SelectSeq(Of(seen, "/clock"), LAMBDA m : m.sim # None))
                 \o GroupLines(clusters)
                 \o GapLines("silence", [i \in DOMAIN alone |-> alone[i].gaps[1]])
                 \o GapLines("edge", edges)
                 \o FlattenSeq([i \in DOMAIN looked |->
                      StampLines(looked[i], SampledPairs(bag, seen, looked[i]), period(looked[i]))])
  IN  [lines |-> IF Len(lines) > L.listed
                   THEN Append(Take(lines, L.listed), Line("more", {}, 0, 0)) ELSE lines,
       cut |-> judged < Len(series) \/ stamped < Len(topics)]

-----------------------------------------------------------------------------
(* Rates *)
Span(count, first, last) == [count |-> count, first |-> first, last |-> last]
SpanOf(messages, name) ==
  LET own == Of(messages, name)
  IN  IF own = <<>> THEN Span(0, None, None)
      ELSE Span(Len(own), MinOf({own[i].ts : i \in DOMAIN own}),
                MaxOf({own[i].ts : i \in DOMAIN own}))
SpansOf(bag, messages) == [name \in DOMAIN bag.topic |-> SpanOf(messages, name)]

(* build_topic_stats: (count - 1) / (last - first), none for a start-up    *)
(* burst of a latched topic.                                               *)
TopicStats(bag, name, span) ==
  LET burst == /\ bag.topic[name].latched = "yes" /\ span.first # None
               /\ span.last - span.first < L.second
      rated == span.count >= 2 /\ span.first # None /\ span.last > span.first /\ ~burst
  IN  [count |-> span.count, first |-> span.first, last |-> span.last,
       basis |-> IF rated THEN "topic_span" ELSE "none"]

(* _topics_from_counts, and ros2 bag info: count / bag duration.           *)
StatsOfCounts(bag) ==
  [name \in DOMAIN bag.topic |->
     [count |-> Len(Of(bag.messages, name)), first |-> None, last |-> None,
      basis |-> IF bag.end > bag.start THEN "bag_duration" ELSE "none"]]

(* overlay_spans: the counts are the tool's, the times the spans'.         *)
OverlaySpans(bag, stats, spans) ==
  [name \in DOMAIN stats |->
     TopicStats(bag, name, [spans[name] EXCEPT !.count = stats[name].count])]
=============================================================================
