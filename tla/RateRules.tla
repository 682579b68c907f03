----------------------------- MODULE RateRules -----------------------------
(***************************************************************************)
(* adapters/common/summaries: rate.py, clock.py and laser_scan.py, the     *)
(* figures sample_messages and peek_bag_samples give of what they read.    *)
(* Times are integers; a fraction is a pair of integers, so that a verdict *)
(* compares them exactly.  A message that arrived is [at, stamp, source];  *)
(* a range of a scan is [kind, n]; bearings are in degrees.                *)
(***************************************************************************)
EXTENDS Integers, Sequences, FiniteSets
LOCAL INSTANCE SequencesExt
LOCAL INSTANCE FiniteSetsExt

CONSTANTS R   \* the thresholds, by name

Missing == -99
Total(values) == FoldSeq(+, 0, values)
Largest(values) == Max({0} \cup {values[i] : i \in DOMAIN values})
Waits(times) == [i \in 1 .. Len(times) - 1 |-> times[i + 1] - times[i]]
(* Twice the median, so that it is an integer.                             *)
Median2(values) ==
  LET s == SortSeq(values, <)
  IN  s[(Len(s) + 1) \div 2] + s[(Len(s) + 2) \div 2]

-----------------------------------------------------------------------------
(* _startup_burst: the leading messages a fresh echo had queued.           *)
StartupBurst_one(times) ==
  LET w == Waits(times)
  IN  IF Len(w) >= R.drainWaits /\ 2 * R.drainPart * w[1] < Median2(w) THEN 1 ELSE 0
StartupBurst(times) ==
  LET w == Waits(times)
      queued(n) == \A i \in 1 .. n : 2 * R.drainPart * w[i] < Median2(w)
  IN  IF Len(w) < R.drainWaits THEN 0 ELSE Max({n \in 0 .. Len(w) \div 2 : queued(n)})

(* _trailing_ns: measured when the reading ended on its deadline.          *)
Trailing(times, end, deadline) ==
  IF ~deadline \/ end = Missing \/ times = <<>> THEN Missing ELSE Max({0, end - Last(times)})

(* _cv: the square of deviation over mean, as a fraction.                  *)
Variation(waits) ==
  [top |-> Len(waits) * Total([i \in DOMAIN waits |-> waits[i] * waits[i]]) - Total(waits) * Total(waits),
   bottom |-> Total(waits) * Total(waits)]
Below(waits, part) == part * part * Variation(waits).top < Variation(waits).bottom

(* _frequency: so many messages over so long.                              *)
NoFrequency == [messages |-> 0, over |-> 0]
Frequency(n, span) == IF n < 2 \/ span <= 0 THEN NoFrequency ELSE [messages |-> n - 1, over |-> span]
SimFrequency(stamps) ==
  IF Len(stamps) < 2 THEN NoFrequency ELSE Frequency(Len(stamps), Last(stamps) - stamps[1])

RateVerdict(kept, waits, trailing) ==
  LET gap == Max({Largest(waits), trailing})
  IN  CASE kept = <<>> -> "silent"
        [] Len(kept) \in 1 .. R.samples - 1 -> "insufficient"
        [] Len(kept) >= R.samples /\ 2 * gap > R.gapFactor * Median2(waits) -> "intermittent"
        [] OTHER -> IF Total(waits) = 0 THEN "erratic"
                    ELSE IF Below(waits, R.stable) THEN "stable"
                    ELSE IF Below(waits, R.jittery) THEN "jittery" ELSE "erratic"

-----------------------------------------------------------------------------
(* clock.py: what clock the stamps of a stream are on.                     *)
ClassifyStamp(m) ==
  IF m.stamp = 0 \/ m.source \in {"none", "recorded"} THEN "zero"
  ELSE IF m.stamp >= R.wall THEN "wall" ELSE "sim"
ClockBasis(messages) ==
  LET classes == {ClassifyStamp(messages[i]) : i \in DOMAIN messages}
  IN  CASE Cardinality(classes) > 1 -> "mixed"
        [] classes \in {{"wall"}, {"sim"}} -> CHOOSE c \in classes : TRUE
        [] OTHER -> "none"
Stamped(messages) == SelectSeq(messages, LAMBDA m : ClassifyStamp(m) # "zero")
Regressions(messages) ==
  LET s == Stamped(messages)
  IN  Cardinality({i \in 1 .. Len(s) - 1 : s[i + 1].stamp < s[i].stamp})
Ages(messages) == SortSeq([i \in DOMAIN messages |-> messages[i].at - messages[i].stamp], <)
NearestRank95(sorted) ==
  IF Len(sorted) < R.ranked THEN Last(sorted) ELSE sorted[(19 * Len(sorted) + 19) \div 20]
ComputeClock(messages) ==
  LET ordered == SortSeq(messages, LAMBDA a, b : a.at < b.at)
      basis   == ClockBasis(ordered)
      dated   == basis = "wall"
  IN  [basis |-> basis, regressions |-> Regressions(ordered),
       age2 |-> IF dated THEN Median2(Ages(ordered)) ELSE Missing,
       age95 |-> IF dated THEN NearestRank95(Ages(ordered)) ELSE Missing]

(* TopicRate                                                               *)
TopicRate(n, burst, kept, waits, trailing, sim, clock) ==
  [message_count |-> n, startup_burst_count |-> burst,
   observed |-> Frequency(Len(kept), Total(waits)), sim |-> sim,
   max_gap |-> IF waits = <<>> THEN Missing ELSE Largest(waits),
   trailing_gap |-> trailing, clock |-> clock,
   verdict |-> RateVerdict(kept, waits, trailing)]
(* compute_rate of [messages, live, end, deadline].                        *)
ComputeRate(stream) ==
  LET times == SortSeq([i \in DOMAIN stream.messages |-> stream.messages[i].at], <)
      burst == IF stream.live THEN StartupBurst(times) ELSE 0
      kept  == SubSeq(times, burst + 1, Len(times))
      told  == \A i \in DOMAIN stream.messages : ClassifyStamp(stream.messages[i]) # "zero"
      stamps == [i \in DOMAIN stream.messages |-> stream.messages[i].stamp]
  IN  TopicRate(Len(times), burst, kept, Waits(kept), Trailing(times, stream.end, stream.deadline),
                IF told THEN SimFrequency(stamps) ELSE NoFrequency, ComputeClock(stream.messages))

-----------------------------------------------------------------------------
(* laser_scan.py                                                           *)
Sectors == {"front", "left", "right", "rear"}
Wrapped(bearing) == ((bearing + 180) % 360) - 180
SectorOfBearing(bearing) ==
  CASE bearing \in -R.front .. R.front -> "front"
    [] bearing \notin -R.side .. R.side -> "rear"
    [] bearing \in R.front + 1 .. R.side -> "left"
    [] OTHER -> "right"
(* _increment: as stated, else from the span of the scan.                  *)
Increment(scan) ==
  IF scan.first = Missing THEN Missing
  ELSE IF scan.step \notin {Missing, 0} THEN scan.step
  ELSE IF scan.last = Missing \/ Len(scan.ranges) < 2 \/ scan.last = scan.first THEN Missing
  ELSE (scan.last - scan.first) \div (Len(scan.ranges) - 1)
HasGeometry(scan) == Increment(scan) # Missing
Bearing(scan, i) == Wrapped(scan.first + (i - 1) * Increment(scan))
Finite(value) == value.kind = "number"
InBounds_open(scan, value) == TRUE
InBounds(scan, value) ==
  scan.low # Missing /\ scan.high # Missing /\ scan.high > scan.low =>
    scan.low <= value.n /\ value.n <= scan.high
Beams(scan, sector) ==
  IF HasGeometry(scan) THEN {i \in DOMAIN scan.ranges : SectorOfBearing(Bearing(scan, i)) = sector} ELSE {}
Returns(scan, beams) == {i \in beams : Finite(scan.ranges[i]) /\ InBounds(scan, scan.ranges[i])}
(* The first of the shortest returns.                                      *)
Closest(scan, beams) ==
  LET found == Returns(scan, beams)
  IN  IF found = {} THEN Missing
      ELSE Min({i \in found : \A j \in found : scan.ranges[i].n <= scan.ranges[j].n})
ScanSector(scan, sector) ==
  [beam_count |-> Cardinality(Beams(scan, sector)), closest |-> Closest(scan, Beams(scan, sector)),
   note |-> CASE Closest(scan, Beams(scan, sector)) # Missing -> "none"
              [] ~HasGeometry(scan) -> "no geometry"
              [] OTHER -> IF Beams(scan, sector) = {} THEN "not covered" ELSE "no valid return"]
LaserScanSummary(scan) ==
  LET of(kind) == Cardinality({i \in DOMAIN scan.ranges : scan.ranges[i].kind = kind})
      finite   == {i \in DOMAIN scan.ranges : Finite(scan.ranges[i])}
  IN  [finite_count |-> Cardinality(finite), inf_count |-> of("inf"), neg_inf_count |-> of("-inf"),
       nan_count |-> of("nan"),
       out_of_range_count |-> Cardinality({i \in finite : ~InBounds(scan, scan.ranges[i])}),
       closest_obstacle |-> Closest(scan, UNION {Beams(scan, s) : s \in Sectors}),
       sectors |-> [s \in Sectors |-> ScanSector(scan, s)]]

-----------------------------------------------------------------------------
(* A publisher of one message every p whose first k arrive at once is read *)
(* stable and at p, while k waits are no more than half; setting the drain *)
(* aside never hides the longest wait; a longer silence after the last     *)
(* message never makes the verdict better; the clock goes back exactly     *)
(* where the stamps do, and an age is of dated messages only.              *)
Better == <<"stable", "jittery", "erratic", "intermittent">>
Grade(verdict) == CHOOSE i \in 1 .. Len(Better) : Better[i] = verdict
RateIsTrue(stream, given) ==
  LET times  == SortSeq([i \in DOMAIN stream.messages |-> stream.messages[i].at], <)
      waits  == Waits(times)
      queued == Len(SelectSeq(waits, LAMBDA w : w = 0))
      quiet(p) == ~stream.deadline \/ stream.end - Last(times) <= R.gapFactor * p
      stamped == Stamped(SortSeq(stream.messages, LAMBDA a, b : a.at < b.at))
  IN  /\ given.verdict = "silent" <=> times = <<>>
      /\ waits # <<>> => given.max_gap = Largest(waits)
      /\ \A p \in {waits[i] : i \in DOMAIN waits} \ {0} :
           (/\ stream.live /\ 2 * queued <= Len(waits) /\ Len(waits) >= R.drainWaits
            /\ \A i \in DOMAIN waits : waits[i] = IF i <= queued THEN 0 ELSE p
            /\ Len(times) - queued >= R.samples /\ quiet(p)) =>
             /\ given.verdict = "stable"
             /\ given.observed.over = p * given.observed.messages
      /\ (stream.deadline /\ given.verdict \in {"stable", "jittery", "erratic", "intermittent"}) =>
           Grade(ComputeRate([stream EXCEPT !.end = @ + 3]).verdict) >= Grade(given.verdict)
      /\ given.clock.regressions = 0 <=>
           \A i, j \in DOMAIN stamped : i < j => stamped[i].stamp <= stamped[j].stamp
      /\ given.clock.age2 # Missing =>
           /\ Len(stamped) = Len(times) /\ \A i \in DOMAIN stamped : stamped[i].stamp >= R.wall
           /\ given.clock.age2 <= 2 * given.clock.age95

(* Every range of a scan is counted once, in one sector where the scan has *)
(* angles; the closest obstacle is the closest of the sectors', a return   *)
(* within the bounds of the sensor, and nothing valid is closer to it.     *)
Inside(scan, i) ==
  /\ scan.ranges[i].kind = "number"
  /\ scan.high > scan.low /\ scan.low # Missing =>
       scan.ranges[i].n \in scan.low .. scan.high
ScanAddsUp(scan, given) ==
  LET valid == {i \in DOMAIN scan.ranges : Inside(scan, i)}
      best  == {given.sectors[s].closest : s \in Sectors} \ {Missing}
      beams == MapThenSumSet(LAMBDA s : given.sectors[s].beam_count, Sectors)
  IN  /\ given.finite_count + given.inf_count + given.neg_inf_count + given.nan_count = Len(scan.ranges)
      /\ Cardinality(valid) = given.finite_count - given.out_of_range_count
      /\ beams \in {0, Len(scan.ranges)}
      /\ given.closest_obstacle = Missing <=> best = {}
      /\ beams > 0 => (best = {} <=> valid = {})
      /\ best # {} =>
           /\ given.closest_obstacle \in best /\ given.closest_obstacle \in valid
           /\ \A i \in valid : scan.ranges[given.closest_obstacle].n <= scan.ranges[i].n
      /\ \A s \in Sectors : given.sectors[s].beam_count = 0 => given.sectors[s].closest = Missing
=============================================================================
