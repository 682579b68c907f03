------------------------------ MODULE BagReads ------------------------------
(***************************************************************************)
(* analyze_bag and peek_bag_samples: ros2_live/adapter.py, adapters/       *)
(* common/bag_read.py, bag_scan.py, bag_container.py, log_filter.py and    *)
(* services/bag_service.py.  A call names a bag file; which readers the    *)
(* host has decides how it is read.  Both readers look at the clock every  *)
(* few messages only, so the time may run out at any of those looks.       *)
(***************************************************************************)
EXTENDS BagRules, OrderedMap
LOCAL INSTANCE SequencesExt

CONSTANTS CheckEvery,      \* _CLOCK_CHECK_EVERY
          PeekCheckEvery   \* _PEEK_CLOCK_CHECK_EVERY

ASSUME ReadingAssumption == L.samples \in Nat

VARIABLES call,      \* what is asked, of which bag, on which host
          phase,     \* the step the call is at
          notes,     \* the note of the answer, by topic
          pass,      \* the pass over the bag: the messages seen and what it kept
          stats, lines,        \* the topics and the anomalies of the answer
          cursor, samples,     \* the peek: messages scanned, samples kept
          outcome              \* "none", "given" or "error"

bagvars == <<call, phase, notes, pass, stats, lines, cursor, samples, outcome>>

NoPass == [seen |-> 0, cut |-> FALSE, end |-> 0]
bag == call.bag

(* No message of a bag is older than its start; a range is in ticks from   *)
(* there.                                                                  *)
IsBagCall ==
  /\ bag.messages \in Seq({bag.messages[i] : i \in DOMAIN bag.messages})
  /\ bag.start \in Int
  /\ \A i \in DOMAIN bag.messages :
       bag.messages[i].ts \in Int /\ bag.messages[i].ts >= bag.start
  /\ call.tool = "peek_bag_samples" =>
       call.count \in Nat /\ {call.from, call.to} \subseteq Nat \cup {None}

BagInit ==
  /\ phase = IF call.tool = "peek_bag_samples" THEN "open"
             ELSE IF call.adapter = "ros2_cli" THEN "info" ELSE "read"
  /\ notes = {} /\ pass = NoPass /\ stats = <<>> /\ lines = <<>>
  /\ cursor = 0 /\ samples = <<>> /\ outcome = "none"

Finishes(how) == phase' = "done" /\ outcome' = how
GoesOn(to) == phase' = to /\ UNCHANGED outcome
Noted(n) == notes' = notes \cup {n}
PeekSame == UNCHANGED <<cursor, samples>>

-----------------------------------------------------------------------------
(* describe_container refuses a directory without metadata and a bare zstd *)
(* file.                                                                   *)
IsBag == bag.file \notin {"missing", "not a bag"}

(* AnyReader opens the bag; a big file-compressed one is refused before it *)
(* is unpacked.                                                            *)
Readable == call.rosbags /\ bag.file \in {"plain", "small compressed"}
Compressed == bag.file \in {"small compressed", "big compressed"}
(* read_db3_spans: of a plain .db3, by sqlite, without rosbags.            *)
KnownSpans == bag.storage = "sqlite3" /\ bag.file = "plain"
NoSpans == <<>>

(* analyze_bag of the live adapter: ros2 bag info first.                   *)
BagInfo ==
  /\ phase = "info"
  /\ IF ~IsBag THEN Finishes("error") /\ UNCHANGED <<notes, stats>>
     ELSE IF call.cli THEN /\ stats' = StatsOfCounts(bag)
                           /\ GoesOn("scan") /\ UNCHANGED notes
     ELSE Noted("ros2 bag info failed") /\ GoesOn("read") /\ UNCHANGED stats
  /\ PeekSame /\ UNCHANGED <<call, pass, lines>>

(* scan_bag never raises: what it does not read it says it did not check.  *)
ScanUnread ==
  /\ phase = "scan" /\ (~Readable \/ Compressed)
  /\ Noted("not checked")
  /\ stats' = IF KnownSpans THEN OverlaySpans(bag, stats, SpansOf(bag, bag.messages)) ELSE stats
  /\ Finishes("given")
  /\ PeekSame /\ UNCHANGED <<call, pass, lines>>

(* analyze_bag_file: every failure is the caller's.                        *)
ReadFails ==
  /\ phase = "read" /\ ~(IsBag /\ Readable)
  /\ Finishes("error") /\ PeekSame /\ UNCHANGED <<call, notes, pass, stats, lines>>

(* scan_reader over the whole bag, or cut at a look at the clock: the      *)
(* message in hand at a cut is not counted.                                *)
Passes(seen, cut, end) ==
  /\ pass' = [seen |-> seen, cut |-> cut, end |-> end]
  /\ notes' = notes \cup (IF cut THEN {"cut"} ELSE {})
  /\ GoesOn(phase \o " judged")
  /\ PeekSame /\ UNCHANGED <<call, stats, lines>>

Scanning == \/ phase = "scan" /\ Readable /\ ~Compressed
            \/ phase = "read" /\ IsBag /\ Readable

PassWhole == Scanning /\ Passes(Len(bag.messages), FALSE, bag.end)
PassCut ==
  /\ Scanning
  /\ \E n \in 1 .. Len(bag.messages) :
       n % CheckEvery = 0 /\ Passes(n - 1, TRUE, bag.messages[n].ts)

Seen == SubSeq(bag.messages, 1, pass.seen)

(* Spans already known are kept; those of a pass that was cut are dropped. *)
Spans_ofCut == IF KnownSpans THEN SpansOf(bag, bag.messages) ELSE SpansOf(bag, Seen)
Spans ==
  IF KnownSpans THEN SpansOf(bag, bag.messages)
  ELSE IF pass.cut THEN NoSpans ELSE SpansOf(bag, Seen)
(* The rates of the answer: from the spans, else from the counts.          *)
ReadStats ==
  CASE phase = "scan judged" /\ Spans # NoSpans -> OverlaySpans(bag, stats, Spans)
    [] phase = "scan judged" /\ Spans = NoSpans -> stats
    [] phase = "read judged" /\ Spans # NoSpans ->
         [n \in DOMAIN bag.topic |-> TopicStats(bag, n, Spans[n])]
    [] OTHER -> StatsOfCounts(bag)

Judges(judged, stamped) ==
  LET found == FindAnomalies(bag, Seen, pass.end, judged, stamped)
  IN  /\ lines' = found.lines
      /\ notes' = notes \cup (IF found.cut THEN {"analysis cut"} ELSE {})
      /\ stats' = ReadStats
      /\ Finishes("given")
      /\ PeekSame /\ UNCHANGED <<call, pass>>

Judging == phase \in {"scan judged", "read judged"}
Judge == Judging /\ Judges(Len(bag.order), Len(bag.order))
JudgeCut ==
  /\ Judging
  /\ \/ \E n \in 0 .. Len(bag.order) - 1 :
          n < Len(SelectSeq(bag.order, LAMBDA t : Judged(bag, t))) /\ Judges(n, 0)
     \/ Judges(Len(bag.order), 0)

-----------------------------------------------------------------------------
(* peek_bag_samples.  The range is [start, end) from the first record.     *)
InRange_closed(m) == /\ call.from # None => m.ts >= bag.start + call.from
                     /\ call.to # None => m.ts <= bag.start + call.to
InRange(m) == /\ call.from # None => m.ts >= bag.start + call.from
              /\ call.to # None => m.ts < bag.start + call.to
InScope == {i \in DOMAIN bag.messages :
              bag.messages[i].topic = call.topic /\ InRange(bag.messages[i])}
Ranged == Select(bag.messages, InScope)

(* matches_log: a level at least the one asked for, and the node or one of *)
(* its child loggers; a logger's name is the sequence of its parts.        *)
Filtered == call.level # None \/ call.node # <<>>
Matches(m) == /\ call.level # None => m.level # None /\ m.level >= call.level
              /\ call.node # <<>> => IsPrefix(call.node, m.name)

(* validate_range and the refusals before the first message.               *)
EmptyRange == call.from # None /\ call.to # None /\ call.to <= call.from
PeekRefused ==
  \/ ~IsBag \/ ~Readable \/ EmptyRange
  \/ call.topic \notin DOMAIN bag.topic
  \/ (Filtered /\ ~bag.topic[call.topic].log)

PeekOpen ==
  /\ phase = "open"
  /\ IF PeekRefused THEN Finishes("error") ELSE GoesOn("peek")
  /\ PeekSame /\ UNCHANGED <<call, notes, pass, stats, lines>>

AtMost == MinOf({call.count, L.samples})
PeekNext == phase = "peek" /\ cursor < Len(Ranged) /\ Len(samples) < AtMost

PeekMessage ==
  /\ PeekNext
  /\ cursor' = cursor + 1
  /\ samples' = IF Filtered /\ ~Matches(Ranged[cursor + 1]) THEN samples
                ELSE Append(samples, Ranged[cursor + 1])
  /\ UNCHANGED <<call, phase, notes, pass, stats, lines, outcome>>

(* The notes of the end of the reading.                                    *)
PeekNotes ==
  (IF Filtered /\ cursor > 0 THEN {"first matches"} ELSE {})
  \cup (IF call.from # None /\ call.from > bag.end - bag.start THEN {"past the end"}
        ELSE IF (call.from # None \/ call.to # None) /\ samples = <<>> THEN {"empty range"}
        ELSE {})

PeekDone(also) ==
  /\ notes' = notes \cup PeekNotes \cup also
  /\ Finishes("given")
  /\ PeekSame /\ UNCHANGED <<call, pass, stats, lines>>
PeekStop ==
  /\ PeekNext /\ cursor > 0 /\ cursor % PeekCheckEvery = 0
  /\ PeekDone({"stopped"})
PeekEnd == phase = "peek" /\ ~PeekNext /\ PeekDone({})

BagNext ==
  \/ BagInfo \/ ScanUnread \/ ReadFails
  \/ PassWhole \/ PassCut \/ Judge \/ JudgeCut
  \/ PeekOpen \/ PeekMessage \/ PeekStop \/ PeekEnd

-----------------------------------------------------------------------------
(* What the answers promise                                                *)
Analysed == outcome = "given" /\ call.tool = "analyze_bag"
Told(kinds) == {i \in DOMAIN lines : lines[i].kind \in kinds}
Unlisted == Told({"more"}) # {}

(* A hole of a judged series, in the part of the bag the pass has seen.    *)
Holes(series) ==
  LET own    == Times(Of(Seen, series))
      period == SteadyPeriod(own, L.intervals)
      pairs  == {<<own[i], own[i + 1]>> : i \in 1 .. Len(own) - 1}
      tail   == IF own = <<>> THEN {} ELSE {<<own[Len(own)], pass.end>>}
  IN  IF period = None THEN {}
      ELSE {h \in pairs \cup tail : h[2] - h[1] > MaxOf({L.gapFactor * period, L.gapFloor})}
SaysOf(series, hole) ==
  \/ Unlisted
  \/ \E i \in Told({"silence"}) : /\ lines[i].names = {series}
                                  /\ lines[i].from = hole[1] /\ lines[i].to = hole[2]
  \/ \E i \in Told({"together"}) : /\ series \in lines[i].names
                                   /\ lines[i].from < hole[2] /\ hole[1] < lines[i].to
  \/ \E i \in Told({"more silences"}) : lines[i].names = {series}
  \/ Cardinality({h \in Holes(series) : h[2] - h[1] >= hole[2] - hole[1]}) > L.gapsPerSeries

(* An analysis that carries no note about what was not checked tells of    *)
(* every hole of every steady series, by a line of its own, a common one,  *)
(* or one that counts what is not listed; a pass that was cut does so for  *)
(* the part it says it covered.  Of a series with more holes than are kept *)
(* of one (MAX_GAPS_PER_SERIES), it need tell of the longest only.         *)
SilenceIsTold ==
  (Analysed /\ notes \cap {"not checked", "analysis cut"} = {}) =>
    \A name \in DOMAIN bag.topic : Judged(bag, name) =>
      \A hole \in Holes(name) : SaysOf(name, hole)

(* No message of a series lies strictly inside a silence told of it.       *)
GapsAreReal ==
  Analysed =>
    \A i \in Told({"silence", "together", "edge"}), j \in DOMAIN bag.messages :
      LET m == bag.messages[j]
      IN  ~ /\ lines[i].from < m.ts /\ m.ts < lines[i].to
            /\ \/ m.topic \in lines[i].names
               \/ \E e \in DOMAIN m.edges : m.edges[e] \in lines[i].names

(* A rate said to be of a topic's own span is of its whole span, and the   *)
(* count is the whole count, even when the pass was cut.                   *)
RatesAreWhole ==
  Analysed => \A name \in DOMAIN stats :
    LET whole == SpanOf(bag.messages, name)
    IN  /\ stats[name].count = whole.count
        /\ stats[name].basis = "topic_span" =>
             stats[name].first = whole.first /\ stats[name].last = whole.last

(* analyze_bag: what the summary of a bag says of its silences and rates   *)
(* is true of the bag, however its reading was cut.                        *)
BagSummaryIsTrue == SilenceIsTold /\ GapsAreReal /\ RatesAreWhole

(* peek_bag_samples returns the first count matching messages of the       *)
(* half-open range in bag order; fewer only where there are no more, or    *)
(* under a note that the scan stopped; an empty range is said.             *)
PeekIsFirst ==
  (outcome = "given" /\ call.tool = "peek_bag_samples") =>
    LET own == Select(bag.messages, {i \in DOMAIN bag.messages :
                 LET m == bag.messages[i]
                 IN  /\ m.topic = call.topic
                     /\ m.ts - bag.start >= call.from
                     /\ call.to # None => m.ts - bag.start < call.to
                     /\ Matches(m)})
    IN  /\ Len(samples) <= Len(own) /\ samples = SubSeq(own, 1, Len(samples))
        /\ Len(samples) <= call.count
        /\ Len(samples) < MinOf({AtMost, Len(own)}) => "stopped" \in notes
        /\ (call.to # None /\ samples = <<>>) =>
             notes \cap {"empty range", "past the end"} # {}
=============================================================================
