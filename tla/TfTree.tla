------------------------------- MODULE TfTree -------------------------------
(***************************************************************************)
(* adapters/common/tf_tree.py and urdf.py: the report of inspect_tf, made  *)
(* of the transforms of a capture.  A transform is [parent, child, stamp,  *)
(* at, static]: at is its arrival.  A frame is a number, in the order of   *)
(* the names; a number above Prefix is the name f % Prefix under a         *)
(* frame_prefix.  Times are in tenths of a second.                         *)
(***************************************************************************)
EXTENDS Integers, FiniteSets, SequencesExt, OrderedMap

Second == 10
Prefix == 10
None == 0

MaxOf(S) == CHOOSE x \in S : \A y \in S : x >= y
MinOf(S) == CHOOSE x \in S : \A y \in S : x <= y
InOrder(S) == SortedBy(S, [x \in S |-> {y \in S : y < x}])

-----------------------------------------------------------------------------
(* _group_edges: an edge is a (parent, child) pair.                        *)
Edges(capture) == {<<s.parent, s.child>> : s \in capture}
Samples(capture, e) == {s \in capture : <<s.parent, s.child>> = e}
Dynamic(capture, e) == {s \in Samples(capture, e) : ~s.static}
Stamps(samples) == {s.stamp : s \in samples}

Children(edges) == {e[2] : e \in edges}
Names(edges) == {e[1] : e \in edges} \cup Children(edges)
Roots(edges) == Names(edges) \ Children(edges)
ParentsOf(edges, f) == {e[1] : e \in {x \in edges : x[2] = f}}

(* _latest: the edge seen last, a dynamic one before a static one, then by *)
(* the parent's name.                                                      *)
Later(capture, e, f) ==
  LET key(x) == <<MaxOf(Stamps(Samples(capture, x))),
                  IF Dynamic(capture, x) # {} THEN 1 ELSE 0, x[1]>>
      a == key(e)
      b == key(f)
  IN  \E i \in 1 .. 3 : a[i] > b[i] /\ \A j \in 1 .. i - 1 : a[j] = b[j]

LatestEdge(capture, child) ==
  CHOOSE e \in Edges(capture) :
    /\ e[2] = child
    /\ \A f \in Edges(capture) : f[2] = child /\ f # e => Later(capture, e, f)

Chosen(capture) == [c \in Children(Edges(capture)) |-> LatestEdge(capture, c)[1]]

-----------------------------------------------------------------------------
(* _frame and _stale_limit: an edge of a steady rate is stale once silent  *)
(* for ten periods and a second, any edge once silent for staleAfter.      *)
Reference(capture) == MaxOf(Stamps({s \in capture : ~s.static}))

SilentPeriods == 10
MinSilence == Second
MinRateSamples == 5

Stale_steadyOnly(capture, child, staleAfter) ==
  LET dyn  == Dynamic(capture, <<Chosen(capture)[child], child>>)
      last == MaxOf(Stamps(dyn))
      age  == Reference(capture) - last
      span == last - MinOf(Stamps(dyn))
      n    == Cardinality(dyn)
  IN  /\ dyn # {}
      /\ IF span > 0 /\ n >= MinRateSamples
           THEN age * (n - 1) > SilentPeriods * span /\ age > MinSilence
           ELSE age > staleAfter
Stale(capture, child, staleAfter) ==
  LET e    == <<Chosen(capture)[child], child>>
      dyn  == Dynamic(capture, e)
      last == MaxOf(Stamps(dyn))
      age  == Reference(capture) - last
      span == last - MinOf(Stamps(dyn))
      n    == Cardinality(dyn)
  IN  /\ dyn # {}
      /\ \/ age > staleAfter
         \/ /\ span > 0 /\ n >= MinRateSamples
            /\ age * (n - 1) > SilentPeriods * span
            /\ age > MinSilence

Finding(kind, frames) == [kind |-> kind, frames |-> frames]

StaleFindings(capture, staleAfter) ==
  {Finding("stale", <<Chosen(capture)[c], c>>) :
     c \in {x \in DOMAIN Chosen(capture) : Stale(capture, x, staleAfter)}}

TwoParentFindings_offByOne(edges) ==
  {Finding("two_parents", <<c>> \o InOrder(ParentsOf(edges, c))) :
     c \in {x \in Children(edges) : Cardinality(ParentsOf(edges, x)) > 2}}
TwoParentFindings(edges) ==
  {Finding("two_parents", <<c>> \o InOrder(ParentsOf(edges, c))) :
     c \in {x \in Children(edges) : Cardinality(ParentsOf(edges, x)) > 1}}

StaticDynamicFindings(capture) ==
  {Finding("static_and_dynamic", <<c>>) :
     c \in {x \in Children(Edges(capture)) :
              {s.static : s \in {y \in capture : y.child = x}} = BOOLEAN}}

DisconnectedFindings(edges) ==
  IF Cardinality(Roots(edges)) < 2 THEN {}
  ELSE {Finding("disconnected", InOrder(Roots(edges)))}

(* _cycle_findings: from each frame up the chosen parents until a frame    *)
(* comes again; the loop is told from its first name, parent to child.     *)
GoesRound(walk) == Last(walk) \in Range(Front(walk))

Up(chosen, walk) ==
  IF GoesRound(walk) \/ Last(walk) \notin DOMAIN chosen THEN walk
  ELSE Append(walk, chosen[Last(walk)])

Walk(chosen, start) ==
  LET longest == Cardinality(DOMAIN chosen)
      walk[n \in 0 .. longest] == IF n = 0 THEN <<start>> ELSE Up(chosen, walk[n - 1])
  IN  walk[longest]

Loop(walk) == Reverse(SubSeq(walk, SelectInSeq(walk, LAMBDA f : f = Last(walk)), Len(walk) - 1))

FromFirst(loop) ==
  LET i == SelectInSeq(loop, LAMBDA f : f = MinOf(Range(loop)))
  IN  SubSeq(loop, i, Len(loop)) \o SubSeq(loop, 1, i - 1)

CycleFindings(chosen) ==
  {Finding("cycle", FromFirst(Loop(walk))) :
     walk \in {w \in {Walk(chosen, f) : f \in DOMAIN chosen} : GoesRound(w)}}

-----------------------------------------------------------------------------
(* _bfs: the chain of frames between two frames, over the transforms read  *)
(* in either direction; previous is the tree of the search, which takes    *)
(* each frame from the queue once.                                         *)
Adjacent_down(edges, f) == {g \in Names(edges) : <<f, g>> \in edges}
Adjacent(edges, f) == {g \in Names(edges) : <<f, g>> \in edges \/ <<g, f>> \in edges}

Visit(edges, dst, s) ==
  LET node == Head(s.queue)
      next == Adjacent(edges, node) \ DOMAIN s.previous
  IN  IF s.queue = <<>> \/ node = dst THEN s
      ELSE [queue    |-> Tail(s.queue) \o InOrder(next),
            previous |-> [f \in DOMAIN s.previous \cup next |->
                            IF f \in next THEN node ELSE s.previous[f]]]

Bfs(edges, src, dst) ==
  LET all == Cardinality(Names(edges))
      search[n \in 0 .. all] ==
        IF n = 0 THEN [queue |-> <<src>>, previous |-> [f \in {src} |-> None]]
        ELSE Visit(edges, dst, search[n - 1])
  IN  search[all].previous

OneBack(previous, chain) ==
  IF previous[Head(chain)] = None THEN chain ELSE <<previous[Head(chain)]>> \o chain

Back(previous, dst) ==
  LET longest == Cardinality(DOMAIN previous)
      chain[n \in 0 .. longest] == IF n = 0 THEN <<dst>> ELSE OneBack(previous, chain[n - 1])
  IN  chain[longest]

(* _path: <<>> stands for no path.                                         *)
Path(edges, src, dst) ==
  IF src = None \/ {src, dst} \ Names(edges) # {} THEN <<>>
  ELSE LET previous == Bfs(edges, src, dst)
       IN  IF dst \in DOMAIN previous THEN Back(previous, dst) ELSE <<>>

NoPathFindings(edges, src, dst) ==
  IF src = None \/ Path(edges, src, dst) # <<>> THEN {}
  ELSE LET missing == SelectSeq(<<src, dst>>, LAMBDA f : f \notin Names(edges))
       IN  {Finding("no_path", IF missing = <<>> THEN <<src, dst>> ELSE missing)}

-----------------------------------------------------------------------------
(* urdf.py: a link has a frame of its name, or of its name under a prefix. *)
(* A description that is not a robot with a link is refused.               *)
Readable(text) == text.form = "robot" /\ text.links # {}
LinkHasFrame(link, frames) == \E f \in frames : f = link \/ f % Prefix = link
FrameInUrdf(frame, links) == \E l \in links : frame = l \/ frame % Prefix = l

Missing(links, frames) == {l \in links : ~LinkHasFrame(l, frames)}
NotInUrdf(links, frames) == {f \in frames : ~FrameInUrdf(f, links)}

DeclaredFindings(links, frames) ==
  IF frames = {} \/ Missing(links, frames) = {} THEN {}
  ELSE {Finding("declared_not_published", InOrder(Missing(links, frames)))}

-----------------------------------------------------------------------------
(* _clock_figures, the ratios behind the real-time factor: stamp time over *)
(* arrival time of each edge seen moving.                                  *)
Ratios(capture) ==
  LET span(S) == MaxOf(S) - MinOf(S)
      dyn(e)  == Dynamic(capture, e)
      at(e)   == {s.at : s \in dyn(e)}
  IN  {<<span(Stamps(dyn(e))), span(at(e))>> :
         e \in {x \in Edges(capture) : /\ Cardinality(dyn(x)) > 1
                                       /\ span(Stamps(dyn(x))) > 0 /\ span(at(x)) > 0}}

(* build_tf_report: links is {} when there is no URDF to compare.          *)
BuildTfReport(capture, staleAfter, src, dst, links) ==
  LET edges  == Edges(capture)
      frames == Names(edges)
  IN  [frames   |-> frames,
       parent   |-> Chosen(capture),
       roots    |-> Roots(edges),
       path     |-> Path(edges, src, dst),
       missing  |-> IF frames = {} THEN {} ELSE Missing(links, frames),
       extra    |-> IF links = {} THEN {} ELSE NotInUrdf(links, frames),
       ratios   |-> Ratios(capture),
       findings |-> StaleFindings(capture, staleAfter) \cup TwoParentFindings(edges)
                    \cup StaticDynamicFindings(capture) \cup DisconnectedFindings(edges)
                    \cup CycleFindings(Chosen(capture)) \cup NoPathFindings(edges, src, dst)
                    \cup DeclaredFindings(links, frames)]
=============================================================================
