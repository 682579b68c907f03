----------------------------- MODULE ParamRules -----------------------------
(***************************************************************************)
(* get_node_info(params_file): adapters/common/nodes.py, param_diff.py,    *)
(* ros2_live/node_reader.py, node_parsers.py, services/params_file.py.     *)
(* A parameter name is a number, its place in the alphabet.  A value is    *)
(* [kind, items]: one item for a scalar, its elements for a list, its      *)
(* characters for a string.  A node name is the sequence of its parts; a   *)
(* key of the file is [parts, rooted, deep, odd]: whether it begins with a *)
(* slash, ends in the pattern of everything below, has another wildcard.   *)
(***************************************************************************)
EXTENDS Integers, Sequences, FiniteSets
LOCAL INSTANCE SequencesExt

CONSTANTS P,              \* the caps, by name
          SecretNames     \* the names that look like a secret

ASSUME ParamAssumption == {P.chars, P.elements, P.parameters, P.entries} \subseteq Nat

Values == [kind : STRING, items : Seq([n : Int, kind : STRING])]
IsParams(params) ==
  /\ IsFiniteSet(DOMAIN params) /\ DOMAIN params \subseteq Nat
  /\ params \in [DOMAIN params -> Values]
IsNode(node) == IsParams(node.real)
IsFile(file) ==
  /\ file.document \in Seq({file.document[i] : i \in DOMAIN file.document})
  /\ \A i \in DOMAIN file.document : IsParams(file.document[i].params)

NotThere == [kind |-> "none", items |-> <<>>]
Masked == [kind |-> "masked", items |-> <<>>]

Cap(value) == CASE value.kind = "string" -> P.chars
                [] value.kind = "list" -> P.elements
                [] OTHER -> 1
TooLong(value) == Len(value.items) > Cap(value)
CutValue(value) ==
  [value EXCEPT !.items = SubSeq(value.items, 1, IF TooLong(value) THEN Cap(value) ELSE Len(value.items))]

(* values_equal: an integer equals a float of its value, a boolean only a  *)
(* boolean, a list another element by element by the same rules.           *)
Numeric(kind) == kind \in {"int", "float"}
SameKind(a, b) == a.kind = b.kind \/ (Numeric(a.kind) /\ Numeric(b.kind))
ValuesEqual(a, b) ==
  /\ SameKind(a, b)
  /\ Len(a.items) = Len(b.items)
  /\ \A i \in DOMAIN a.items : a.items[i].n = b.items[i].n /\ SameKind(a.items[i], b.items[i])

-----------------------------------------------------------------------------
(* build_parameters: by name, secrets masked, long values cut, the first   *)
(* ones kept.                                                              *)
First(names, n) == {x \in names : Cardinality({y \in names : y < x}) < n}
BuildParameters(real) ==
  [name \in First(DOMAIN real, P.parameters) |->
     IF name \in SecretNames
       THEN [value |-> Masked, masked |-> TRUE, truncated |-> FALSE]
       ELSE [value |-> CutValue(real[name]), masked |-> FALSE, truncated |-> TooLong(real[name])]]

(* _rank: how specifically a key names the node.                           *)
NoRank == -1
Rank(key, node) ==
  IF key.odd THEN NoRank
  ELSE IF key.deep THEN IF key.parts = <<>> THEN 0
                        ELSE IF key.rooted /\ IsPrefix(key.parts, Front(node)) THEN 1
                        ELSE NoRank
  ELSE IF ~key.rooted /\ key.parts = <<Last(node)>> THEN 2
  ELSE IF key.parts = node THEN 3 ELSE NoRank

(* declared_parameters: the sections that apply, the most specific last,   *)
(* then the later in the file.                                             *)
Applies(document, node) ==
  {i \in DOMAIN document : Rank(document[i].key, node) # NoRank /\ document[i].mapping}
Before_fileOrder(document, node, i, j) == i < j
Before(document, node, i, j) ==
  LET r(k) == Rank(document[k].key, node)
  IN  r(i) < r(j) \/ (r(i) = r(j) /\ i < j)
Declared(document, node) ==
  LET used  == Applies(document, node)
      names == UNION {DOMAIN document[i].params : i \in used}
      holder(name) == CHOOSE i \in used :
        /\ name \in DOMAIN document[i].params
        /\ \A j \in used \ {i} : name \in DOMAIN document[j].params => Before(document, node, j, i)
  IN  [name \in names |-> document[holder(name)].params[name]]

SectionNotes(document, node) ==
  (IF \E i \in DOMAIN document : document[i].key.odd THEN {"pattern not evaluated"} ELSE {})
  \cup (IF \E i \in DOMAIN document :
            Rank(document[i].key, node) # NoRank /\ ~document[i].mapping
          THEN {"section without parameters"} ELSE {})

(* _compare_one; "same" is an agreement, which is only counted.            *)
DiffEntry(status, declared, live) == [status |-> status, declared |-> declared, live |-> live]
CompareOne(name, declared, live) ==
  LET held     == name \in DOMAIN live
      p        == live[name]
      expected == IF p.truncated THEN CutValue(declared) ELSE declared
  IN  IF name \in SecretNames THEN DiffEntry("masked", Masked, IF held THEN Masked ELSE NotThere)
      ELSE IF ~held THEN DiffEntry("declared_only", CutValue(declared), NotThere)
      ELSE IF p.masked THEN DiffEntry("masked", Masked, Masked)
      ELSE DiffEntry(IF ValuesEqual(expected, p.value) THEN "same" ELSE "different",
                 CutValue(declared), p.value)

CompareParameters(declared, live) ==
  LET all     == [name \in DOMAIN declared |-> CompareOne(name, declared[name], live)]
      differ  == {name \in DOMAIN declared : all[name].status # "same"}
      shown   == First(differ, P.entries)
  IN  [entries |-> [name \in shown |-> all[name]],
       same |-> DOMAIN declared \ differ,
       liveOnly |-> DOMAIN live \ DOMAIN declared,
       omitted |-> Cardinality(differ) - Cardinality(shown)]

-----------------------------------------------------------------------------
(* _read_parameters: what a ros2 param dump gave.                          *)
ReadParameters(node) ==
  IF ~node.services THEN [status |-> "no_parameter_services", live |-> <<>>]
  ELSE IF node.wait < P.minWait /\ node.wait < node.timeout THEN [status |-> "no_budget", live |-> <<>>]
  ELSE IF node.dump = "slow" THEN [status |-> "timeout", live |-> <<>>]
  ELSE IF node.dump # "answered" THEN [status |-> "failed", live |-> <<>>]
  ELSE [status |-> "read", live |-> BuildParameters(node.real)]

NoDiff == [entries |-> <<>>, same |-> {}, liveOnly |-> {}, omitted |-> 0]
ParamAnswer(made, diff, notes, read) == [made |-> made, diff |-> diff, notes |-> notes, read |-> read]

(* with_param_diff: every trouble with the file or the node is a note.     *)
GetNodeInfo(node, file) ==
  LET read     == ReadParameters(node)
      declared == Declared(file.document, node.name)
      diff     == CompareParameters(declared, read.live)
  IN  IF file.state # "ok" THEN ParamAnswer(FALSE, NoDiff, {"file not read"}, read)
      ELSE IF Applies(file.document, node.name) = {}
        THEN ParamAnswer(FALSE, NoDiff, {"no section"} \cup SectionNotes(file.document, node.name), read)
      ELSE IF read.status # "read"
        THEN ParamAnswer(FALSE, NoDiff, {"parameters not read"}, read)
      ELSE ParamAnswer(TRUE, diff,
             SectionNotes(file.document, node.name)
             \cup (IF diff.omitted > 0 THEN {"more not listed"} ELSE {})
             \cup (IF Cardinality(DOMAIN read.live) >= P.parameters
                     THEN {"declared_only may lie"} ELSE {}), read)

-----------------------------------------------------------------------------
(* The value the file gives a name: the last section that names the node   *)
(* most closely.                                                           *)
Effective(document, node, name, value) ==
  \E i \in Applies(document, node) :
    /\ name \in DOMAIN document[i].params /\ document[i].params[name] = value
    /\ \A j \in Applies(document, node) :
         name \in DOMAIN document[j].params =>
           \/ Rank(document[j].key, node) < Rank(document[i].key, node)
           \/ (Rank(document[j].key, node) = Rank(document[i].key, node) /\ j <= i)
Agree(a, b) ==
  \/ ValuesEqual(a, b)
  \/ TooLong(b) /\ ValuesEqual(CutValue(a), CutValue(b))

(* param_diff against the node as it is: every name the file gives the     *)
(* node is listed once, counted as same, or counted as not listed; what is *)
(* called the same agrees with the node up to the cut, what is called      *)
(* different does not, a name called declared_only is not on the node      *)
(* unless the note says it may lie, and no value of a secret is shown.     *)
VerdictsAgree(node, file, given) ==
  LET d     == given.diff
      named == UNION {DOMAIN file.document[i].params : i \in Applies(file.document, node.name)}
      valueOf(name) == CHOOSE v \in {file.document[i].params[name] :
                                       i \in {k \in Applies(file.document, node.name) :
                                                name \in DOMAIN file.document[k].params}} :
                         Effective(file.document, node.name, name, v)
  IN  given.made =>
        /\ DOMAIN d.entries \cap d.same = {}
        /\ DOMAIN d.entries \cup d.same \subseteq named
        /\ Cardinality(named) = Cardinality(DOMAIN d.entries) + Cardinality(d.same) + d.omitted
        /\ d.omitted > 0 => "more not listed" \in given.notes
        /\ \A name \in d.same : name \in DOMAIN node.real /\ Agree(valueOf(name), node.real[name])
        /\ \A name \in DOMAIN d.entries :
             LET e == d.entries[name]
             IN  /\ e.status = "different" => ~ValuesEqual(valueOf(name), node.real[name])
                 /\ e.status = "declared_only" =>
                      \/ name \notin DOMAIN node.real
                      \/ "declared_only may lie" \in given.notes
                 /\ name \in SecretNames =>
                      e.declared = Masked /\ e.live \in {Masked, NotThere}
        /\ \A name \in DOMAIN given.read.live \cap SecretNames :
             given.read.live[name].value = Masked
=============================================================================
