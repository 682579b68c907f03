----------------------------- MODULE OrderedMap -----------------------------
(***************************************************************************)
(* Python's insertion-ordered dict and collections.OrderedDict, and the    *)
(* bounded deque, as sequences.  A map is a sequence of [key, val] entries *)
(* with distinct keys, oldest first.  The buffers of adapters/common are   *)
(* built from these few operations; what is evicted, and when, depends on  *)
(* the order, which is why it is part of the state.  And sorted(), of a    *)
(* set under a total order.                                                *)
(*                                                                         *)
(* Removal is written as a comprehension over positions, not with a fold,  *)
(* so that the lemmas of OrderedMapLemmas can be proved about it.          *)
(***************************************************************************)
EXTENDS Naturals, Sequences, FiniteSets

Entry(k, v) == [key |-> k, val |-> v]

Keys(m) == {m[i].key : i \in 1..Len(m)}

Vals(m) == [i \in 1..Len(m) |-> m[i].val]

(* Distinct keys: what makes a sequence of entries a map. *)
IsMap(m) == \A i, j \in 1..Len(m) : m[i].key = m[j].key => i = j

IndexOf(m, k) == CHOOSE i \in 1..Len(m) : m[i].key = k

At(m, k) == m[IndexOf(m, k)].val

(* s without its element at position i. *)
Without(s, i) == [j \in 1..(Len(s) - 1) |-> IF j < i THEN s[j] ELSE s[j + 1]]

(* m.pop(k, None) *)
Pop(m, k) == IF k \in Keys(m) THEN Without(m, IndexOf(m, k)) ELSE m

(* m[k] = v: an existing key keeps its place, a new one goes last. *)
Assign(m, k, v) ==
  IF k \in Keys(m) THEN [m EXCEPT ![IndexOf(m, k)] = Entry(k, v)]
  ELSE Append(m, Entry(k, v))

(* {k: v for k, v in m.items() if k in K} *)
Only(m, K) ==
  LET kept[n \in 0..Len(m)] ==
        IF n = 0 THEN <<>>
        ELSE IF m[n].key \in K THEN Append(kept[n - 1], m[n]) ELSE kept[n - 1]
  IN  kept[Len(m)]

(* The newest n elements of s; deque(maxlen=n) and popitem(last=False). *)
Newest_oneMore(s, n) ==
  IF Len(s) <= n + 1 THEN s ELSE SubSeq(s, Len(s) - n, Len(s))
Newest(s, n) == IF Len(s) <= n THEN s ELSE SubSeq(s, Len(s) - n + 1, Len(s))

(* deque.append under maxlen *)
Push(ring, e, n) == Newest(Append(ring, e), n)

(* Pop, insert last, then drop the oldest entries beyond n: the put of the *)
(* sample caches and the add of the departed store.                        *)
Put(m, k, v, n) == Newest(Append(Pop(m, k), Entry(k, v)), n)

(* sorted(): the elements of S, each after those Earlier has for it.       *)
SortedBy(S, Earlier) ==
  [k \in 1..Cardinality(S) |-> CHOOSE x \in S : Cardinality(Earlier[x]) = k - 1]

(* [s[i] for i in I], as they come.                                        *)
Select(s, I) ==
  LET places == SortedBy(I, [i \in I |-> {j \in I : j < i}])
  IN  [k \in DOMAIN places |-> s[places[k]]]

=============================================================================
