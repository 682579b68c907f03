-------------------------- MODULE OrderedMapLemmas --------------------------
(* What the operators of OrderedMap return, for maps and rings of any size. *)
EXTENDS OrderedMap, Integers, FiniteSetTheorems, SequenceTheorems, WellFoundedInduction, TLAPS

(* A map whose keys are in K and whose values are in V. *)
MapOf(K, V) == Seq([key : K, val : V])

LEMMA EntryFields ==
  ASSUME NEW K, NEW V, NEW m \in MapOf(K, V), NEW i \in 1..Len(m)
  PROVE  m[i].key \in K /\ m[i].val \in V
<1> DEFINE E == [key : K, val : V]
<1>1. m \in Seq(E)  BY DEF MapOf
<1> HIDE DEF E
<1>2. m[i] \in E  BY <1>1
<1> QED  BY <1>2 DEF E

(* A set of naturals that is not empty has a least element. *)
LEMMA LeastElement ==
  ASSUME NEW T \in SUBSET Nat, T # {}
  PROVE  \E x \in T : \A y \in T : x <= y
<1> DEFINE R == OpToRel(<, Nat)
<1>1. IsWellFoundedOn(R, Nat)  BY NatLessThanWellFounded
<1>2. \A x, y \in Nat : <<y, x>> \in R <=> y < x  BY DEF OpToRel
<1> HIDE DEF R
<1>3. PICK x \in T : \A y \in T : ~(<<y, x>> \in R)  BY <1>1, WFMin
<1>4. \A y \in T : ~(y < x)  BY <1>2, <1>3, Zenon
<1> QED  BY <1>4

(* Removing position i keeps the other elements, in order. *)
LEMMA WithoutElements ==
  ASSUME NEW S, NEW s \in Seq(S), NEW i \in 1..Len(s)
  PROVE  /\ Without(s, i) \in Seq(S)
         /\ Len(Without(s, i)) = Len(s) - 1
         /\ \A j \in 1..(Len(s) - 1) :
              Without(s, i)[j] = IF j < i THEN s[j] ELSE s[j + 1]
<1> DEFINE w == [j \in 1..(Len(s) - 1) |-> IF j < i THEN s[j] ELSE s[j + 1]]
<1>1. Len(s) \in Nat /\ Len(s) - 1 \in Nat  OBVIOUS
<1>2. \A j \in 1..(Len(s) - 1) : w[j] \in S  OBVIOUS
<1>3. w \in Seq(S) /\ Len(w) = Len(s) - 1  BY <1>1, <1>2
<1> QED  BY <1>3 DEF Without

(* A map without one of its entries is a map of the other entries. *)
LEMMA WithoutMap ==
  ASSUME NEW K, NEW V, NEW m \in MapOf(K, V), IsMap(m), NEW i \in 1..Len(m)
  PROVE  /\ Without(m, i) \in MapOf(K, V)
         /\ Len(Without(m, i)) = Len(m) - 1
         /\ IsMap(Without(m, i))
         /\ \A p \in 1..Len(Without(m, i)) :
              \E q \in 1..Len(m) : q # i /\ Without(m, i)[p] = m[q]
         /\ \A q \in 1..Len(m) : q # i =>
              \E p \in 1..Len(Without(m, i)) : Without(m, i)[p] = m[q]
<1> DEFINE w == Without(m, i)
<1> HIDE DEF w
<1>1. /\ w \in Seq([key : K, val : V])
      /\ Len(w) = Len(m) - 1
      /\ \A j \in 1..(Len(m) - 1) : w[j] = IF j < i THEN m[j] ELSE m[j + 1]
  BY WithoutElements DEF w, MapOf
<1>2. IsMap(w)
  <2> SUFFICES ASSUME NEW p \in 1..Len(w), NEW q \in 1..Len(w), w[p].key = w[q].key
               PROVE  p = q
    BY DEF IsMap
  <2> DEFINE P == IF p < i THEN p ELSE p + 1
             Q == IF q < i THEN q ELSE q + 1
  <2>1. P \in 1..Len(m) /\ Q \in 1..Len(m) /\ w[p] = m[P] /\ w[q] = m[Q]  BY <1>1
  <2>2. P = Q  BY <2>1 DEF IsMap
  <2> QED  BY <2>2
<1>3. ASSUME NEW p \in 1..Len(w)
      PROVE  \E q \in 1..Len(m) : q # i /\ w[p] = m[q]
  <2>1. CASE p < i  BY <1>1, <2>1
  <2>2. CASE ~(p < i)
    <3>1. p + 1 \in 1..Len(m) /\ p + 1 # i /\ w[p] = m[p + 1]  BY <1>1, <2>2
    <3> QED  BY <3>1
  <2> QED  BY <2>1, <2>2
<1>4. ASSUME NEW q \in 1..Len(m), q # i
      PROVE  \E p \in 1..Len(w) : w[p] = m[q]
  <2>1. CASE q < i  BY <1>1, <2>1
  <2>2. CASE q > i
    <3>1. q - 1 \in 1..Len(w) /\ w[q - 1] = m[q]  BY <1>1, <2>2
    <3> QED  BY <3>1
  <2> QED  BY <1>4, <2>1, <2>2
<1> QED  BY <1>1, <1>2, <1>3, <1>4 DEF w, MapOf

(* A key of the map has an index, the only one. *)
LEMMA IndexOfKey ==
  ASSUME NEW m, NEW k \in Keys(m)
  PROVE  IndexOf(m, k) \in 1..Len(m) /\ m[IndexOf(m, k)].key = k
BY DEF IndexOf, Keys

LEMMA AtEntry ==
  ASSUME NEW K, NEW V, NEW m \in MapOf(K, V), IsMap(m), NEW i \in 1..Len(m)
  PROVE  m[i].key \in Keys(m) /\ At(m, m[i].key) = m[i].val
<1>1. m[i].key \in Keys(m)  BY DEF Keys
<1>2. IndexOf(m, m[i].key) = i  BY <1>1, IndexOfKey DEF IsMap
<1> QED  BY <1>1, <1>2 DEF At

(* m[k] = v changes the entry of k and no other. *)
LEMMA AssignMap ==
  ASSUME NEW K, NEW V, NEW m \in MapOf(K, V), IsMap(m), NEW k \in K, NEW v \in V
  PROVE  /\ Assign(m, k, v) \in MapOf(K, V)
         /\ IsMap(Assign(m, k, v))
         /\ Len(Assign(m, k, v)) = IF k \in Keys(m) THEN Len(m) ELSE Len(m) + 1
         /\ \A p \in 1..Len(Assign(m, k, v)) :
              \/ Assign(m, k, v)[p] = Entry(k, v)
              \/ /\ Assign(m, k, v)[p].key # k
                 /\ \E q \in 1..Len(m) : Assign(m, k, v)[p] = m[q]
         /\ \E p \in 1..Len(Assign(m, k, v)) : Assign(m, k, v)[p] = Entry(k, v)
         /\ \A q \in 1..Len(m) : m[q].key # k =>
              \E p \in 1..Len(Assign(m, k, v)) : Assign(m, k, v)[p] = m[q]
<1> DEFINE a == Assign(m, k, v)
<1>0. Entry(k, v) \in [key : K, val : V] /\ Entry(k, v).key = k  BY DEF Entry
<1>1. CASE k \in Keys(m)
  <2> DEFINE i == IndexOf(m, k)
  <2>1. i \in 1..Len(m) /\ m[i].key = k  BY <1>1, IndexOfKey
  <2> HIDE DEF i
  <2>2. a = [m EXCEPT ![i] = Entry(k, v)]  BY <1>1 DEF Assign, i
  <2>3. a \in MapOf(K, V) /\ Len(a) = Len(m)  BY <1>0, <2>1, <2>2 DEF MapOf
  <2>4. a[i] = Entry(k, v) /\ \A q \in 1..Len(m) : q # i => a[q] = m[q]
    BY <2>1, <2>2 DEF MapOf
  <2>5. \A q \in 1..Len(m) : q # i => m[q].key # k  BY <2>1 DEF IsMap
  <2> HIDE DEF a
  <2>6. IsMap(a)  BY <1>0, <2>1, <2>3, <2>4, <2>5 DEF IsMap
  <2>7. /\ \A p \in 1..Len(a) : a[p] = Entry(k, v)
                                \/ (a[p].key # k /\ \E q \in 1..Len(m) : a[p] = m[q])
        /\ \E p \in 1..Len(a) : a[p] = Entry(k, v)
        /\ \A q \in 1..Len(m) : m[q].key # k => \E p \in 1..Len(a) : a[p] = m[q]
    BY <2>1, <2>3, <2>4, <2>5
  <2> QED  BY <1>1, <2>3, <2>6, <2>7 DEF a
<1>2. CASE k \notin Keys(m)
  <2>1. a = Append(m, Entry(k, v))  BY <1>2 DEF Assign
  <2>2. a \in MapOf(K, V) /\ Len(a) = Len(m) + 1  BY <1>0, <2>1 DEF MapOf
  <2>3. a[Len(m) + 1] = Entry(k, v) /\ \A q \in 1..Len(m) : a[q] = m[q]
    BY <2>1 DEF MapOf
  <2>4. \A q \in 1..Len(m) : m[q].key # k  BY <1>2 DEF Keys
  <2> HIDE DEF a
  <2>5. Len(m) \in Nat  BY DEF MapOf
  <2>6. IsMap(a)  BY <1>0, <2>2, <2>3, <2>4, <2>5 DEF IsMap
  <2>7. /\ \A p \in 1..Len(a) : a[p] = Entry(k, v)
                                \/ (a[p].key # k /\ \E q \in 1..Len(m) : a[p] = m[q])
        /\ \E p \in 1..Len(a) : a[p] = Entry(k, v)
        /\ \A q \in 1..Len(m) : m[q].key # k => \E p \in 1..Len(a) : a[p] = m[q]
    BY <2>2, <2>3, <2>4, <2>5
  <2> QED  BY <1>2, <2>2, <2>6, <2>7 DEF a
<1> QED  BY <1>1, <1>2

(* Appending to a ring drops its head when it is full, nothing otherwise.   *)
Dropped(s, n) == IF Len(s) < n THEN 0 ELSE 1

LEMMA PushElements ==
  ASSUME NEW S, NEW s \in Seq(S), NEW e \in S, NEW n \in Nat \ {0}, Len(s) <= n
  PROVE  /\ Push(s, e, n) \in Seq(S)
         /\ Len(Push(s, e, n)) = Len(s) + 1 - Dropped(s, n)
         /\ Len(Push(s, e, n)) <= n
         /\ Push(s, e, n)[Len(s) + 1 - Dropped(s, n)] = e
         /\ \A i \in 1..(Len(s) - Dropped(s, n)) :
              Push(s, e, n)[i] = s[i + Dropped(s, n)]
<1> DEFINE a == Append(s, e)
<1>1. /\ a \in Seq(S) /\ Len(a) = Len(s) + 1 /\ a[Len(s) + 1] = e
      /\ \A i \in 1..Len(s) : a[i] = s[i]
  OBVIOUS
<1>2. Len(s) \in Nat  OBVIOUS
<1> HIDE DEF a
<1>3. CASE Len(s) < n
  <2>1. Push(s, e, n) = a  BY <1>1, <1>2, <1>3 DEF Push, Newest, a
  <2>2. Dropped(s, n) = 0  BY <1>3 DEF Dropped
  <2> QED  BY <1>1, <1>2, <1>3, <2>1, <2>2
<1>4. CASE Len(s) = n
  <2>1. Push(s, e, n) = SubSeq(a, 2, n + 1)  BY <1>1, <1>2, <1>4 DEF Push, Newest, a
  <2>2. /\ SubSeq(a, 2, n + 1) \in Seq(S) /\ Len(SubSeq(a, 2, n + 1)) = n
        /\ \A i \in 1..n : SubSeq(a, 2, n + 1)[i] = a[i + 1]
    BY <1>1, <1>4
  <2>3. \A i \in 1..(n - 1) : SubSeq(a, 2, n + 1)[i] = s[i + 1]  BY <1>1, <1>4, <2>2
  <2>4. Dropped(s, n) = 1  BY <1>4 DEF Dropped
  <2> QED  BY <1>1, <1>2, <1>4, <2>1, <2>2, <2>3, <2>4
<1> QED  BY <1>2, <1>3, <1>4

(* A ring that is the newest n elements of s is so again after the next    *)
(* element has gone through it.                                            *)
LEMMA PushNewest ==
  ASSUME NEW S, NEW s \in Seq(S), NEW e \in S, NEW n \in Nat \ {0}
  PROVE  Push(Newest(s, n), e, n) = Newest(Append(s, e), n)
<1> DEFINE L == Len(s)
           t == SubSeq(s, L - n + 1, L)
           a == Append(s, e)
           b == Append(t, e)
<1>1. L \in Nat  OBVIOUS
<1>2. /\ a \in Seq(S) /\ Len(a) = L + 1 /\ a[L + 1] = e
      /\ \A i \in 1..L : a[i] = s[i]
  OBVIOUS
<1>3. CASE L <= n
  BY <1>3 DEF Push, Newest
<1>4. CASE L > n
  <2>1. /\ t \in Seq(S) /\ Len(t) = n
        /\ \A i \in 1..n : t[i] = s[L - n + i]
    BY <1>1, <1>4
  <2>2. Newest(s, n) = t  BY <1>1, <1>4 DEF Newest
  <2> HIDE DEF t
  <2>3. /\ b \in Seq(S) /\ Len(b) = n + 1 /\ b[n + 1] = e
        /\ \A i \in 1..n : b[i] = s[L - n + i]
    BY <2>1
  <2>4. Push(t, e, n) = SubSeq(b, 2, n + 1)
    BY <2>3 DEF Push, Newest
  <2>5. Newest(a, n) = SubSeq(a, L - n + 2, L + 1)
    BY <1>1, <1>2, <1>4 DEF Newest
  <2> HIDE DEF L, a, b
  <2>6. /\ SubSeq(b, 2, n + 1) \in Seq(S) /\ Len(SubSeq(b, 2, n + 1)) = n
        /\ \A i \in 1..n : SubSeq(b, 2, n + 1)[i] = b[i + 1]
    BY <2>3
  <2>7. /\ SubSeq(a, L - n + 2, L + 1) \in Seq(S)
        /\ Len(SubSeq(a, L - n + 2, L + 1)) = n
        /\ \A i \in 1..n : SubSeq(a, L - n + 2, L + 1)[i] = a[L - n + 1 + i]
    BY <1>1, <1>2, <1>4
  <2>8. \A i \in 1..n : b[i + 1] = a[L - n + 1 + i]
    <3> SUFFICES ASSUME NEW i \in 1..n PROVE b[i + 1] = a[L - n + 1 + i]
      OBVIOUS
    <3>1. CASE i = n  BY <1>1, <1>2, <1>4, <2>3, <3>1
    <3>2. CASE i < n
      <4>1. b[i + 1] = s[L - n + i + 1]  BY <1>1, <1>4, <2>3, <3>2
      <4>2. a[L - n + 1 + i] = s[L - n + 1 + i]  BY <1>1, <1>2, <1>4, <3>2
      <4> QED  BY <1>1, <4>1, <4>2
    <3> QED  BY <3>1, <3>2
  <2>9. SubSeq(b, 2, n + 1) = SubSeq(a, L - n + 2, L + 1)
    BY <2>6, <2>7, <2>8, SeqEqual
  <2> QED  BY <2>2, <2>4, <2>5, <2>9 DEF a
<1> QED  BY <1>1, <1>3, <1>4

(* What a map gives for its keys: seen as a function, its order aside.     *)
LEMMA MapValues ==
  ASSUME NEW K, NEW V, NEW m \in MapOf(K, V), IsMap(m)
  PROVE  /\ Keys(m) \subseteq K
         /\ \A k \in Keys(m) : At(m, k) \in V
<1> SUFFICES ASSUME NEW k \in Keys(m) PROVE k \in K /\ At(m, k) \in V
  OBVIOUS
<1>1. PICK i \in 1..Len(m) : m[i].key = k  BY DEF Keys
<1> QED  BY <1>1, AtEntry, EntryFields

LEMMA MapLen ==
  ASSUME NEW K, NEW V, NEW m \in MapOf(K, V)
  PROVE  Len(m) \in Nat
BY DEF MapOf

LEMMA EmptyMap ==
  ASSUME NEW K, NEW V
  PROVE  <<>> \in MapOf(K, V) /\ IsMap(<<>>) /\ Keys(<<>>) = {} /\ Len(<<>>) = 0
BY DEF MapOf, IsMap, Keys

(* Every entry of n is one of m.                                           *)
Among(n, m) == \A p \in 1..Len(n) : \E q \in 1..Len(m) : n[p] = m[q]

(* The map n is m without some of its keys.                                *)
Submap(n, m) == Keys(n) \subseteq Keys(m) /\ \A k \in Keys(n) : At(n, k) = At(m, k)

LEMMA AmongSubmap ==
  ASSUME NEW K, NEW V, NEW m \in MapOf(K, V), IsMap(m),
         NEW n \in MapOf(K, V), IsMap(n), Among(n, m)
  PROVE  Submap(n, m)
<1> SUFFICES ASSUME NEW k \in Keys(n) PROVE k \in Keys(m) /\ At(n, k) = At(m, k)
  BY DEF Submap
<1>1. PICK p \in 1..Len(n) : n[p].key = k  BY DEF Keys
<1>2. PICK q \in 1..Len(m) : n[p] = m[q]  BY DEF Among
<1>3. At(n, k) = n[p].val  BY <1>1, AtEntry
<1>4. m[q].key = k /\ At(m, k) = m[q].val /\ k \in Keys(m)  BY <1>1, <1>2, AtEntry
<1> QED  BY <1>2, <1>3, <1>4

LEMMA PopValues ==
  ASSUME NEW K, NEW V, NEW m \in MapOf(K, V), IsMap(m), NEW k
  PROVE  /\ Pop(m, k) \in MapOf(K, V) /\ IsMap(Pop(m, k))
         /\ Len(Pop(m, k)) = IF k \in Keys(m) THEN Len(m) - 1 ELSE Len(m)
         /\ Keys(Pop(m, k)) = Keys(m) \ {k}
         /\ Submap(Pop(m, k), m)
<1>1. CASE k \notin Keys(m)
  <2>1. Pop(m, k) = m  BY <1>1 DEF Pop
  <2> QED  BY <1>1, <2>1 DEF Submap
<1>2. CASE k \in Keys(m)
  <2>1. PICK i \in 1..Len(m) : i = IndexOf(m, k) /\ m[i].key = k  BY <1>2, IndexOfKey
  <2> DEFINE w == Without(m, i)
  <2>2. Pop(m, k) = w  BY <1>2, <2>1 DEF Pop
  <2>3. /\ Without(m, i) \in MapOf(K, V)
        /\ Len(Without(m, i)) = Len(m) - 1
        /\ IsMap(Without(m, i))
        /\ \A p \in 1..Len(Without(m, i)) :
             \E q \in 1..Len(m) : q # i /\ Without(m, i)[p] = m[q]
        /\ \A q \in 1..Len(m) : q # i =>
             \E p \in 1..Len(Without(m, i)) : Without(m, i)[p] = m[q]
    BY WithoutMap
  <2> HIDE DEF w
  <2>4. Among(w, m)  BY <2>3 DEF Among, w
  <2>5. w \in MapOf(K, V) /\ IsMap(w) /\ Len(w) = Len(m) - 1  BY <2>3 DEF w
  <2>6. Submap(w, m)  BY <2>4, <2>5, AmongSubmap
  <2>7. k \notin Keys(w)
    <3> SUFFICES ASSUME NEW p \in 1..Len(w), w[p].key = k PROVE FALSE  BY DEF Keys
    <3>1. PICK q \in 1..Len(m) : q # i /\ w[p] = m[q]  BY <2>3 DEF w
    <3> QED  BY <2>1, <3>1 DEF IsMap
  <2>8. ASSUME NEW j \in Keys(m), j # k PROVE j \in Keys(w)
    <3>1. PICK q \in 1..Len(m) : m[q].key = j  BY DEF Keys
    <3>2. q # i  BY <2>1, <2>8, <3>1
    <3>3. PICK p \in 1..Len(w) : w[p] = m[q]  BY <2>3, <3>2 DEF w
    <3> QED  BY <3>1, <3>3 DEF Keys
  <2> QED  BY <1>2, <2>2, <2>5, <2>6, <2>7, <2>8 DEF Submap, w
<1> QED  BY <1>1, <1>2

(* m[k] = v.                                                               *)
LEMMA AssignValues ==
  ASSUME NEW K, NEW V, NEW m \in MapOf(K, V), IsMap(m), NEW k \in K, NEW v \in V
  PROVE  /\ Assign(m, k, v) \in MapOf(K, V) /\ IsMap(Assign(m, k, v))
         /\ Keys(Assign(m, k, v)) = Keys(m) \cup {k}
         /\ At(Assign(m, k, v), k) = v
         /\ \A j \in Keys(m) \ {k} : At(Assign(m, k, v), j) = At(m, j)
<1> DEFINE a == Assign(m, k, v)
<1>1. /\ a \in MapOf(K, V) /\ IsMap(a)
      /\ \A p \in 1..Len(a) : \/ a[p] = Entry(k, v)
                              \/ a[p].key # k /\ \E q \in 1..Len(m) : a[p] = m[q]
      /\ \E p \in 1..Len(a) : a[p] = Entry(k, v)
      /\ \A q \in 1..Len(m) : m[q].key # k => \E p \in 1..Len(a) : a[p] = m[q]
  BY AssignMap
<1> HIDE DEF a
<1>2. k \in Keys(a) /\ At(a, k) = v
  <2>1. PICK p \in 1..Len(a) : a[p] = Entry(k, v)  BY <1>1
  <2> QED  BY <1>1, <2>1, AtEntry DEF Entry
<1>3. ASSUME NEW j \in Keys(m) \ {k} PROVE j \in Keys(a) /\ At(a, j) = At(m, j)
  <2>1. PICK q \in 1..Len(m) : m[q].key = j  BY DEF Keys
  <2>2. PICK p \in 1..Len(a) : a[p] = m[q]  BY <1>1, <2>1
  <2> QED  BY <1>1, <2>1, <2>2, AtEntry
<1>4. Keys(a) \subseteq Keys(m) \cup {k}  BY <1>1 DEF Keys, Entry
<1> QED  BY <1>1, <1>2, <1>3, <1>4 DEF a

(* The newest n entries of a map are a map of them, and the last is kept.  *)
LEMMA NewestValues ==
  ASSUME NEW K, NEW V, NEW m \in MapOf(K, V), IsMap(m), NEW n \in Nat \ {0}
  PROVE  /\ Newest(m, n) \in MapOf(K, V) /\ IsMap(Newest(m, n))
         /\ Len(Newest(m, n)) <= n
         /\ Submap(Newest(m, n), m)
         /\ Len(m) <= n => Newest(m, n) = m
         /\ Len(m) > 0 => m[Len(m)].key \in Keys(Newest(m, n))
<1> DEFINE E == [key : K, val : V]
<1>0. Len(m) \in Nat /\ m \in Seq(E)  BY DEF MapOf
<1> HIDE DEF E
<1>1. CASE Len(m) <= n
  <2>1. Newest(m, n) = m  BY <1>1 DEF Newest
  <2>2. Len(m) > 0 => m[Len(m)].key \in Keys(m)  BY <1>0 DEF Keys
  <2> QED  BY <1>1, <2>1, <2>2 DEF Submap
<1>2. CASE Len(m) > n
  <2> DEFINE d == Len(m) - n
             t == SubSeq(m, Len(m) - n + 1, Len(m))
  <2>1. Newest(m, n) = t  BY <1>0, <1>2 DEF Newest
  <2>2. /\ t \in Seq(E) /\ Len(t) = n
        /\ \A i \in 1..n : t[i] = m[d + i]
    <3>1. Len(m) - n + 1 \in Nat \ {0} /\ Len(m) - (Len(m) - n + 1) + 1 = n  BY <1>0, <1>2
    <3> QED  BY <1>0, <1>2, <3>1
  <2>3. d \in Nat /\ \A i \in 1..n : d + i \in 1..Len(m)  BY <1>0, <1>2
  <2>4. d + n = Len(m)  BY <1>0
  <2> HIDE DEF d, t
  <2>5. IsMap(t)
    <3> SUFFICES ASSUME NEW i \in 1..Len(t), NEW j \in 1..Len(t), t[i].key = t[j].key
                 PROVE  i = j
      BY DEF IsMap
    <3>1. d + i = d + j  BY <2>2, <2>3 DEF IsMap
    <3> QED  BY <2>2, <2>3, <3>1
  <2>6. Among(t, m)  BY <2>2, <2>3 DEF Among
  <2>7. t \in MapOf(K, V)  BY <2>2 DEF MapOf, E
  <2>8. t[n] = m[Len(m)] /\ n \in 1..Len(t)  BY <2>2, <2>4
  <2>9. m[Len(m)].key \in Keys(t)  BY <2>8 DEF Keys
  <2> QED  BY <1>2, <2>1, <2>2, <2>5, <2>6, <2>7, <2>9, AmongSubmap
<1> QED  BY <1>0, <1>1, <1>2

(* A cache put: k is cached last, and the oldest entries beyond n dropped. *)
LEMMA PutValues ==
  ASSUME NEW K, NEW V, NEW m \in MapOf(K, V), IsMap(m), NEW k \in K, NEW v \in V,
         NEW n \in Nat \ {0}
  PROVE  /\ Put(m, k, v, n) \in MapOf(K, V) /\ IsMap(Put(m, k, v, n))
         /\ Len(Put(m, k, v, n)) <= n
         /\ k \in Keys(Put(m, k, v, n)) /\ At(Put(m, k, v, n), k) = v
         /\ Keys(Put(m, k, v, n)) \subseteq Keys(m) \cup {k}
         /\ \A j \in Keys(Put(m, k, v, n)) \ {k} : At(Put(m, k, v, n), j) = At(m, j)
         /\ Len(Pop(m, k)) < n => Keys(Put(m, k, v, n)) = Keys(m) \cup {k}
<1> DEFINE w == Pop(m, k)
           a == Append(w, Entry(k, v))
<1>1. /\ w \in MapOf(K, V) /\ IsMap(w) /\ Keys(w) = Keys(m) \ {k} /\ Submap(w, m)
  BY PopValues
<1>2. Put(m, k, v, n) = Newest(a, n)  BY DEF Put
<1> HIDE DEF w
<1>3. k \notin Keys(w)  BY <1>1
<1>4. Assign(w, k, v) = a  BY <1>3 DEF Assign
<1> HIDE DEF a
<1>5. /\ a \in MapOf(K, V) /\ IsMap(a) /\ Keys(a) = Keys(w) \cup {k} /\ At(a, k) = v
      /\ \A j \in Keys(w) \ {k} : At(a, j) = At(w, j)
  BY <1>1, <1>4, AssignValues
<1>6. Len(w) \in Nat /\ Len(a) = Len(w) + 1 /\ a[Len(a)].key = k
  BY <1>1 DEF MapOf, Entry, a
<1>7. /\ Newest(a, n) \in MapOf(K, V) /\ IsMap(Newest(a, n)) /\ Len(Newest(a, n)) <= n
      /\ Submap(Newest(a, n), a)
      /\ Len(a) <= n => Newest(a, n) = a
      /\ k \in Keys(Newest(a, n))
  BY <1>5, <1>6, NewestValues
<1>8. Len(w) < n => Keys(Newest(a, n)) = Keys(m) \cup {k}
  BY <1>1, <1>5, <1>6, <1>7
<1>9. \A j \in Keys(Newest(a, n)) \ {k} : At(Newest(a, n), j) = At(m, j)
  BY <1>1, <1>5, <1>7 DEF Submap
<1> QED  BY <1>1, <1>2, <1>5, <1>7, <1>8, <1>9 DEF Submap, w, a

(* Keeping the keys in K.                                                  *)
KeepsUpTo(m, K, n, s) ==
  /\ IsMap(s)
  /\ \A p \in 1..Len(s) : s[p].key \in K /\ \E q \in 1..n : s[p] = m[q]
  /\ \A q \in 1..n : m[q].key \in K => \E p \in 1..Len(s) : s[p] = m[q]

LEMMA KeepsNext ==
  ASSUME NEW K, NEW A, NEW V, NEW m \in MapOf(A, V), IsMap(m), NEW n \in 1..Len(m),
         NEW s \in MapOf(A, V), KeepsUpTo(m, K, n - 1, s)
  PROVE  /\ m[n].key \in K =>
              Append(s, m[n]) \in MapOf(A, V) /\ KeepsUpTo(m, K, n, Append(s, m[n]))
         /\ m[n].key \notin K => KeepsUpTo(m, K, n, s)
<1>0. Len(m) \in Nat /\ Len(s) \in Nat /\ n \in Nat /\ n - 1 \in Nat
  BY DEF MapOf
<1>1. CASE m[n].key \in K
  <2> DEFINE a == Append(s, m[n])
             E == [key : A, val : V]
  <2>1. m \in Seq(E) /\ s \in Seq(E)  BY DEF MapOf
  <2> HIDE DEF E
  <2>2. /\ a \in Seq(E) /\ Len(a) = Len(s) + 1 /\ a[Len(s) + 1] = m[n]
        /\ \A p \in 1..Len(s) : a[p] = s[p]
    BY <2>1
  <2> HIDE DEF a
  <2>3. \A p \in 1..Len(s) : s[p].key # m[n].key
    <3> TAKE p \in 1..Len(s)
    <3>1. PICK q \in 1..(n - 1) : s[p] = m[q]  BY DEF KeepsUpTo
    <3>2. q \in 1..Len(m) /\ q # n  BY <1>0
    <3>3. m[q].key # m[n].key  BY <3>2 DEF IsMap
    <3> QED  BY <3>1, <3>3
  <2>4. IsMap(a)  BY <1>0, <2>2, <2>3 DEF IsMap, KeepsUpTo
  <2>5. \A p \in 1..Len(a) : a[p].key \in K /\ \E q \in 1..n : a[p] = m[q]
    <3> TAKE p \in 1..Len(a)
    <3>1. p = Len(s) + 1 \/ p \in 1..Len(s)  BY <1>0, <2>2
    <3>2. CASE p = Len(s) + 1
      <4>1. a[p] = m[n] /\ n \in 1..n  BY <1>0, <2>2, <3>2
      <4> QED  BY <1>1, <4>1
    <3>3. CASE p \in 1..Len(s)
      <4>1. s[p].key \in K /\ \E q \in 1..(n - 1) : s[p] = m[q]  BY <3>3 DEF KeepsUpTo
      <4>2. \A q \in 1..(n - 1) : q \in 1..n  BY <1>0
      <4>3. a[p] = s[p]  BY <2>2, <3>3
      <4> QED  BY <4>1, <4>2, <4>3
    <3> QED  BY <3>1, <3>2, <3>3
  <2>6. ASSUME NEW q \in 1..n, m[q].key \in K PROVE \E p \in 1..Len(a) : a[p] = m[q]
    <3>1. CASE q = n  BY <1>0, <2>2, <3>1
    <3>2. CASE q \in 1..(n - 1)
      <4>1. PICK p \in 1..Len(s) : s[p] = m[q]  BY <2>6, <3>2 DEF KeepsUpTo
      <4> QED  BY <1>0, <2>2, <4>1
    <3> QED  BY <1>0, <3>1, <3>2
  <2>7. KeepsUpTo(m, K, n, a)  BY <2>4, <2>5, <2>6 DEF KeepsUpTo
  <2> QED  BY <1>1, <2>2, <2>7 DEF MapOf, E, a
<1>2. CASE m[n].key \notin K
  BY <1>0, <1>2 DEF KeepsUpTo
<1> QED  BY <1>1, <1>2

LEMMA OnlyKeeps ==
  ASSUME NEW K, NEW A, NEW V, NEW m \in MapOf(A, V), IsMap(m)
  PROVE  /\ Only(m, K) \in MapOf(A, V)
         /\ KeepsUpTo(m, K, Len(m), Only(m, K))
<1> DEFINE L == Len(m)
           kept[n \in 0..L] ==
             IF n = 0 THEN <<>>
             ELSE IF m[n].key \in K THEN Append(kept[n - 1], m[n]) ELSE kept[n - 1]
           Body(f, n) ==
             IF n = 0 THEN <<>>
             ELSE IF m[n].key \in K THEN Append(f[n - 1], m[n]) ELSE f[n - 1]
           Step(s, n) == IF m[n].key \in K THEN Append(s, m[n]) ELSE s
           Runs(n, g) == /\ g \in [0..n -> MapOf(A, V)] /\ g[0] = <<>>
                         /\ \A i \in 1..n : g[i] = Step(g[i - 1], i)
                         /\ \A i \in 0..n : KeepsUpTo(m, K, i, g[i])
           Fails == {n \in 0..L : ~ \E g : Runs(n, g)}
<1>0. L \in Nat  BY DEF MapOf
<1>1. Only(m, K) = kept[L]  BY DEF Only
<1>2. kept = CHOOSE f : f = [n \in 0..L |-> Body(f, n)]
  OBVIOUS
<1> HIDE DEF kept
<1>3. \E g : Runs(L, g)
  <2> SUFFICES ASSUME Fails # {} PROVE FALSE  BY <1>0
  <2>0. Fails \in SUBSET Nat  BY <1>0
  <2>1. PICK x \in Fails : \A y \in Fails : x <= y
    <3> HIDE DEF Fails
    <3> QED  BY <2>0, LeastElement
  <2>2. CASE x = 0
    <3> DEFINE g == [i \in 0..0 |-> <<>>]
    <3>1. Runs(0, g)  BY EmptyMap DEF KeepsUpTo
    <3> HIDE DEF Runs
    <3> QED  BY <2>1, <2>2, <3>1
  <2>3. CASE x # 0
    <3>1. x - 1 \in 0..L /\ x \in 1..L /\ x - 1 \notin Fails
      <4> HIDE DEF Runs, L
      <4>1. x \in 0..L  BY <2>1
      <4>2. x - 1 \in 0..L /\ x \in 1..L /\ ~(x <= x - 1)  BY <1>0, <2>3, <4>1
      <4>3. x - 1 \notin Fails
        <5> HIDE DEF Fails
        <5> QED  BY <2>1, <4>2
      <4> QED  BY <4>2, <4>3
    <3>2. PICK g : Runs(x - 1, g)  BY <3>1
    <3> DEFINE h == [i \in 0..x |-> IF i = x THEN Step(g[x - 1], x) ELSE g[i]]
    <3>3. /\ g \in [0..(x - 1) -> MapOf(A, V)] /\ g[0] = <<>>
          /\ \A i \in 1..(x - 1) : g[i] = Step(g[i - 1], i)
          /\ \A i \in 0..(x - 1) : KeepsUpTo(m, K, i, g[i])
      BY <3>2
    <3>4. Step(g[x - 1], x) \in MapOf(A, V) /\ KeepsUpTo(m, K, x, Step(g[x - 1], x))
      <4>1. g[x - 1] \in MapOf(A, V) /\ KeepsUpTo(m, K, x - 1, g[x - 1])  BY <1>0, <3>1, <3>3
      <4> QED  BY <3>1, <4>1, KeepsNext
    <3> HIDE DEF Step
    <3>5. h \in [0..x -> MapOf(A, V)] /\ h[0] = <<>>  BY <1>0, <3>1, <3>3, <3>4
    <3>6. \A i \in 1..x : h[i] = Step(h[i - 1], i)  BY <1>0, <3>1, <3>3
    <3>7. \A i \in 0..x : KeepsUpTo(m, K, i, h[i])  BY <1>0, <3>1, <3>3, <3>4
    <3>8. Runs(x, h)  BY <3>5, <3>6, <3>7
    <3> HIDE DEF Runs
    <3> QED  BY <2>1, <3>8
  <2> QED  BY <2>2, <2>3
<1>4. PICK g : Runs(L, g)  BY <1>3
<1>5. g = [n \in 0..L |-> Body(g, n)]
  <2>1. DOMAIN g = 0..L /\ g = [n \in 0..L |-> g[n]]  BY <1>4
  <2>2. ASSUME NEW n \in 0..L PROVE g[n] = Body(g, n)
    <3>1. CASE n = 0  BY <1>4, <3>1
    <3>2. CASE n # 0
      <4>1. n \in 1..L  BY <1>0, <3>2
      <4>2. g[n] = Step(g[n - 1], n)  BY <1>4, <4>1
      <4> QED  BY <3>2, <4>2
    <3> QED  BY <3>1, <3>2
  <2> HIDE DEF Body
  <2> QED  BY <2>1, <2>2
<1>6. kept = [n \in 0..L |-> Body(kept, n)]
  BY <1>2, <1>5
<1> DEFINE Differ == {n \in 0..L : kept[n] # g[n]}
<1>7. Differ = {}
  <2> SUFFICES ASSUME Differ # {} PROVE FALSE  OBVIOUS
  <2>0. Differ \in SUBSET Nat  BY <1>0
  <2>1. PICK x \in Differ : \A y \in Differ : x <= y
    <3> HIDE DEF Differ
    <3> QED  BY <2>0, LeastElement
  <2>2. x # 0  BY <1>0, <1>5, <1>6, <2>1
  <2>3. x - 1 \in 0..L /\ x - 1 \notin Differ /\ x \in 0..L  BY <1>0, <2>1, <2>2
  <2>4. kept[x - 1] = g[x - 1]  BY <2>3
  <2>5. kept[x] = g[x]  BY <1>5, <1>6, <2>2, <2>3, <2>4
  <2> QED  BY <2>1, <2>5
<1>8. kept[L] = g[L]  BY <1>0, <1>7
<1> QED  BY <1>0, <1>1, <1>4, <1>8

LEMMA OnlyValues ==
  ASSUME NEW K, NEW A, NEW V, NEW m \in MapOf(A, V), IsMap(m)
  PROVE  /\ Only(m, K) \in MapOf(A, V) /\ IsMap(Only(m, K))
         /\ Keys(Only(m, K)) = Keys(m) \cap K
         /\ Submap(Only(m, K), m)
<1> DEFINE o == Only(m, K)
<1>1. o \in MapOf(A, V) /\ KeepsUpTo(m, K, Len(m), o)  BY OnlyKeeps
<1> HIDE DEF o
<1>2. IsMap(o) /\ Among(o, m)  BY <1>1 DEF KeepsUpTo, Among
<1>3. Submap(o, m)  BY <1>1, <1>2, AmongSubmap
<1>4. Keys(o) = Keys(m) \cap K  BY <1>1, <1>3 DEF KeepsUpTo, Keys, Submap
<1> QED  BY <1>1, <1>2, <1>3, <1>4 DEF o

LEMMA UpTo == \A n \in Nat : IsFiniteSet(1..n) /\ Cardinality(1..n) = n
<1> TAKE n \in Nat
<1>1. 1 \in Int /\ n \in Int /\ n - 1 + 1 = n /\ (1 > n <=> n = 0)  OBVIOUS
<1> QED  BY <1>1, FS_Interval

(* A map is no longer than there are keys for it.                          *)
LEMMA MapRoom ==
  ASSUME NEW K, NEW V, NEW m \in MapOf(K, V), IsMap(m),
         NEW S, IsFiniteSet(S), Keys(m) \subseteq S
  PROVE  Len(m) <= Cardinality(S)
<1> DEFINE f == [i \in 1..Len(m) |-> m[i].key]
<1>1. Len(m) \in Nat  BY DEF MapOf
<1>2. f \in Injection(1..Len(m), S)
  BY DEF Injection, IsInjective, Keys, IsMap
<1> HIDE DEF f
<1>3. Cardinality(1..Len(m)) <= Cardinality(S)  BY <1>2, FS_Injection
<1> QED  BY <1>1, <1>3, UpTo

LEMMA MapLacks ==
  ASSUME NEW K, NEW V, NEW m \in MapOf(K, V), IsMap(m),
         NEW S, IsFiniteSet(S), Keys(m) \subseteq S, NEW k \in S, k \notin Keys(m)
  PROVE  Len(m) < Cardinality(S)
<1>1. Keys(m) \subseteq S \ {k}  OBVIOUS
<1>2. IsFiniteSet(S \ {k}) /\ Cardinality(S \ {k}) = Cardinality(S) - 1  BY FS_RemoveElement
<1>3. Len(m) <= Cardinality(S \ {k})  BY <1>1, <1>2, MapRoom
<1>4. Len(m) \in Nat /\ Cardinality(S) \in Nat  BY FS_CardinalityType DEF MapOf
<1> QED  BY <1>2, <1>3, <1>4

(* A map with no key beyond those of another is no longer.                 *)
LEMMA ShorterMap ==
  ASSUME NEW K, NEW V, NEW m \in MapOf(K, V), IsMap(m),
         NEW A, NEW B, NEW n \in MapOf(A, B), IsMap(n), Keys(n) \subseteq Keys(m)
  PROVE  Len(n) <= Len(m)
<1> DEFINE f == [k \in Keys(n) |-> IndexOf(m, k)]
<1>1. Len(m) \in Nat  BY DEF MapOf
<1>2. f \in Injection(Keys(n), 1..Len(m))
  <2>1. \A k \in Keys(n) : f[k] \in 1..Len(m) /\ m[f[k]].key = k  BY IndexOfKey
  <2> QED  BY <2>1 DEF Injection, IsInjective
<1> HIDE DEF f
<1>3. IsFiniteSet(1..Len(m)) /\ Cardinality(1..Len(m)) = Len(m)  BY <1>1, UpTo
<1>4. IsFiniteSet(Keys(n)) /\ Cardinality(Keys(n)) <= Len(m)  BY <1>2, <1>3, FS_Injection
<1>5. Len(n) <= Cardinality(Keys(n))  BY <1>4, MapRoom
<1>6. Len(n) \in Nat /\ Cardinality(Keys(n)) \in Nat  BY <1>4, FS_CardinalityType DEF MapOf
<1> QED  BY <1>1, <1>4, <1>5, <1>6

-----------------------------------------------------------------------------
(* The places of s that hold a member of S, to count them.                 *)
Hits(s, S) == {i \in 1..Len(s) : s[i] \in S}

LEMMA HitsFinite ==
  ASSUME NEW A, NEW s \in Seq(A), NEW S
  PROVE  IsFiniteSet(Hits(s, S)) /\ Cardinality(Hits(s, S)) \in Nat
<1>1. Hits(s, S) \in SUBSET (1..Len(s)) /\ Len(s) \in Nat  BY DEF Hits
<1>2. IsFiniteSet(1..Len(s))  BY <1>1, UpTo
<1> QED  BY <1>1, <1>2, FS_Subset, FS_CardinalityType

(* Appending e adds a hit when e is one.                                   *)
LEMMA HitsAppend ==
  ASSUME NEW A, NEW s \in Seq(A), NEW e \in A, NEW S
  PROVE  Cardinality(Hits(Append(s, e), S)) =
           Cardinality(Hits(s, S)) + (IF e \in S THEN 1 ELSE 0)
<1> DEFINE n == Len(s) + 1
           a == Append(s, e)
<1>1. /\ n \in Nat /\ Len(a) = n /\ a[n] = e /\ n \notin Hits(s, S)
      /\ \A i \in 1..Len(s) : a[i] = s[i]
  BY DEF Hits
<1> HIDE DEF a
<1>2. Hits(a, S) = IF e \in S THEN Hits(s, S) \cup {n} ELSE Hits(s, S)
  BY <1>1 DEF Hits
<1> HIDE DEF n
<1>3. IsFiniteSet(Hits(s, S)) /\ Cardinality(Hits(s, S)) \in Nat  BY HitsFinite
<1>4. Cardinality(Hits(s, S) \cup {n}) = Cardinality(Hits(s, S)) + 1
  BY <1>1, <1>3, FS_AddElement
<1> QED  BY <1>2, <1>3, <1>4 DEF a

(* A sequence whose elements are, in their places shifted by d, elements of*)
(* s has no more hits than s.                                              *)
LEMMA HitsShifted ==
  ASSUME NEW A, NEW s \in Seq(A), NEW t \in Seq(A), NEW d \in Nat, NEW S,
         \A i \in 1..Len(t) : i + d \in 1..Len(s) /\ t[i] = s[i + d]
  PROVE  Cardinality(Hits(t, S)) <= Cardinality(Hits(s, S))
<1> DEFINE f == [i \in Hits(t, S) |-> i + d]
<1>1. f \in Injection(Hits(t, S), Hits(s, S))
  BY DEF Injection, IsInjective, Hits
<1> HIDE DEF f
<1>2. IsFiniteSet(Hits(s, S))  BY HitsFinite
<1> QED  BY <1>1, <1>2, FS_Injection

(* A ring has at most the hits it had and the new element's.               *)
LEMMA HitsPush ==
  ASSUME NEW A, NEW s \in Seq(A), NEW e \in A, NEW S, NEW n \in Nat \ {0}, Len(s) <= n
  PROVE  Cardinality(Hits(Push(s, e, n), S)) <=
           Cardinality(Hits(s, S)) + (IF e \in S THEN 1 ELSE 0)
<1> DEFINE a == Append(s, e)
           r == Push(s, e, n)
           d == Dropped(s, n)
<1>1. /\ r \in Seq(A) /\ Len(r) = Len(s) + 1 - d /\ r[Len(s) + 1 - d] = e
      /\ \A i \in 1..(Len(s) - d) : r[i] = s[i + d]
  BY PushElements
<1>2. d \in {0, 1} /\ Len(s) \in Nat  BY DEF Dropped
<1>3. /\ a \in Seq(A) /\ Len(a) = Len(s) + 1 /\ a[Len(s) + 1] = e
      /\ \A i \in 1..Len(s) : a[i] = s[i]
  OBVIOUS
<1> HIDE DEF r, d, a
<1>4. \A i \in 1..Len(r) : i + d \in 1..Len(a) /\ r[i] = a[i + d]
  <2> TAKE i \in 1..Len(r)
  <2>1. CASE i = Len(s) + 1 - d
    <3>1. i + d = Len(s) + 1  BY <1>2, <2>1
    <3> QED  BY <1>1, <1>2, <1>3, <2>1, <3>1
  <2>2. CASE i \in 1..(Len(s) - d)
    <3>1. i + d \in 1..Len(s)  BY <1>2, <2>2
    <3> QED  BY <1>1, <1>2, <1>3, <2>2, <3>1
  <2> QED  BY <1>1, <1>2, <2>1, <2>2
<1>5. Cardinality(Hits(r, S)) <= Cardinality(Hits(a, S))  BY <1>1, <1>2, <1>3, <1>4, HitsShifted
<1>6. Cardinality(Hits(a, S)) = Cardinality(Hits(s, S)) + (IF e \in S THEN 1 ELSE 0)
  BY HitsAppend DEF a
<1> QED  BY <1>5, <1>6 DEF r

(* Taking the element at i out takes its hit out and no other.             *)
LEMMA HitsWithout ==
  ASSUME NEW A, NEW s \in Seq(A), NEW i \in 1..Len(s), NEW S
  PROVE  Cardinality(Hits(Without(s, i), S)) =
           Cardinality(Hits(s, S)) - (IF s[i] \in S THEN 1 ELSE 0)
<1> DEFINE w == Without(s, i)
           H == Hits(s, S) \ {i}
           f == [j \in Hits(w, S) |-> IF j < i THEN j ELSE j + 1]
<1>1. /\ w \in Seq(A) /\ Len(w) = Len(s) - 1 /\ Len(s) \in Nat
      /\ \A j \in 1..(Len(s) - 1) : w[j] = IF j < i THEN s[j] ELSE s[j + 1]
  BY WithoutElements
<1> HIDE DEF w
<1>2. f \in Injection(Hits(w, S), H)
  <2>1. ASSUME NEW j \in Hits(w, S) PROVE f[j] \in H
    <3>1. j \in 1..(Len(s) - 1) /\ w[j] \in S  BY <1>1 DEF Hits
    <3>2. f[j] \in 1..Len(s) /\ f[j] # i /\ s[f[j]] = w[j]  BY <1>1, <3>1
    <3> QED  BY <3>1, <3>2 DEF Hits
  <2>2. ASSUME NEW j \in Hits(w, S), NEW k \in Hits(w, S), f[j] = f[k] PROVE j = k
    <3>1. j \in Int /\ k \in Int  BY DEF Hits
    <3> QED  BY <2>2, <3>1
  <2> HIDE DEF H
  <2>3. f \in [Hits(w, S) -> H]  BY <2>1
  <2> HIDE DEF f
  <2> QED  BY <2>2, <2>3 DEF Injection, IsInjective
<1>3. f \in Surjection(Hits(w, S), H)
  <2> SUFFICES ASSUME NEW k \in H PROVE \E j \in Hits(w, S) : f[j] = k
    BY <1>2 DEF Injection, Surjection
  <2>1. CASE k < i
    <3>1. k \in Hits(w, S)  BY <1>1, <2>1 DEF Hits
    <3> QED  BY <2>1, <3>1
  <2>2. CASE k > i
    <3>1. k - 1 \in Hits(w, S) /\ ~(k - 1 < i) /\ (k - 1) + 1 = k  BY <1>1, <2>2 DEF Hits
    <3> QED  BY <3>1
  <2> QED  BY <2>1, <2>2 DEF Hits
<1> HIDE DEF f
<1>4. IsFiniteSet(Hits(s, S)) /\ IsFiniteSet(Hits(w, S))  BY <1>1, HitsFinite
<1>5. IsFiniteSet(H) /\ Cardinality(H) = IF i \in Hits(s, S) THEN Cardinality(Hits(s, S)) - 1
                                        ELSE Cardinality(Hits(s, S))
  BY <1>4, FS_RemoveElement
<1>6. Cardinality(Hits(w, S)) = Cardinality(H)
  <2> HIDE DEF H
  <2> QED  BY <1>2, <1>3, <1>4, <1>5, FS_Injection
<1>7. i \in Hits(s, S) <=> s[i] \in S  BY DEF Hits
<1>8. Cardinality(Hits(s, S)) \in Nat  BY HitsFinite
<1> QED  BY <1>5, <1>6, <1>7, <1>8 DEF w

LEMMA HitsConcat ==
  ASSUME NEW A, NEW s \in Seq(A), NEW t \in Seq(A), NEW S
  PROVE  Cardinality(Hits(s \o t, S)) <= Cardinality(Hits(s, S)) + Cardinality(Hits(t, S))
<1> DEFINE c == s \o t
           n == Len(s)
           H == Hits(c, S) \ Hits(s, S)
           f == [i \in H |-> i - n]
<1>1. /\ c \in Seq(A) /\ Len(c) = n + Len(t) /\ n \in Nat /\ Len(t) \in Nat
      /\ \A i \in 1..(n + Len(t)) : c[i] = IF i <= n THEN s[i] ELSE t[i - n]
  BY ConcatProperties, LenProperties
<1> HIDE DEF c, n
<1>2. \A i \in H : i \in Int /\ i > n /\ i - n \in 1..Len(t) /\ t[i - n] \in S
  BY <1>1 DEF Hits, n
<1>3. f \in Injection(H, Hits(t, S))  BY <1>1, <1>2 DEF Injection, IsInjective, Hits
<1> HIDE DEF f
<1>4. /\ IsFiniteSet(Hits(s, S)) /\ IsFiniteSet(Hits(t, S)) /\ IsFiniteSet(Hits(c, S))
      /\ Cardinality(Hits(s, S)) \in Nat /\ Cardinality(Hits(t, S)) \in Nat
  BY <1>1, HitsFinite
<1>5. IsFiniteSet(H) /\ Cardinality(H) \in Nat /\ Cardinality(H) <= Cardinality(Hits(t, S))
  BY <1>3, <1>4, FS_Injection, FS_CardinalityType
<1>6. IsFiniteSet(Hits(s, S) \cup H)
      /\ Cardinality(Hits(s, S) \cup H) <= Cardinality(Hits(s, S)) + Cardinality(H)
  <2> HIDE DEF H
  <2>1. IsFiniteSet(Hits(s, S) \cap H)  BY <1>5, FS_Subset
  <2>2. Cardinality(Hits(s, S) \cap H) \in Nat  BY <2>1, FS_CardinalityType
  <2>3. /\ IsFiniteSet(Hits(s, S) \cup H)
        /\ Cardinality(Hits(s, S) \cup H) =
             Cardinality(Hits(s, S)) + Cardinality(H) - Cardinality(Hits(s, S) \cap H)
    BY <1>4, <1>5, FS_Union
  <2> QED  BY <1>4, <1>5, <2>2, <2>3
<1>7. Hits(c, S) \in SUBSET (Hits(s, S) \cup H)  OBVIOUS
<1>8. Cardinality(Hits(c, S)) <= Cardinality(Hits(s, S) \cup H)  BY <1>6, <1>7, FS_Subset
<1>9. Cardinality(Hits(c, S)) \in Nat /\ Cardinality(Hits(s, S) \cup H) \in Nat
  BY <1>4, <1>6, FS_CardinalityType
<1> QED  BY <1>4, <1>5, <1>6, <1>8, <1>9 DEF c

-----------------------------------------------------------------------------
(* What SortedBy puts in order is in the set: where Earlier is a            *)
(* strict total order, the elements have the ranks 0 to n - 1.              *)
Enumerates(places, S, Earlier) ==
  /\ \A k \in 1..Cardinality(S) : Cardinality(Earlier[places[k]]) = k - 1
  /\ \A x \in S : /\ Cardinality(Earlier[x]) \in 0..(Cardinality(S) - 1)
                 /\ places[Cardinality(Earlier[x]) + 1] = x
  /\ \A x, y \in S : x \in Earlier[y] => Cardinality(Earlier[x]) < Cardinality(Earlier[y])

LEMMA OrderedIn ==
  ASSUME NEW S, IsFiniteSet(S), NEW Earlier,
         \A x \in S : Earlier[x] \subseteq S \ {x},
         \A x, y \in S : x # y => x \in Earlier[y] \/ y \in Earlier[x],
         \A x, y \in S : x \in Earlier[y] => Earlier[x] \subseteq Earlier[y]
  PROVE  /\ Cardinality(S) \in Nat
         /\ SortedBy(S, Earlier) \in Seq(S)
         /\ Len(SortedBy(S, Earlier)) = Cardinality(S)
         /\ Enumerates(SortedBy(S, Earlier), S, Earlier)
<1> DEFINE n == Cardinality(S)
           rank == [x \in S |-> Cardinality(Earlier[x])]
<1>1. n \in Nat  BY FS_CardinalityType
<1>2. ASSUME NEW x \in S
      PROVE  IsFiniteSet(Earlier[x]) /\ rank[x] \in 0..(n - 1)
  <2>1. IsFiniteSet(S \ {x}) /\ Cardinality(S \ {x}) = n - 1  BY FS_RemoveElement
  <2>2. Earlier[x] \in SUBSET (S \ {x})  OBVIOUS
  <2>3. IsFiniteSet(Earlier[x]) /\ Cardinality(Earlier[x]) <= n - 1
    BY <2>1, <2>2, FS_Subset
  <2>4. Cardinality(Earlier[x]) \in Nat  BY <2>3, FS_CardinalityType
  <2> QED  BY <1>1, <2>3, <2>4
<1>3. ASSUME NEW x \in S, NEW y \in S, x \in Earlier[y]
      PROVE  rank[x] < rank[y]
  <2>1. Earlier[x] \in SUBSET Earlier[y] /\ x \notin Earlier[x]  BY <1>3
  <2>2. IsFiniteSet(Earlier[y])  BY <1>2
  <2>3. /\ Cardinality(Earlier[x]) <= Cardinality(Earlier[y])
        /\ Cardinality(Earlier[y]) = Cardinality(Earlier[x]) => Earlier[y] = Earlier[x]
    BY <2>1, <2>2, FS_Subset
  <2>4. rank[x] \in Int /\ rank[y] \in Int  BY <1>1, <1>2
  <2> QED  BY <1>3, <2>1, <2>3, <2>4
<1>4. ASSUME NEW k \in 1..n PROVE \E x \in S : Cardinality(Earlier[x]) = k - 1
  <2> SUFFICES ASSUME \A x \in S : rank[x] # k - 1 PROVE FALSE  OBVIOUS
  <2> DEFINE T == (0..(n - 1)) \ {k - 1}
  <2>0. PICK last \in Int : last = n - 1  BY <1>1
  <2>1. IsFiniteSet(0..last) /\ Cardinality(0..last) = n
    <3>1. IsFiniteSet(0..last)
          /\ Cardinality(0..last) = IF 0 > last THEN 0 ELSE last - 0 + 1
      BY FS_Interval
    <3> QED  BY <1>1, <2>0, <3>1
  <2>2. IsFiniteSet(T) /\ Cardinality(T) = n - 1
    <3>1. PICK j : j = k - 1 /\ j \in 0..last  BY <1>1, <2>0
    <3>2. PICK R : R = 0..last  OBVIOUS
    <3>3. IsFiniteSet(R) /\ Cardinality(R) = n /\ j \in R  BY <2>1, <3>1, <3>2
    <3>4. IsFiniteSet(R \ {j}) /\ Cardinality(R \ {j}) = n - 1
      BY <3>3, FS_RemoveElement
    <3>5. T = R \ {j}  BY <2>0, <3>1, <3>2
    <3> QED  BY <3>4, <3>5
  <2>3. rank \in [S -> T]  BY <1>2
  <2>4. Cardinality(T) < Cardinality(S)  BY <1>1, <2>2
  <2> HIDE DEF T, rank
  <2>5. PICK x, y \in S : x # y /\ rank[x] = rank[y]
    BY <2>2, <2>3, <2>4, FS_PigeonHole
  <2>6. x \in Earlier[y] \/ y \in Earlier[x]  BY <2>5
  <2>7. rank[x] < rank[y] \/ rank[y] < rank[x]  BY <1>3, <2>6
  <2>8. rank[x] \in Int  BY <1>1, <1>2
  <2> QED  BY <2>5, <2>7, <2>8
<1>5. \A k \in 1..n : SortedBy(S, Earlier)[k] \in S
                     /\ Cardinality(Earlier[SortedBy(S, Earlier)[k]]) = k - 1
  BY <1>4 DEF SortedBy
<1>6. SortedBy(S, Earlier) \in [1..n -> S]  BY <1>5 DEF SortedBy
<1>7. SortedBy(S, Earlier) \in Seq(S)  BY <1>1, <1>6, SeqDef
<1>8. ASSUME NEW x \in S, NEW y \in S, rank[x] = rank[y] PROVE x = y
  <2>1. rank[x] \in Int  BY <1>1, <1>2
  <2>2. ~(rank[x] < rank[y]) /\ ~(rank[y] < rank[x])  BY <1>8, <2>1
  <2> HIDE DEF rank
  <2> QED  BY <1>3, <2>2
<1>9. ASSUME NEW x \in S
      PROVE  rank[x] \in 0..(n - 1) /\ SortedBy(S, Earlier)[rank[x] + 1] = x
  <2>1. PICK k : k = rank[x] + 1  OBVIOUS
  <2>2. k \in 1..n /\ rank[x] = k - 1 /\ rank[x] \in 0..(n - 1)  BY <1>1, <1>2, <2>1
  <2>3. PICK y \in S : y = SortedBy(S, Earlier)[k] /\ Cardinality(Earlier[y]) = k - 1
    BY <1>5, <2>2
  <2>4. rank[y] = rank[x]  BY <2>2, <2>3
  <2> HIDE DEF rank
  <2> QED  BY <1>8, <2>1, <2>2, <2>3, <2>4
<1>10. \A x, y \in S : x \in Earlier[y] => Cardinality(Earlier[x]) < Cardinality(Earlier[y])
  BY <1>3
<1>11. \A x \in S : /\ Cardinality(Earlier[x]) \in 0..(n - 1)
                   /\ SortedBy(S, Earlier)[Cardinality(Earlier[x]) + 1] = x
  BY <1>9
<1>12. Len(SortedBy(S, Earlier)) = n  BY <1>1, <1>6, <1>7, LenProperties
<1> HIDE DEF rank
<1>13. Enumerates(SortedBy(S, Earlier), S, Earlier)  BY <1>5, <1>10, <1>11 DEF Enumerates
<1> QED  BY <1>1, <1>7, <1>12, <1>13

LEMMA Selected ==
  ASSUME NEW T, NEW s \in Seq(T), NEW I \in SUBSET DOMAIN s
  PROVE  /\ Select(s, I) \in Seq({s[i] : i \in I})
         /\ Len(Select(s, I)) = Cardinality(I) /\ IsFiniteSet(I)
         /\ \A k \in 1..Cardinality(I) : \E i \in I :
              /\ Select(s, I)[k] = s[i]
              /\ \A j \in I : j <= i => \E l \in 1..k : Select(s, I)[l] = s[j]
<1>1. DOMAIN s = 1..Len(s) /\ Len(s) \in Nat  OBVIOUS
<1>2. IsFiniteSet(I)
  <2>1. IsFiniteSet(1..Len(s))  BY <1>1, FS_Interval
  <2>2. I \in SUBSET (1..Len(s))  BY <1>1
  <2> QED  BY <2>1, <2>2, FS_Subset
<1> DEFINE Earlier == [i \in I |-> {j \in I : j < i}]
           places == SortedBy(I, Earlier)
<1>3. /\ \A i \in I : Earlier[i] \subseteq I \ {i}
      /\ \A i, j \in I : i # j => i \in Earlier[j] \/ j \in Earlier[i]
      /\ \A i, j \in I : i \in Earlier[j] => Earlier[i] \subseteq Earlier[j]
  BY <1>1
<1>4. /\ places \in Seq(I) /\ Len(places) = Cardinality(I) /\ Cardinality(I) \in Nat
      /\ \A k \in 1..Cardinality(I) : Cardinality(Earlier[places[k]]) = k - 1
      /\ \A i \in I : /\ Cardinality(Earlier[i]) \in 0..(Cardinality(I) - 1)
                     /\ places[Cardinality(Earlier[i]) + 1] = i
      /\ \A i, j \in I : i \in Earlier[j] => Cardinality(Earlier[i]) < Cardinality(Earlier[j])
  <2>1. /\ Cardinality(I) \in Nat /\ places \in Seq(I) /\ Len(places) = Cardinality(I)
        /\ Enumerates(places, I, Earlier)
    <3> HIDE DEF Earlier
    <3> QED  BY <1>2, <1>3, OrderedIn
  <2> HIDE DEF Earlier, places
  <2> QED  BY <2>1 DEF Enumerates
<1>5. Select(s, I) = [k \in DOMAIN places |-> s[places[k]]]  BY DEF Select
<1> HIDE DEF places
<1>6. DOMAIN places = 1..Len(places) /\ Len(places) \in Nat  BY <1>4
<1>7. Select(s, I) \in [1..Len(places) -> {s[i] : i \in I}]  BY <1>4, <1>5, <1>6
<1>8. Select(s, I) \in Seq({s[i] : i \in I})  BY <1>6, <1>7, SeqDef
<1>9. \A i, j \in I : j <= i => j = i \/ j \in Earlier[i]
  BY <1>1
<1>10. ASSUME NEW k \in 1..Cardinality(I)
       PROVE  \E i \in I :
                /\ Select(s, I)[k] = s[i]
                /\ \A j \in I : j <= i => \E l \in 1..k : Select(s, I)[l] = s[j]
  <2> HIDE DEF Earlier
  <2>1. PICK i : i = places[k]  OBVIOUS
  <2>2. i \in I /\ Select(s, I)[k] = s[i] /\ Cardinality(Earlier[i]) = k - 1
    BY <1>4, <1>5, <1>6, <2>1
  <2>3. ASSUME NEW j \in I, j <= i PROVE \E l \in 1..k : Select(s, I)[l] = s[j]
    <3>1. PICK l : l = Cardinality(Earlier[j]) + 1  OBVIOUS
    <3>2. l \in 1..Cardinality(I) /\ places[l] = j /\ Cardinality(Earlier[j]) \in Nat
      <4>1. /\ Cardinality(Earlier[j]) \in 0..(Cardinality(I) - 1)
            /\ places[Cardinality(Earlier[j]) + 1] = j
        BY <1>4, <2>3
      <4>2. places[l] = j  BY <3>1, <4>1
      <4> HIDE DEF places
      <4>3. Cardinality(I) \in Nat  BY <1>4
      <4> QED  BY <3>1, <4>1, <4>2, <4>3
    <3>3. Cardinality(Earlier[j]) <= Cardinality(Earlier[i])
      <4>1. CASE j = i  BY <2>2, <4>1
      <4>2. CASE j \in Earlier[i]
        <5>1. Cardinality(Earlier[j]) < Cardinality(Earlier[i])  BY <1>4, <2>2, <4>2
        <5> QED  BY <2>2, <3>2, <5>1
      <4> QED  BY <1>9, <2>2, <2>3, <4>1, <4>2
    <3>4. l <= k  BY <2>2, <3>1, <3>2, <3>3
    <3>5. Select(s, I)[l] = s[j]  BY <1>4, <1>5, <1>6, <3>2
    <3> QED  BY <3>2, <3>4, <3>5
  <2> QED  BY <2>2, <2>3
<1>11. Len(Select(s, I)) = Cardinality(I)  BY <1>4, <1>6, <1>7, <1>8, LenProperties
<1> QED  BY <1>2, <1>8, <1>10, <1>11

(* A sorted list has no element twice, and each comes after those Earlier  *)
(* has for it.                                                             *)
LEMMA SortedInPlace ==
  ASSUME NEW S, IsFiniteSet(S), NEW Earlier,
         \A x \in S : Earlier[x] \subseteq S \ {x},
         \A x, y \in S : x # y => x \in Earlier[y] \/ y \in Earlier[x],
         \A x, y \in S : x \in Earlier[y] => Earlier[x] \subseteq Earlier[y]
  PROVE  /\ \A i, j \in 1..Cardinality(S) :
              i < j => SortedBy(S, Earlier)[i] \in Earlier[SortedBy(S, Earlier)[j]]
         /\ \A i, j \in 1..Cardinality(S) :
              SortedBy(S, Earlier)[i] = SortedBy(S, Earlier)[j] => i = j
         /\ \A x \in S : \E i \in 1..Cardinality(S) : SortedBy(S, Earlier)[i] = x
<1> DEFINE s == SortedBy(S, Earlier)
           n == Cardinality(S)
<1>1. n \in Nat /\ s \in Seq(S) /\ Len(s) = n /\ Enumerates(s, S, Earlier)
  BY OrderedIn
<1> HIDE DEF s, n
<1>2. \A k \in 1..n : s[k] \in S  BY <1>1
<1>3. \A k \in 1..n : Cardinality(Earlier[s[k]]) = k - 1  BY <1>1 DEF Enumerates, n
<1>4. ASSUME NEW i \in 1..n, NEW j \in 1..n, s[i] = s[j] PROVE i = j
  <2>1. i - 1 = j - 1  BY <1>3, <1>4
  <2> QED  BY <2>1
<1>5. ASSUME NEW i \in 1..n, NEW j \in 1..n, i < j PROVE s[i] \in Earlier[s[j]]
  <2>1. s[i] # s[j]  BY <1>4, <1>5
  <2>2. ASSUME s[j] \in Earlier[s[i]] PROVE FALSE
    <3>1. Cardinality(Earlier[s[j]]) < Cardinality(Earlier[s[i]])
      BY <1>1, <1>2, <2>2 DEF Enumerates
    <3>2. j - 1 < i - 1  BY <1>3, <3>1
    <3> QED  BY <1>5, <3>2
  <2> QED  BY <1>2, <2>1, <2>2
<1>6. ASSUME NEW x \in S PROVE \E i \in 1..n : s[i] = x
  <2>1. PICK i : i = Cardinality(Earlier[x]) + 1  OBVIOUS
  <2>2. Cardinality(Earlier[x]) \in 0..(n - 1) /\ s[i] = x
    BY <1>1, <2>1 DEF Enumerates, n
  <2> QED  BY <1>1, <2>1, <2>2
<1> QED  BY <1>4, <1>5, <1>6 DEF s, n

LEMMA SelectedAll ==
  ASSUME NEW T, NEW s \in Seq(T), NEW I \in SUBSET DOMAIN s
  PROVE  \A i \in I : \E k \in 1..Cardinality(I) : Select(s, I)[k] = s[i]
<1> DEFINE Earlier == [i \in I |-> {j \in I : j < i}]
           places == SortedBy(I, Earlier)
<1>1. DOMAIN s = 1..Len(s) /\ Len(s) \in Nat  OBVIOUS
<1>2. IsFiniteSet(I)  BY Selected
<1>3. /\ \A i \in I : Earlier[i] \subseteq I \ {i}
      /\ \A i, j \in I : i # j => i \in Earlier[j] \/ j \in Earlier[i]
      /\ \A i, j \in I : i \in Earlier[j] => Earlier[i] \subseteq Earlier[j]
  BY <1>1
<1>4. Select(s, I) = [k \in DOMAIN places |-> s[places[k]]]  BY DEF Select
<1> HIDE DEF Earlier
<1>5. places \in Seq(I) /\ Len(places) = Cardinality(I) /\ Cardinality(I) \in Nat
  BY <1>2, <1>3, OrderedIn
<1>6. \A i \in I : \E k \in 1..Cardinality(I) : places[k] = i
  BY <1>2, <1>3, SortedInPlace
<1> HIDE DEF places
<1>7. DOMAIN places = 1..Cardinality(I)  BY <1>5
<1> QED  BY <1>4, <1>6, <1>7


(* Running N steps from a start gives one state for each of them.          *)
RunOf(N, T, base, step, g) ==
  g \in [0..N -> T] /\ g[0] = base /\ \A i \in 1..N : g[i] = step[i][g[i - 1]]

LEMMA Recursion ==
  ASSUME NEW N \in Nat, NEW T, NEW base \in T, NEW step \in [1..N -> [T -> T]]
  PROVE  \E g : RunOf(N, T, base, step, g)
<1> DEFINE Runs(n, g) == /\ g \in [0..n -> T] /\ g[0] = base
                         /\ \A i \in 1..n : g[i] = step[i][g[i - 1]]
           Fails == {n \in 0..N : ~ \E g : Runs(n, g)}
<1>1. \E g : Runs(N, g)
  <2> SUFFICES ASSUME Fails # {} PROVE FALSE
    <3> HIDE DEF Runs
    <3> QED  OBVIOUS
  <2>0. Fails \in SUBSET Nat  OBVIOUS
  <2>1. PICK x \in Fails : \A y \in Fails : x <= y
    <3> HIDE DEF Fails
    <3> QED  BY <2>0, LeastElement
  <2>2. CASE x = 0
    <3> DEFINE g == [i \in 0..0 |-> base]
    <3>1. Runs(0, g)  OBVIOUS
    <3> HIDE DEF Runs
    <3> QED  BY <2>1, <2>2, <3>1
  <2>3. CASE x # 0
    <3>1. x - 1 \in 0..N /\ x \in 1..N /\ x - 1 \notin Fails
      <4> HIDE DEF Runs
      <4> QED  BY <2>1, <2>3
    <3>2. PICK g : Runs(x - 1, g)  BY <3>1
    <3> DEFINE next == step[x][g[x - 1]]
               h == [i \in 0..x |-> IF i = x THEN next ELSE g[i]]
    <3>3. /\ g \in [0..(x - 1) -> T] /\ g[0] = base
          /\ \A i \in 1..(x - 1) : g[i] = step[i][g[i - 1]]
      BY <3>2
    <3>4. next \in T
      <4>1. g[x - 1] \in T /\ step[x] \in [T -> T]  BY <3>1, <3>3
      <4> QED  BY <4>1
    <3>5. h \in [0..x -> T] /\ h[0] = base
      <4> HIDE DEF next
      <4> QED  BY <3>1, <3>3, <3>4
    <3>6. \A i \in 1..x : h[i] = step[i][h[i - 1]]
      <4>1. h[x] = next /\ h[x - 1] = g[x - 1]  BY <3>1
      <4>2. \A i \in 1..(x - 1) : h[i] = g[i] /\ h[i - 1] = g[i - 1]  BY <3>1
      <4> HIDE DEF h
      <4>3. \A i \in 1..x : i = x \/ i \in 1..(x - 1)  BY <3>1
      <4>4. h[x] = step[x][h[x - 1]]  BY <4>1
      <4>5. \A i \in 1..(x - 1) : h[i] = step[i][h[i - 1]]  BY <3>3, <4>2
      <4> QED  BY <4>3, <4>4, <4>5
    <3>7. Runs(x, h)  BY <3>5, <3>6
    <3> HIDE DEF Runs
    <3> QED  BY <2>1, <3>7
  <2> QED  BY <2>2, <2>3
<1> QED  BY <1>1 DEF RunOf

(* Two runs that start alike and never part are alike.                     *)
NeverPart(N, f, g) ==
  f[0] = g[0] /\ \A n \in 1..N : f[n - 1] = g[n - 1] => f[n] = g[n]

LEMMA SameRun ==
  ASSUME NEW N \in Nat, NEW f, NEW g, NeverPart(N, f, g)
  PROVE  \A n \in 0..N : f[n] = g[n]
<1> DEFINE Differ == {n \in 0..N : f[n] # g[n]}
<1> SUFFICES ASSUME Differ # {} PROVE FALSE  OBVIOUS
<1>0. Differ \in SUBSET Nat  OBVIOUS
<1>1. PICK x \in Differ : \A y \in Differ : x <= y
  <2> HIDE DEF Differ
  <2> QED  BY <1>0, LeastElement
<1>2. x # 0  BY <1>1 DEF NeverPart
<1>3. x \in 1..N /\ x - 1 \in 0..N /\ x - 1 \notin Differ  BY <1>1, <1>2
<1>4. f[x - 1] = g[x - 1]  BY <1>3
<1> QED  BY <1>1, <1>3, <1>4 DEF NeverPart


(* Each place of a selection is held by the element with that many before  *)
(* it.                                                                     *)
Lower(I, i) == {j \in I : j < i}
LEMMA SelectedPlaces ==
  ASSUME NEW T, NEW s \in Seq(T), NEW I \in SUBSET DOMAIN s
  PROVE  /\ Cardinality(I) \in Nat /\ Select(s, I) \in Seq(T)
         /\ Len(Select(s, I)) = Cardinality(I)
         /\ \A i \in I : /\ Cardinality(Lower(I, i)) \in 0..(Cardinality(I) - 1)
                         /\ Select(s, I)[Cardinality(Lower(I, i)) + 1] = s[i]
         /\ \A k \in 1..Cardinality(I) : \E i \in I : Cardinality(Lower(I, i)) = k - 1
         /\ \A i, j \in I : i < j <=> Cardinality(Lower(I, i)) < Cardinality(Lower(I, j))
<1> DEFINE Earlier == [i \in I |-> {j \in I : j < i}]
           places == SortedBy(I, Earlier)
           n == Cardinality(I)
<1>1. DOMAIN s = 1..Len(s) /\ Len(s) \in Nat /\ \A i \in DOMAIN s : s[i] \in T  OBVIOUS
<1>2. IsFiniteSet(I)  BY Selected
<1>3. /\ \A i \in I : Earlier[i] \subseteq I \ {i}
      /\ \A i, j \in I : i # j => i \in Earlier[j] \/ j \in Earlier[i]
      /\ \A i, j \in I : i \in Earlier[j] => Earlier[i] \subseteq Earlier[j]
  BY <1>1
<1>4. Select(s, I) = [k \in DOMAIN places |-> s[places[k]]]  BY DEF Select
<1>5. \A i \in I : Earlier[i] = Lower(I, i)  BY DEF Lower
<1>6. \A i, j \in I : i < j <=> i \in Earlier[j]  OBVIOUS
<1> HIDE DEF Earlier
<1>7. /\ places \in Seq(I) /\ Len(places) = n /\ n \in Nat
      /\ Enumerates(places, I, Earlier)
  BY <1>2, <1>3, OrderedIn
<1> HIDE DEF places
<1>8. /\ \A k \in 1..n : places[k] \in I /\ Cardinality(Earlier[places[k]]) = k - 1
      /\ \A i \in I : /\ Cardinality(Earlier[i]) \in 0..(n - 1)
                      /\ places[Cardinality(Earlier[i]) + 1] = i
      /\ \A i, j \in I : i \in Earlier[j] => Cardinality(Earlier[i]) < Cardinality(Earlier[j])
  BY <1>7 DEF Enumerates
<1> HIDE DEF n
<1>9. DOMAIN places = 1..n /\ Len(places) \in Nat  BY <1>7
<1>10. Select(s, I) \in [1..n -> T]  BY <1>1, <1>4, <1>8, <1>9
<1>11. Select(s, I) \in Seq(T) /\ Len(Select(s, I)) = n
  BY <1>7, <1>10, SeqDef, LenProperties
<1>12. ASSUME NEW i \in I
       PROVE  /\ Cardinality(Lower(I, i)) \in 0..(n - 1)
              /\ Select(s, I)[Cardinality(Lower(I, i)) + 1] = s[i]
  <2>1. PICK k : k = Cardinality(Lower(I, i)) + 1  OBVIOUS
  <2>2. Cardinality(Lower(I, i)) \in 0..(n - 1) /\ places[k] = i
    BY <1>5, <1>8, <2>1
  <2>3. k \in DOMAIN places  BY <1>7, <1>9, <2>1, <2>2
  <2>4. Select(s, I)[k] = s[i]  BY <1>4, <2>2, <2>3
  <2> QED  BY <2>1, <2>2, <2>4
<1>13. ASSUME NEW k \in 1..n PROVE \E i \in I : Cardinality(Lower(I, i)) = k - 1
  BY <1>5, <1>8
<1>14. ASSUME NEW i \in I, NEW j \in I
       PROVE  i < j <=> Cardinality(Lower(I, i)) < Cardinality(Lower(I, j))
  <2>1. \A h \in I : Cardinality(Lower(I, h)) \in Int  BY <1>7, <1>12
  <2>2. i < j => Cardinality(Lower(I, i)) < Cardinality(Lower(I, j))  BY <1>5, <1>6, <1>8
  <2>3. j < i => Cardinality(Lower(I, j)) < Cardinality(Lower(I, i))  BY <1>5, <1>6, <1>8
  <2>4. i \in Int /\ j \in Int  BY <1>1
  <2>5. i = j \/ i < j \/ j < i  BY <2>4
  <2> QED  BY <2>1, <2>2, <2>3, <2>4, <2>5
<1> QED  BY <1>7, <1>11, <1>12, <1>13, <1>14 DEF n

(* The elements of a set that come first are the first ones selected.      *)
LEMMA SelectedFirst ==
  ASSUME NEW T, NEW s \in Seq(T), NEW B \in SUBSET DOMAIN s, NEW I \in SUBSET B,
         \A x \in I : \A y \in B \ I : x < y
  PROVE  /\ Cardinality(I) \in Nat /\ Cardinality(B) \in Nat
         /\ Cardinality(I) <= Cardinality(B)
         /\ \A k \in 1..Cardinality(I) : Select(s, I)[k] = Select(s, B)[k]
<1>1. \A x \in I : Lower(B, x) = Lower(I, x)
  <2>1. \A x \in B : x \in Int  OBVIOUS
  <2>2. \A x \in I, y \in B : y < x => y \in I  BY <2>1
  <2> QED  BY <2>2 DEF Lower
<1>2. I \in SUBSET DOMAIN s  OBVIOUS
<1>3. /\ Cardinality(I) \in Nat
      /\ \A i \in I : Select(s, I)[Cardinality(Lower(I, i)) + 1] = s[i]
      /\ \A k \in 1..Cardinality(I) : \E i \in I : Cardinality(Lower(I, i)) = k - 1
  BY <1>2, SelectedPlaces
<1>4. /\ Cardinality(B) \in Nat
      /\ \A i \in B : Select(s, B)[Cardinality(Lower(B, i)) + 1] = s[i]
  BY SelectedPlaces
<1>5. Cardinality(I) <= Cardinality(B)
  <2>1. IsFiniteSet(B)  BY Selected
  <2> QED  BY <2>1, FS_Subset
<1>6. ASSUME NEW k \in 1..Cardinality(I) PROVE Select(s, I)[k] = Select(s, B)[k]
  <2>1. PICK i \in I : Cardinality(Lower(I, i)) = k - 1  BY <1>3
  <2>2. k - 1 + 1 = k  BY <1>3
  <2>3. Select(s, I)[k - 1 + 1] = s[i] /\ Select(s, B)[k - 1 + 1] = s[i]
    BY <1>1, <1>3, <1>4, <2>1
  <2> QED  BY <2>2, <2>3
<1> QED  BY <1>3, <1>4, <1>5, <1>6

(* One more, after all of them, is selected last.                          *)
LEMMA SelectedNext ==
  ASSUME NEW T, NEW s \in Seq(T), NEW I \in SUBSET DOMAIN s, NEW x \in DOMAIN s,
         \A y \in I : y < x
  PROVE  Select(s, I \cup {x}) = Append(Select(s, I), s[x])
<1> DEFINE B == I \cup {x}
           n == Cardinality(I)
<1>1. x \in Int /\ x \notin I /\ B \in SUBSET DOMAIN s /\ I \in SUBSET B  OBVIOUS
<1>2. IsFiniteSet(I)  BY Selected
<1>3. Cardinality(B) = n + 1  BY <1>1, <1>2, FS_AddElement
<1>4. \A y \in I : \A z \in B \ I : y < z  OBVIOUS
<1>5. Lower(B, x) = I  BY <1>1 DEF Lower
<1>6. s[x] \in T  OBVIOUS
<1> HIDE DEF B, n
<1>7. n \in Nat /\ \A k \in 1..n : Select(s, I)[k] = Select(s, B)[k]
  BY <1>1, <1>4, SelectedFirst DEF n
<1>8. Select(s, I) \in Seq(T) /\ Len(Select(s, I)) = n  BY SelectedPlaces DEF n
<1>9. /\ Select(s, B) \in Seq(T) /\ Len(Select(s, B)) = n + 1
      /\ \A i \in B : Select(s, B)[Cardinality(Lower(B, i)) + 1] = s[i]
  BY <1>1, <1>3, SelectedPlaces
<1>10. Select(s, B)[n + 1] = s[x]
  <2>1. x \in B  BY DEF B
  <2> QED  BY <1>5, <1>9, <2>1 DEF n
<1>11. Select(s, B) = Append(Select(s, I), s[x])
  <2>1. /\ Append(Select(s, I), s[x]) \in Seq(T) /\ Len(Append(Select(s, I), s[x])) = n + 1
        /\ \A k \in 1..n : Append(Select(s, I), s[x])[k] = Select(s, I)[k]
        /\ Append(Select(s, I), s[x])[n + 1] = s[x]
    BY <1>6, <1>7, <1>8
  <2>2. \A k \in 1..(n + 1) : k \in 1..n \/ k = n + 1  BY <1>7
  <2>3. \A k \in 1..(n + 1) : Select(s, B)[k] = Append(Select(s, I), s[x])[k]
    BY <1>7, <1>10, <2>1, <2>2
  <2> QED  BY <1>9, <2>1, <2>3, SeqEqual
<1> QED  BY <1>11 DEF B

(* The first c of a set of positions, and the one that comes next.         *)
Firsts(I, c) == {i \in I : Cardinality(Lower(I, i)) < c}
LEMMA FirstsGrow ==
  ASSUME NEW T, NEW s \in Seq(T), NEW I \in SUBSET DOMAIN s, NEW c \in 0..(Cardinality(I) - 1)
  PROVE  \E x \in I : /\ Select(s, I)[c + 1] = s[x]
                      /\ Firsts(I, c + 1) = Firsts(I, c) \cup {x}
                      /\ \A y \in Firsts(I, c) : y < x
<1>1. /\ Cardinality(I) \in Nat
      /\ \A i \in I : /\ Cardinality(Lower(I, i)) \in 0..(Cardinality(I) - 1)
                      /\ Select(s, I)[Cardinality(Lower(I, i)) + 1] = s[i]
      /\ \A k \in 1..Cardinality(I) : \E i \in I : Cardinality(Lower(I, i)) = k - 1
      /\ \A i, j \in I : i < j <=> Cardinality(Lower(I, i)) < Cardinality(Lower(I, j))
  BY SelectedPlaces
<1>2. c \in Int /\ c + 1 \in 1..Cardinality(I) /\ c + 1 - 1 = c  BY <1>1
<1>3. PICK x \in I : Cardinality(Lower(I, x)) = c  BY <1>1, <1>2
<1>4. Select(s, I)[c + 1] = s[x]  BY <1>1, <1>3
<1>5. ASSUME NEW y \in I, Cardinality(Lower(I, y)) = c PROVE y = x
  <2>1. ~(x < y) /\ ~(y < x)  BY <1>1, <1>2, <1>3, <1>5
  <2>2. x \in Int /\ y \in Int  OBVIOUS
  <2> QED  BY <2>1, <2>2
<1>6. \A y \in I : Cardinality(Lower(I, y)) < c + 1
                     <=> Cardinality(Lower(I, y)) < c \/ Cardinality(Lower(I, y)) = c
  BY <1>1, <1>2
<1>7. Firsts(I, c + 1) = Firsts(I, c) \cup {x}  BY <1>3, <1>5, <1>6 DEF Firsts
<1>8. \A y \in Firsts(I, c) : y < x  BY <1>1, <1>3 DEF Firsts
<1> QED  BY <1>4, <1>7, <1>8

LEMMA FirstsAll ==
  ASSUME NEW T, NEW s \in Seq(T), NEW I \in SUBSET DOMAIN s
  PROVE  /\ Firsts(I, 0) = {} /\ Firsts(I, Cardinality(I)) = I
         /\ \A c \in Int : \A x \in Firsts(I, c), y \in I \ Firsts(I, c) : x < y
<1>1. /\ Cardinality(I) \in Nat
      /\ \A i \in I : Cardinality(Lower(I, i)) \in 0..(Cardinality(I) - 1)
      /\ \A i, j \in I : i < j <=> Cardinality(Lower(I, i)) < Cardinality(Lower(I, j))
  BY SelectedPlaces
<1>2. Firsts(I, 0) = {} /\ Firsts(I, Cardinality(I)) = I  BY <1>1 DEF Firsts
<1>3. ASSUME NEW c \in Int, NEW x \in Firsts(I, c), NEW y \in I \ Firsts(I, c) PROVE x < y
  <2>1. x \in I /\ Cardinality(Lower(I, x)) < c /\ ~(Cardinality(Lower(I, y)) < c)
    BY DEF Firsts
  <2>2. Cardinality(Lower(I, x)) \in Int /\ Cardinality(Lower(I, y)) \in Int  BY <1>1, <2>1
  <2>3. Cardinality(Lower(I, x)) < Cardinality(Lower(I, y))  BY <2>1, <2>2
  <2> QED  BY <1>1, <2>1, <2>3
<1> QED  BY <1>2, <1>3

=============================================================================
