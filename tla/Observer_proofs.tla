--------------------------- MODULE Observer_proofs ---------------------------
(* Observer, for any processes and any bounds: names survive a goodbye, the *)
(* robots' processes are not taken for ros2 commands of TopicForge, nor     *)
(* those for robots, and a warm observer has heard the bus.                 *)
EXTENDS Observer, OrderedMapLemmas

(* The inductive invariant.  The clock, and what has started by it.         *)
Clock ==
  /\ now \in Nat /\ passes \in 0..2 /\ due \in BOOLEAN
  /\ life \in [Proc -> {"unborn", "up", "gone"}]
  /\ born \in [Proc -> Int]
  /\ \A p \in Proc : IF life[p] = "unborn" THEN born[p] = None ELSE born[p] \in 0..now

(* A participant is listed when it was there, first seen no sooner than it  *)
(* started, and as one that left only when it is gone.                      *)
Believed ==
  /\ known \in [Proc -> [status : {"unknown", "active", "left"}, first : Int]]
  /\ \A p \in Proc :
       IF known[p].status = "unknown" THEN known[p].first = None
       ELSE life[p] # "unborn" /\ known[p].first \in born[p]..now
  /\ \A p \in Proc : known[p].status = "left" => life[p] = "gone"

(* What a process says, in order, is its nodes and, once it is gone, that   *)
(* it has none; names holds what was read of it, unread the rest.           *)
Spoken(nodes) == <<nodes>>
Goodbye(nodes) == <<nodes, {}>>
Heard(p, nodes) ==
  \/ said[p] = <<>> /\ unread[p] = <<>> /\ names[p] = [now |-> {}, last |-> {}]
  \/ /\ nodes # {} /\ life[p] # "unborn" /\ said[p] = Spoken(nodes)
     /\ \/ unread[p] = Spoken(nodes) /\ names[p] = [now |-> {}, last |-> {}]
        \/ unread[p] = <<>> /\ names[p] = [now |-> nodes, last |-> nodes]
  \/ /\ nodes # {} /\ life[p] = "gone" /\ said[p] = Goodbye(nodes)
     /\ \/ unread[p] = Goodbye(nodes) /\ names[p] = [now |-> {}, last |-> {}]
        \/ unread[p] = Spoken({}) /\ names[p] = [now |-> nodes, last |-> nodes]
        \/ unread[p] = <<>> /\ names[p] = [now |-> {}, last |-> nodes]
Chatter ==
  /\ DOMAIN said = Proc /\ DOMAIN unread = Proc /\ DOMAIN names = Proc
  /\ \A p \in Proc : Heard(p, Procs[p].names)

(* The ring is of the last commands that started, in their order: one that  *)
(* is not in it is no younger than those that are, and the ring is full.    *)
Spawn(p) == [pid |-> Procs[p].pid, at |-> born[p]]
IsRing(w) ==
  /\ w \in Seq(Own) /\ Len(w) <= MaxSpawns
  /\ spawns = [i \in 1..Len(w) |-> Spawn(w[i])]
  /\ \A i \in 1..Len(w) : life[w[i]] # "unborn"
  /\ \A i, j \in 1..Len(w) : i < j => w[i] # w[j] /\ born[w[i]] <= born[w[j]]
  /\ \A p \in Own : life[p] # "unborn" =>
       \/ \E i \in 1..Len(w) : w[i] = p
       \/ Len(w) = MaxSpawns /\ \A i \in 1..Len(w) : born[p] <= born[w[i]]
Ring == \E w : IsRing(w)

(* A second pass is one that was made when a process of the first moment    *)
(* was up; a call waits past the longest wait in its first moment only.     *)
Warm ==
  /\ passes <= now + (IF due THEN 0 ELSE 1)
  /\ passes = 2 => \A p \in Proc :
       life[p] = "up" /\ born[p] <= 0 => known[p].status # "unknown"
  /\ call \in [at : {None} \cup Nat, warm : BOOLEAN, answered : {None} \cup Nat]
  /\ call.answered <= now /\ call.at <= now
  /\ call.answered = now /\ call.warm /\ now < WarmMaxWait =>
       passes = 2 /\ now >= WarmMinAge
  /\ Waiting => now <= WarmMaxWait \/ now = call.at
  /\ call.answered > WarmMaxWait => call.answered = call.at

-----------------------------------------------------------------------------
(* What apply_info_samples leaves, for the messages that can wait.         *)
Folded(before, lists) ==
  LET put[n \in 0..Len(lists)] ==
        IF n = 0 THEN before ELSE PutNames(put[n - 1], lists[n])
  IN  put[Len(lists)]

LEMMA FoldedIs ==
  ASSUME NEW before, NEW lists, Len(lists) \in 0..2
  PROVE  /\ Len(lists) = 0 => Folded(before, lists) = before
         /\ Len(lists) = 1 => Folded(before, lists) = PutNames(before, lists[1])
         /\ Len(lists) = 2 =>
              Folded(before, lists) = PutNames(PutNames(before, lists[1]), lists[2])
<1> DEFINE L == Len(lists)
           Body(f, n) == IF n = 0 THEN before ELSE PutNames(f[n - 1], lists[n])
           put[n \in 0..L] == Body(put, n)
           one == PutNames(before, lists[1])
           two == PutNames(one, lists[2])
           g == [n \in 0..L |-> IF n = 0 THEN before ELSE IF n = 1 THEN one ELSE two]
<1>0. L \in 0..2  OBVIOUS
<1>1. Folded(before, lists) = put[L]  BY DEF Folded
<1>2. put = CHOOSE f : f = [n \in 0..L |-> Body(f, n)]  OBVIOUS
<1> HIDE DEF put, L
<1>3. g = [n \in 0..L |-> Body(g, n)]
  <2> SUFFICES ASSUME NEW n \in 0..L PROVE g[n] = Body(g, n)  OBVIOUS
  <2>1. CASE n = 0  BY <1>0, <2>1
  <2>2. CASE n = 1  BY <1>0, <2>2
  <2>3. CASE n = 2  BY <1>0, <2>3
  <2> QED  BY <1>0, <2>1, <2>2, <2>3
<1> HIDE DEF g
<1>4. put = [n \in 0..L |-> Body(put, n)]  BY <1>2, <1>3
<1>5. put[0] = before  BY <1>0, <1>4
<1>6. L >= 1 => put[1] = one  BY <1>0, <1>4, <1>5
<1>7. L = 2 => put[2] = two  BY <1>0, <1>4, <1>6
<1>8. L = 0 => Folded(before, lists) = before  BY <1>1, <1>5
<1>9. L = 1 => Folded(before, lists) = one  BY <1>1, <1>6
<1>10. L = 2 => Folded(before, lists) = two  BY <1>1, <1>7
<1> QED  BY <1>8, <1>9, <1>10 DEF L

LEMMA ClockInit == Init => Clock
BY DEF Init, Clock, None

LEMMA ClockStep == Clock /\ [Next]_vars => Clock'
<1> SUFFICES ASSUME Clock, [Next]_vars PROVE Clock'  OBVIOUS
<1> USE DEF Clock, None
<1>1. ASSUME NEW p \in Proc, Start(p) PROVE Clock'
  <2>1. /\ UNCHANGED <<now, passes, due>>
        /\ life' = [life EXCEPT ![p] = "up"] /\ born' = [born EXCEPT ![p] = now]
    BY <1>1 DEF Start
  <2> QED  BY <2>1
<1>2. ASSUME NEW p \in Proc, Speak(p) PROVE Clock'  BY <1>2 DEF Speak
<1>3. ASSUME NEW p \in Proc, Leave(p) PROVE Clock'  BY <1>3 DEF Leave
<1>4. CASE Pass
  <2>1. /\ UNCHANGED <<now, life, born>> /\ due' = FALSE
        /\ passes' = IF passes < 2 THEN passes + 1 ELSE passes
    BY <1>4 DEF Pass
  <2>2. passes' \in 0..2  BY <2>1
  <2> QED  BY <2>1, <2>2
<1>5. CASE PassFails \/ Ask \/ Answer  BY <1>5 DEF PassFails, Ask, Answer
<1>6. CASE Tick  BY <1>6 DEF Tick
<1>7. CASE UNCHANGED vars  BY <1>7 DEF vars
<1> QED  BY <1>1, <1>2, <1>3, <1>4, <1>5, <1>6, <1>7 DEF Next

LEMMA BelievedInit == Init => Believed
BY DEF Init, Believed, None

LEMMA BelievedStep == Clock /\ Believed /\ [Next]_vars => Believed'
<1> SUFFICES ASSUME Clock, Believed, [Next]_vars PROVE Believed'  OBVIOUS
<1>1. ASSUME NEW p \in Proc, Start(p) PROVE Believed'
  <2>1. /\ UNCHANGED <<now, known>> /\ life[p] = "unborn"
        /\ life' = [life EXCEPT ![p] = "up"] /\ born' = [born EXCEPT ![p] = now]
    BY <1>1 DEF Start
  <2>2. known[p].status = "unknown"  BY <2>1 DEF Believed
  <2>3. \A q \in Proc : q # p => life'[q] = life[q] /\ born'[q] = born[q]
    BY <2>1 DEF Clock
  <2>4. \A q \in Proc : known[q].status # "unknown" => q # p  BY <2>2
  <2> QED  BY <2>1, <2>2, <2>3, <2>4 DEF Believed
<1>2. ASSUME NEW p \in Proc, Speak(p) PROVE Believed'
  BY <1>2 DEF Speak, Believed
<1>3. ASSUME NEW p \in Proc, Leave(p) PROVE Believed'
  <2>1. UNCHANGED <<now, born, known>> /\ life' = [life EXCEPT ![p] = "gone"]
    BY <1>3 DEF Leave
  <2>2. life'[p] = "gone" /\ \A q \in Proc : q # p => life'[q] = life[q]
    BY <2>1 DEF Clock
  <2>3. \A q \in Proc : /\ life[q] # "unborn" => life'[q] # "unborn"
                        /\ life[q] = "gone" => life'[q] = "gone"
    BY <2>2
  <2> QED  BY <2>1, <2>3 DEF Believed
<1>4. CASE Pass
  <2>1. UNCHANGED <<now, life, born>> /\ known' = [q \in Proc |-> Seen(q)]
    BY <1>4 DEF Pass
  <2> DEFINE first(q) == IF known[q].first = None THEN now ELSE known[q].first
  <2>2. ASSUME NEW q \in Proc
        PROVE /\ Seen(q) \in [status : {"unknown", "active", "left"}, first : Int]
              /\ IF Seen(q).status = "unknown" THEN Seen(q).first = None
                 ELSE life[q] # "unborn" /\ Seen(q).first \in born[q]..now
              /\ Seen(q).status = "left" => life[q] = "gone"
    <3>1. /\ life[q] \in {"unborn", "up", "gone"} /\ now \in Nat /\ born[q] \in Int
          /\ life[q] # "unborn" => born[q] \in 0..now
      BY DEF Clock
    <3>2. /\ known[q] \in [status : {"unknown", "active", "left"}, first : Int]
          /\ known[q].status = "unknown" => known[q].first = None
          /\ known[q].status # "unknown" =>
               life[q] # "unborn" /\ known[q].first \in born[q]..now
          /\ known[q].status = "left" => life[q] = "gone"
      BY DEF Believed
    <3>3. CASE life[q] = "unborn"
      <4>1. Seen(q) = known[q]  BY <3>3 DEF Seen
      <4> QED  BY <3>2, <3>3, <4>1
    <3>4. CASE life[q] # "unborn"
      <4>1. first(q) \in born[q]..now  BY <3>1, <3>2, <3>4 DEF None
      <4>2. /\ Seen(q).first = first(q) /\ Seen(q).status \in {"active", "left"}
            /\ Seen(q) = [status |-> Seen(q).status, first |-> first(q)]
            /\ Seen(q).status = "left" => life[q] = "gone"
        BY <3>1, <3>4 DEF Seen
      <4> HIDE DEF first
      <4> QED  BY <3>1, <3>4, <4>1, <4>2
    <3> QED  BY <3>3, <3>4
  <2> QED  BY <2>1, <2>2 DEF Believed
<1>5. CASE PassFails \/ Ask \/ Answer  BY <1>5 DEF PassFails, Ask, Answer, Believed
<1>6. CASE Tick
  <2>1. UNCHANGED <<life, born, known>> /\ now' = now + 1  BY <1>6 DEF Tick
  <2> QED  BY <2>1 DEF Believed, Clock
<1>7. CASE UNCHANGED vars  BY <1>7 DEF vars, Believed
<1> QED  BY <1>1, <1>2, <1>3, <1>4, <1>5, <1>6, <1>7 DEF Next

LEMMA WarmInit == Init => Warm
BY DEF Init, Warm, NoCall, None, Waiting, WarmMaxWait, WarmMinAge

LEMMA WarmStep == Clock /\ Believed /\ Warm /\ [Next]_vars => Warm'
<1> SUFFICES ASSUME Clock, Believed, Warm, [Next]_vars PROVE Warm'  OBVIOUS
<1> DEFINE Asked == <<now, due, passes, call>>
<1>0. /\ now \in Nat /\ passes \in 0..2 /\ passes <= now + (IF due THEN 0 ELSE 1)
      /\ passes = 2 => now >= 1
  BY DEF Clock, Warm
<1>1. ASSUME NEW p \in Proc, Start(p) PROVE Warm'
  <2>1. /\ UNCHANGED <<Asked, known>>
        /\ life' = [life EXCEPT ![p] = "up"] /\ born' = [born EXCEPT ![p] = now]
    BY <1>1 DEF Start
  <2>2. /\ born'[p] = now
        /\ \A q \in Proc : q # p => life'[q] = life[q] /\ born'[q] = born[q]
    BY <2>1 DEF Clock
  <2>3. passes = 2 => ~(born'[p] <= 0)  BY <1>0, <2>2
  <2> QED  BY <2>1, <2>2, <2>3 DEF Warm, Waiting
<1>2. ASSUME NEW p \in Proc, Speak(p) PROVE Warm'
  BY <1>2 DEF Speak, Warm, Waiting
<1>3. ASSUME NEW p \in Proc, Leave(p) PROVE Warm'
  <2>1. UNCHANGED <<Asked, born, known>> /\ life' = [life EXCEPT ![p] = "gone"]
    BY <1>3 DEF Leave
  <2>2. \A q \in Proc : life'[q] = "up" => life[q] = "up"
    BY <2>1 DEF Clock
  <2> QED  BY <2>1, <2>2 DEF Warm, Waiting
<1>4. CASE Pass
  <2>1. /\ UNCHANGED <<now, life, born, call>> /\ due /\ due' = FALSE
        /\ passes' = IF passes < 2 THEN passes + 1 ELSE passes
        /\ known' = [q \in Proc |-> Seen(q)]
    BY <1>4 DEF Pass
  <2>2. \A q \in Proc : life[q] = "up" => Seen(q).status # "unknown"  BY DEF Seen
  <2>3. passes' <= now' + (IF due' THEN 0 ELSE 1)  BY <1>0, <2>1
  <2>4. passes = 2 => passes' = 2  BY <2>1
  <2> QED  BY <2>1, <2>2, <2>3, <2>4 DEF Warm, Waiting
<1>5. CASE PassFails
  <2>1. UNCHANGED <<now, life, born, known, passes, call>> /\ due /\ due' = FALSE
    BY <1>5 DEF PassFails
  <2>2. passes' <= now' + (IF due' THEN 0 ELSE 1)  BY <1>0, <2>1
  <2> QED  BY <2>1, <2>2 DEF Warm, Waiting
<1>6. CASE Ask
  <2>1. /\ UNCHANGED <<now, life, born, known, passes, due>> /\ call.at = None
        /\ call' = [at |-> now, warm |-> FALSE, answered |-> None]
    BY <1>6 DEF Ask, NoCall
  <2> QED  BY <1>0, <2>1 DEF Warm, Waiting, None, WarmMaxWait
<1>7. CASE Answer
  <2>1. /\ UNCHANGED <<now, life, born, known, passes, due>> /\ Waiting
        /\ IsWarm \/ GivesUp
        /\ call' = [call EXCEPT !.warm = IsWarm, !.answered = now]
    BY <1>7 DEF Answer
  <2>2. call \in [at : {None} \cup Nat, warm : BOOLEAN, answered : {None} \cup Nat]
    BY DEF Warm
  <2>3. call'.at = call.at /\ call'.answered = now /\ call'.warm = IsWarm  BY <2>1, <2>2
  <2>4. call' \in [at : {None} \cup Nat, warm : BOOLEAN, answered : {None} \cup Nat]
    BY <1>0, <2>1, <2>2 DEF IsWarm
  <2>5. IsWarm /\ now < WarmMaxWait => passes = 2 /\ now >= WarmMinAge
    BY <1>0 DEF IsWarm, WarmMinPasses, WarmMaxWait, WarmMinAge
  <2>6. Waiting => now <= WarmMaxWait \/ now = call.at  BY DEF Warm
  <2>7. ~Waiting'  BY <1>0, <2>1, <2>3 DEF Waiting, None
  <2>8. now > WarmMaxWait => now = call.at  BY <1>0, <2>1, <2>6 DEF WarmMaxWait
  <2> QED  BY <1>0, <2>1, <2>3, <2>4, <2>5, <2>7, <2>8 DEF Warm
<1>8. CASE Tick
  <2>1. /\ UNCHANGED <<life, born, known, passes, call>> /\ ~due /\ due'
        /\ now' = now + 1 /\ ~(Waiting /\ (IsWarm \/ GivesUp))
    BY <1>8 DEF Tick
  <2>2. call \in [at : {None} \cup Nat, warm : BOOLEAN, answered : {None} \cup Nat]
        /\ call.answered <= now /\ call.at <= now
    BY DEF Warm
  <2>3. Waiting => now' <= WarmMaxWait
    BY <1>0, <2>1, <2>2 DEF IsWarm, WarmMaxWait
  <2>4. call.answered # now'  BY <1>0, <2>1, <2>2 DEF None
  <2>5. passes' <= now' + (IF due' THEN 0 ELSE 1)  BY <1>0, <2>1
  <2>6. call.answered <= now' /\ call.at <= now'  BY <1>0, <2>1, <2>2 DEF None
  <2> QED  BY <2>1, <2>2, <2>3, <2>4, <2>5, <2>6 DEF Warm, Waiting
<1>9. CASE UNCHANGED vars  BY <1>9 DEF vars, Warm, Waiting
<1> QED  BY <1>1, <1>2, <1>3, <1>4, <1>5, <1>6, <1>7, <1>8, <1>9 DEF Next

LEMMA WarmSays == Clock /\ Believed /\ Warm => WarmUpIsHonest
<1> SUFFICES ASSUME Clock, Believed, Warm PROVE WarmUpIsHonest  OBVIOUS
<1>1. now \in Nat /\ born \in [Proc -> Int]  BY DEF Clock
<1>2. ASSUME call.answered = now, call.warm, now < WarmMaxWait,
             NEW p \in Proc, life[p] = "up", born[p] <= now - 2
      PROVE  p \in Listed
  <2>1. passes = 2 /\ born[p] <= 0  BY <1>1, <1>2 DEF Warm, WarmMaxWait
  <2>2. known[p].status # "unknown"  BY <1>2, <2>1 DEF Warm
  <2> QED  BY <2>2 DEF Listed
<1>3. /\ Waiting => now <= WarmMaxWait \/ now = call.at
      /\ call.answered > WarmMaxWait => call.answered = call.at
  BY DEF Warm
<1> QED  BY <1>2, <1>3 DEF WarmUpIsHonest

(* A call that finds the observer warm has two passes behind it, the second *)
(* made since any process of two seconds ago was up; and no call waits anew *)
(* for an observer whose passes fail.                                       *)
THEOREM WarmMeansHeard == Spec => []WarmUpIsHonest
<1>1. Init => Clock /\ Believed /\ Warm  BY ClockInit, BelievedInit, WarmInit
<1>2. Clock /\ Believed /\ Warm /\ [Next]_vars => (Clock /\ Believed /\ Warm)'
  BY ClockStep, BelievedStep, WarmStep
<1> QED  BY <1>1, <1>2, WarmSays, PTL DEF Spec

-----------------------------------------------------------------------------
LEMMA ChatterInit == Init => Chatter
BY DEF Init, Chatter, Heard

LEMMA Told ==
  ASSUME NEW x, NEW y
  PROVE  Append(<<>>, x) = <<x>> /\ Append(<<x>>, y) = <<x, y>>
<1> DEFINE S == {x, y}
<1>1. <<>> \in Seq(S) /\ <<x>> \in Seq(S) /\ <<x, y>> \in Seq(S)  OBVIOUS
<1>2. Append(<<>>, x) = <<x>>
  <2>1. /\ Append(<<>>, x) \in Seq(S) /\ Len(Append(<<>>, x)) = 1
        /\ Append(<<>>, x)[1] = x
    BY <1>1, AppendProperties
  <2> QED  BY <1>1, <2>1, SeqEqual
<1>3. Append(<<x>>, y) = <<x, y>>
  <2>1. /\ Append(<<x>>, y) \in Seq(S) /\ Len(Append(<<x>>, y)) = 2
        /\ Append(<<x>>, y)[1] = x /\ Append(<<x>>, y)[2] = y
    BY <1>1, AppendProperties
  <2>2. /\ Len(Append(<<x>>, y)) = Len(<<x, y>>)
        /\ \A i \in 1..2 : Append(<<x>>, y)[i] = <<x, y>>[i]
    BY <2>1
  <2> QED  BY <1>1, <2>1, <2>2, SeqEqual
<1> QED  BY <1>2, <1>3

LEMMA ChatterStep == Clock /\ Chatter /\ [Next]_vars => Chatter'
<1> SUFFICES ASSUME Clock, Chatter, [Next]_vars PROVE Chatter'  OBVIOUS
<1>1. ASSUME NEW p \in Proc, Start(p) PROVE Chatter'
  <2>1. /\ UNCHANGED <<said, unread, names>> /\ life[p] = "unborn"
        /\ life' = [life EXCEPT ![p] = "up"]
    BY <1>1 DEF Start
  <2>2. \A q \in Proc : q # p => life'[q] = life[q]  BY <2>1 DEF Clock
  <2>3. Heard(p, Procs[p].names)  BY DEF Chatter
  <2>4. said[p] = <<>> /\ unread[p] = <<>> /\ names[p] = [now |-> {}, last |-> {}]
    BY <2>1, <2>3 DEF Heard
  <2> QED  BY <2>1, <2>2, <2>4 DEF Chatter, Heard
<1>2. ASSUME NEW p \in Proc, Speak(p) PROVE Chatter'
  <2> DEFINE nodes == Procs[p].names
  <2>1. /\ UNCHANGED <<life, names>> /\ life[p] = "up" /\ LastSaid(p) # nodes
        /\ said' = [said EXCEPT ![p] = Append(@, nodes)]
        /\ unread' = [unread EXCEPT ![p] = Append(@, nodes)]
    BY <1>2 DEF Speak, Announce
  <2>2. Heard(p, nodes)  BY DEF Chatter
  <2>3. said[p] # Spoken(nodes)  BY <2>1 DEF LastSaid, Last, Spoken
  <2>4. said[p] = <<>> /\ unread[p] = <<>> /\ names[p] = [now |-> {}, last |-> {}]
    BY <2>1, <2>2, <2>3 DEF Heard
  <2>5. nodes # {}  BY <2>1, <2>4 DEF LastSaid
  <2>6. said'[p] = Spoken(nodes) /\ unread'[p] = Spoken(nodes)
    BY <2>1, <2>4, Told DEF Spoken, Chatter
  <2>7. Heard(p, nodes)'  BY <2>1, <2>4, <2>5, <2>6 DEF Heard
  <2>8. \A q \in Proc : q # p => said'[q] = said[q] /\ unread'[q] = unread[q]
    BY <2>1 DEF Chatter
  <2>9. ASSUME NEW q \in Proc PROVE Heard(q, Procs[q].names)'
    <3>1. CASE q = p  BY <2>7, <3>1
    <3>2. CASE q # p
      <4>1. /\ said'[q] = said[q] /\ unread'[q] = unread[q]
            /\ names'[q] = names[q] /\ life'[q] = life[q]
        BY <2>1, <2>8, <3>2
      <4>2. Heard(q, Procs[q].names)  BY DEF Chatter
      <4> QED  BY <4>1, <4>2 DEF Heard
    <3> QED  BY <3>1, <3>2
  <2>10. DOMAIN said' = Proc /\ DOMAIN unread' = Proc /\ DOMAIN names' = Proc
    BY <2>1 DEF Chatter
  <2> QED  BY <2>9, <2>10 DEF Chatter
<1>3. ASSUME NEW p \in Proc, Leave(p) PROVE Chatter'
  <2> DEFINE nodes == Procs[p].names
  <2>1. /\ UNCHANGED names /\ life[p] = "up" /\ life' = [life EXCEPT ![p] = "gone"]
        /\ \/ /\ LastSaid(p) # {}
              /\ said' = [said EXCEPT ![p] = Append(@, {})]
              /\ unread' = [unread EXCEPT ![p] = Append(@, {})]
           \/ UNCHANGED <<said, unread>>
    BY <1>3 DEF Leave, Announce
  <2>2. Heard(p, nodes)  BY DEF Chatter
  <2>3. \A q \in Proc : q # p => /\ said'[q] = said[q] /\ unread'[q] = unread[q]
                                 /\ life'[q] = life[q]
    BY <2>1 DEF Chatter, Clock
  <2>4. Heard(p, nodes)'
    <3> USE <2>1 DEF Clock
    <3>1. CASE said[p] = <<>>
      <4>1. UNCHANGED <<said, unread>>  BY <2>1, <3>1 DEF LastSaid
      <4> QED  BY <2>1, <2>2, <3>1, <4>1 DEF Heard, Spoken, Goodbye
    <3>2. CASE said[p] # <<>>
      <4>0. life'[p] = "gone"  OBVIOUS
      <4>1. /\ nodes # {} /\ said[p] = Spoken(nodes)
            /\ \/ unread[p] = Spoken(nodes) /\ names[p] = [now |-> {}, last |-> {}]
               \/ unread[p] = <<>> /\ names[p] = [now |-> nodes, last |-> nodes]
        BY <2>2, <3>2 DEF Heard
      <4>2. CASE UNCHANGED <<said, unread>>
        BY <4>0, <4>1, <4>2 DEF Heard
      <4>3. CASE /\ said' = [said EXCEPT ![p] = Append(@, {})]
                 /\ unread' = [unread EXCEPT ![p] = Append(@, {})]
        <5>1. said'[p] = Append(said[p], {}) /\ unread'[p] = Append(unread[p], {})
          BY <4>3 DEF Chatter
        <5>2. said'[p] = Goodbye(nodes)  BY <4>1, <5>1, Told DEF Spoken, Goodbye
        <5>3. unread[p] = Spoken(nodes) => unread'[p] = Goodbye(nodes)
          BY <5>1, Told DEF Spoken, Goodbye
        <5>4. unread[p] = <<>> => unread'[p] = Spoken({})
          BY <5>1, Told DEF Spoken
        <5> QED  BY <4>0, <4>1, <5>2, <5>3, <5>4 DEF Heard
      <4> QED  BY <4>2, <4>3
    <3> QED  BY <3>1, <3>2
  <2> QED  BY <2>1, <2>3, <2>4 DEF Chatter, Heard

<1>4. CASE Pass
  <2>1. /\ UNCHANGED <<life, said>> /\ names' = [q \in Proc |-> ApplyInfo(q)]
        /\ unread' = [q \in Proc |-> <<>>]
    BY <1>4 DEF Pass
  <2>2. ASSUME NEW q \in Proc PROVE Heard(q, Procs[q].names)'
    <3> DEFINE nodes == Procs[q].names
               none == [now |-> {}, last |-> {}]
    <3>1. Heard(q, nodes)  BY DEF Chatter
    <3>2. unread'[q] = <<>> /\ names'[q] = ApplyInfo(q) /\ said'[q] = said[q]
          /\ life'[q] = life[q]
      BY <2>1
    <3>3. PICK before, lists : before = names[q] /\ lists = unread[q]  OBVIOUS
    <3>4. names'[q] = Folded(before, lists)  BY <3>2, <3>3 DEF ApplyInfo, Folded
    <3>5. lists = <<>> => names'[q] = before
      <4>1. lists = <<>> => Len(lists) = 0  OBVIOUS
      <4> QED  BY <3>4, <4>1, FoldedIs
    <3>6. ASSUME NEW x, lists = Spoken(x) PROVE names'[q] = PutNames(before, x)
      <4>1. Len(lists) = 1 /\ lists[1] = x  BY <3>6 DEF Spoken
      <4> QED  BY <3>4, <4>1, FoldedIs
    <3>7. ASSUME lists = Goodbye(nodes)
          PROVE  names'[q] = PutNames(PutNames(before, nodes), {})
      <4>1. Len(lists) = 2 /\ lists[1] = nodes /\ lists[2] = {}
        BY <3>7 DEF Goodbye
      <4>2. Folded(before, lists) = PutNames(PutNames(before, lists[1]), lists[2])
        BY <4>1, FoldedIs
      <4> QED  BY <3>4, <4>1, <4>2
    <3>8. nodes # {} => PutNames(before, nodes) = [now |-> nodes, last |-> nodes]
      BY DEF PutNames
    <3>9. PutNames([now |-> nodes, last |-> nodes], {}) = [now |-> {}, last |-> nodes]
      BY DEF PutNames
    <3>10. CASE said[q] = <<>> /\ unread[q] = <<>> /\ names[q] = none
      BY <3>2, <3>3, <3>5, <3>10 DEF Heard
    <3>11. CASE /\ nodes # {} /\ life[q] # "unborn" /\ said[q] = Spoken(nodes)
                /\ \/ unread[q] = Spoken(nodes) /\ names[q] = none
                   \/ unread[q] = <<>> /\ names[q] = [now |-> nodes, last |-> nodes]
      <4>1. names'[q] = [now |-> nodes, last |-> nodes]  BY <3>3, <3>5, <3>6, <3>8, <3>11
      <4> QED  BY <3>2, <3>11, <4>1 DEF Heard
    <3>12. CASE /\ nodes # {} /\ life[q] = "gone" /\ said[q] = Goodbye(nodes)
                /\ \/ unread[q] = Goodbye(nodes) /\ names[q] = none
                   \/ unread[q] = Spoken({}) /\ names[q] = [now |-> nodes, last |-> nodes]
                   \/ unread[q] = <<>> /\ names[q] = [now |-> {}, last |-> nodes]
      <4>1. names'[q] = [now |-> {}, last |-> nodes]
        BY <3>3, <3>5, <3>6, <3>7, <3>8, <3>9, <3>12
      <4> QED  BY <3>2, <3>12, <4>1 DEF Heard
    <3> QED  BY <3>1, <3>10, <3>11, <3>12 DEF Heard
  <2>3. DOMAIN said' = Proc /\ DOMAIN unread' = Proc /\ DOMAIN names' = Proc
    BY <2>1 DEF Chatter
  <2> QED  BY <2>2, <2>3 DEF Chatter
<1>5. CASE PassFails \/ Ask \/ Answer \/ Tick
  BY <1>5 DEF PassFails, Ask, Answer, Tick, Chatter, Heard
<1>6. CASE UNCHANGED vars  BY <1>6 DEF vars, Chatter, Heard
<1> QED  BY <1>1, <1>2, <1>3, <1>4, <1>5, <1>6 DEF Next

LEMMA NamesKept == Chatter => NamesSurviveGoodbye
<1> SUFFICES ASSUME Chatter, NEW p \in Listed, unread[p] = <<>>, said[p] # <<>>
             PROVE  NodeNames(p) = IF known[p].status = "left" THEN Procs[p].names
                                   ELSE LastSaid(p)
  BY DEF NamesSurviveGoodbye
<1> DEFINE nodes == Procs[p].names
<1>1. p \in Proc /\ Heard(p, nodes)  BY DEF Listed, Chatter
<1>2. Spoken(nodes) # <<>> /\ Goodbye(nodes) # <<>> /\ Spoken({}) # <<>>
  BY DEF Spoken, Goodbye
<1>3. CASE /\ nodes # {} /\ said[p] = Spoken(nodes)
           /\ names[p] = [now |-> nodes, last |-> nodes]
  <2>1. LastSaid(p) = nodes  BY <1>2, <1>3 DEF LastSaid, Last, Spoken
  <2> QED  BY <1>3, <2>1 DEF NodeNames
<1>4. CASE said[p] = Goodbye(nodes) /\ names[p] = [now |-> {}, last |-> nodes]
  <2>1. LastSaid(p) = {}  BY <1>2, <1>4 DEF LastSaid, Last, Goodbye
  <2> QED  BY <1>4, <2>1 DEF NodeNames
<1> QED  BY <1>1, <1>2, <1>3, <1>4 DEF Heard

(* A participant that left, with a goodbye or without, keeps the names of   *)
(* the nodes it had; one that is up has those it last said it has.          *)
THEOREM NamesOutliveGoodbye == Spec => []NamesSurviveGoodbye
<1>1. Init => Clock /\ Chatter  BY ClockInit, ChatterInit
<1>2. Clock /\ Chatter /\ [Next]_vars => (Clock /\ Chatter)'  BY ClockStep, ChatterStep
<1> QED  BY <1>1, <1>2, NamesKept, PTL DEF Spec

-----------------------------------------------------------------------------
LEMMA RingInit == Init => Ring
<1> SUFFICES ASSUME Init PROVE IsRing(<<>>)  BY DEF Ring
<1>1. \A p \in Own : life[p] = "unborn"  BY DEF Init, Own
<1>2. spawns = <<>>  BY DEF Init
<1>3. <<>> = [i \in 1..0 |-> Spawn(<<>>[i])]  OBVIOUS
<1> QED  BY <1>1, <1>2, <1>3, BoundsAreUseful DEF IsRing

(* What the ring needs of a step that starts no command.                    *)
LEMMA RingKept ==
  ASSUME Ring, UNCHANGED <<born, spawns>>,
         \A p \in Proc : life'[p] = "unborn" <=> life[p] = "unborn"
  PROVE  Ring'
<1>1. PICK w : IsRing(w)  BY DEF Ring
<1>2. \A i \in 1..Len(w) : w[i] \in Own  BY <1>1, ElementOfSeq DEF IsRing
<1>3. IsRing(w)'  BY <1>1, <1>2 DEF IsRing, Spawn, Own
<1> QED  BY <1>3 DEF Ring

(* A command that starts goes last in a ring whose oldest it may push out.  *)
LEMMA RingPushed ==
  ASSUME Clock, Ring, NEW p \in Own, Start(p)
  PROVE  Ring'
<1>1. PICK w : IsRing(w)  BY DEF Ring
<1> DEFINE N == MaxSpawns
           Rec == [pid : Nat, at : Int]
           e == [pid |-> Procs[p].pid, at |-> now]
<1>0. PICK v, d : v = Push(w, p, N) /\ d = Dropped(w, N)  OBVIOUS
<1>2. /\ life[p] = "unborn" /\ now \in Nat
      /\ life' = [life EXCEPT ![p] = "up"] /\ born' = [born EXCEPT ![p] = now]
      /\ spawns' = Push(spawns, e, N)
  BY DEF Start, Clock, RecordSpawn
<1>3. /\ p \in Proc /\ life'[p] = "up" /\ born'[p] = now /\ Procs[p].pid \in Nat
      /\ \A q \in Proc : q # p => life'[q] = life[q] /\ born'[q] = born[q]
      /\ \A q \in Proc : born[q] \in Int /\ (life[q] # "unborn" => born[q] <= now)
      /\ N \in Nat \ {0}
  BY <1>2, BoundsAreUseful, ProcsAssumption DEF Clock, Own
<1>4. /\ w \in Seq(Own) /\ Len(w) \in Nat /\ Len(w) <= N
      /\ \A i \in 1..Len(w) : w[i] \in Own /\ w[i] \in Proc /\ w[i] # p
  BY <1>1, <1>2, LenProperties, ElementOfSeq DEF IsRing, Own
<1>5. /\ spawns \in Seq(Rec) /\ Len(spawns) = Len(w)
      /\ \A i \in 1..Len(w) : spawns[i] = Spawn(w[i])
  <2>1. spawns = [i \in 1..Len(w) |-> Spawn(w[i])]  BY <1>1 DEF IsRing
  <2>2. \A i \in 1..Len(w) : Spawn(w[i]) \in Rec  BY <1>3, <1>4, ProcsAssumption DEF Spawn
  <2> QED  BY <1>4, <2>1, <2>2
<1>6. e \in Rec  BY <1>2, <1>3
<1>7. /\ v \in Seq(Own) /\ Len(v) = Len(w) + 1 - d /\ Len(v) <= N
      /\ v[Len(w) + 1 - d] = p /\ \A i \in 1..(Len(w) - d) : v[i] = w[i + d]
  BY <1>0, <1>3, <1>4, PushElements
<1>8. /\ spawns' \in Seq(Rec) /\ Len(spawns') = Len(w) + 1 - d
      /\ spawns'[Len(w) + 1 - d] = e
      /\ \A i \in 1..(Len(w) - d) : spawns'[i] = spawns[i + d]
  <2>1. d = Dropped(spawns, N)  BY <1>0, <1>5 DEF Dropped
  <2> HIDE DEF Rec, e
  <2> QED  BY <1>2, <1>3, <1>4, <1>5, <1>6, <2>1, PushElements
<1>9. d \in {0, 1} /\ (d = 1 => Len(w) = N) /\ (d = 0 => Len(w) < N)
  BY <1>0, <1>3, <1>4 DEF Dropped
<1>10. \A i \in 1..Len(w) : Spawn(w[i])' = Spawn(w[i])
  BY <1>3, <1>4 DEF Spawn
<1>11. Spawn(p)' = e  BY <1>3 DEF Spawn
<1> HIDE DEF e, Rec
<1>12. \A i \in 1..(Len(w) - d) : i + d \in 1..Len(w)  BY <1>4, <1>9
<1>13. \A i \in 1..Len(v) : i \in 1..(Len(w) - d) \/ i = Len(w) + 1 - d
  BY <1>4, <1>7, <1>9

<1>14. ASSUME NEW i \in 1..Len(v) PROVE spawns'[i] = Spawn(v[i])'
  <2>1. CASE i = Len(w) + 1 - d  BY <1>7, <1>8, <1>11, <2>1
  <2>2. CASE i \in 1..(Len(w) - d)
    BY <1>5, <1>7, <1>8, <1>10, <1>12, <2>2
  <2> QED  BY <1>13, <2>1, <2>2
<1>15. spawns' = [i \in 1..Len(v) |-> Spawn(v[i])']
  <2>1. spawns' = [i \in 1..Len(v) |-> spawns'[i]]  BY <1>7, <1>8, LenProperties
  <2> QED  BY <1>14, <2>1
<1>16. \A i \in 1..Len(v) : life'[v[i]] # "unborn"
  <2>1. \A i \in 1..Len(w) : life[w[i]] # "unborn"  BY <1>1 DEF IsRing
  <2> QED  BY <1>3, <1>4, <1>7, <1>12, <1>13, <2>1
<1>17. \A i \in 1..Len(w) : born'[w[i]] = born[w[i]] /\ born[w[i]] <= now
  <2>1. \A i \in 1..Len(w) : life[w[i]] # "unborn"  BY <1>1 DEF IsRing
  <2> QED  BY <1>3, <1>4, <2>1
<1>18. ASSUME NEW i \in 1..Len(v), NEW j \in 1..Len(v), i < j
       PROVE  v[i] # v[j] /\ born'[v[i]] <= born'[v[j]]
  <2>1. i \in 1..(Len(w) - d)  BY <1>4, <1>7, <1>9, <1>13, <1>18
  <2>2. v[i] = w[i + d] /\ i + d \in 1..Len(w)  BY <1>7, <1>12, <2>1
  <2>3. CASE j = Len(w) + 1 - d
    BY <1>3, <1>4, <1>7, <1>17, <2>2, <2>3
  <2>4. CASE j \in 1..(Len(w) - d)
    <3>1. v[j] = w[j + d] /\ j + d \in 1..Len(w) /\ i + d < j + d
      BY <1>7, <1>9, <1>12, <1>18, <2>4
    <3>2. w[i + d] # w[j + d] /\ born[w[i + d]] <= born[w[j + d]]
      BY <1>1, <2>2, <3>1 DEF IsRing
    <3> QED  BY <1>17, <2>2, <3>1, <3>2
  <2> QED  BY <1>13, <2>3, <2>4
<1>19. ASSUME NEW q \in Own, life'[q] # "unborn"
       PROVE  \/ \E i \in 1..Len(v) : v[i] = q
              \/ Len(v) = N /\ \A i \in 1..Len(v) : born'[q] <= born'[v[i]]
  <2>1. CASE q = p
    <3>1. Len(w) + 1 - d \in 1..Len(v)  BY <1>3, <1>4, <1>7, <1>9
    <3> QED  BY <1>7, <2>1, <3>1
  <2>2. CASE q # p
    <3>1. q \in Proc /\ born'[q] = born[q] /\ life[q] # "unborn" /\ born[q] <= now
      BY <1>3, <1>19, <2>2 DEF Own
    <3>2. \/ \E i \in 1..Len(w) : w[i] = q
          \/ Len(w) = N /\ \A i \in 1..Len(w) : born[q] <= born[w[i]]
      BY <1>1, <3>1 DEF IsRing
    <3>3. ASSUME d = 1, \A i \in 2..Len(w) : born[q] <= born[w[i]]
          PROVE  Len(v) = N /\ \A i \in 1..Len(v) : born'[q] <= born'[v[i]]
      <4>1. Len(v) = N  BY <1>4, <1>7, <1>9, <3>3
      <4>2. ASSUME NEW i \in 1..Len(v) PROVE born'[q] <= born'[v[i]]
        <5>1. CASE i = Len(w) + 1 - d  BY <1>3, <1>7, <3>1, <5>1
        <5>2. CASE i \in 1..(Len(w) - d)
          <6>1. v[i] = w[i + 1] /\ i + 1 \in 2..Len(w)  BY <1>4, <1>7, <3>3, <5>2
          <6>2. i + 1 \in 1..Len(w)  BY <1>4, <6>1
          <6> QED  BY <1>17, <3>1, <3>3, <6>1, <6>2
        <5> QED  BY <1>13, <5>1, <5>2
      <4> QED  BY <4>1, <4>2
    <3>4. CASE Len(w) = N /\ \A i \in 1..Len(w) : born[q] <= born[w[i]]
      BY <1>9, <3>3, <3>4
    <3>5. ASSUME NEW k \in 1..Len(w), w[k] = q
          PROVE  \/ \E i \in 1..Len(v) : v[i] = q
                 \/ Len(v) = N /\ \A i \in 1..Len(v) : born'[q] <= born'[v[i]]
      <4>1. CASE k > d
        <5>1. k - d \in 1..(Len(w) - d) /\ (k - d) + d = k  BY <1>4, <1>9, <4>1
        <5>2. v[k - d] = q /\ k - d \in 1..Len(v)  BY <1>4, <1>7, <1>9, <3>5, <5>1
        <5> QED  BY <5>2
      <4>2. CASE ~(k > d)
        <5>1. d = 1 /\ k = 1  BY <1>4, <1>9, <4>2
        <5>2. \A i \in 2..Len(w) : born[w[k]] <= born[w[i]]
          BY <1>1, <1>4, <5>1 DEF IsRing
        <5> QED  BY <3>3, <3>5, <5>1, <5>2
      <4> QED  BY <4>1, <4>2
    <3> QED  BY <3>2, <3>4, <3>5
  <2> QED  BY <2>1, <2>2
<1>20. IsRing(v)'  BY <1>7, <1>15, <1>16, <1>18, <1>19 DEF IsRing
<1> QED  BY <1>20 DEF Ring

LEMMA RingStep == Clock /\ Ring /\ [Next]_vars => Ring'
<1> SUFFICES ASSUME Clock, Ring, [Next]_vars PROVE Ring'  OBVIOUS
<1>1. ASSUME NEW p \in Proc, Start(p) PROVE Ring'
  <2>1. CASE p \in Own  BY <1>1, <2>1, RingPushed
  <2>2. CASE p \notin Own
    <3>1. PICK w : IsRing(w)  BY DEF Ring
    <3>2. /\ life[p] = "unborn" /\ spawns' = spawns
          /\ life' = [life EXCEPT ![p] = "up"] /\ born' = [born EXCEPT ![p] = now]
      BY <1>1, <2>2 DEF Start
    <3>3. \A q \in Proc : q # p => life'[q] = life[q] /\ born'[q] = born[q]
      BY <3>2 DEF Clock
    <3>4. \A q \in Own : q \in Proc /\ q # p  BY <2>2 DEF Own
    <3>5. \A i \in 1..Len(w) : w[i] \in Own  BY <3>1, ElementOfSeq DEF IsRing
    <3>6. \A q \in Own : life'[q] = life[q] /\ born'[q] = born[q]  BY <3>3, <3>4
    <3>7. IsRing(w)'  BY <3>1, <3>2, <3>5, <3>6 DEF IsRing, Spawn
    <3> QED  BY <3>7 DEF Ring
  <2> QED  BY <2>1, <2>2
<1>2. ASSUME NEW p \in Proc, Speak(p) PROVE Ring'
  BY <1>2, RingKept DEF Speak
<1>3. ASSUME NEW p \in Proc, Leave(p) PROVE Ring'
  <2>1. /\ UNCHANGED <<born, spawns>> /\ life[p] = "up"
        /\ life' = [life EXCEPT ![p] = "gone"]
    BY <1>3 DEF Leave
  <2>2. \A q \in Proc : life'[q] = "unborn" <=> life[q] = "unborn"  BY <2>1 DEF Clock
  <2> QED  BY <2>1, <2>2, RingKept
<1>4. CASE Pass \/ PassFails \/ Ask \/ Answer \/ Tick
  <2>1. UNCHANGED <<born, spawns, life>>  BY <1>4 DEF Pass, PassFails, Ask, Answer, Tick
  <2> QED  BY <2>1, RingKept
<1>5. CASE UNCHANGED vars  BY <1>5, RingKept DEF vars
<1> QED  BY <1>1, <1>2, <1>3, <1>4, <1>5 DEF Next

-----------------------------------------------------------------------------
(* The recent pids are pids of TopicForge's commands.                       *)
LEMMA RecentAreOwn ==
  ASSUME Ring, NEW pid \in RecentPids
  PROVE  \E o \in Own : pid = Procs[o].pid
<1>1. PICK w : IsRing(w)  BY DEF Ring
<1>2. spawns = [i \in 1..Len(w) |-> Spawn(w[i])]  BY <1>1 DEF IsRing
<1>3. PICK i \in 1..Len(w) : pid = spawns[i].pid  BY <1>2 DEF RecentPids, Recent
<1>4. w[i] \in Own /\ spawns[i] = Spawn(w[i])  BY <1>1, <1>2, ElementOfSeq DEF IsRing
<1> QED  BY <1>3, <1>4 DEF Spawn

LEMMA OwnAreFlagged == Chatter /\ Ring => RobotsAreNotGhosts
<1> SUFFICES ASSUME Chatter, Ring, PidsDiffer, NEW p \in Flagged, p \notin Own
             PROVE  FALSE
  BY DEF RobotsAreNotGhosts
<1>1. p \in Proc \ Own /\ MatchesPid(p)  BY DEF Flagged, Listed
<1>2. Procs[p].pid \in Nat /\ None \notin RecentPids
  BY <1>1, RecentAreOwn, ProcsAssumption DEF None, Own
<1>3. NodeNames(p) \subseteq Procs[p].names
  BY <1>1 DEF Chatter, Heard, NodeNames
<1>4. CASE SameHost(p) # "elsewhere" /\ \E n \in NodeNames(p) : CliPidOfNode(n) \in RecentPids
  <2>1. PICK n \in Procs[p].names : CliPidOfNode(n) \in RecentPids  BY <1>3, <1>4
  <2>2. n.cli /\ CliPidOfNode(n) = n.pid  BY <1>2, <2>1 DEF CliPidOfNode
  <2>3. PICK o \in Own : n.pid = Procs[o].pid  BY <2>1, <2>2, RecentAreOwn
  <2> QED  BY <1>1, <1>4, <2>2, <2>3 DEF PidsDiffer
<1>5. CASE SameHost(p) = "here" /\ DeclaredPid(p) \in RecentPids
  <2>1. Procs[p].vendor = "cyclone" /\ DeclaredPid(p) = Procs[p].pid
    BY <1>2, <1>5 DEF DeclaredPid
  <2>2. PICK o \in Own : Procs[p].pid = Procs[o].pid  BY <1>5, <2>1, RecentAreOwn
  <2> QED  BY <1>1, <1>5, <2>1, <2>2 DEF PidsDiffer
<1>6. CASE /\ SameHost(p) = "here" /\ Procs[p].vendor = "fast"
           /\ \E pid \in RecentPids : LowBits(pid) = LowBits(Procs[p].pid)
  <2>1. PICK pid \in RecentPids : LowBits(pid) = LowBits(Procs[p].pid)  BY <1>6
  <2>2. PICK o \in Own : pid = Procs[o].pid  BY RecentAreOwn
  <2> QED  BY <1>1, <1>6, <2>1, <2>2 DEF PidsDiffer
<1> QED  BY <1>1, <1>4, <1>5, <1>6 DEF MatchesPid

(* While no pid is shared in a way the adapter cannot see, what it flags as *)
(* its own command is one: never a process of the robot.                    *)
THEOREM NoRobotIsFlagged == Spec => []RobotsAreNotGhosts
<1>1. Init => Clock /\ Chatter /\ Ring  BY ClockInit, ChatterInit, RingInit
<1>2. Clock /\ Chatter /\ Ring /\ [Next]_vars => (Clock /\ Chatter /\ Ring)'
  BY ClockStep, ChatterStep, RingStep
<1> QED  BY <1>1, <1>2, OwnAreFlagged, PTL DEF Spec

(* While there are no more young commands than places, each is in the ring: *)
(* one pushed out is no younger than the MaxSpawns that are in it.          *)
LEMMA YoungInRing ==
  ASSUME Clock, NEW w, IsRing(w), Cardinality({p \in Own : Young(p)}) <= MaxSpawns,
         NEW p \in Own, Young(p)
  PROVE  \E i \in 1..Len(w) : w[i] = p
<1> DEFINE Y == {q \in Own : Young(q)}
           N == MaxSpawns
           f == [i \in 1..(N + 1) |-> IF i <= N THEN w[i] ELSE p]
<1> SUFFICES ASSUME \A i \in 1..Len(w) : w[i] # p PROVE FALSE  OBVIOUS
<1>1. /\ N \in Nat \ {0} /\ now \in Nat /\ GhostWindow \in Nat
      /\ \A q \in Proc : born[q] \in Int /\ (life[q] # "unborn" => born[q] # None)
      /\ \A q \in Proc : life[q] = "unborn" => born[q] = None
  BY BoundsAreUseful DEF Clock, None
<1>2. life[p] # "unborn" /\ p \in Y  BY <1>1 DEF Young, Own
<1>3. Len(w) = N /\ \A i \in 1..N : born[p] <= born[w[i]]  BY <1>2 DEF IsRing
<1>4. \A i \in 1..N : w[i] \in Own /\ w[i] \in Proc /\ life[w[i]] # "unborn"
  BY <1>3, ElementOfSeq DEF IsRing, Own
<1>5. born[p] \in Int /\ born[p] >= now - GhostWindow  BY <1>1 DEF Young, Own
<1>6. ASSUME NEW i \in 1..N PROVE w[i] \in Y
  <2>1. w[i] \in Own /\ born[w[i]] \in Int /\ born[w[i]] # None  BY <1>1, <1>4
  <2>2. born[p] <= born[w[i]]  BY <1>3
  <2>3. born[w[i]] >= now - GhostWindow  BY <1>1, <1>5, <2>1, <2>2
  <2> QED  BY <2>1, <2>3 DEF Young
<1>7. \A i, j \in 1..N : w[i] = w[j] => i = j
  <2> SUFFICES ASSUME NEW i \in 1..N, NEW j \in 1..N, w[i] = w[j], i # j PROVE FALSE
    OBVIOUS
  <2>1. i < j \/ j < i  BY <1>1
  <2> QED  BY <1>3, <2>1 DEF IsRing
<1> HIDE DEF Y, N
<1>8. f \in Injection(1..(N + 1), Y)
  <2>1. \A i \in 1..(N + 1) : f[i] \in Y  BY <1>1, <1>2, <1>6
  <2>2. \A i, j \in 1..(N + 1) : f[i] = f[j] => i = j
    <3> SUFFICES ASSUME NEW i \in 1..(N + 1), NEW j \in 1..(N + 1), f[i] = f[j]
                 PROVE  i = j
      OBVIOUS
    <3>1. CASE i <= N /\ j <= N  BY <1>1, <1>7, <3>1
    <3>2. CASE i <= N /\ ~(j <= N)  BY <1>1, <1>3, <3>2
    <3>3. CASE ~(i <= N) /\ j <= N  BY <1>1, <1>3, <3>3
    <3>4. CASE ~(i <= N) /\ ~(j <= N)  BY <1>1, <3>4
    <3> QED  BY <3>1, <3>2, <3>3, <3>4
  <2> HIDE DEF f
  <2>3. f \in [1..(N + 1) -> Y]  BY <2>1 DEF f
  <2> QED  BY <2>2, <2>3 DEF Injection, IsInjective
<1> HIDE DEF f
<1>9. IsFiniteSet(Y)  BY ProcsAssumption, FS_Subset DEF Y, Own
<1>10. Cardinality(1..(N + 1)) <= Cardinality(Y)  BY <1>8, <1>9, FS_Injection
<1>11. Cardinality(1..(N + 1)) = N + 1  BY <1>1, UpTo
<1>12. Cardinality(Y) \in Nat /\ Cardinality(Y) <= N  BY <1>9, FS_CardinalityType DEF Y, N
<1> QED  BY <1>1, <1>10, <1>11, <1>12

LEMMA GhostsTold == Clock /\ Believed /\ Ring => GhostsAreTold
<1> SUFFICES ASSUME Clock, Believed, Ring, Cardinality({q \in Own : Young(q)}) <= MaxSpawns,
                    NEW p \in Listed, Young(p), known[p].status = "active",
                    known[p].first <= born[p] + Correlation, p \notin Flagged
             PROVE  p \in Probable
  BY DEF GhostsAreTold
<1>1. PICK w : IsRing(w)  BY DEF Ring
<1>2. p \in Own /\ p \in Proc  BY DEF Young, Own
<1>3. PICK i \in 1..Len(w) : w[i] = p  BY <1>1, <1>2, YoungInRing
<1>4. i \in DOMAIN spawns /\ spawns[i] = Spawn(p)  BY <1>1, <1>3 DEF IsRing
<1>5. spawns[i].at = born[p] /\ born[p] >= now - GhostWindow  BY <1>4 DEF Spawn, Young
<1>6. spawns[i] \in Recent  BY <1>4, <1>5 DEF Recent
<1>7. born[p] \in Int /\ known[p].first \in Int /\ known[p].first >= born[p]
  BY <1>2 DEF Clock, Believed, Listed
<1>8. known[p].first - spawns[i].at \in 0..Correlation
  BY <1>5, <1>7, BoundsAreUseful
<1> QED  BY <1>6, <1>8 DEF Probable

(* While a window holds no more commands than the ring, one in it that was  *)
(* seen in time is flagged, or counted as a probable ghost.                 *)
THEOREM CommandsAreTold == Spec => []GhostsAreTold
<1>1. Init => Clock /\ Believed /\ Ring  BY ClockInit, BelievedInit, RingInit
<1>2. Clock /\ Believed /\ Ring /\ [Next]_vars => (Clock /\ Believed /\ Ring)'
  BY ClockStep, BelievedStep, RingStep
<1> QED  BY <1>1, <1>2, GhostsTold, PTL DEF Spec

=============================================================================
