-------------------------- MODULE SlotLinesProofs --------------------------
(***************************************************************************)
(* What the operations of SlotLines do to the sets of work in line, for    *)
(* lines of any length.                                                    *)
(***************************************************************************)
EXTENDS SlotLines, SequenceTheorems, FiniteSetTheorems, TLAPS

----------------------------------------------------------------------------
(* Lines as sequences without repetition.                                  *)

(* A waiter that joins a line joins at its end.                            *)
LEMMA AppendFacts ==
    ASSUME NEW S, NEW s \in Seq(S), NEW x \in S
    PROVE  /\ Append(s, x) \in Seq(S)
           /\ ToSet(Append(s, x)) = ToSet(s) \cup {x}
           /\ IsInjective(s) /\ x \notin ToSet(s) => IsInjective(Append(s, x))
<1> DEFINE t == Append(s, x)
<1>1. /\ t \in Seq(S)
      /\ DOMAIN t = 1..(Len(s) + 1)
      /\ DOMAIN s = 1..Len(s)
      /\ Len(s) \in Nat
      /\ \A i \in 1..Len(s) : t[i] = s[i]
      /\ t[Len(s) + 1] = x
  OBVIOUS
<1>2. ToSet(t) = ToSet(s) \cup {x}
  BY <1>1 DEF ToSet
<1>3. IsInjective(s) /\ x \notin ToSet(s) => IsInjective(t)
  BY <1>1 DEF ToSet, IsInjective
<1> QED BY <1>1, <1>2, <1>3

(* A waiter that is popped is the one at the front.                        *)
LEMMA TailFacts ==
    ASSUME NEW S, NEW s \in Seq(S), s # <<>>, IsInjective(s)
    PROVE  /\ Head(s) \in S
           /\ Tail(s) \in Seq(S)
           /\ Head(s) \in ToSet(s)
           /\ ToSet(Tail(s)) = ToSet(s) \ {Head(s)}
           /\ IsInjective(Tail(s))
<1>1. /\ Len(s) \in Nat /\ Len(s) > 0
      /\ DOMAIN s = 1..Len(s)
      /\ Head(s) = s[1] /\ Head(s) \in S
      /\ Tail(s) \in Seq(S)
      /\ DOMAIN Tail(s) = 1..(Len(s) - 1)
      /\ \A i \in 1..(Len(s) - 1) : Tail(s)[i] = s[i + 1]
  OBVIOUS
<1>2. Head(s) \in ToSet(s)
  BY <1>1 DEF ToSet
<1>3. ToSet(Tail(s)) \subseteq ToSet(s) \ {Head(s)}
  BY <1>1 DEF ToSet, IsInjective
<1>4. ASSUME NEW v \in ToSet(s) \ {Head(s)} PROVE v \in ToSet(Tail(s))
  <2>1. PICK i \in 1..Len(s) : s[i] = v /\ i # 1
    BY <1>1 DEF ToSet
  <2>2. i - 1 \in 1..(Len(s) - 1) /\ Tail(s)[i - 1] = v
    BY <1>1, <2>1
  <2> QED BY <1>1, <2>2 DEF ToSet
<1>5. IsInjective(Tail(s))
  BY <1>1 DEF IsInjective
<1> QED BY <1>1, <1>2, <1>3, <1>4, <1>5

(* A waiter taken out of the middle of a line leaves the others in line.   *)
LEMMA WithoutWaiterFacts ==
    ASSUME NEW S, NEW s \in Seq(S), IsInjective(s), NEW w \in ToSet(s)
    PROVE  /\ WithoutWaiter(s, w) \in Seq(S)
           /\ ToSet(WithoutWaiter(s, w)) = ToSet(s) \ {w}
           /\ IsInjective(WithoutWaiter(s, w))
<1> DEFINE k == CHOOSE i \in DOMAIN s : s[i] = w
           before == SubSeq(s, 1, k - 1)
           after == SubSeq(s, k + 1, Len(s))
           t == before \o after
<1>1. Len(s) \in Nat /\ DOMAIN s = 1..Len(s) /\ \A i \in 1..Len(s) : s[i] \in S
  OBVIOUS
<1>2. k \in 1..Len(s) /\ s[k] = w
  BY <1>1 DEF ToSet
<1>3. WithoutWaiter(s, w) = t
  BY DEF WithoutWaiter, RemoveAt
<1> HIDE DEF k
<1>4. /\ before \in Seq(S)
      /\ Len(before) = k - 1
      /\ \A i \in 1..(k - 1) : before[i] = s[i]
  BY <1>1, <1>2
<1>5. /\ after \in Seq(S)
      /\ Len(after) = Len(s) - k
      /\ \A i \in 1..(Len(s) - k) : after[i] = s[k + i]
  <2>1. /\ k + 1 \in Int /\ Len(s) \in Int
        /\ \A i \in (k + 1)..Len(s) : s[i] \in S
    BY <1>1, <1>2
  <2>2. /\ after \in Seq(S)
        /\ Len(after) = IF k + 1 <= Len(s) THEN Len(s) - (k + 1) + 1 ELSE 0
        /\ \A i \in 1..(Len(s) - (k + 1) + 1) : after[i] = s[(k + 1) + i - 1]
    BY <2>1, SubSeqProperties
  <2> HIDE DEF after
  <2>3. Len(s) - (k + 1) + 1 = Len(s) - k /\ \A i \in Nat : k + 1 + i - 1 = k + i
    BY <1>1, <1>2
  <2>4. ASSUME NEW i \in 1..(Len(s) - k) PROVE after[i] = s[k + i]
    BY <2>2, <2>3
  <2>5. Len(after) = Len(s) - k
    BY <1>1, <1>2, <2>2
  <2> QED BY <2>2, <2>4, <2>5
<1> HIDE DEF before, after
<1>6. /\ t \in Seq(S)
      /\ Len(t) = Len(s) - 1
      /\ DOMAIN t = 1..(Len(s) - 1)
      /\ \A i \in 1..(Len(s) - 1) : t[i] = IF i < k THEN s[i] ELSE s[i + 1]
  <2>1. /\ t \in Seq(S)
        /\ Len(t) = Len(before) + Len(after)
        /\ \A i \in 1..(Len(before) + Len(after)) :
              t[i] = IF i <= Len(before) THEN before[i] ELSE after[i - Len(before)]
    BY <1>4, <1>5, ConcatProperties, Zenon
  <2> HIDE DEF t
  <2>2. Len(t) = Len(s) - 1 /\ DOMAIN t = 1..(Len(s) - 1)
    BY <1>1, <1>2, <1>4, <1>5, <2>1
  <2>3. ASSUME NEW i \in 1..(Len(s) - 1)
        PROVE  t[i] = IF i < k THEN s[i] ELSE s[i + 1]
    <3>1. t[i] = IF i <= Len(before) THEN before[i] ELSE after[i - Len(before)]
      BY <1>1, <1>2, <1>4, <1>5, <2>1
    <3>2. CASE i < k
      BY <1>1, <1>2, <1>4, <3>1, <3>2
    <3>3. CASE i >= k
      <4>1. i - (k - 1) \in 1..(Len(s) - k) /\ k + (i - (k - 1)) = i + 1
        BY <1>1, <1>2, <3>3
      <4>2. after[i - (k - 1)] = s[i + 1]
        BY <1>5, <4>1
      <4> QED BY <1>1, <1>2, <1>4, <3>1, <3>3, <4>2
    <3> QED BY <1>1, <1>2, <3>2, <3>3
  <2> QED BY <2>1, <2>2, <2>3
<1> HIDE DEF t
<1>7. ASSUME NEW v \in ToSet(t) PROVE v \in ToSet(s) \ {w}
  <2>1. PICK i \in 1..(Len(s) - 1) : t[i] = v
    BY <1>6 DEF ToSet
  <2>2. PICK j \in 1..Len(s) : s[j] = v /\ j # k
    <3>1. CASE i < k
      BY <1>1, <1>2, <1>6, <2>1, <3>1
    <3>2. CASE i >= k
      <4>1. i + 1 \in 1..Len(s) /\ i + 1 # k /\ s[i + 1] = v
        BY <1>1, <1>2, <1>6, <2>1, <3>2
      <4> QED BY <4>1
    <3> QED BY <1>1, <1>2, <3>1, <3>2
  <2> QED BY <1>1, <1>2, <2>2 DEF ToSet, IsInjective
<1>8. ASSUME NEW v \in ToSet(s) \ {w} PROVE v \in ToSet(t)
  <2>1. PICK i \in 1..Len(s) : s[i] = v /\ i # k
    BY <1>1, <1>2 DEF ToSet
  <2>2. CASE i < k
    BY <1>1, <1>2, <1>6, <2>1, <2>2 DEF ToSet
  <2>3. CASE i > k
    <3>1. i - 1 \in 1..(Len(s) - 1) /\ t[i - 1] = v
      BY <1>1, <1>2, <1>6, <2>1, <2>3
    <3> QED BY <1>6, <3>1 DEF ToSet
  <2> QED BY <1>1, <1>2, <2>1, <2>2, <2>3
<1>9. IsInjective(t)
  <2>1. SUFFICES ASSUME NEW i \in 1..(Len(s) - 1), NEW j \in 1..(Len(s) - 1),
                        t[i] = t[j]
                 PROVE  i = j
    BY <1>6 DEF IsInjective
  <2> DEFINE from(n) == IF n < k THEN n ELSE n + 1
  <2>2. from(i) \in DOMAIN s /\ from(j) \in DOMAIN s
    BY <1>1, <1>2
  <2>3. t[i] = s[from(i)] /\ t[j] = s[from(j)]
    BY <1>6
  <2>4. from(i) = from(j)
    BY <2>1, <2>2, <2>3 DEF IsInjective
  <2> QED BY <1>1, <1>2, <2>4
<1> QED BY <1>3, <1>6, <1>7, <1>8, <1>9

----------------------------------------------------------------------------
(* The lines of a queue.                                                   *)

Reacquirers(q) == ToSet(q.reacquiring)
NewWork(q) == ToSet(q.promoted) \cup ToSet(q.waiting)

(* Nobody is in two lines or twice in one, and the tickets of those in     *)
(* line agree with where they are.                                         *)
Sound(q, S) ==
    /\ q \in LinesOver(S)
    /\ IsInjective(q.reacquiring)
    /\ IsInjective(q.promoted)
    /\ IsInjective(q.waiting)
    /\ ToSet(q.promoted) \cap ToSet(q.waiting) = {}
    /\ Reacquirers(q) \cap NewWork(q) = {}
    /\ q.given \cap (Reacquirers(q) \cup NewWork(q)) = {}
    /\ q.inLine = Ticketed \cap NewWork(q)
    /\ ToSet(q.promoted) = q.inLine \cap q.hurry

(* The slot freed goes to nobody if nobody is in line, or to one waiter,   *)
(* who leaves the lines for it.                                            *)
LEMMA ReleaseFacts ==
    ASSUME NEW S, NEW q, Sound(q, S)
    PROVE  /\ Sound(release(q), S)
           /\ \/ /\ Reacquirers(q) = {} /\ NewWork(q) = {}
                 /\ q.reacquiring = <<>> /\ q.promoted = <<>> /\ q.waiting = <<>>
                 /\ release(q) = [q EXCEPT !.free = @ + 1]
              \/ \E h \in Reacquirers(q) \cup NewWork(q) :
                    /\ release(q).free = q.free
                    /\ release(q).given = q.given \cup {h}
                    /\ Reacquirers(release(q)) = Reacquirers(q) \ {h}
                    /\ NewWork(release(q)) = NewWork(q) \ {h}
<1> DEFINE r == release(q)
<1>0. /\ q \in LinesOver(S)
      /\ q.reacquiring \in Seq(S) /\ q.promoted \in Seq(S) /\ q.waiting \in Seq(S)
  BY DEF Sound, LinesOver
<1>1. CASE q.reacquiring # <<>>
  <2> DEFINE h == Head(q.reacquiring)
  <2>1. r = [q EXCEPT !.reacquiring = Tail(@), !.given = @ \cup {h}]
    BY <1>1 DEF release
  <2>2. /\ h \in S
        /\ Tail(q.reacquiring) \in Seq(S)
        /\ h \in ToSet(q.reacquiring)
        /\ ToSet(Tail(q.reacquiring)) = ToSet(q.reacquiring) \ {h}
        /\ IsInjective(Tail(q.reacquiring))
    BY <1>0, <1>1, TailFacts DEF Sound
  <2> HIDE DEF h, r
  <2>3. /\ r \in LinesOver(S)
        /\ r.free = q.free /\ r.promoted = q.promoted /\ r.waiting = q.waiting
        /\ r.reacquiring = Tail(q.reacquiring) /\ r.given = q.given \cup {h}
        /\ r.hurry = q.hurry /\ r.inLine = q.inLine
    BY <1>0, <2>1, <2>2 DEF LinesOver
  <2>4. Reacquirers(r) = Reacquirers(q) \ {h} /\ NewWork(r) = NewWork(q) \ {h}
    BY <2>2, <2>3 DEF Reacquirers, NewWork, Sound
  <2>5. Sound(r, S)
    BY <2>2, <2>3, <2>4 DEF Sound, Reacquirers, NewWork
  <2> QED BY <2>2, <2>3, <2>4, <2>5 DEF Reacquirers, r
<1>2. CASE q.reacquiring = <<>> /\ q.promoted # <<>>
  <2> DEFINE h == Head(q.promoted)
  <2>1. r = left_line([q EXCEPT !.promoted = Tail(@), !.given = @ \cup {h}], h)
    BY <1>2 DEF release
  <2>2. /\ h \in S
        /\ Tail(q.promoted) \in Seq(S)
        /\ h \in ToSet(q.promoted)
        /\ ToSet(Tail(q.promoted)) = ToSet(q.promoted) \ {h}
        /\ IsInjective(Tail(q.promoted))
    BY <1>0, <1>2, TailFacts DEF Sound
  <2> HIDE DEF h, r
  <2>3. /\ r \in LinesOver(S)
        /\ r.free = q.free /\ r.reacquiring = q.reacquiring /\ r.waiting = q.waiting
        /\ r.promoted = Tail(q.promoted) /\ r.given = q.given \cup {h}
        /\ r.hurry = q.hurry /\ r.inLine = q.inLine \ ({h} \cap Ticketed)
    BY <1>0, <2>1, <2>2 DEF LinesOver, left_line
  <2>4. Reacquirers(r) = Reacquirers(q) \ {h} /\ NewWork(r) = NewWork(q) \ {h}
    BY <2>2, <2>3 DEF Reacquirers, NewWork, Sound
  <2>5. Sound(r, S)
    BY <2>2, <2>3, <2>4 DEF Sound, Reacquirers, NewWork
  <2> QED BY <2>2, <2>3, <2>4, <2>5 DEF NewWork, r
<1>3. CASE q.reacquiring = <<>> /\ q.promoted = <<>> /\ q.waiting # <<>>
  <2> DEFINE h == Head(q.waiting)
  <2>1. r = left_line([q EXCEPT !.waiting = Tail(@), !.given = @ \cup {h}], h)
    BY <1>3 DEF release
  <2>2. /\ h \in S
        /\ Tail(q.waiting) \in Seq(S)
        /\ h \in ToSet(q.waiting)
        /\ ToSet(Tail(q.waiting)) = ToSet(q.waiting) \ {h}
        /\ IsInjective(Tail(q.waiting))
    BY <1>0, <1>3, TailFacts DEF Sound
  <2> HIDE DEF h, r
  <2>3. /\ r \in LinesOver(S)
        /\ r.free = q.free /\ r.reacquiring = q.reacquiring /\ r.promoted = q.promoted
        /\ r.waiting = Tail(q.waiting) /\ r.given = q.given \cup {h}
        /\ r.hurry = q.hurry /\ r.inLine = q.inLine \ ({h} \cap Ticketed)
    BY <1>0, <2>1, <2>2 DEF LinesOver, left_line
  <2>4. Reacquirers(r) = Reacquirers(q) \ {h} /\ NewWork(r) = NewWork(q) \ {h}
    <3>1. h \notin ToSet(q.promoted) /\ h \notin ToSet(q.reacquiring)
      BY <2>2 DEF Reacquirers, NewWork, Sound
    <3> QED BY <2>2, <2>3, <3>1 DEF Reacquirers, NewWork
  <2>5. Sound(r, S)
    BY <2>2, <2>3, <2>4 DEF Sound, Reacquirers, NewWork
  <2> QED BY <2>2, <2>3, <2>4, <2>5 DEF NewWork, r
<1>4. CASE q.reacquiring = <<>> /\ q.promoted = <<>> /\ q.waiting = <<>>
  <2>1. r = [q EXCEPT !.free = @ + 1]
    BY <1>4 DEF release
  <2>2. Reacquirers(q) = {} /\ NewWork(q) = {}
    BY <1>4 DEF Reacquirers, NewWork, ToSet
  <2> HIDE DEF r
  <2>3. /\ r \in LinesOver(S)
        /\ r.reacquiring = q.reacquiring /\ r.promoted = q.promoted
        /\ r.waiting = q.waiting /\ r.given = q.given
        /\ r.hurry = q.hurry /\ r.inLine = q.inLine
    <3>1. q.free + 1 \in Nat
      BY <1>0 DEF LinesOver
    <3> QED BY <1>0, <2>1, <3>1 DEF LinesOver
  <2>4. Sound(r, S)
    BY <2>3 DEF Sound, Reacquirers, NewWork
  <2> QED BY <1>4, <2>1, <2>2, <2>4 DEF r
<1> QED BY <1>1, <1>2, <1>3, <1>4

(* Whoever is in no line yet joins the one it belongs to.                  *)
LEMMA EnqueueFacts ==
    ASSUME NEW S, NEW q, Sound(q, S), NEW w \in S, NEW back \in BOOLEAN,
           w \notin Reacquirers(q) \cup NewWork(q) \cup q.given
    PROVE  LET r == enqueue(q, w, back)
           IN  /\ Sound(r, S)
               /\ r.free = q.free /\ r.given = q.given
               /\ Reacquirers(r) = Reacquirers(q) \cup (IF back THEN {w} ELSE {})
               /\ NewWork(r) = NewWork(q) \cup (IF back THEN {} ELSE {w})
<1> DEFINE r == enqueue(q, w, back)
<1>0. /\ q \in LinesOver(S)
      /\ q.reacquiring \in Seq(S) /\ q.promoted \in Seq(S) /\ q.waiting \in Seq(S)
      /\ w \notin ToSet(q.reacquiring) /\ w \notin ToSet(q.promoted)
      /\ w \notin ToSet(q.waiting)
  BY DEF Sound, LinesOver, Reacquirers, NewWork
<1>1. CASE back
  <2>1. r = [q EXCEPT !.reacquiring = Append(@, w)]
    BY <1>1 DEF enqueue
  <2>2. /\ Append(q.reacquiring, w) \in Seq(S)
        /\ ToSet(Append(q.reacquiring, w)) = ToSet(q.reacquiring) \cup {w}
        /\ IsInjective(Append(q.reacquiring, w))
    BY <1>0, AppendFacts DEF Sound
  <2> HIDE DEF r
  <2>3. /\ r \in LinesOver(S)
        /\ r.free = q.free /\ r.promoted = q.promoted /\ r.waiting = q.waiting
        /\ r.reacquiring = Append(q.reacquiring, w) /\ r.given = q.given
        /\ r.hurry = q.hurry /\ r.inLine = q.inLine
    BY <1>0, <2>1, <2>2 DEF LinesOver
  <2>4. Reacquirers(r) = Reacquirers(q) \cup {w} /\ NewWork(r) = NewWork(q)
    BY <2>2, <2>3 DEF Reacquirers, NewWork
  <2>5. Sound(r, S)
    <3>0. ToSet(r.promoted) \cap ToSet(r.waiting) = {}
      BY <1>0, <2>2, <2>3, <2>4 DEF Sound
    <3>1. /\ Reacquirers(r) \cap NewWork(r) = {}
          /\ r.given \cap (Reacquirers(r) \cup NewWork(r)) = {}
      BY <1>0, <2>2, <2>3, <2>4 DEF Sound
    <3>2. r.inLine = Ticketed \cap NewWork(r)
      BY <1>0, <2>2, <2>3, <2>4 DEF Sound
    <3>3. ToSet(r.promoted) = r.inLine \cap r.hurry
      BY <1>0, <2>2, <2>3, <2>4 DEF Sound, NewWork
    <3> QED BY <1>0, <2>2, <2>3, <2>4, <3>0, <3>1, <3>2, <3>3 DEF Sound
  <2> QED BY <1>1, <2>3, <2>4, <2>5 DEF r
<1>2. CASE ~back /\ w \in Ticketed \cap q.hurry
  <2>1. r = [q EXCEPT !.inLine = @ \cup ({w} \cap Ticketed),
                      !.promoted = Append(@, w)]
    BY <1>0, <1>2 DEF enqueue, LinesOver
  <2>2. /\ Append(q.promoted, w) \in Seq(S)
        /\ ToSet(Append(q.promoted, w)) = ToSet(q.promoted) \cup {w}
        /\ IsInjective(Append(q.promoted, w))
    BY <1>0, AppendFacts DEF Sound
  <2> HIDE DEF r
  <2>3. /\ r \in LinesOver(S)
        /\ r.free = q.free /\ r.reacquiring = q.reacquiring /\ r.waiting = q.waiting
        /\ r.promoted = Append(q.promoted, w) /\ r.given = q.given
        /\ r.hurry = q.hurry /\ r.inLine = q.inLine \cup {w}
    BY <1>0, <1>2, <2>1, <2>2 DEF LinesOver
  <2>4. Reacquirers(r) = Reacquirers(q) /\ NewWork(r) = NewWork(q) \cup {w}
    BY <2>2, <2>3 DEF Reacquirers, NewWork
  <2>5. Sound(r, S)
    <3>0. ToSet(r.promoted) \cap ToSet(r.waiting) = {}
      BY <1>0, <1>2, <2>2, <2>3, <2>4 DEF Sound
    <3>1. /\ Reacquirers(r) \cap NewWork(r) = {}
          /\ r.given \cap (Reacquirers(r) \cup NewWork(r)) = {}
      BY <1>0, <1>2, <2>2, <2>3, <2>4 DEF Sound
    <3>2. r.inLine = Ticketed \cap NewWork(r)
      BY <1>0, <1>2, <2>2, <2>3, <2>4 DEF Sound
    <3>3. ToSet(r.promoted) = r.inLine \cap r.hurry
      BY <1>0, <1>2, <2>2, <2>3, <2>4 DEF Sound, NewWork
    <3> QED BY <1>0, <1>2, <2>2, <2>3, <2>4, <3>0, <3>1, <3>2, <3>3 DEF Sound
  <2> QED BY <1>2, <2>3, <2>4, <2>5 DEF r
<1>3. CASE ~back /\ w \notin Ticketed \cap q.hurry
  <2>1. r = [q EXCEPT !.inLine = @ \cup ({w} \cap Ticketed),
                      !.waiting = Append(@, w)]
    BY <1>0, <1>3 DEF enqueue, LinesOver
  <2>2. /\ Append(q.waiting, w) \in Seq(S)
        /\ ToSet(Append(q.waiting, w)) = ToSet(q.waiting) \cup {w}
        /\ IsInjective(Append(q.waiting, w))
    BY <1>0, AppendFacts DEF Sound
  <2> HIDE DEF r
  <2>3. /\ r \in LinesOver(S)
        /\ r.free = q.free /\ r.reacquiring = q.reacquiring /\ r.promoted = q.promoted
        /\ r.waiting = Append(q.waiting, w) /\ r.given = q.given
        /\ r.hurry = q.hurry /\ r.inLine = q.inLine \cup ({w} \cap Ticketed)
    BY <1>0, <2>1, <2>2 DEF LinesOver
  <2>4. Reacquirers(r) = Reacquirers(q) /\ NewWork(r) = NewWork(q) \cup {w}
    BY <2>2, <2>3 DEF Reacquirers, NewWork
  <2>5. Sound(r, S)
    <3>0. ToSet(r.promoted) \cap ToSet(r.waiting) = {}
      BY <1>0, <1>3, <2>2, <2>3, <2>4 DEF Sound
    <3>1. /\ Reacquirers(r) \cap NewWork(r) = {}
          /\ r.given \cap (Reacquirers(r) \cup NewWork(r)) = {}
      BY <1>0, <1>3, <2>2, <2>3, <2>4 DEF Sound
    <3>2. r.inLine = Ticketed \cap NewWork(r)
      BY <1>0, <1>3, <2>2, <2>3, <2>4 DEF Sound
    <3>3. ToSet(r.promoted) = r.inLine \cap r.hurry
      BY <1>0, <1>3, <2>2, <2>3, <2>4 DEF Sound, NewWork
    <3> QED BY <1>0, <1>3, <2>2, <2>3, <2>4, <3>0, <3>1, <3>2, <3>3 DEF Sound
  <2> QED BY <1>3, <2>3, <2>4, <2>5 DEF r
<1> QED BY <1>1, <1>2, <1>3

(* Whoever is stopped in line leaves it, and its ticket lets go of it.     *)
LEMMA DequeueFacts ==
    ASSUME NEW S, NEW q, Sound(q, S), NEW w, NEW back \in BOOLEAN,
           Queued(q, w, back)
    PROVE  LET r == dequeue(q, w, back)
           IN  /\ Sound(r, S)
               /\ r.free = q.free /\ r.given = q.given
               /\ Reacquirers(r) = Reacquirers(q) \ {w}
               /\ NewWork(r) = NewWork(q) \ {w}
<1> DEFINE r == dequeue(q, w, back)
<1>0. /\ q \in LinesOver(S)
      /\ q.reacquiring \in Seq(S) /\ q.promoted \in Seq(S) /\ q.waiting \in Seq(S)
  BY DEF Sound, LinesOver
<1>1. CASE back
  <2>1. r = [q EXCEPT !.reacquiring = WithoutWaiter(@, w)]
    BY <1>1 DEF dequeue
  <2>2. /\ w \in ToSet(q.reacquiring)
        /\ w \notin ToSet(q.promoted) /\ w \notin ToSet(q.waiting)
    BY <1>1 DEF Queued, Sound, Reacquirers, NewWork
  <2>3. /\ WithoutWaiter(q.reacquiring, w) \in Seq(S)
        /\ ToSet(WithoutWaiter(q.reacquiring, w)) = ToSet(q.reacquiring) \ {w}
        /\ IsInjective(WithoutWaiter(q.reacquiring, w))
    BY <1>0, <2>2, WithoutWaiterFacts DEF Sound
  <2> HIDE DEF r
  <2>4. /\ r \in LinesOver(S)
        /\ r.free = q.free /\ r.promoted = q.promoted /\ r.waiting = q.waiting
        /\ r.reacquiring = WithoutWaiter(q.reacquiring, w) /\ r.given = q.given
        /\ r.hurry = q.hurry /\ r.inLine = q.inLine
    BY <1>0, <2>1, <2>3 DEF LinesOver
  <2>5. Reacquirers(r) = Reacquirers(q) \ {w} /\ NewWork(r) = NewWork(q) \ {w}
    BY <2>2, <2>3, <2>4 DEF Reacquirers, NewWork
  <2>6. Sound(r, S)
    BY <2>2, <2>3, <2>4, <2>5 DEF Sound, Reacquirers, NewWork
  <2> QED BY <2>4, <2>5, <2>6 DEF r
<1>2. CASE ~back /\ w \in ToSet(q.promoted)
  <2>1. r = left_line([q EXCEPT !.promoted = WithoutWaiter(@, w)], w)
    BY <1>2 DEF dequeue
  <2>2. w \notin ToSet(q.reacquiring) /\ w \notin ToSet(q.waiting)
    BY <1>2 DEF Sound, Reacquirers, NewWork
  <2>3. /\ WithoutWaiter(q.promoted, w) \in Seq(S)
        /\ ToSet(WithoutWaiter(q.promoted, w)) = ToSet(q.promoted) \ {w}
        /\ IsInjective(WithoutWaiter(q.promoted, w))
    BY <1>0, <1>2, WithoutWaiterFacts DEF Sound
  <2> HIDE DEF r
  <2>4. /\ r \in LinesOver(S)
        /\ r.free = q.free /\ r.reacquiring = q.reacquiring /\ r.waiting = q.waiting
        /\ r.promoted = WithoutWaiter(q.promoted, w) /\ r.given = q.given
        /\ r.hurry = q.hurry /\ r.inLine = q.inLine \ ({w} \cap Ticketed)
    BY <1>0, <2>1, <2>3 DEF LinesOver, left_line
  <2>5. Reacquirers(r) = Reacquirers(q) \ {w} /\ NewWork(r) = NewWork(q) \ {w}
    BY <2>2, <2>3, <2>4 DEF Reacquirers, NewWork
  <2>6. Sound(r, S)
    BY <2>2, <2>3, <2>4, <2>5 DEF Sound, Reacquirers, NewWork
  <2> QED BY <2>4, <2>5, <2>6 DEF r
<1>3. CASE ~back /\ w \notin ToSet(q.promoted)
  <2>1. r = left_line([q EXCEPT !.waiting = WithoutWaiter(@, w)], w)
    BY <1>3 DEF dequeue
  <2>2. w \in ToSet(q.waiting) /\ w \notin ToSet(q.reacquiring)
    BY <1>3 DEF Queued, Sound, Reacquirers, NewWork
  <2>3. /\ WithoutWaiter(q.waiting, w) \in Seq(S)
        /\ ToSet(WithoutWaiter(q.waiting, w)) = ToSet(q.waiting) \ {w}
        /\ IsInjective(WithoutWaiter(q.waiting, w))
    BY <1>0, <2>2, WithoutWaiterFacts DEF Sound
  <2> HIDE DEF r
  <2>4. /\ r \in LinesOver(S)
        /\ r.free = q.free /\ r.reacquiring = q.reacquiring /\ r.promoted = q.promoted
        /\ r.waiting = WithoutWaiter(q.waiting, w) /\ r.given = q.given
        /\ r.hurry = q.hurry /\ r.inLine = q.inLine \ ({w} \cap Ticketed)
    BY <1>0, <2>1, <2>3 DEF LinesOver, left_line
  <2>5. Reacquirers(r) = Reacquirers(q) \ {w} /\ NewWork(r) = NewWork(q) \ {w}
    BY <1>3, <2>2, <2>3, <2>4 DEF Reacquirers, NewWork
  <2>6. Sound(r, S)
    BY <1>3, <2>2, <2>3, <2>4, <2>5 DEF Sound, Reacquirers, NewWork
  <2> QED BY <2>4, <2>5, <2>6 DEF r
<1> QED BY <1>1, <1>2, <1>3

(* Promoting a ticket moves its waiter, if it has one, between the lines   *)
(* of new work.                                                            *)
LEMMA PromoteFacts ==
    ASSUME NEW S, NEW q, Sound(q, S), NEW t \in Ticketed, t \notin q.hurry
    PROVE  LET r == promote(q, t)
           IN  /\ Sound(r, S)
               /\ r.free = q.free /\ r.given = q.given
               /\ Reacquirers(r) = Reacquirers(q)
               /\ NewWork(r) = NewWork(q)
<1> DEFINE r == promote(q, t)
<1>0. /\ q \in LinesOver(S)
      /\ q.reacquiring \in Seq(S) /\ q.promoted \in Seq(S) /\ q.waiting \in Seq(S)
  BY DEF Sound, LinesOver
<1>1. CASE t \in q.inLine
  <2>1. t \in ToSet(q.waiting) /\ t \notin ToSet(q.promoted)
    BY <1>1 DEF Sound, NewWork
  <2>2. t \in S
    BY <1>0, <2>1 DEF ToSet
  <2>3. r = [q EXCEPT !.hurry = @ \cup {t}, !.waiting = WithoutWaiter(@, t),
                      !.promoted = Append(@, t)]
    BY <1>0, <1>1, <2>1 DEF promote, LinesOver
  <2>4. /\ WithoutWaiter(q.waiting, t) \in Seq(S)
        /\ ToSet(WithoutWaiter(q.waiting, t)) = ToSet(q.waiting) \ {t}
        /\ IsInjective(WithoutWaiter(q.waiting, t))
    BY <1>0, <2>1, WithoutWaiterFacts DEF Sound
  <2>5. /\ Append(q.promoted, t) \in Seq(S)
        /\ ToSet(Append(q.promoted, t)) = ToSet(q.promoted) \cup {t}
        /\ IsInjective(Append(q.promoted, t))
    BY <1>0, <2>1, <2>2, AppendFacts DEF Sound
  <2> HIDE DEF r
  <2>6. /\ r \in LinesOver(S)
        /\ r.free = q.free /\ r.reacquiring = q.reacquiring /\ r.given = q.given
        /\ r.waiting = WithoutWaiter(q.waiting, t) /\ r.promoted = Append(q.promoted, t)
        /\ r.hurry = q.hurry \cup {t} /\ r.inLine = q.inLine
    BY <1>0, <2>3, <2>4, <2>5 DEF LinesOver
  <2>7. Reacquirers(r) = Reacquirers(q) /\ NewWork(r) = NewWork(q)
    BY <2>1, <2>4, <2>5, <2>6 DEF Reacquirers, NewWork
  <2>8. Sound(r, S)
    <3>0. ToSet(r.promoted) \cap ToSet(r.waiting) = {}
      BY <1>1, <2>1, <2>4, <2>5, <2>6, <2>7 DEF Sound
    <3>1. /\ Reacquirers(r) \cap NewWork(r) = {}
          /\ r.given \cap (Reacquirers(r) \cup NewWork(r)) = {}
      BY <1>1, <2>1, <2>4, <2>5, <2>6, <2>7 DEF Sound
    <3>2. r.inLine = Ticketed \cap NewWork(r)
      BY <1>1, <2>1, <2>4, <2>5, <2>6, <2>7 DEF Sound
    <3>3. ToSet(r.promoted) = r.inLine \cap r.hurry
      BY <1>1, <2>1, <2>4, <2>5, <2>6, <2>7 DEF Sound, NewWork
    <3> QED BY <1>1, <2>1, <2>4, <2>5, <2>6, <2>7, <3>0, <3>1, <3>2, <3>3 DEF Sound
  <2> QED BY <2>6, <2>7, <2>8 DEF r
<1>2. CASE t \notin q.inLine
  <2>1. r = [q EXCEPT !.hurry = @ \cup {t}]
    BY <1>2 DEF promote
  <2> HIDE DEF r
  <2>2. /\ r \in LinesOver(S)
        /\ r.free = q.free /\ r.reacquiring = q.reacquiring /\ r.given = q.given
        /\ r.waiting = q.waiting /\ r.promoted = q.promoted
        /\ r.hurry = q.hurry \cup {t} /\ r.inLine = q.inLine
    BY <1>0, <2>1 DEF LinesOver
  <2>3. Sound(r, S)
    BY <1>2, <2>2 DEF Sound, Reacquirers, NewWork
  <2> QED BY <2>2, <2>3 DEF Reacquirers, NewWork, r
<1> QED BY <1>1, <1>2

(* A slot changes hands outside the lines.                                 *)
LEMMA GivenFacts ==
    ASSUME NEW S, NEW q, Sound(q, S), NEW w, NEW r,
           r = [q EXCEPT !.given = @ \ {w}]
    PROVE  /\ Sound(r, S)
           /\ r.free = q.free /\ r.given = q.given \ {w}
           /\ Reacquirers(r) = Reacquirers(q) /\ NewWork(r) = NewWork(q)
<1>1. q \in LinesOver(S) /\ q.given \ {w} \in SUBSET S
  BY DEF Sound, LinesOver
<1>2. /\ r \in LinesOver(S)
      /\ r.free = q.free /\ r.reacquiring = q.reacquiring
      /\ r.given = q.given \ {w}
      /\ r.waiting = q.waiting /\ r.promoted = q.promoted
      /\ r.hurry = q.hurry /\ r.inLine = q.inLine
  BY <1>1 DEF LinesOver
<1> QED BY <1>2 DEF Sound, Reacquirers, NewWork

(* A free slot is taken.                                                   *)
LEMMA TakeFacts ==
    ASSUME NEW S, NEW q, Sound(q, S), q.free > 0, NEW r,
           r = [q EXCEPT !.free = @ - 1]
    PROVE  /\ Sound(r, S)
           /\ r.free = q.free - 1 /\ r.given = q.given
           /\ Reacquirers(r) = Reacquirers(q) /\ NewWork(r) = NewWork(q)
<1>1. q \in LinesOver(S) /\ q.free - 1 \in Nat
  BY DEF Sound, LinesOver
<1>2. /\ r \in LinesOver(S)
      /\ r.free = q.free - 1 /\ r.reacquiring = q.reacquiring /\ r.given = q.given
      /\ r.waiting = q.waiting /\ r.promoted = q.promoted
      /\ r.hurry = q.hurry /\ r.inLine = q.inLine
  BY <1>1 DEF LinesOver
<1> QED BY <1>2 DEF Sound, Reacquirers, NewWork

(* No operation on the lines but promote touches who is hurried.           *)
LEMMA HurryKept ==
    ASSUME NEW S, NEW q, Sound(q, S), NEW w, NEW back \in BOOLEAN
    PROVE  /\ release(q).hurry = q.hurry
           /\ enqueue(q, w, back).hurry = q.hurry
           /\ dequeue(q, w, back).hurry = q.hurry
<1>1. q \in LinesOver(S)
  BY DEF Sound
<1>2. release(q).hurry = q.hurry
  BY <1>1 DEF release, left_line, LinesOver
<1>3. enqueue(q, w, back).hurry = q.hurry
  BY <1>1 DEF enqueue, LinesOver
<1>4. dequeue(q, w, back).hurry = q.hurry
  BY <1>1 DEF dequeue, left_line, LinesOver
<1> QED BY <1>2, <1>3, <1>4

----------------------------------------------------------------------------
(* Slots that are counted.                                                 *)

(* Cardinalities of sets of work, one piece of work more or less.          *)
LEMMA Counting ==
    ASSUME NEW S, IsFiniteSet(S), NEW O \in SUBSET S, NEW w
    PROVE  /\ Cardinality(O) \in Nat
           /\ w \notin O => Cardinality(O \cup {w}) = Cardinality(O) + 1
           /\ w \in O => Cardinality(O \ {w}) = Cardinality(O) - 1
<1>1. IsFiniteSet(O)
  BY FS_Subset
<1>2. Cardinality(O) \in Nat
  BY <1>1, FS_CardinalityType
<1>3. w \notin O => Cardinality(O \cup {w}) = Cardinality(O) + 1
  BY <1>1, FS_AddElement
<1>4. w \in O => Cardinality(O \ {w}) = Cardinality(O) - 1
  BY <1>1, FS_RemoveElement
<1> QED BY <1>2, <1>3, <1>4

(* release() by work that owned a slot, once it is taken off the owners:   *)
(* the slot is free, or has a new owner, and nobody is left in line for a  *)
(* free slot.                                                              *)
LEMMA ReleaseConserves ==
    ASSUME NEW S, IsFiniteSet(S), NEW l, Sound(l, S),
           NEW H \in SUBSET S,
           H \cap (Reacquirers(l) \cup NewWork(l)) = {},
           l.free > 0 => Reacquirers(l) \cup NewWork(l) = {}
    PROVE  LET r == release(l)
           IN  /\ Sound(r, S)
               /\ r.free + Cardinality(H \cup r.given) = l.free + Cardinality(H \cup l.given) + 1
               /\ r.free > 0 => Reacquirers(r) \cup NewWork(r) = {}
               /\ \/ /\ r.given = l.given
                     /\ Reacquirers(r) = Reacquirers(l) /\ NewWork(r) = NewWork(l)
                  \/ \E h \in Reacquirers(l) \cup NewWork(l) :
                        /\ h \in S /\ h \notin H \cup l.given
                        /\ r.given = l.given \cup {h}
                        /\ Reacquirers(r) = Reacquirers(l) \ {h}
                        /\ NewWork(r) = NewWork(l) \ {h}
<1> DEFINE r == release(l)
<1>0. l.free \in Nat /\ l.given \in SUBSET S /\ Cardinality(H \cup l.given) \in Nat
  <2>1. l.free \in Nat /\ l.given \in SUBSET S
    BY DEF Sound, LinesOver
  <2> QED BY <2>1, Counting
<1>1. Sound(r, S)
  BY ReleaseFacts
<1>2. CASE /\ Reacquirers(l) = {} /\ NewWork(l) = {}
           /\ r = [l EXCEPT !.free = @ + 1]
  <2>1. /\ r.free = l.free + 1 /\ r.given = l.given
        /\ r.reacquiring = l.reacquiring /\ r.promoted = l.promoted
        /\ r.waiting = l.waiting
    BY <1>0, <1>2 DEF Sound, LinesOver
  <2> HIDE DEF r
  <2>2. Reacquirers(r) = Reacquirers(l) /\ NewWork(r) = NewWork(l)
    BY <2>1 DEF Reacquirers, NewWork
  <2>3. r.free + Cardinality(H \cup r.given) = l.free + Cardinality(H \cup l.given) + 1
    BY <1>0, <2>1
  <2> QED BY <1>1, <1>2, <2>1, <2>2, <2>3 DEF r
<1>3. ASSUME NEW h \in Reacquirers(l) \cup NewWork(l),
             r.free = l.free, r.given = l.given \cup {h},
             Reacquirers(r) = Reacquirers(l) \ {h},
             NewWork(r) = NewWork(l) \ {h}
      PROVE  /\ r.free + Cardinality(H \cup r.given) = l.free + Cardinality(H \cup l.given) + 1
             /\ r.free > 0 => Reacquirers(r) \cup NewWork(r) = {}
             /\ h \in S /\ h \notin H \cup l.given
  <2> HIDE DEF r
  <2>1. h \in S
    BY DEF Sound, LinesOver, Reacquirers, NewWork, ToSet
  <2>2. h \notin H \cup l.given
    BY DEF Sound
  <2>3. H \cup r.given = (H \cup l.given) \cup {h}
    BY <1>3
  <2>4. Cardinality(H \cup r.given) = Cardinality(H \cup l.given) + 1
    BY <1>0, <2>2, <2>3, Counting
  <2> QED BY <1>0, <1>3, <2>1, <2>2, <2>4
<1>4. \/ /\ Reacquirers(l) = {} /\ NewWork(l) = {}
         /\ r = [l EXCEPT !.free = @ + 1]
      \/ \E h \in Reacquirers(l) \cup NewWork(l) :
            /\ r.free = l.free
            /\ r.given = l.given \cup {h}
            /\ Reacquirers(r) = Reacquirers(l) \ {h}
            /\ NewWork(r) = NewWork(l) \ {h}
  BY ReleaseFacts
<1> HIDE DEF r
<1> QED
  <2>1. CASE \E h \in Reacquirers(l) \cup NewWork(l) :
            /\ r.free = l.free
            /\ r.given = l.given \cup {h}
            /\ Reacquirers(r) = Reacquirers(l) \ {h}
            /\ NewWork(r) = NewWork(l) \ {h}
    BY <1>1, <1>3, <2>1 DEF r
  <2> QED BY <1>2, <1>4, <2>1 DEF r

----------------------------------------------------------------------------
(* Promoting many tickets at once.                                         *)

(* The sequences of a finite set are those that list it without            *)
(* repetition.                                                             *)
LEMMA SetToSeqsFacts ==
    ASSUME NEW T, IsFiniteSet(T), NEW s
    PROVE  s \in SetToSeqs(T) <=> s \in Seq(T) /\ IsInjective(s) /\ ToSet(s) = T
<1> DEFINE n == Cardinality(T)
<1>1. n \in Nat
  BY FS_CardinalityType
<1>2. IsFiniteSet(1..n) /\ Cardinality(1..n) = n
  BY <1>1, FS_Interval
<1>3. ASSUME s \in SetToSeqs(T)
      PROVE  s \in Seq(T) /\ IsInjective(s) /\ ToSet(s) = T
  <2>1. s \in [1..n -> T] /\ IsInjective(s)
    BY <1>3 DEF SetToSeqs, IsInjective
  <2>2. s \in Injection(1..n, T)
    BY <2>1 DEF Injection
  <2>3. s \in Surjection(1..n, T)
    BY <1>2, <2>2, FS_Injection
  <2>4. s \in Seq(T) /\ DOMAIN s = 1..n
    BY <1>1, <2>1
  <2> QED BY <2>1, <2>3, <2>4 DEF Surjection, ToSet
<1>4. ASSUME s \in Seq(T), IsInjective(s), ToSet(s) = T
      PROVE  s \in SetToSeqs(T)
  <2>1. Len(s) \in Nat /\ DOMAIN s = 1..Len(s) /\ s \in [1..Len(s) -> T]
    BY <1>4
  <2>2. IsFiniteSet(1..Len(s)) /\ Cardinality(1..Len(s)) = Len(s)
    BY <2>1, FS_Interval
  <2>3. s \in Bijection(1..Len(s), T)
    BY <1>4, <2>1 DEF Bijection, Injection, Surjection, ToSet
  <2>4. n = Len(s)
    BY <2>2, <2>3, FS_Bijection DEF ExistsBijection
  <2> QED BY <1>4, <2>1, <2>4 DEF SetToSeqs, IsInjective
<1> QED BY <1>3, <1>4

(* One line behind another.                                                *)
LEMMA ConcatFacts ==
    ASSUME NEW S, NEW s \in Seq(S), NEW t \in Seq(S)
    PROVE  /\ s \o t \in Seq(S)
           /\ ToSet(s \o t) = ToSet(s) \cup ToSet(t)
           /\ IsInjective(s) /\ IsInjective(t) /\ ToSet(s) \cap ToSet(t) = {}
                 => IsInjective(s \o t)
<1> DEFINE u == s \o t
<1>1. /\ u \in Seq(S)
      /\ Len(s) \in Nat /\ Len(t) \in Nat
      /\ DOMAIN s = 1..Len(s) /\ DOMAIN t = 1..Len(t)
      /\ DOMAIN u = 1..(Len(s) + Len(t))
      /\ \A i \in 1..Len(s) : u[i] = s[i]
      /\ \A i \in 1..(Len(s) + Len(t)) : i > Len(s) => u[i] = t[i - Len(s)]
      /\ \A i \in 1..Len(t) : u[i + Len(s)] = t[i]
  OBVIOUS
<1>2. ToSet(u) = ToSet(s) \cup ToSet(t)
  <2>1. ASSUME NEW x \in ToSet(u)
        PROVE  x \in ToSet(s) \cup ToSet(t)
    <3>1. PICK i \in 1..(Len(s) + Len(t)) : x = u[i]
      BY <1>1 DEF ToSet
    <3>2. CASE i <= Len(s)
      BY <1>1, <3>1, <3>2 DEF ToSet
    <3>3. CASE i > Len(s)
      <4>1. i - Len(s) \in 1..Len(t)
        BY <1>1, <3>3
      <4> QED BY <1>1, <3>1, <3>3, <4>1 DEF ToSet
    <3> QED BY <1>1, <3>2, <3>3
  <2>2. ASSUME NEW x \in ToSet(s)
        PROVE  x \in ToSet(u)
    <3>1. PICK i \in 1..Len(s) : x = s[i]
      BY <1>1 DEF ToSet
    <3>2. i \in 1..(Len(s) + Len(t))
      BY <1>1
    <3> QED BY <1>1, <3>1, <3>2 DEF ToSet
  <2>3. ASSUME NEW x \in ToSet(t)
        PROVE  x \in ToSet(u)
    <3>1. PICK i \in 1..Len(t) : x = t[i]
      BY <1>1 DEF ToSet
    <3>2. i + Len(s) \in 1..(Len(s) + Len(t))
      BY <1>1
    <3> QED BY <1>1, <3>1, <3>2 DEF ToSet
  <2> QED BY <2>1, <2>2, <2>3
<1>3. ASSUME IsInjective(s), IsInjective(t), ToSet(s) \cap ToSet(t) = {}
      PROVE  IsInjective(u)
  <2>1. ASSUME NEW i \in 1..Len(s), NEW j \in 1..Len(t)
        PROVE  s[i] # t[j]
    BY <1>1, <1>3 DEF ToSet
  <2>2. SUFFICES ASSUME NEW i \in 1..(Len(s) + Len(t)), NEW j \in 1..(Len(s) + Len(t)),
                        u[i] = u[j]
                 PROVE  i = j
    BY <1>1 DEF IsInjective
  <2>3. CASE i <= Len(s) /\ j <= Len(s)
    BY <1>1, <1>3, <2>2, <2>3 DEF IsInjective
  <2>4. CASE i > Len(s) /\ j > Len(s)
    <3>1. i - Len(s) \in 1..Len(t) /\ j - Len(s) \in 1..Len(t)
      BY <1>1, <2>4
    <3>2. t[i - Len(s)] = t[j - Len(s)]
      BY <1>1, <2>2, <2>4
    <3>3. i - Len(s) = j - Len(s)
      BY <1>1, <1>3, <3>1, <3>2 DEF IsInjective
    <3> QED BY <1>1, <3>3
  <2>5. CASE i <= Len(s) /\ j > Len(s)
    <3>1. i \in 1..Len(s) /\ j - Len(s) \in 1..Len(t)
      BY <1>1, <2>5
    <3> QED BY <1>1, <2>1, <2>2, <2>5, <3>1
  <2>6. CASE i > Len(s) /\ j <= Len(s)
    <3>1. j \in 1..Len(s) /\ i - Len(s) \in 1..Len(t)
      BY <1>1, <2>6
    <3> QED BY <1>1, <2>1, <2>2, <2>6, <3>1
  <2> QED BY <1>1, <2>3, <2>4, <2>5, <2>6
<1> QED BY <1>1, <1>2, <1>3

(* Tickets that are promoted together move from one line to another.       *)
LEMMA PromoteAllFacts ==
    ASSUME NEW S, IsFiniteSet(S), NEW q, Sound(q, S), NEW T \in SUBSET Ticketed,
           NEW r \in promote_all(q, T)
    PROVE  /\ Sound(r, S)
           /\ r.free = q.free /\ r.given = q.given
           /\ Reacquirers(r) = Reacquirers(q) /\ NewWork(r) = NewWork(q)
           /\ r.hurry = q.hurry \cup T
<1> DEFINE moved == MovedBy(q, T)
           stay  == ToSet(q.waiting) \ moved
<1>1. PICK rest \in SetToSeqs(stay), ahead \in SetToSeqs(moved) :
          r = [q EXCEPT !.hurry = @ \cup T, !.waiting = rest, !.promoted = @ \o ahead]
  <2>1. PICK rest \in SetToSeqs(stay), ahead \in SetToSeqs(moved) : r = MovedUp(q, T, rest, ahead)
    BY DEF promote_all
  <2> QED BY <2>1 DEF MovedUp
<1>2. /\ q \in LinesOver(S)
      /\ q.reacquiring \in Seq(S) /\ q.promoted \in Seq(S) /\ q.waiting \in Seq(S)
  BY DEF Sound, LinesOver
<1>3. stay \subseteq S /\ moved \subseteq S /\ moved \subseteq ToSet(q.waiting)
  BY <1>2 DEF MovedBy, ToSet
<1>4. IsFiniteSet(stay) /\ IsFiniteSet(moved)
  BY <1>3, FS_Subset
<1>5. ToSet(q.promoted) \cap moved = {} /\ stay \cap moved = {}
  BY <1>3 DEF Sound
<1>6. stay \cup moved = ToSet(q.waiting) /\ moved \subseteq T
  BY <1>3 DEF MovedBy
<1>7. q.inLine \cap (q.hurry \cup T) = ToSet(q.promoted) \cup moved
  BY DEF MovedBy, Sound, NewWork
<1> HIDE DEF moved, stay
<1>8. rest \in Seq(stay) /\ IsInjective(rest) /\ ToSet(rest) = stay
  BY <1>4, SetToSeqsFacts
<1>9. ahead \in Seq(moved) /\ IsInjective(ahead) /\ ToSet(ahead) = moved
  BY <1>4, SetToSeqsFacts
<1>10. rest \in Seq(S) /\ ahead \in Seq(S)
  BY <1>3, <1>8, <1>9
<1>11. /\ q.promoted \o ahead \in Seq(S)
       /\ ToSet(q.promoted \o ahead) = ToSet(q.promoted) \cup moved
       /\ IsInjective(q.promoted \o ahead)
  <2>1. IsInjective(q.promoted) /\ ToSet(q.promoted) \cap ToSet(ahead) = {}
    BY <1>5, <1>9 DEF Sound
  <2> QED BY <1>2, <1>9, <1>10, <2>1, ConcatFacts
<1>12. /\ r \in LinesOver(S)
       /\ r.free = q.free /\ r.given = q.given /\ r.reacquiring = q.reacquiring
       /\ r.waiting = rest /\ r.promoted = q.promoted \o ahead
       /\ r.inLine = q.inLine /\ r.hurry = q.hurry \cup T
  BY <1>1, <1>2, <1>10, <1>11 DEF LinesOver
<1>13. Reacquirers(r) = Reacquirers(q) /\ NewWork(r) = NewWork(q)
  BY <1>6, <1>8, <1>11, <1>12 DEF Reacquirers, NewWork
<1>14. ToSet(r.promoted) \cap ToSet(r.waiting) = {}
  BY <1>3, <1>5, <1>6, <1>8, <1>11, <1>12 DEF Sound
<1>15. Sound(r, S)
  BY <1>7, <1>8, <1>11, <1>12, <1>13, <1>14 DEF Sound
<1> QED BY <1>12, <1>13, <1>15

=============================================================================
