------------------------- MODULE EventStream_proofs -------------------------
(***************************************************************************)
(* That EventStream implements Feed, for every number of clients, writers,  *)
(* events and restarts and every capacity of a queue.                       *)
(***************************************************************************)
EXTENDS EventStream, SequenceTheorems, TLAPS

(* Lemmas about the sequences of numbers the stream moves around. *)

\* Span(a, b) is the sequence of the numbers from a to b.
LEMMA SpanIs ==
  ASSUME NEW a \in Nat, NEW b \in Nat
  PROVE  /\ Span(a, b) \in Seq(Nat)
         /\ Len(Span(a, b)) = IF b < a THEN 0 ELSE b - a + 1
         /\ \A i \in 1..Len(Span(a, b)) : Span(a, b)[i] = a + i - 1
<1>1. CASE b < a
  <2>1. 1..(b - a + 1) = {}  BY <1>1
  <2>2. Span(a, b) = <<>>  BY <2>1 DEF Span
  <2> QED  BY <2>2, <1>1
<1>2. CASE ~(b < a)
  <2>1. b - a + 1 \in Nat  BY <1>2
  <2>2. Span(a, b) \in [1..(b - a + 1) -> Nat]  BY <2>1 DEF Span
  <2>3. Span(a, b) \in Seq(Nat)  BY <2>1, <2>2
  <2>4. Len(Span(a, b)) = b - a + 1  BY <2>1, <2>2, <2>3, LenProperties
  <2> QED  BY <1>2, <2>1, <2>3, <2>4 DEF Span
<1> QED  BY <1>1, <1>2

\* Each number of q is old (at most one above g) or follows the one before it.
Climbs(q, g) ==
  \A i \in 1..Len(q) : q[i] <= g + 1 \/ (i > 1 /\ q[i] = q[i - 1] + 1)

\* What comes next has p + 1, which is old or follows the last of q.
EndsAt(q, p, g) == p <= g \/ (q # <<>> /\ q[Len(q)] = p)

\* Rows from f + 1 or p + 1 to b, put behind q, keep both.
LEMMA RowsAppended ==
  ASSUME NEW q \in Seq(Nat), NEW p \in Nat, NEW g \in Nat, NEW f \in Nat, NEW b \in Nat,
         f <= g, p <= b, Climbs(q, g), EndsAt(q, p, g)
  PROVE  LET all == q \o Span(Larger(p + 1, f + 1), b)
         IN Climbs(all, g) /\ EndsAt(all, b, g)
<1> DEFINE a == Larger(p + 1, f + 1)
           t == Span(a, b)
           all == q \o t
<1>1. a \in Nat /\ (a = p + 1 \/ (a = f + 1 /\ a > p))
  BY DEF Larger
<1>2. /\ t \in Seq(Nat)
      /\ Len(t) = IF b < a THEN 0 ELSE b - a + 1
      /\ \A i \in 1..Len(t) : t[i] = a + i - 1
  BY <1>1, SpanIs
<1>3. /\ all \in Seq(Nat)
      /\ Len(all) = Len(q) + Len(t)
      /\ \A i \in 1..Len(all) : all[i] = IF i <= Len(q) THEN q[i] ELSE t[i - Len(q)]
  BY <1>2, ConcatProperties
<1>4. Len(q) \in Nat /\ Len(t) \in Nat /\ \A i \in 1..Len(q) : q[i] \in Nat
  BY <1>2, LenProperties, ElementOfSeq
<1> HIDE DEF a, t, all
<1>5. /\ \A i \in 1..Len(q) : all[i] = q[i]
      /\ \A j \in 1..Len(t) : all[Len(q) + j] = a + j - 1
  <2>1. ASSUME NEW i \in 1..Len(q) PROVE all[i] = q[i]
    BY <1>3, <1>4
  <2>2. ASSUME NEW j \in 1..Len(t) PROVE all[Len(q) + j] = a + j - 1
    <3>1. Len(q) + j \in 1..Len(all) /\ ~(Len(q) + j <= Len(q)) /\ (Len(q) + j) - Len(q) = j
      BY <1>3, <1>4
    <3> QED  BY <3>1, <1>2, <1>3
  <2> QED  BY <2>1, <2>2
<1>6. Climbs(all, g)
  <2>1. ASSUME NEW i \in 1..Len(q)
        PROVE  all[i] <= g + 1 \/ (i > 1 /\ all[i] = all[i - 1] + 1)
    <3>1. all[i] = q[i] /\ (i > 1 => all[i - 1] = q[i - 1])  BY <1>4, <1>5
    <3> QED  BY <3>1 DEF Climbs
  <2>2. ASSUME 1 \in 1..Len(t)
        PROVE  \/ all[Len(q) + 1] <= g + 1
               \/ Len(q) + 1 > 1 /\ all[Len(q) + 1] = all[Len(q)] + 1
    <3>1. all[Len(q) + 1] = a  BY <2>2, <1>1, <1>5
    <3>2. CASE a = f + 1  BY <3>1, <3>2
    <3>3. CASE a = p + 1 /\ p <= g  BY <3>1, <3>3
    <3>4. CASE a = p + 1 /\ q # <<>> /\ q[Len(q)] = p
      <4>1. Len(q) > 0  BY <3>4, <1>4, EmptySeq
      <4>2. all[Len(q)] = p  BY <3>4, <4>1, <1>4, <1>5
      <4> QED  BY <3>1, <3>4, <4>1, <4>2, <1>4
    <3> QED  BY <3>2, <3>3, <3>4, <1>1 DEF EndsAt
  <2>3. ASSUME NEW j \in 1..Len(t), j > 1
        PROVE  all[Len(q) + j] = all[Len(q) + (j - 1)] + 1
    <3>1. j - 1 \in 1..Len(t)  BY <2>3, <1>4
    <3>2. all[Len(q) + j] = a + j - 1 /\ all[Len(q) + (j - 1)] = a + (j - 1) - 1
      BY <3>1, <1>5
    <3>3. a + j - 1 = (a + (j - 1) - 1) + 1  BY <1>1
    <3> QED  BY <3>2, <3>3
  <2>4. ASSUME NEW i \in 1..Len(all)
        PROVE  all[i] <= g + 1 \/ (i > 1 /\ all[i] = all[i - 1] + 1)
    <3>1. CASE i \in 1..Len(q)  BY <3>1, <2>1
    <3>2. CASE i = Len(q) + 1
      <4>1. 1 \in 1..Len(t) /\ i - 1 = Len(q)  BY <3>2, <1>3, <1>4
      <4> QED  BY <3>2, <4>1, <2>2
    <3>3. CASE i > Len(q) + 1
      <4>1. PICK j \in 1..Len(t) : j > 1 /\ i = Len(q) + j /\ i - 1 = Len(q) + (j - 1) /\ i > 1
        <5>1. /\ i - Len(q) \in 1..Len(t) /\ i - Len(q) > 1
              /\ i = Len(q) + (i - Len(q)) /\ i - 1 = Len(q) + ((i - Len(q)) - 1) /\ i > 1
          BY <3>3, <1>3, <1>4
        <5> QED  BY <5>1
      <4> QED  BY <4>1, <2>3
    <3>4. Len(q) \in Nat /\ i \in Nat /\ i > 0  BY <1>3, <1>4
    <3>5. i \in 1..Len(q) \/ i = Len(q) + 1 \/ i > Len(q) + 1  BY <3>4
    <3> QED  BY <3>1, <3>2, <3>3, <3>5
  <2> QED  BY <2>4 DEF Climbs
<1>7. EndsAt(all, b, g)
  <2>1. CASE b < a
    <3>1. Len(t) = 0 /\ Len(all) = Len(q)  BY <2>1, <1>2, <1>3, <1>4
    <3>2. CASE b <= g  BY <3>2 DEF EndsAt
    <3>3. CASE b = p /\ q # <<>> /\ q[Len(q)] = p
      <4>1. Len(q) > 0  BY <3>3, <1>4, EmptySeq
      <4>2. all # <<>>  BY <4>1, <3>1, EmptySeq
      <4>3. all[Len(all)] = b  BY <4>1, <3>1, <3>3, <1>4, <1>5
      <4> QED  BY <4>2, <4>3 DEF EndsAt
    <3> QED  BY <3>2, <3>3, <2>1, <1>1 DEF EndsAt
  <2>2. CASE ~(b < a)
    <3>1. Len(t) = b - a + 1 /\ Len(t) \in 1..Len(t)  BY <2>2, <1>1, <1>2, <1>4
    <3>2. all[Len(q) + Len(t)] = a + Len(t) - 1  BY <3>1, <1>5
    <3>5. a + Len(t) - 1 = b  BY <3>1, <1>1
    <3>3. Len(all) > 0  BY <3>1, <1>3, <1>4
    <3>4. all # <<>>  BY <3>3, EmptySeq
    <3> QED  BY <3>2, <3>4, <3>5, <1>3 DEF EndsAt
  <2> QED  BY <2>1, <2>2
<1> QED  BY <1>6, <1>7 DEF all, t, a

\* A prefix of what climbs climbs.
LEMMA PrefixClimbs ==
  ASSUME NEW q \in Seq(Nat), NEW g \in Nat, NEW n \in 0..Len(q), Climbs(q, g)
  PROVE  SubSeq(q, 1, n) \in Seq(Nat) /\ Climbs(SubSeq(q, 1, n), g)
<1>1. Len(q) \in Nat /\ \A i \in 1..Len(q) : q[i] \in Nat
  BY LenProperties, ElementOfSeq
<1>2. /\ SubSeq(q, 1, n) \in Seq(Nat)
      /\ Len(SubSeq(q, 1, n)) = n
      /\ \A i \in 1..n : SubSeq(q, 1, n)[i] = q[i]
  BY <1>1, SubSeqProperties
<1> QED  BY <1>1, <1>2 DEF Climbs

\* The head of a queue that climbs is old, or one above the floor; the rest climbs from it.
LEMMA HeadTaken ==
  ASSUME NEW q \in Seq(Nat), NEW g \in Nat, NEW p \in Nat, q # <<>>, Climbs(q, g)
  PROVE  /\ Head(q) \in Nat /\ Head(q) <= g + 1
         /\ Tail(q) \in Seq(Nat)
         /\ Climbs(Tail(q), Larger(g, Head(q)))
         /\ EndsAt(q, p, g) => EndsAt(Tail(q), p, Larger(g, Head(q)))
<1>1. Len(q) \in Nat \ {0} /\ \A i \in 1..Len(q) : q[i] \in Nat
  BY EmptySeq, ElementOfSeq
<1>2. /\ Tail(q) \in Seq(Nat) /\ Len(Tail(q)) = Len(q) - 1
      /\ \A i \in 1..Len(Tail(q)) : Tail(q)[i] = q[i + 1]
  BY HeadTailProperties
<1>3. Head(q) = q[1]  BY <1>1
<1>4. Head(q) \in Nat /\ Head(q) <= g + 1
  BY <1>1, <1>3 DEF Climbs
<1> DEFINE h == Larger(g, Head(q))
<1>5. h \in Nat /\ h >= g /\ h >= q[1]
  BY <1>4, <1>3 DEF Larger
<1> HIDE DEF h
<1>6. Climbs(Tail(q), h)
  <2> SUFFICES ASSUME NEW i \in 1..Len(Tail(q))
               PROVE  Tail(q)[i] <= h + 1 \/ (i > 1 /\ Tail(q)[i] = Tail(q)[i - 1] + 1)
    BY DEF Climbs
  <2>1. Tail(q)[i] = q[i + 1] /\ i + 1 \in 1..Len(q)  BY <1>1, <1>2
  <2>2. q[i + 1] <= g + 1 \/ q[i + 1] = q[i] + 1  BY <2>1, <1>1 DEF Climbs
  <2>3. CASE i = 1  BY <2>1, <2>2, <2>3, <1>5, <1>1
  <2>4. CASE i > 1
    <3>1. Tail(q)[i - 1] = q[i]  BY <2>4, <1>1, <1>2
    <3> QED  BY <3>1, <2>1, <2>2, <2>4, <1>5, <1>1
  <2> QED  BY <2>3, <2>4, <1>1, <1>2
<1>7. EndsAt(q, p, g) => EndsAt(Tail(q), p, h)
  <2> SUFFICES ASSUME EndsAt(q, p, g) PROVE EndsAt(Tail(q), p, h)
    OBVIOUS
  <2>1. CASE p <= g  BY <2>1, <1>5 DEF EndsAt
  <2>2. CASE q[Len(q)] = p /\ Len(q) = 1  BY <2>2, <1>5, <1>1 DEF EndsAt
  <2>3. CASE q[Len(q)] = p /\ Len(q) > 1
    <3>1. Len(Tail(q)) = Len(q) - 1 /\ Len(Tail(q)) > 0  BY <2>3, <1>1, <1>2
    <3>2. Tail(q) # <<>>
      <4>1. Tail(q) = <<>> => Len(Tail(q)) = 0  BY EmptySeq
      <4> QED  BY <3>1, <4>1
    <3>3. Tail(q)[Len(Tail(q))] = p  BY <3>1, <2>3, <1>1, <1>2
    <3> QED  BY <3>2, <3>3 DEF EndsAt
  <2>4. Len(q) \in Nat /\ Len(q) # 0  BY <1>1
  <2>5. Len(q) = 1 \/ Len(q) > 1
    <3>1. \A n \in Nat : n # 0 => n = 1 \/ n > 1  OBVIOUS
    <3> QED  BY <2>4, <3>1, Zenon
  <2> QED  BY <2>1, <2>2, <2>3, <2>5 DEF EndsAt
<1> QED  BY <1>2, <1>4, <1>6, <1>7 DEF h

\* No number of q is above l.
Below(q, l) == \A i \in 1..Len(q) : q[i] <= l

LEMMA RowsBelow ==
  ASSUME NEW q \in Seq(Nat), NEW a \in Nat, NEW b \in Nat, NEW l \in Nat, b <= l, Below(q, l)
  PROVE  q \o Span(a, b) \in Seq(Nat) /\ Below(q \o Span(a, b), l)
<1> DEFINE t == Span(a, b)
           all == q \o t
<1>1. /\ t \in Seq(Nat)
      /\ Len(t) = IF b < a THEN 0 ELSE b - a + 1
      /\ \A i \in 1..Len(t) : t[i] = a + i - 1
  BY SpanIs
<1> HIDE DEF t
<1>2. Len(q) \in Nat /\ Len(t) \in Nat
  BY <1>1, LenProperties
<1>3. /\ all \in Seq(Nat)
      /\ Len(all) = Len(q) + Len(t)
      /\ \A i \in 1..Len(all) : all[i] = IF i <= Len(q) THEN q[i] ELSE t[i - Len(q)]
  <2>1. q \in Seq(Nat) /\ t \in Seq(Nat)  BY <1>1
  <2> QED  BY <2>1, ConcatProperties
<1> HIDE DEF all
<1>4. ASSUME NEW j \in 1..Len(t) PROVE t[j] <= l
  <2>1. t[j] = a + j - 1  BY <1>1
  <2>2. Len(t) = b - a + 1 /\ j <= b - a + 1  BY <1>1, <1>2
  <2> QED  BY <2>1, <2>2
<1>5. ASSUME NEW i \in 1..Len(all) PROVE all[i] <= l
  <2>1. CASE i <= Len(q)
    <3>1. all[i] = q[i] /\ i \in 1..Len(q)  BY <2>1, <1>2, <1>3
    <3> QED  BY <3>1 DEF Below
  <2>2. CASE ~(i <= Len(q))
    <3>1. i - Len(q) \in 1..Len(t)  BY <2>2, <1>2, <1>3
    <3>2. all[i] = t[i - Len(q)]  BY <2>2, <1>3
    <3> QED  BY <3>1, <3>2, <1>4
  <2> QED  BY <2>1, <2>2
<1> QED  BY <1>3, <1>5 DEF Below, all, t

\* s is a run of numbers that ends at v.
Run(s, v) == \A i \in 1..Len(s) : s[i] = v - Len(s) + i

LEMMA PrologueRuns ==
  ASSUME NEW p \in Nat, NEW v \in Nat, p <= v
  PROVE  LET s == <<p>> \o Span(p + 1, v)
         IN s \in Seq(Nat) /\ s # <<>> /\ Run(s, v) /\ Head(s) = p
<1> DEFINE t == Span(p + 1, v)
           h == <<p>>
           s == h \o t
<1>1. /\ t \in Seq(Nat)
      /\ Len(t) = v - p
      /\ \A i \in 1..Len(t) : t[i] = p + i
  <2>1. p + 1 \in Nat  OBVIOUS
  <2>2. /\ t \in Seq(Nat)
        /\ Len(t) = IF v < p + 1 THEN 0 ELSE v - (p + 1) + 1
        /\ \A i \in 1..Len(t) : t[i] = p + 1 + i - 1
    BY <2>1, SpanIs
  <2> HIDE DEF t
  <2> QED  BY <2>2
<1> HIDE DEF t
<1>2. h \in Seq(Nat) /\ Len(h) = 1 /\ h[1] = p
  OBVIOUS
<1> HIDE DEF h
<1>3. /\ s \in Seq(Nat)
      /\ Len(s) = 1 + Len(t)
      /\ \A i \in 1..Len(s) : s[i] = IF i <= 1 THEN h[i] ELSE t[i - 1]
  <2>1. h \in Seq(Nat) /\ t \in Seq(Nat)  BY <1>1, <1>2
  <2>2. /\ s \in Seq(Nat)
        /\ Len(s) = Len(h) + Len(t)
        /\ \A i \in 1..Len(s) : s[i] = IF i <= Len(h) THEN h[i] ELSE t[i - Len(h)]
    BY <2>1, ConcatProperties
  <2> HIDE DEF s
  <2> QED  BY <2>2, <1>2
<1> HIDE DEF s
<1>4. Len(s) = v - p + 1 /\ Len(s) > 0  BY <1>1, <1>3
<1>5. ASSUME NEW i \in 1..Len(s) PROVE s[i] = v - Len(s) + i
  <2>1. CASE i = 1
    <3>1. s[1] = p  BY <1>2, <1>3, <1>4
    <3> QED  BY <2>1, <3>1, <1>4
  <2>2. CASE i > 1
    <3>1. i - 1 \in 1..Len(t)  BY <2>2, <1>1, <1>3
    <3>2. s[i] = t[i - 1]  BY <2>2, <1>3
    <3>3. t[i - 1] = p + (i - 1)  BY <3>1, <1>1
    <3> QED  BY <3>2, <3>3, <1>4
  <2> QED  BY <2>1, <2>2
<1>6. s # <<>> /\ Head(s) = p
  <2>1. s # <<>>  BY <1>4, EmptySeq
  <2>2. s[1] = p  BY <1>2, <1>3, <1>4
  <2> QED  BY <2>1, <2>2, <1>3
<1> QED  BY <1>3, <1>5, <1>6 DEF Run, s, h, t

LEMMA RunTaken ==
  ASSUME NEW s \in Seq(Nat), NEW v \in Nat, s # <<>>, Run(s, v)
  PROVE  /\ Head(s) \in Nat /\ Head(s) <= v
         /\ Tail(s) \in Seq(Nat) /\ Run(Tail(s), v)
         /\ Tail(s) = <<>> => Head(s) = v
         /\ Tail(s) # <<>> => Head(Tail(s)) = Head(s) + 1
<1>1. Len(s) \in Nat /\ Len(s) > 0  BY EmptySeq
<1>2. /\ Head(s) \in Nat /\ Tail(s) \in Seq(Nat) /\ Len(Tail(s)) = Len(s) - 1
      /\ \A i \in 1..Len(Tail(s)) : Tail(s)[i] = s[i + 1]
  BY HeadTailProperties
<1>3. Head(s) = s[1]  BY <1>1
<1>4. Head(s) = v - Len(s) + 1  BY <1>1, <1>3 DEF Run
<1>5. ASSUME NEW i \in 1..Len(Tail(s)) PROVE Tail(s)[i] = v - Len(Tail(s)) + i
  <2>1. i + 1 \in 1..Len(s)  BY <1>1, <1>2
  <2>2. s[i + 1] = v - Len(s) + (i + 1)  BY <2>1 DEF Run
  <2> QED  BY <2>2, <1>1, <1>2
<1>6. Tail(s) = <<>> => Head(s) = v
  <2>1. Tail(s) = <<>> => Len(Tail(s)) = 0  BY EmptySeq
  <2> QED  BY <2>1, <1>1, <1>2, <1>4
<1>7. Tail(s) # <<>> => Head(Tail(s)) = Head(s) + 1
  <2> SUFFICES ASSUME Tail(s) # <<>> PROVE Head(Tail(s)) = Head(s) + 1
    OBVIOUS
  <2>1. Len(Tail(s)) \in Nat /\ Len(Tail(s)) > 0  BY <1>2, EmptySeq
  <2>2. Head(Tail(s)) = Tail(s)[1]  BY <2>1, <1>2
  <2>4. 1 \in 1..Len(Tail(s))  BY <2>1
  <2>3. Tail(s)[1] = v - Len(Tail(s)) + 1  BY <2>4, <1>5
  <2> QED  BY <2>2, <2>3, <1>1, <1>2, <1>4
<1> QED  BY <1>1, <1>2, <1>4, <1>5, <1>6, <1>7 DEF Run

-----------------------------------------------------------------------------
(* The inductive invariant. *)

\* Between the append or the replay and the fan-out the lock is held, so what was fanned
\* out cannot change; it is never ahead of the log.
LockHolds ==
  /\ published <= last
  /\ \A w \in Writer : upto[w] <= last
  /\ \A w \in Writer : at[w] \in {"appended", "gap", "replayed"} =>
       lock = w /\ published <= upto[w]
  /\ \A w \in Writer : at[w] \in {"appended", "gap"} => published < upto[w]

\* No number is above the log's last, and a connection has nothing before it needs it.
Bounded ==
  \A c \in Client :
    /\ cursor[c] # NoCursor => cursor[c] <= last
    /\ covered[c] <= last /\ floor[c] <= last
    /\ Below(queue[c], last)
    /\ conn[c] = "away" => c \notin subscribers /\ queue[c] = <<>>
    /\ conn[c] # "following" => floor[c] = 0 /\ owed[c] = <<>>

\* How far what a connection was given, or is about to be given, reaches.
Reach(c) == IF conn[c] = "following" THEN floor[c] ELSE covered[c]

\* From there on a queue has every number, and what is fanned out next follows its last.
QueueFollows ==
  \A c \in Client : conn[c] \in {"missed", "ready", "following"} =>
    /\ Climbs(queue[c], Reach(c))
    /\ c \in subscribers => EndsAt(queue[c], published, Reach(c))

\* The prologue takes a client from its cursor to the floor.
PrologueFollows ==
  \A c \in Client :
    /\ conn[c] \in {"missed", "ready"} /\ cursor[c] # NoCursor => cursor[c] <= covered[c]
    /\ conn[c] = "following" =>
         /\ Run(owed[c], floor[c])
         /\ owed[c] = <<>> => cursor[c] = floor[c]
         /\ owed[c] # <<>> /\ cursor[c] # NoCursor =>
              Head(owed[c]) = cursor[c] \/ Head(owed[c]) = cursor[c] + 1

IInv == TypeOK /\ LockHolds /\ Bounded /\ QueueFollows /\ PrologueFollows

LEMMA InitHolds == Init => IInv
<1> SUFFICES ASSUME Init PROVE IInv
  OBVIOUS
<1> USE StreamAssumption
<1>1. TypeOK  BY DEF Init, TypeOK
<1>2. LockHolds  BY DEF Init, LockHolds
<1>3. Len(<<>>) = 0  BY EmptySeq
<1>4. Bounded  BY <1>3 DEF Init, Bounded, Below
<1>5. QueueFollows /\ PrologueFollows  BY DEF Init, QueueFollows, PrologueFollows
<1> QED  BY <1>1, <1>2, <1>4, <1>5 DEF IInv

\* Rows up to b, the whole of them, are fanned out: what the invariant says of the queues
\* holds with b published.
LEMMA FanOutKeeps ==
  ASSUME IInv, NEW a \in Nat, NEW b \in Nat, published <= b, b <= last,
         subscribers # {} => a = published + 1,
         FanOut(a, b)
  PROVE  /\ queue' \in [Client -> Seq(Nat)] /\ closed' \subseteq Client
         /\ subscribers' \subseteq subscribers
         /\ \A c \in Client : c \notin subscribers => queue'[c] = queue[c]
         /\ \A c \in Client : Below(queue'[c], last)
         /\ \A c \in Client : conn[c] \in {"missed", "ready", "following"} =>
              /\ Climbs(queue'[c], Reach(c))
              /\ c \in subscribers' => EndsAt(queue'[c], b, Reach(c))
<1> USE StreamAssumption
<1> DEFINE all(c) == queue[c] \o Span(Larger(a, floor[c] + 1), b)
           full == {c \in subscribers : Len(all(c)) > Capacity}
           taken(c) == IF c \in full THEN SubSeq(all(c), 1, Capacity)
                       ELSE IF c \in subscribers THEN all(c) ELSE queue[c]
<1>1. /\ queue' = [c \in Client |-> taken(c)]
      /\ closed' = closed \union full /\ subscribers' = subscribers \ full
  BY DEF FanOut, Offered
<1>2. ASSUME NEW c \in Client
      PROVE  /\ queue[c] \in Seq(Nat) /\ floor[c] \in Nat /\ covered[c] \in Nat
             /\ Reach(c) \in Nat /\ published \in Nat /\ last \in Nat
             /\ Below(queue[c], last)
             /\ floor[c] <= Reach(c)
  <2>1. queue[c] \in Seq(Nat) /\ floor[c] \in Nat /\ covered[c] \in Nat
        /\ published \in Nat /\ last \in Nat
    BY DEF IInv, TypeOK
  <2>2. Below(queue[c], last) /\ (conn[c] # "following" => floor[c] = 0)
    BY DEF IInv, Bounded
  <2> QED  BY <2>1, <2>2 DEF Reach
<1>3. subscribers \subseteq Client /\ closed \subseteq Client
  BY DEF IInv, TypeOK
<1>4. ASSUME NEW c \in subscribers
      PROVE  all(c) \in Seq(Nat) /\ Below(all(c), last)
  <2>1. Larger(a, floor[c] + 1) \in Nat  BY <1>2, <1>3 DEF Larger
  <2> QED  BY <2>1, <1>2, <1>3, RowsBelow
<1>5. ASSUME NEW c \in subscribers, conn[c] \in {"missed", "ready", "following"}
      PROVE  Climbs(all(c), Reach(c)) /\ EndsAt(all(c), b, Reach(c))
  <2>1. a = published + 1  BY <1>5
  <2>2. Climbs(queue[c], Reach(c)) /\ EndsAt(queue[c], published, Reach(c))
    BY <1>3, <1>5 DEF IInv, QueueFollows
  <2>3. c \in Client  BY <1>3
  <2> QED  BY <2>1, <2>2, <2>3, <1>2, RowsAppended
<1> HIDE DEF all
<1>6. ASSUME NEW c \in full
      PROVE  /\ c \in subscribers /\ Len(all(c)) \in Nat /\ Capacity \in 0..Len(all(c))
             /\ SubSeq(all(c), 1, Capacity) \in Seq(Nat)
             /\ Below(SubSeq(all(c), 1, Capacity), last)
  <2>1. c \in subscribers /\ Len(all(c)) > Capacity  OBVIOUS
  <2>2. all(c) \in Seq(Nat) /\ Below(all(c), last)  BY <2>1, <1>4
  <2>3. Len(all(c)) \in Nat /\ \A i \in 1..Len(all(c)) : all(c)[i] \in Nat
    BY <2>2, LenProperties, ElementOfSeq
  <2>4. Capacity \in Nat /\ Capacity \in 0..Len(all(c))  BY <2>1, <2>3
  <2>5. /\ SubSeq(all(c), 1, Capacity) \in Seq(Nat)
        /\ Len(SubSeq(all(c), 1, Capacity)) = Capacity
        /\ \A i \in 1..Capacity : SubSeq(all(c), 1, Capacity)[i] = all(c)[i]
    BY <2>3, <2>4, SubSeqProperties
  <2>6. Below(SubSeq(all(c), 1, Capacity), last)  BY <2>2, <2>3, <2>4, <2>5 DEF Below
  <2> QED  BY <2>1, <2>3, <2>4, <2>5, <2>6
<1>7. ASSUME NEW c \in full, conn[c] \in {"missed", "ready", "following"}
      PROVE  Climbs(SubSeq(all(c), 1, Capacity), Reach(c))
  <2>1. c \in subscribers /\ c \in Client /\ Capacity \in 0..Len(all(c))  BY <1>3, <1>6
  <2>2. all(c) \in Seq(Nat) /\ Climbs(all(c), Reach(c)) /\ Reach(c) \in Nat
    BY <2>1, <1>2, <1>4, <1>5, <1>7
  <2> QED  BY <2>1, <2>2, PrefixClimbs
<1> HIDE DEF full
<1>8. ASSUME NEW c \in Client
      PROVE  taken(c) \in Seq(Nat) /\ Below(taken(c), last)
  BY <1>2, <1>4, <1>6
<1>9. ASSUME NEW c \in Client, conn[c] \in {"missed", "ready", "following"}
      PROVE  /\ Climbs(taken(c), Reach(c))
             /\ c \in subscribers \ full => EndsAt(taken(c), b, Reach(c))
  <2>1. CASE c \in full  BY <2>1, <1>7, <1>9
  <2>2. CASE c \notin full /\ c \in subscribers  BY <2>2, <1>5, <1>9
  <2>3. CASE c \notin full /\ c \notin subscribers  BY <2>3, <1>9 DEF IInv, QueueFollows
  <2> QED  BY <2>1, <2>2, <2>3
<1>10. full \subseteq subscribers  BY DEF full
<1>11. \A c \in Client : c \notin subscribers => taken(c) = queue[c]  BY <1>10
<1> HIDE DEF taken
<1> QED  BY <1>1, <1>3, <1>8, <1>9, <1>10, <1>11

\* What writers do without a fan-out leaves queues and readers alone; the log only grows.
LEMMA WriterStep ==
  ASSUME IInv, NEW w \in Writer, Commits(w) \/ Calls(w) \/ Appends(w) \/ Replays(w) \/ CutShort(w)
  PROVE  IInv'
<1> USE StreamAssumption DEF IInv
<1>1. /\ UNCHANGED <<published, cursor, conn, fanned, reading, restarts>>
      /\ last' \in Nat /\ last' >= last
  BY DEF TypeOK, log, Commits, Calls, Appends, Replays, CutShort
<1>2. TypeOK'
  <2>1. CASE Commits(w)
    <3>1. at' \in [Writer -> {"idle", "emitting", "publishing", "appended", "replayed", "gap"}]
      BY <2>1 DEF TypeOK, Commits
    <3>2. last' \in Nat  BY <1>1
    <3> QED  BY <1>1, <2>1, <3>1, <3>2 DEF TypeOK, fanned, reading, Commits
  <2>2. CASE Calls(w)  BY <2>2 DEF TypeOK, log, fanned, reading, Calls
  <2>3. CASE Appends(w)  BY <2>3 DEF TypeOK, fanned, reading, Appends
  <2>4. CASE Replays(w)  BY <2>4 DEF TypeOK, log, fanned, reading, Replays
  <2>5. CASE CutShort(w)  BY <2>5 DEF TypeOK, log, fanned, reading, CutShort, Returns
  <2> QED  BY <2>1, <2>2, <2>3, <2>4, <2>5
<1>3. LockHolds'
  <2>1. CASE Commits(w)  BY <2>1 DEF TypeOK, LockHolds, Commits
  <2>2. CASE Calls(w)  BY <2>2 DEF TypeOK, LockHolds, Calls, log
  <2>3. CASE Appends(w)  BY <2>3 DEF TypeOK, LockHolds, Appends
  <2>4. CASE Replays(w)  BY <2>4 DEF TypeOK, LockHolds, Replays, log
  <2>5. CASE CutShort(w)  BY <2>5 DEF TypeOK, LockHolds, CutShort, Returns, log
  <2> QED  BY <2>1, <2>2, <2>3, <2>4, <2>5
<1>4. Bounded'
  <2> SUFFICES ASSUME NEW c \in Client
               PROVE  /\ cursor[c] # NoCursor => cursor[c] <= last'
                      /\ covered[c] <= last' /\ floor[c] <= last'
                      /\ Below(queue[c], last')
                      /\ conn[c] = "away" => c \notin subscribers /\ queue[c] = <<>>
                      /\ conn[c] # "following" => floor[c] = 0 /\ owed[c] = <<>>
    BY <1>1 DEF Bounded, fanned, reading
  <2>1. queue[c] \in Seq(Nat) /\ \A i \in 1..Len(queue[c]) : queue[c][i] \in Nat
    BY ElementOfSeq DEF TypeOK
  <2>2. Below(queue[c], last')  BY <1>1, <2>1 DEF Below, Bounded, TypeOK
  <2> QED  BY <1>1, <2>2 DEF Bounded, TypeOK
<1>5. QueueFollows'  BY <1>1 DEF QueueFollows, Reach, fanned, reading
<1>6. PrologueFollows'  BY <1>1 DEF PrologueFollows, fanned, reading
<1> QED  BY <1>2, <1>3, <1>4, <1>5, <1>6

\* The step that fans rows out, up to the last row this writer knows of.
LEMMA FanStep ==
  ASSUME IInv, NEW w \in Writer, Fans(w) \/ FansReplay(w)
  PROVE  IInv'
<1> USE StreamAssumption
<1>1. CASE Fans(w) /\ GapFrom(w) < upto[w]
  <2>1. at' = [at EXCEPT ![w] = "gap"]
        /\ UNCHANGED <<last, published, lock, upto, cursor, conn, fanned, reading, restarts>>
    BY <1>1 DEF Fans
  <2>2. at[w] = "appended"  BY <1>1 DEF Fans
  <2>3. TypeOK' /\ LockHolds'  BY <2>1, <2>2 DEF IInv, TypeOK, LockHolds, fanned, reading
  <2>4. Bounded' /\ QueueFollows' /\ PrologueFollows'
    BY <2>1 DEF IInv, Bounded, QueueFollows, PrologueFollows, Reach, fanned, reading
  <2> QED  BY <2>3, <2>4 DEF IInv
<1>2. CASE (Fans(w) /\ ~(GapFrom(w) < upto[w])) \/ FansReplay(w)
  <2>1. /\ at[w] \in {"appended", "gap", "replayed"}
        /\ upto[w] \in Nat /\ published \in Nat /\ last \in Nat
        /\ upto[w] <= last /\ published <= upto[w] /\ lock = w
    BY <1>2 DEF Fans, FansReplay, IInv, TypeOK, LockHolds
  <2>2. PICK a \in Nat : FanOut(a, upto[w]) /\ (subscribers # {} => a = published + 1)
    <3>1. CASE FansReplay(w)
      <4>1. published + 1 \in Nat  BY <2>1
      <4> QED  BY <3>1, <4>1 DEF FansReplay
    <3>2. CASE Fans(w) /\ ~(GapFrom(w) < upto[w])
      <4>1. FanOut(upto[w], upto[w])  BY <3>2 DEF Fans
      <4>2. published < upto[w]  BY <3>2 DEF Fans, IInv, LockHolds
      <4>3. subscribers # {} => upto[w] = published + 1
        BY <3>2, <4>2, <2>1 DEF GapFrom
      <4> QED  BY <4>1, <4>3, <2>1
    <3> QED  BY <3>1, <3>2, <1>2
  <2>3. /\ published' = upto[w] /\ Returns(w)
        /\ UNCHANGED <<last, cursor, conn, reading, restarts>>
    BY <1>2, <2>1 DEF Fans, FansReplay, Larger
  <2>4. /\ queue' \in [Client -> Seq(Nat)] /\ closed' \subseteq Client
        /\ subscribers' \subseteq subscribers
        /\ \A c \in Client : c \notin subscribers => queue'[c] = queue[c]
        /\ \A c \in Client : Below(queue'[c], last)
        /\ \A c \in Client : conn[c] \in {"missed", "ready", "following"} =>
             /\ Climbs(queue'[c], Reach(c))
             /\ c \in subscribers' => EndsAt(queue'[c], upto[w], Reach(c))
    BY <2>1, <2>2, FanOutKeeps
  <2>5. TypeOK'  BY <2>1, <2>3, <2>4 DEF IInv, TypeOK, Returns, reading
  <2>6. LockHolds'
    <3>1. \A v \in Writer : at'[v] \in {"appended", "gap", "replayed"} => v = w \/ lock = v
      BY <2>3 DEF IInv, TypeOK, LockHolds, Returns
    <3>2. at'[w] = "idle"  BY <2>3 DEF IInv, TypeOK, Returns
    <3>3. \A v \in Writer : at'[v] \notin {"appended", "gap", "replayed"}
      BY <2>1, <3>1, <3>2
    <3> QED  BY <2>1, <2>3, <3>3 DEF IInv, TypeOK, LockHolds, Returns
  <2>7. Bounded'  BY <2>3, <2>4 DEF IInv, Bounded, reading
  <2>8. QueueFollows'  BY <2>3, <2>4 DEF QueueFollows, Reach, reading
  <2>9. PrologueFollows'  BY <2>3 DEF IInv, PrologueFollows, reading
  <2> QED  BY <2>5, <2>6, <2>7, <2>8, <2>9 DEF IInv
<1> QED  BY <1>1, <1>2

\* A connection reads what it will install: rows, the tail, what the client missed.
LEMMA ReadStep ==
  ASSUME IInv, NEW c \in Client, Connects(c) \/ Snapshots(c) \/ ReadsTail(c) \/ ReadsMissed(c)
  PROVE  IInv'
<1> USE StreamAssumption
<1>1. /\ UNCHANGED <<last, published, lock, at, upto, cursor, queue, closed, owed, floor, restarts>>
      /\ \A d \in Client : d # c => /\ conn'[d] = conn[d] /\ covered'[d] = covered[d]
                                   /\ (d \in subscribers') = (d \in subscribers)
      /\ conn[c] # "following" /\ conn'[c] \notin {"away", "following"}
  BY DEF IInv, TypeOK, Connects, Snapshots, ReadsTail, ReadsMissed, log, writers, fanned, reading
<1>2. TypeOK'
  <2>1. CASE Connects(c)
    BY <1>1, <2>1 DEF IInv, TypeOK, Connects, reading
  <2>2. CASE Snapshots(c)  BY <1>1, <2>2 DEF IInv, TypeOK, Snapshots, fanned
  <2>3. CASE ReadsTail(c)  BY <1>1, <2>3 DEF IInv, TypeOK, ReadsTail, fanned
  <2>4. CASE ReadsMissed(c)  BY <1>1, <2>4 DEF IInv, TypeOK, ReadsMissed, fanned
  <2> QED  BY <2>1, <2>2, <2>3, <2>4
<1>3. LockHolds'  BY <1>1 DEF IInv, LockHolds
<1>4. covered'[c] \in Nat /\ covered'[c] <= last
  BY DEF IInv, TypeOK, Bounded, Connects, Snapshots, ReadsTail, ReadsMissed, reading
<1>5. Bounded'
  <2> SUFFICES ASSUME NEW d \in Client
               PROVE  /\ cursor[d] # NoCursor => cursor[d] <= last
                      /\ covered'[d] <= last /\ floor[d] <= last
                      /\ Below(queue[d], last)
                      /\ conn'[d] = "away" => d \notin subscribers' /\ queue[d] = <<>>
                      /\ conn'[d] # "following" => floor[d] = 0 /\ owed[d] = <<>>
    BY <1>1 DEF Bounded
  <2>1. CASE d # c  BY <2>1, <1>1 DEF IInv, Bounded
  <2>2. CASE d = c  BY <2>2, <1>1, <1>4 DEF IInv, Bounded
  <2> QED  BY <2>1, <2>2
<1>6. QueueFollows'
  <2> SUFFICES ASSUME NEW d \in Client, conn'[d] \in {"missed", "ready", "following"}
               PROVE  /\ Climbs(queue[d], Reach(d)')
                      /\ d \in subscribers' => EndsAt(queue[d], published, Reach(d)')
    BY <1>1 DEF QueueFollows
  <2>1. CASE d # c  BY <2>1, <1>1 DEF IInv, QueueFollows, Reach
  <2>2. CASE d = c /\ ReadsTail(c)
    <3>1. Reach(c)' = last  BY <1>1, <2>2 DEF ReadsTail, Reach, IInv, TypeOK
    <3>2. queue[c] \in Seq(Nat) /\ Below(queue[c], last) /\ published <= last /\ last \in Nat
      BY DEF IInv, TypeOK, Bounded, LockHolds
    <3>3. \A i \in 1..Len(queue[c]) : queue[c][i] \in Nat  BY <3>2, ElementOfSeq
    <3>4. Climbs(queue[c], last)  BY <3>2, <3>3 DEF Climbs, Below
    <3>5. EndsAt(queue[c], published, last)  BY <3>2 DEF EndsAt
    <3> QED  BY <2>2, <3>1, <3>4, <3>5
  <2>3. CASE d = c /\ ReadsMissed(c)
    <3>1. /\ covered[c] \in Nat /\ last \in Nat /\ published \in Nat /\ queue[c] \in Seq(Nat)
          /\ covered[c] <= last /\ cursor[c] \in Nat \union {NoCursor}
      BY DEF IInv, TypeOK, Bounded
    <3>2. Reach(c) = covered[c] /\ Reach(c)' = covered'[c] /\ covered'[c] >= covered[c]
      BY <1>1, <2>3, <3>1 DEF ReadsMissed, Reach, IInv, TypeOK
    <3>3. Climbs(queue[c], covered[c]) /\ (c \in subscribers => EndsAt(queue[c], published, covered[c]))
      BY <2>3, <3>2 DEF IInv, QueueFollows, ReadsMissed
    <3>4. \A i \in 1..Len(queue[c]) : queue[c][i] \in Nat  BY <3>1, ElementOfSeq
    <3>5. Climbs(queue[c], covered'[c])
      <4> SUFFICES ASSUME NEW i \in 1..Len(queue[c])
                   PROVE  queue[c][i] <= covered'[c] + 1 \/ (i > 1 /\ queue[c][i] = queue[c][i - 1] + 1)
        BY DEF Climbs
      <4>1. queue[c][i] <= covered[c] + 1 \/ (i > 1 /\ queue[c][i] = queue[c][i - 1] + 1)
        BY <3>3 DEF Climbs
      <4>2. queue[c][i] <= covered[c] + 1 => queue[c][i] <= covered'[c] + 1
        <5>1. queue[c][i] \in Nat  BY <3>4
        <5> QED  BY <5>1, <3>1, <3>2, <1>4
      <4> QED  BY <4>1, <4>2
    <3>6. c \in subscribers => EndsAt(queue[c], published, covered'[c])
      BY <3>1, <3>2, <3>3, <1>4 DEF EndsAt
    <3>7. subscribers' = subscribers  BY <2>3 DEF ReadsMissed, fanned
    <3> QED  BY <2>3, <3>2, <3>5, <3>6, <3>7
  <2>4. CASE d = c /\ (Connects(c) \/ Snapshots(c))
    BY <2>4 DEF Connects, Snapshots, IInv, TypeOK
  <2> QED  BY <2>1, <2>2, <2>3, <2>4
<1>7. PrologueFollows'
  <2> SUFFICES ASSUME NEW d \in Client
               PROVE  /\ conn'[d] \in {"missed", "ready"} /\ cursor[d] # NoCursor
                           => cursor[d] <= covered'[d]
                      /\ conn'[d] = "following" =>
                           /\ Run(owed[d], floor[d])
                           /\ owed[d] = <<>> => cursor[d] = floor[d]
                           /\ owed[d] # <<>> /\ cursor[d] # NoCursor =>
                                Head(owed[d]) = cursor[d] \/ Head(owed[d]) = cursor[d] + 1
    BY <1>1 DEF PrologueFollows
  <2>1. CASE d # c  BY <2>1, <1>1 DEF IInv, PrologueFollows
  <2>2. CASE d = c /\ ReadsTail(c)
    BY <2>2, <1>1 DEF ReadsTail, IInv, TypeOK, Bounded
  <2>3. CASE d = c /\ ReadsMissed(c)
    <3>1. cursor[c] # NoCursor => cursor[c] <= covered[c] /\ cursor[c] <= last
      BY <2>3 DEF ReadsMissed, IInv, PrologueFollows, Bounded
    <3>2. covered'[c] = last \/ covered'[c] = covered[c]
      BY <2>3 DEF ReadsMissed, IInv, TypeOK
    <3> QED  BY <2>3, <3>1, <3>2, <1>1
  <2>4. CASE d = c /\ (Connects(c) \/ Snapshots(c))
    BY <2>4, <1>1 DEF Connects, Snapshots, IInv, TypeOK
  <2> QED  BY <2>1, <2>2, <2>3, <2>4
<1> QED  BY <1>2, <1>3, <1>5, <1>6, <1>7 DEF IInv

\* A prologue goes from the client's position to what was read.
LEMMA InstallStep ==
  ASSUME IInv, NEW c \in Client, Installs(c)
  PROVE  IInv'
<1> USE StreamAssumption
<1>1. /\ UNCHANGED <<last, published, lock, at, upto, cursor, subscribers, queue, closed, restarts>>
      /\ conn[c] = "ready"
      /\ conn' = [conn EXCEPT ![c] = "following"]
      /\ covered' = [covered EXCEPT ![c] = 0]
      /\ owed' = [owed EXCEPT ![c] = Prologue(c)]
      /\ floor' = [floor EXCEPT ![c] = FloorAfter(c)]
  BY DEF Installs, log, writers, fanned
<1>2. /\ covered[c] \in Nat /\ covered[c] <= last /\ last \in Nat /\ floor[c] = 0
      /\ cursor[c] \in Nat \union {NoCursor}
      /\ cursor[c] # NoCursor => cursor[c] <= covered[c]
  BY <1>1 DEF IInv, TypeOK, Bounded, PrologueFollows
<1>3. FloorAfter(c) = covered[c]  BY <1>2 DEF FloorAfter, Larger
<1>4. /\ Prologue(c) \in Seq(Nat) /\ Prologue(c) # <<>> /\ Run(Prologue(c), covered[c])
      /\ cursor[c] # NoCursor => Head(Prologue(c)) = cursor[c]
  <2>1. CASE cursor[c] = NoCursor
    <3>1. Prologue(c) = <<covered[c]>>  BY <2>1 DEF Prologue
    <3>2. <<covered[c]>> \in Seq(Nat) /\ Len(<<covered[c]>>) = 1 /\ <<covered[c]>>[1] = covered[c]
      BY <1>2
    <3>3. <<covered[c]>> # <<>>  BY <3>2, EmptySeq
    <3>4. Run(<<covered[c]>>, covered[c])  BY <3>2, <1>2 DEF Run
    <3> QED  BY <2>1, <3>1, <3>2, <3>3, <3>4
  <2>2. CASE cursor[c] # NoCursor
    <3>1. cursor[c] \in Nat /\ cursor[c] <= covered[c]  BY <2>2, <1>2
    <3>2. Prologue(c) = <<cursor[c]>> \o Span(cursor[c] + 1, covered[c])
      BY <2>2 DEF Prologue
    <3> QED  BY <3>1, <3>2, <1>2, PrologueRuns
  <2> QED  BY <2>1, <2>2
<1>5. TypeOK'  BY <1>1, <1>2, <1>3, <1>4 DEF IInv, TypeOK
<1>6. LockHolds'  BY <1>1 DEF IInv, LockHolds
<1>7. Bounded'  BY <1>1, <1>2, <1>3 DEF IInv, TypeOK, Bounded
<1>8. QueueFollows'
  <2>1. \A d \in Client : conn'[d] \in {"missed", "ready", "following"} =>
          conn[d] \in {"missed", "ready", "following"} /\ Reach(d)' = Reach(d)
    BY <1>1, <1>3 DEF IInv, TypeOK, Reach
  <2> QED  BY <1>1, <2>1 DEF IInv, QueueFollows
<1>9. PrologueFollows'
  BY <1>1, <1>3, <1>4 DEF IInv, TypeOK, PrologueFollows
<1> QED  BY <1>5, <1>6, <1>7, <1>8, <1>9 DEF IInv

\* A frame is handed over: the client's cursor moves along the prologue, or the queue.
LEMMA HandStep ==
  ASSUME IInv, NEW c \in Client, HandsOwed(c) \/ HandsQueued(c)
  PROVE  IInv'
<1> USE StreamAssumption
<1>0. /\ UNCHANGED <<last, published, lock, at, upto, conn, subscribers, closed, covered, restarts>>
      /\ conn[c] = "following"
  BY DEF HandsOwed, HandsQueued, log, writers, fanned
<1>1. /\ floor[c] \in Nat /\ last \in Nat /\ floor[c] <= last /\ published \in Nat
      /\ queue[c] \in Seq(Nat) /\ owed[c] \in Seq(Nat) /\ Reach(c) = floor[c]
      /\ Climbs(queue[c], floor[c]) /\ Below(queue[c], last) /\ Run(owed[c], floor[c])
      /\ c \in subscribers => EndsAt(queue[c], published, floor[c])
      /\ owed[c] = <<>> => cursor[c] = floor[c]
  BY <1>0 DEF IInv, TypeOK, Bounded, QueueFollows, PrologueFollows, Reach
<1>2. CASE HandsOwed(c)
  <2>1. /\ UNCHANGED <<queue, floor>> /\ owed[c] # <<>>
        /\ cursor' = [cursor EXCEPT ![c] = Head(owed[c])]
        /\ owed' = [owed EXCEPT ![c] = Tail(owed[c])]
    BY <1>2 DEF HandsOwed, fanned
  <2>2. /\ Head(owed[c]) \in Nat /\ Head(owed[c]) <= floor[c]
        /\ Tail(owed[c]) \in Seq(Nat) /\ Run(Tail(owed[c]), floor[c])
        /\ Tail(owed[c]) = <<>> => Head(owed[c]) = floor[c]
        /\ Tail(owed[c]) # <<>> => Head(Tail(owed[c])) = Head(owed[c]) + 1
    BY <1>1, <2>1, RunTaken
  <2>3. TypeOK'  BY <1>0, <2>1, <2>2 DEF IInv, TypeOK
  <2>4. LockHolds'  BY <1>0 DEF IInv, LockHolds
  <2>5. Bounded'
    <3>1. cursor'[c] <= last
      <4>1. cursor'[c] = Head(owed[c])  BY <2>1 DEF IInv, TypeOK
      <4> QED  BY <4>1, <1>1, <2>2
    <3>2. \A d \in Client : d # c => cursor'[d] = cursor[d] /\ owed'[d] = owed[d]
      BY <2>1 DEF IInv, TypeOK
    <3> QED  BY <1>0, <2>1, <3>1, <3>2 DEF IInv, Bounded
  <2>6. QueueFollows'  BY <1>0, <2>1 DEF IInv, QueueFollows, Reach
  <2>7. PrologueFollows'  BY <1>0, <2>1, <2>2 DEF IInv, TypeOK, PrologueFollows
  <2> QED  BY <2>3, <2>4, <2>5, <2>6, <2>7 DEF IInv
<1>3. CASE HandsQueued(c)
  <2>1. /\ UNCHANGED owed /\ queue[c] # <<>> /\ owed[c] = <<>>
        /\ queue' = [queue EXCEPT ![c] = Tail(queue[c])]
    BY <1>3 DEF HandsQueued
  <2>2. /\ Head(queue[c]) \in Nat /\ Head(queue[c]) <= floor[c] + 1
        /\ Tail(queue[c]) \in Seq(Nat)
        /\ Climbs(Tail(queue[c]), Larger(floor[c], Head(queue[c])))
        /\ EndsAt(queue[c], published, floor[c])
             => EndsAt(Tail(queue[c]), published, Larger(floor[c], Head(queue[c])))
    BY <1>1, <2>1, HeadTaken
  <2>3. /\ floor' = [floor EXCEPT ![c] = Larger(floor[c], Head(queue[c]))]
        /\ cursor' = [cursor EXCEPT ![c] = Larger(floor[c], Head(queue[c]))]
    <3>1. CASE Head(queue[c]) <= floor[c]
      <4>1. UNCHANGED <<cursor, floor>>  BY <1>3, <3>1 DEF HandsQueued
      <4>2. Larger(floor[c], Head(queue[c])) = floor[c]
        BY <3>1, <2>2, <1>1 DEF Larger
      <4> QED  BY <4>1, <4>2, <1>1, <2>1 DEF IInv, TypeOK
    <3>2. CASE ~(Head(queue[c]) <= floor[c])
      <4>1. Larger(floor[c], Head(queue[c])) = Head(queue[c])
        BY <3>2, <2>2, <1>1 DEF Larger
      <4> QED  BY <1>3, <3>2, <4>1 DEF HandsQueued
    <3> QED  BY <3>1, <3>2
  <2>4. Head(queue[c]) <= last
    <3>1. Head(queue[c]) = queue[c][1] /\ 1 \in 1..Len(queue[c])
      BY <1>1, <2>1, EmptySeq
    <3> QED  BY <1>1, <3>1 DEF Below
  <2>5. /\ Larger(floor[c], Head(queue[c])) \in Nat
        /\ Larger(floor[c], Head(queue[c])) <= last
    BY <1>1, <2>2, <2>4 DEF Larger
  <2>6. Below(Tail(queue[c]), last)
    <3>1. /\ Len(Tail(queue[c])) = Len(queue[c]) - 1 /\ Len(queue[c]) \in Nat
          /\ \A i \in 1..Len(Tail(queue[c])) : Tail(queue[c])[i] = queue[c][i + 1]
      BY <1>1, <2>1, HeadTailProperties
    <3> QED  BY <1>1, <3>1 DEF Below
  <2>7. TypeOK'  BY <1>0, <2>1, <2>2, <2>3, <2>5 DEF IInv, TypeOK
  <2>8. LockHolds'  BY <1>0 DEF IInv, LockHolds
  <2>9. Bounded'  BY <1>0, <2>1, <2>3, <2>5, <2>6 DEF IInv, TypeOK, Bounded
  <2>10. QueueFollows'
    <3>1. \A d \in Client : d # c => queue'[d] = queue[d] /\ Reach(d)' = Reach(d)
      BY <1>0, <2>1, <2>3 DEF IInv, TypeOK, Reach
    <3>2. /\ queue'[c] = Tail(queue[c]) /\ Reach(c)' = Larger(floor[c], Head(queue[c]))
      BY <1>0, <2>1, <2>3 DEF IInv, TypeOK, Reach
    <3>3. /\ Climbs(queue'[c], Reach(c)')
          /\ c \in subscribers' => EndsAt(queue'[c], published', Reach(c)')
      BY <1>0, <1>1, <2>2, <3>2
    <3> QED  BY <1>0, <3>1, <3>3 DEF IInv, QueueFollows
  <2>11. PrologueFollows'
    <3>1. owed'[c] = <<>> /\ cursor'[c] = floor'[c]
      BY <2>1, <2>3 DEF IInv, TypeOK
    <3>2. Run(<<>>, floor'[c])  BY EmptySeq DEF Run
    <3> QED  BY <1>0, <2>1, <2>3, <3>1, <3>2 DEF IInv, TypeOK, PrologueFollows
  <2> QED  BY <2>7, <2>8, <2>9, <2>10, <2>11 DEF IInv
<1> QED  BY <1>2, <1>3

\* Connections go, one or all, and with them what this side held.
LEMMA GoneStep ==
  ASSUME IInv, NEW gone \in SUBSET Client, Released(gone), UNCHANGED <<last, cursor>>,
         \/ UNCHANGED <<published, lock, at, upto>>
         \/ /\ published' = 0 /\ lock' = Nobody /\ gone = Client
            /\ at' = [w \in Writer |-> "idle"] /\ upto' = [w \in Writer |-> 0],
         restarts' \in Nat
  PROVE  IInv'
<1> USE StreamAssumption
<1>1. Len(<<>>) = 0 /\ <<>> \in Seq(Nat)  BY EmptySeq
<1>2. \A c \in gone : /\ conn'[c] = "away" /\ queue'[c] = <<>> /\ covered'[c] = 0
                      /\ owed'[c] = <<>> /\ floor'[c] = 0 /\ c \notin subscribers'
  BY DEF Released
<1>3. \A c \in Client : c \notin gone =>
        /\ conn'[c] = conn[c] /\ queue'[c] = queue[c] /\ covered'[c] = covered[c]
        /\ owed'[c] = owed[c] /\ floor'[c] = floor[c]
        /\ (c \in subscribers') = (c \in subscribers)
        /\ UNCHANGED published
  BY DEF Released
<1>4. TypeOK'
  <2>1. /\ queue' \in [Client -> Seq(Nat)] /\ owed' \in [Client -> Seq(Nat)]
        /\ covered' \in [Client -> Nat] /\ floor' \in [Client -> Nat]
        /\ subscribers' \subseteq Client /\ closed' \subseteq Client
    BY <1>1 DEF IInv, TypeOK, Released
  <2>2. conn' \in [Client -> {"away", "snapshot", "tail", "missed", "ready", "following"}]
    BY DEF IInv, TypeOK, Released
  <2>3. /\ last' \in Nat /\ published' \in Nat /\ lock' \in Writer \union {Nobody}
        /\ at' \in [Writer -> {"idle", "emitting", "publishing", "appended", "replayed", "gap"}]
        /\ upto' \in [Writer -> Nat]
        /\ cursor' \in [Client -> Nat \union {NoCursor}]
    BY DEF IInv, TypeOK
  <2> QED  BY <2>1, <2>2, <2>3 DEF TypeOK
<1>5. LockHolds'
  <2>1. CASE UNCHANGED <<published, lock, at, upto>>  BY <2>1 DEF IInv, LockHolds
  <2>2. CASE published' = 0 /\ at' = [w \in Writer |-> "idle"] /\ upto' = [w \in Writer |-> 0]
    BY <2>2 DEF IInv, TypeOK, LockHolds
  <2> QED  BY <2>1, <2>2
<1>6. Bounded'
  <2> SUFFICES ASSUME NEW c \in Client
               PROVE  /\ cursor[c] # NoCursor => cursor[c] <= last
                      /\ covered'[c] <= last /\ floor'[c] <= last
                      /\ Below(queue'[c], last)
                      /\ conn'[c] = "away" => c \notin subscribers' /\ queue'[c] = <<>>
                      /\ conn'[c] # "following" => floor'[c] = 0 /\ owed'[c] = <<>>
    BY DEF Bounded
  <2>1. CASE c \in gone
    <3>1. Below(<<>>, last)  BY <1>1 DEF Below
    <3> QED  BY <2>1, <3>1, <1>2 DEF IInv, TypeOK, Bounded
  <2>2. CASE c \notin gone  BY <2>2, <1>3 DEF IInv, Bounded
  <2> QED  BY <2>1, <2>2
<1>7. QueueFollows'  BY <1>2, <1>3 DEF IInv, QueueFollows, Reach
<1>8. PrologueFollows'  BY <1>2, <1>3 DEF IInv, PrologueFollows
<1> QED  BY <1>4, <1>5, <1>6, <1>7, <1>8 DEF IInv

LEMMA ForgetStep ==
  ASSUME IInv, NEW c \in Client, Forgets(c)
  PROVE  IInv'
<1>1. /\ UNCHANGED <<last, published, lock, at, upto, conn, subscribers, queue, closed>>
      /\ UNCHANGED <<covered, owed, floor, restarts>>
      /\ conn[c] = "away" /\ cursor' = [cursor EXCEPT ![c] = NoCursor]
  BY DEF Forgets, log, writers, fanned, reading
<1>2. TypeOK'  BY <1>1 DEF IInv, TypeOK
<1>3. LockHolds' /\ QueueFollows'  BY <1>1 DEF IInv, LockHolds, QueueFollows, Reach
<1>4. Bounded'  BY <1>1 DEF IInv, TypeOK, Bounded
<1>5. PrologueFollows'  BY <1>1 DEF IInv, TypeOK, PrologueFollows
<1> QED  BY <1>2, <1>3, <1>4, <1>5 DEF IInv

LEMMA StepHolds == IInv /\ [Next]_vars => IInv'
<1> SUFFICES ASSUME IInv, [Next]_vars PROVE IInv'
  OBVIOUS
<1>1. ASSUME NEW w \in Writer, Commits(w) \/ Calls(w) \/ Write(w) \/ CutShort(w)
      PROVE  IInv'
  <2>1. CASE Commits(w) \/ Calls(w) \/ Appends(w) \/ Replays(w) \/ CutShort(w)
    BY <2>1, WriterStep
  <2>2. CASE Fans(w) \/ FansReplay(w)  BY <2>2, FanStep
  <2> QED  BY <1>1, <2>1, <2>2 DEF Write
<1>2. ASSUME NEW c \in Client, Connects(c) \/ Read(c)
      PROVE  IInv'
  <2>1. CASE Connects(c) \/ Snapshots(c) \/ ReadsTail(c) \/ ReadsMissed(c)
    BY <2>1, ReadStep
  <2>2. CASE Installs(c)  BY <2>2, InstallStep
  <2>3. CASE HandsOwed(c) \/ HandsQueued(c)  BY <2>3, HandStep
  <2>4. CASE Ends(c)
    <3>1. Released({c}) /\ UNCHANGED <<last, cursor, published, lock, at, upto>>
      BY <2>4 DEF Ends, log, writers
    <3>2. restarts' \in Nat  BY <2>4 DEF Ends, IInv, TypeOK
    <3>3. {c} \in SUBSET Client  OBVIOUS
    <3> QED  BY <3>1, <3>2, <3>3, GoneStep
  <2> QED  BY <1>2, <2>1, <2>2, <2>3, <2>4 DEF Read
<1>3. ASSUME NEW c \in Client, Leaves(c)
      PROVE  IInv'
  <2>1. Released({c}) /\ UNCHANGED <<last, cursor, published, lock, at, upto>>
    BY <1>3 DEF Leaves, log, writers
  <2>2. restarts' \in Nat  BY <1>3 DEF Leaves, IInv, TypeOK
  <2>3. {c} \in SUBSET Client  OBVIOUS
  <2> QED  BY <2>1, <2>2, <2>3, GoneStep
<1>4. ASSUME NEW c \in Client, Forgets(c)
      PROVE  IInv'
  BY <1>4, ForgetStep
<1>5. CASE Restart
  <2>1. /\ Released(Client) /\ UNCHANGED <<last, cursor>>
        /\ published' = 0 /\ lock' = Nobody
        /\ at' = [w \in Writer |-> "idle"] /\ upto' = [w \in Writer |-> 0]
    BY <1>5 DEF Restart
  <2>2. restarts' \in Nat  BY <1>5 DEF Restart, IInv, TypeOK
  <2>3. Client \in SUBSET Client  OBVIOUS
  <2> QED  BY <2>1, <2>2, <2>3, GoneStep
<1>6. CASE UNCHANGED vars
  <2>1. /\ UNCHANGED <<last, published, lock, at, upto, cursor, conn>>
        /\ UNCHANGED <<subscribers, queue, closed, covered, owed, floor, restarts>>
    BY <1>6 DEF vars, log, writers, fanned, reading
  <2> QED
    BY <2>1 DEF IInv, TypeOK, LockHolds, Bounded, QueueFollows, PrologueFollows, Reach
<1> QED  BY <1>1, <1>2, <1>3, <1>4, <1>5, <1>6 DEF Next

\* IInv is an invariant of the stream.
THEOREM Invariance == Spec => []IInv
<1>1. Init => IInv  BY InitHolds
<1>2. IInv /\ [Next]_vars => IInv'  BY StepHolds
<1> QED  BY <1>1, <1>2, PTL DEF Spec

\* Every variable keeps its shape.
THEOREM TypeCorrect == Spec => []TypeOK
<1>1. IInv => TypeOK  BY DEF IInv
<1> QED  BY <1>1, Invariance, PTL

-----------------------------------------------------------------------------
(* The stream implements the feed. *)

\* A frame that is handed over is the next event, or a position the client gets or has.
LEMMA HandFollows ==
  ASSUME IInv, NEW c \in Client, HandsOwed(c) \/ HandsQueued(c)
  PROVE  Promised!Join(c) \/ Promised!Follow(c) \/ UNCHANGED Promised!vars
<1> USE StreamAssumption
<1>0. UNCHANGED last /\ conn[c] = "following"
  BY DEF HandsOwed, HandsQueued, log
<1>1. /\ floor[c] \in Nat /\ last \in Nat /\ floor[c] <= last
      /\ queue[c] \in Seq(Nat) /\ owed[c] \in Seq(Nat)
      /\ Climbs(queue[c], floor[c]) /\ Below(queue[c], last) /\ Run(owed[c], floor[c])
      /\ owed[c] = <<>> => cursor[c] = floor[c]
      /\ owed[c] # <<>> /\ cursor[c] # NoCursor =>
           Head(owed[c]) = cursor[c] \/ Head(owed[c]) = cursor[c] + 1
      /\ cursor \in [Client -> Nat \union {NoCursor}]
  BY <1>0 DEF IInv, TypeOK, Bounded, QueueFollows, PrologueFollows, Reach
<1>2. CASE HandsOwed(c)
  <2>1. owed[c] # <<>> /\ cursor' = [cursor EXCEPT ![c] = Head(owed[c])]
    BY <1>2 DEF HandsOwed
  <2>2. Head(owed[c]) \in Nat /\ Head(owed[c]) <= last
    <3>1. Head(owed[c]) \in Nat /\ Head(owed[c]) <= floor[c]  BY <1>1, <2>1, RunTaken
    <3> QED  BY <1>1, <3>1
  <2>3. CASE cursor[c] = NoCursor
    <3>1. Head(owed[c]) \in 0..last  BY <1>1, <2>2
    <3> QED  BY <1>0, <2>1, <2>3, <3>1 DEF Promised!Join
  <2>4. CASE cursor[c] # NoCursor /\ Head(owed[c]) = cursor[c]
    <3>1. cursor' = cursor  BY <1>1, <2>1, <2>4
    <3> QED  BY <1>0, <3>1 DEF Promised!vars
  <2>5. CASE cursor[c] # NoCursor /\ Head(owed[c]) = cursor[c] + 1
    <3>1. cursor[c] \in Nat  BY <1>1, <2>5
    <3>2. cursor[c] < last  BY <1>1, <2>2, <2>5, <3>1
    <3> QED  BY <1>0, <2>1, <2>5, <3>2 DEF Promised!Follow
  <2> QED  BY <1>1, <2>1, <2>3, <2>4, <2>5
<1>3. CASE HandsQueued(c)
  <2>1. queue[c] # <<>> /\ owed[c] = <<>>
    BY <1>3 DEF HandsQueued
  <2>2. Head(queue[c]) \in Nat /\ Head(queue[c]) <= floor[c] + 1 /\ cursor[c] = floor[c]
    BY <1>1, <2>1, HeadTaken
  <2>3. CASE Head(queue[c]) <= floor[c]
    BY <1>0, <1>3, <2>3 DEF HandsQueued, Promised!vars
  <2>4. CASE ~(Head(queue[c]) <= floor[c])
    <3>1. Head(queue[c]) = cursor[c] + 1  BY <1>1, <2>2, <2>4
    <3>2. cursor' = [cursor EXCEPT ![c] = cursor[c] + 1]
      BY <1>3, <2>4, <3>1 DEF HandsQueued
    <3>3. Head(queue[c]) <= last
      <4>1. Head(queue[c]) = queue[c][1] /\ 1 \in 1..Len(queue[c])
        BY <1>1, <2>1, EmptySeq
      <4> QED  BY <1>1, <4>1 DEF Below
    <3>4. cursor[c] < last /\ cursor[c] # NoCursor  BY <1>1, <2>2, <3>1, <3>3
    <3> QED  BY <1>0, <3>2, <3>4 DEF Promised!Follow
  <2> QED  BY <2>3, <2>4
<1> QED  BY <1>2, <1>3

\* Every step of the stream is a step of the feed, or leaves rows and cursors alone.
LEMMA StepFollows == IInv /\ [Next]_vars => [Promised!Next]_(Promised!vars)
<1> SUFFICES ASSUME IInv, [Next]_vars PROVE Promised!Next \/ UNCHANGED Promised!vars
  OBVIOUS
<1> USE DEF Promised!vars
<1>1. ASSUME NEW w \in Writer, Commits(w) \/ Calls(w) \/ Write(w) \/ CutShort(w)
      PROVE  Promised!Next \/ UNCHANGED Promised!vars
  <2>1. last \in Nat  BY DEF IInv, TypeOK
  <2>2. CASE Commits(w) \/ Appends(w)
    <3>1. last' = last + 1 /\ UNCHANGED cursor  BY <2>2 DEF Commits, Appends
    <3>2. Promised!Happen  BY <2>1, <3>1 DEF Promised!Happen
    <3> QED  BY <3>2 DEF Promised!Next
  <2>3. CASE Calls(w) \/ Replays(w) \/ CutShort(w) \/ Fans(w) \/ FansReplay(w)
    BY <2>3 DEF Calls, Replays, CutShort, Fans, FansReplay, log
  <2> QED  BY <1>1, <2>2, <2>3 DEF Write
<1>2. ASSUME NEW c \in Client, Connects(c) \/ Read(c) \/ Leaves(c) \/ Forgets(c)
      PROVE  Promised!Next \/ UNCHANGED Promised!vars
  <2>1. CASE HandsOwed(c) \/ HandsQueued(c)
    BY <2>1, HandFollows DEF Promised!Next
  <2>2. CASE \/ Connects(c) \/ Snapshots(c) \/ ReadsTail(c) \/ ReadsMissed(c) \/ Installs(c)
             \/ Ends(c) \/ Leaves(c)
    BY <2>2 DEF Connects, Snapshots, ReadsTail, ReadsMissed, Installs, Ends, Leaves, log
  <2>3. CASE Forgets(c)
    BY <2>3 DEF Forgets, log, Promised!Forget, Promised!Next
  <2> QED  BY <1>2, <2>1, <2>2, <2>3 DEF Read
<1>3. CASE Restart  BY <1>3 DEF Restart
<1>4. CASE UNCHANGED vars  BY <1>4 DEF vars, log
<1> QED  BY <1>1, <1>2, <1>3, <1>4 DEF Next

\* A client of the stream is given the events of its session in order, each once, and
\* none is left out, whatever is lost, late, full or restarted on the way.
THEOREM Refinement == Spec => ImplementsFeed
<1>1. Init => Promised!Init  BY DEF Init, Promised!Init
<1>2. IInv /\ [Next]_vars => [Promised!Next]_(Promised!vars)  BY StepFollows
<1> QED  BY <1>1, <1>2, Invariance, PTL DEF Spec, ImplementsFeed, Promised!Spec
=============================================================================
