--------------------------- MODULE TrackerLemmas ----------------------------
(***************************************************************************)
(* What the proofs about the two trackers share: induction over the        *)
(* indices of a sequence; what Filter makes of a sequence that grows or    *)
(* loses its head; what sending and applying an update does to a table as  *)
(* it ends up.                                                             *)
(*                                                                         *)
(* The induction theorems of the library take the formula as an operator,  *)
(* which the provers cannot instantiate.  Here it is a set, and the        *)
(* induction follows from the least element of its complement.             *)
(***************************************************************************)
EXTENDS TrackerTable, Filter, WellFoundedInduction, TLAPS

(* A set of natural numbers that is not empty has a least element.         *)
LEMMA LeastNat ==
  ASSUME NEW T, T \subseteq Nat, T # {}
  PROVE  \E x \in T : \A y \in T : x <= y
<1>1. IsWellFoundedOn(OpToRel(<, Nat), Nat)
  BY NatLessThanWellFounded, Zenon
<1>2. PICK x \in T : \A y \in T : <<y, x>> \notin OpToRel(<, Nat)
  BY <1>1, WFMin, Zenon
<1>3. \A y \in T : ~(y < x)
  BY <1>2 DEF OpToRel
<1> QED
  BY <1>3

(* Induction over the indices from m to n, with the set P of those of      *)
(* which a formula holds in place of the formula.                          *)
LEMMA IndexInduction ==
  ASSUME NEW P, NEW m \in Nat, NEW n \in Nat, m \in P,
         \A i \in m..(n - 1) : i \in P => i + 1 \in P
  PROVE  m..n \subseteq P
<1> DEFINE T == (m..n) \ P
<1> SUFFICES ASSUME T # {} PROVE FALSE
  OBVIOUS
<1>1. T \subseteq Nat
  OBVIOUS
<1>2. PICK x \in T : \A y \in T : x <= y
  BY <1>1, LeastNat
<1>3. x # m /\ x - 1 \in m..(n - 1) /\ x - 1 \notin T
  BY <1>2
<1> QED
  BY <1>3

-----------------------------------------------------------------------------
(* g is the function by which Filter counts, as far as n.                  *)
Kept(g, s, wanted, n) ==
  g = [i \in 0..n |->
         IF i = 0 THEN << >>
         ELSE IF s[i] \in wanted THEN Append(g[i - 1], s[i])
         ELSE g[i - 1]]

(* There is such a function: one for k is extended by its value at k + 1.  *)
LEMMA KeptExists ==
  ASSUME NEW s, NEW wanted, NEW n \in Nat
  PROVE  \E g : Kept(g, s, wanted, n)
<1> DEFINE P == {k \in Nat : \E g : Kept(g, s, wanted, k)}
<1>1. 0 \in P
  <2> DEFINE g == [i \in 0..0 |-> << >>]
  <2>1. Kept(g, s, wanted, 0)
    BY DEF Kept
  <2> QED
    BY <2>1
<1>2. ASSUME NEW k \in 0..(n - 1), k \in P PROVE k + 1 \in P
  <2>1. PICK g : Kept(g, s, wanted, k)
    BY <1>2
  <2> DEFINE last == IF s[k + 1] \in wanted THEN Append(g[k], s[k + 1]) ELSE g[k]
             h == [i \in 0..(k + 1) |-> IF i <= k THEN g[i] ELSE last]
             Body(f, i) == IF i = 0 THEN << >>
                           ELSE IF s[i] \in wanted THEN Append(f[i - 1], s[i])
                           ELSE f[i - 1]
  <2>2. ASSUME NEW i \in 0..(k + 1) PROVE h[i] = Body(h, i)
    <3>1. CASE i <= k
      <4>1. i \in 0..k /\ h[i] = g[i] /\ (i # 0 => h[i - 1] = g[i - 1])
        BY <3>1
      <4>2. g[i] = Body(g, i)
        BY <2>1, <4>1 DEF Kept
      <4> QED
        BY <4>1, <4>2
    <3>2. CASE i = k + 1
      BY <3>2
    <3> QED
      BY <3>1, <3>2
  <2> HIDE DEF h
  <2>3. h = [i \in 0..(k + 1) |-> h[i]]
    BY DEF h
  <2>4. Kept(h, s, wanted, k + 1)
    BY <2>2, <2>3 DEF Kept
  <2> QED
    BY <2>4
<1> HIDE DEF P
<1>3. 0..n \subseteq P
  BY <1>1, <1>2, IndexInduction
<1> QED
  BY <1>3 DEF P

(* So what Filter returns is the last value of one.                        *)
LEMMA FilterIsKept ==
  ASSUME NEW s, NEW wanted, Len(s) \in Nat
  PROVE  \E g : Kept(g, s, wanted, Len(s)) /\ Filter(s, wanted) = g[Len(s)]
<1> DEFINE g == CHOOSE g : Kept(g, s, wanted, Len(s))
<1>1. Kept(g, s, wanted, Len(s))
  BY KeptExists
<1>2. Filter(s, wanted) = g[Len(s)]
  BY DEF Filter, Kept
<1> QED
  BY <1>1, <1>2

(* The two equations of the recursion.                                     *)
LEMMA KeptAt ==
  ASSUME NEW g, NEW s, NEW wanted, NEW n \in Nat, Kept(g, s, wanted, n)
  PROVE  /\ g[0] = << >>
         /\ \A i \in 1..n : g[i] = IF s[i] \in wanted THEN Append(g[i - 1], s[i])
                                                     ELSE g[i - 1]
<1> DEFINE Body(i) == IF i = 0 THEN << >>
                      ELSE IF s[i] \in wanted THEN Append(g[i - 1], s[i])
                      ELSE g[i - 1]
<1>1. \A i \in 0..n : g[i] = Body(i)
  BY DEF Kept
<1> QED
  BY <1>1

(* What is kept is wanted, and no more than there was.                     *)
LEMMA FilterTyped ==
  ASSUME NEW S, NEW s \in Seq(S), NEW wanted
  PROVE  /\ Filter(s, wanted) \in Seq(S \cap wanted)
         /\ Len(Filter(s, wanted)) <= Len(s)
<1> DEFINE n == Len(s)
           W == S \cap wanted
<1>1. n \in Nat /\ \A i \in 1..n : s[i] \in S
  OBVIOUS
<1>2. PICK g : Kept(g, s, wanted, n) /\ Filter(s, wanted) = g[n]
  BY <1>1, FilterIsKept
<1> HIDE DEF n
<1> DEFINE P == {k \in 0..n : g[k] \in Seq(W) /\ Len(g[k]) <= k}
<1>3. 0 \in P
  <2>1. g[0] = << >>
    BY <1>1, <1>2, KeptAt
  <2>2. << >> \in Seq(W) /\ Len(<< >>) <= 0
    OBVIOUS
  <2>3. g[0] \in Seq(W) /\ Len(g[0]) <= 0
    BY <2>1, <2>2
  <2> HIDE DEF W
  <2> QED
    BY <1>1, <2>3
<1>4. ASSUME NEW k \in 0..(n - 1), k \in P PROVE k + 1 \in P
  <2>1. k + 1 \in 1..n /\ k + 1 \in 0..n /\ (k + 1) - 1 = k
    BY <1>1
  <2>2. g[k + 1] = IF s[k + 1] \in wanted THEN Append(g[k], s[k + 1]) ELSE g[k]
    BY <1>1, <1>2, <2>1, KeptAt
  <2>3. g[k] \in Seq(W) /\ Len(g[k]) <= k
    BY <1>4
  <2>4. CASE s[k + 1] \in wanted
    <3>1. s[k + 1] \in W
      BY <1>1, <2>1, <2>4
    <3>2. Append(g[k], s[k + 1]) \in Seq(W)
          /\ Len(Append(g[k], s[k + 1])) = Len(g[k]) + 1
      BY <2>3, <3>1
    <3>3. g[k + 1] \in Seq(W) /\ Len(g[k + 1]) = Len(g[k]) + 1
      BY <2>2, <2>4, <3>2
    <3> HIDE DEF W
    <3>4. Len(g[k + 1]) <= k + 1
      BY <2>3, <3>3
    <3> QED
      BY <2>1, <3>3, <3>4
  <2>5. CASE s[k + 1] \notin wanted
    BY <2>1, <2>2, <2>3, <2>5
  <2> QED
    BY <2>4, <2>5
<1> HIDE DEF P
<1>5. 0..n \subseteq P
  BY <1>1, <1>3, <1>4, IndexInduction
<1>6. n \in P
  BY <1>1, <1>5
<1> QED
  BY <1>2, <1>6 DEF P, n

(* An element at the end is kept at the end, or left out.                  *)
LEMMA FilterAppend ==
  ASSUME NEW S, NEW s \in Seq(S), NEW e \in S, NEW wanted
  PROVE  Filter(Append(s, e), wanted) =
           IF e \in wanted THEN Append(Filter(s, wanted), e) ELSE Filter(s, wanted)
<1> DEFINE t == Append(s, e)
           n == Len(s)
<1>1. /\ n \in Nat /\ Len(t) = n + 1 /\ t[n + 1] = e
      /\ \A i \in 1..n : t[i] = s[i]
  OBVIOUS
<1> HIDE DEF t
<1>2. PICK g : Kept(g, s, wanted, n) /\ Filter(s, wanted) = g[n]
  BY <1>1, FilterIsKept
<1>3. PICK h : Kept(h, t, wanted, n + 1) /\ Filter(t, wanted) = h[n + 1]
  BY <1>1, FilterIsKept
<1> DEFINE P == {k \in 0..n : h[k] = g[k]}
<1> HIDE DEF n
<1>4. 0 \in P
  BY <1>1, <1>2, <1>3, KeptAt
<1>5. ASSUME NEW k \in 0..(n - 1), k \in P PROVE k + 1 \in P
  <2>1. k + 1 \in 1..n /\ k + 1 \in 1..(n + 1) /\ (k + 1) - 1 = k
    BY <1>1
  <2>2. g[k + 1] = IF s[k + 1] \in wanted THEN Append(g[k], s[k + 1]) ELSE g[k]
    BY <1>1, <1>2, <2>1, KeptAt
  <2>3. h[k + 1] = IF t[k + 1] \in wanted THEN Append(h[k], t[k + 1]) ELSE h[k]
    BY <1>1, <1>3, <2>1, KeptAt
  <2> QED
    BY <1>1, <1>5, <2>1, <2>2, <2>3
<1> HIDE DEF P
<1>9. 0..n \subseteq P
  BY <1>1, <1>4, <1>5, IndexInduction
<1>6. n \in P
  BY <1>1, <1>9
<1>7. n + 1 \in 1..(n + 1) /\ (n + 1) - 1 = n
  BY <1>1
<1>8. h[n + 1] = IF e \in wanted THEN Append(h[n], e) ELSE h[n]
  BY <1>1, <1>3, <1>7, KeptAt
<1> QED
  BY <1>2, <1>3, <1>6, <1>8 DEF P, t

(* To append to a sequence behind a is to append, then put it behind a.    *)
LEMMA BehindAppend ==
  ASSUME NEW S, NEW a \in S, NEW e \in S, NEW x \in Seq(S)
  PROVE  /\ << a >> \o x \in Seq(S)
         /\ Append(<< a >> \o x, e) = << a >> \o Append(x, e)
<1> DEFINE u == Append(<< a >> \o x, e)
           v == << a >> \o Append(x, e)
<1>1. /\ << a >> \in Seq(S) /\ Len(<< a >>) = 1
      /\ << a >> \o x \in Seq(S) /\ Len(<< a >> \o x) = Len(x) + 1
      /\ Append(x, e) \in Seq(S) /\ Len(Append(x, e)) = Len(x) + 1
  OBVIOUS
<1>2. /\ u \in Seq(S) /\ Len(u) = Len(x) + 2
      /\ v \in Seq(S) /\ Len(v) = Len(x) + 2
  BY <1>1
<1>3. \A i \in 1..(Len(x) + 2) : u[i] = v[i]
  BY <1>1
<1> HIDE DEF u, v
<1>4. u = v
  BY <1>2, <1>3
<1> QED
  BY <1>1, <1>4 DEF u, v

(* An element at the front is kept at the front, or left out.              *)
LEMMA FilterTail ==
  ASSUME NEW S, NEW s \in Seq(S), s # << >>, NEW wanted
  PROVE  Filter(s, wanted) = IF Head(s) \in wanted
                               THEN << Head(s) >> \o Filter(Tail(s), wanted)
                               ELSE Filter(Tail(s), wanted)
<1> DEFINE t == Tail(s)
           n == Len(s) - 1
           a == Head(s)
           Behind(x) == IF a \in wanted THEN << a >> \o x ELSE x
<1>1. /\ n \in Nat /\ Len(t) = n /\ Len(s) = n + 1 /\ s[1] = a /\ a \in S
      /\ t \in Seq(S)
      /\ \A i \in 1..n : t[i] = s[i + 1]
  OBVIOUS
<1> HIDE DEF t, a
<1>2. PICK g : Kept(g, s, wanted, n + 1) /\ Filter(s, wanted) = g[n + 1]
  BY <1>1, FilterIsKept
<1>3. PICK h : Kept(h, t, wanted, n) /\ Filter(t, wanted) = h[n]
  BY <1>1, FilterIsKept
<1> HIDE DEF n
<1> DEFINE P == {k \in 0..n : h[k] \in Seq(S) /\ g[k + 1] = Behind(h[k])}
<1>4. 0 \in P
  <2>1. h[0] = << >> /\ g[0] = << >>
    BY <1>1, <1>2, <1>3, KeptAt
  <2>2. 1 \in 1..(n + 1) /\ 1 - 1 = 0 /\ n + 1 \in Nat
    BY <1>1
  <2>3. g[1] = IF s[1] \in wanted THEN Append(g[0], s[1]) ELSE g[0]
    BY <1>2, <2>2, KeptAt
  <2>4. Append(<< >>, a) = << a >> \o << >> /\ << >> \in Seq(S)
    BY <1>1
  <2>5. g[1] = Behind(h[0])
    BY <1>1, <2>1, <2>3, <2>4
  <2>6. h[0] \in Seq(S)
    BY <2>1, <2>4
  <2> HIDE DEF Behind
  <2>7. g[0 + 1] = Behind(h[0]) /\ 0 \in 0..n
    BY <1>1, <2>5
  <2> QED
    BY <2>6, <2>7
<1>5. ASSUME NEW k \in 0..(n - 1), k \in P PROVE k + 1 \in P
  <2>1. /\ k + 1 \in 1..n /\ (k + 1) + 1 \in 1..(n + 1) /\ k + 1 \in 0..n
        /\ (k + 1) - 1 = k /\ ((k + 1) + 1) - 1 = k + 1 /\ n + 1 \in Nat
    BY <1>1
  <2> DEFINE e == t[k + 1]
  <2>2. h[k + 1] = IF e \in wanted THEN Append(h[k], e) ELSE h[k]
    BY <1>1, <1>3, <2>1, KeptAt
  <2>3. g[(k + 1) + 1] = IF s[(k + 1) + 1] \in wanted
                           THEN Append(g[((k + 1) + 1) - 1], s[(k + 1) + 1])
                           ELSE g[((k + 1) + 1) - 1]
    <3> DEFINE i == (k + 1) + 1
    <3>1. i \in 1..(n + 1) /\ n + 1 \in Nat
      BY <2>1
    <3> HIDE DEF i
    <3>2. g[i] = IF s[i] \in wanted THEN Append(g[i - 1], s[i]) ELSE g[i - 1]
      BY <1>2, <3>1, KeptAt
    <3> QED
      BY <3>2 DEF i
  <2>4. e = s[(k + 1) + 1] /\ e \in S
    BY <1>1, <2>1
  <2>5. h[k] \in Seq(S) /\ g[k + 1] = Behind(h[k])
    BY <1>5
  <2>6. g[(k + 1) + 1] = IF e \in wanted THEN Append(Behind(h[k]), e)
                                         ELSE Behind(h[k])
    BY <2>1, <2>3, <2>4, <2>5
  <2> HIDE DEF e
  <2>7. Append(h[k], e) \in Seq(S) /\ h[k + 1] \in Seq(S)
    BY <2>2, <2>4, <2>5
  <2>8. Append(<< a >> \o h[k], e) = << a >> \o Append(h[k], e)
    <3> DEFINE x == h[k]
    <3>1. a \in S /\ e \in S /\ x \in Seq(S)
      BY <1>1, <2>4, <2>5
    <3> HIDE DEF x
    <3>2. Append(<< a >> \o x, e) = << a >> \o Append(x, e)
      BY <3>1, BehindAppend
    <3> QED
      BY <3>2 DEF x
  <2>9. g[(k + 1) + 1] = Behind(h[k + 1])
    BY <2>2, <2>6, <2>8
  <2> QED
    BY <2>1, <2>7, <2>9
<1> HIDE DEF P
<1>6. 0..n \subseteq P
  BY <1>1, <1>4, <1>5, IndexInduction
<1>7. n \in P
  BY <1>1, <1>6
<1> QED
  BY <1>2, <1>3, <1>7 DEF P, t, a

-----------------------------------------------------------------------------
(* The last update sent about a connection decides.                        *)
LEMMA SendDecides ==
  ASSUME TypeOK, NEW u \in Update, Send(u), NEW c \in Conns
  PROVE  EndsPresent(c)' <=> IF u.conn = c THEN u.op = "add" ELSE EndsPresent(c)
<1> DEFINE n == Len(queue)
<1>1. /\ Len(queue') = n + 1 /\ n \in Nat
      /\ queue'[n + 1] = u
      /\ \A i \in 1..n : queue'[i] = queue[i]
      /\ present' = present
  BY DEF TypeOK, Send
<1> HIDE DEF n
<1>2. EndsPresent(c)' <=>
        \/ \E i \in 1..(n + 1) :
             /\ queue'[i].conn = c
             /\ \A j \in 1..(n + 1) : j > i => queue'[j].conn # c
             /\ queue'[i].op = "add"
        \/ c \in present /\ \A i \in 1..(n + 1) : queue'[i].conn # c
  BY <1>1 DEF EndsPresent, LastAbout
<1>3. EndsPresent(c) <=>
        \/ \E i \in 1..n :
             /\ queue[i].conn = c
             /\ \A j \in 1..n : j > i => queue[j].conn # c
             /\ queue[i].op = "add"
        \/ c \in present /\ \A i \in 1..n : queue[i].conn # c
  BY DEF EndsPresent, LastAbout, n
<1>4. CASE u.conn = c
  BY <1>1, <1>2, <1>4
<1>5. CASE u.conn # c
  BY <1>1, <1>2, <1>3, <1>5
<1> QED
  BY <1>4, <1>5

(* Applying the head changes nothing of how the table ends up.             *)
LEMMA ApplyKeeps ==
  ASSUME TypeOK, Apply, NEW c \in Conns
  PROVE  EndsPresent(c)' <=> EndsPresent(c)
<1> DEFINE n == Len(queue) - 1
<1>1. /\ n \in Nat /\ Len(queue') = n /\ Len(queue) = n + 1
      /\ \A i \in 1..n : queue'[i] = queue[i + 1]
      /\ Head(queue) = queue[1] /\ queue[1] \in Update
  BY DEF TypeOK, Apply
<1> HIDE DEF n
<1>2. EndsPresent(c)' <=>
        \/ \E i \in 1..n :
             /\ queue[i + 1].conn = c
             /\ \A j \in 1..n : j > i => queue[j + 1].conn # c
             /\ queue[i + 1].op = "add"
        \/ c \in present' /\ \A i \in 1..n : queue[i + 1].conn # c
  BY <1>1 DEF EndsPresent, LastAbout
<1>3. EndsPresent(c) <=>
        \/ \E i \in 1..(n + 1) :
             /\ queue[i].conn = c
             /\ \A j \in 1..(n + 1) : j > i => queue[j].conn # c
             /\ queue[i].op = "add"
        \/ c \in present /\ \A i \in 1..(n + 1) : queue[i].conn # c
  BY <1>1 DEF EndsPresent, LastAbout
<1>4. /\ \A i \in 2..(n + 1) : i - 1 \in 1..n /\ (i - 1) + 1 = i
      /\ \A i \in 1..(n + 1) : i = 1 \/ i \in 2..(n + 1)
      /\ \A i \in 1..n : i + 1 \in 2..(n + 1)
  BY <1>1
<1>5. c \in present' <=> IF queue[1].conn = c THEN queue[1].op = "add"
                                              ELSE c \in present
  BY <1>1 DEF Apply, Update
<1>6. CASE \E i \in 1..n : queue[i + 1].conn = c
  <2>1. ASSUME EndsPresent(c)' PROVE EndsPresent(c)
    <3>1. PICK i \in 1..n : /\ queue[i + 1].conn = c
                            /\ \A j \in 1..n : j > i => queue[j + 1].conn # c
                            /\ queue[i + 1].op = "add"
      BY <1>2, <1>6, <2>1
    <3>2. ASSUME NEW j \in 1..(n + 1), j > i + 1 PROVE queue[j].conn # c
      <4>1. j - 1 \in 1..n /\ j - 1 > i /\ (j - 1) + 1 = j
        BY <1>1, <3>2
      <4> QED
        BY <3>1, <4>1
    <3>3. i + 1 \in 1..(n + 1)
      BY <1>1
    <3> QED
      BY <1>3, <3>1, <3>2, <3>3
  <2>2. ASSUME EndsPresent(c) PROVE EndsPresent(c)'
    <3>1. PICK m \in 1..n : queue[m + 1].conn = c
      BY <1>6
    <3>2. m + 1 \in 1..(n + 1) /\ m + 1 > 1
      BY <1>1
    <3>3. PICK i \in 1..(n + 1) :
                 /\ queue[i].conn = c
                 /\ \A j \in 1..(n + 1) : j > i => queue[j].conn # c
                 /\ queue[i].op = "add"
      BY <1>3, <2>2, <3>1, <3>2
    <3>4. i # 1
      BY <3>1, <3>2, <3>3
    <3>5. i - 1 \in 1..n /\ (i - 1) + 1 = i
      BY <1>1, <3>4
    <3>6. ASSUME NEW j \in 1..n, j > i - 1 PROVE queue[j + 1].conn # c
      <4>1. j + 1 \in 1..(n + 1) /\ j + 1 > i
        BY <1>1, <3>6
      <4> QED
        BY <3>3, <4>1
    <3> QED
      BY <1>2, <3>3, <3>5, <3>6
  <2> QED
    BY <2>1, <2>2
<1>7. CASE \A i \in 1..n : queue[i + 1].conn # c
  <2>1. \A i \in 2..(n + 1) : queue[i].conn # c
    BY <1>4, <1>7
  <2>2. EndsPresent(c)' <=> c \in present'
    BY <1>2, <1>7
  <2>3. EndsPresent(c) <=> IF queue[1].conn = c THEN queue[1].op = "add"
                                               ELSE c \in present
    BY <1>1, <1>3, <1>4, <2>1
  <2> QED
    BY <1>5, <2>2, <2>3
<1> QED
  BY <1>6, <1>7

(* With nothing left to apply, the table is as it ends up.                 *)
LEMMA QuietIsPresent ==
  ASSUME queue = << >>, NEW c
  PROVE  EndsPresent(c) <=> c \in present
  BY DEF EndsPresent

(* Sending and applying keep the table in its type.                        *)
LEMMA StepTyped ==
  ASSUME TypeOK, (\E u \in Update : Send(u)) \/ Apply PROVE TypeOK'
<1>1. CASE \E u \in Update : Send(u)
  BY <1>1 DEF TypeOK, Send
<1>2. CASE Apply
  <2>1. Head(queue) \in Update /\ Tail(queue) \in Seq(Update)
    BY <1>2 DEF TypeOK, Apply
  <2>2. Head(queue).conn \in Conns
    BY <2>1 DEF Update
  <2> QED
    BY <1>2, <2>1, <2>2 DEF TypeOK, Apply
<1> QED
  BY <1>1, <1>2
=============================================================================
