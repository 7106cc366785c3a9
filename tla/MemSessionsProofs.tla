------------------------- MODULE MemSessionsProofs -------------------------
(***************************************************************************)
(* Theorems about MemSessions for any finite set of requests, and any      *)
(* session names, objects and bounds of the clock.                         *)
(***************************************************************************)
EXTENDS MemSessions, FiniteSetTheorems, WellFoundedInduction, TLAPS

Slots == Objs \cup {Nil}

-----------------------------------------------------------------------------
(* The index *)

(* A function on 1 .. m is a sequence of length m.                         *)
LEMMA FunctionIsSeq ==
    ASSUME NEW S, NEW m \in Nat, NEW f \in [1 .. m -> S]
    PROVE  f \in Seq(S) /\ Len(f) = m
OBVIOUS

(* Del leaves an array of the same length with no element it had not.      *)
LEMMA TakeFacts ==
    ASSUME NEW a \in Seq(Slots), NEW n \in 0 .. Len(a), NEW d, NEW key
    PROVE  LET out == Take(a, n, d, key) IN
           /\ out.a \in Seq(Slots) /\ Len(out.a) = Len(a)
           /\ out.n \in 0 .. Len(out.a) /\ out.ok \in BOOLEAN
           /\ Elements(out.a) \subseteq Elements(a)
<1> DEFINE i == Search(a, n, d, key)
<1>1. CASE ~Found(a, n, d, key, i)
  BY <1>1 DEF Take
<1>2. CASE Found(a, n, d, key, i)
  <2> DEFINE b == Shrunk(a, n, i)
  <2>1. Take(a, n, d, key) = [ok |-> TRUE, a |-> b, n |-> n - 1]
    BY <1>2 DEF Take
  <2>2. i \in 0 .. n - 1
    BY <1>2 DEF Found
  <2> HIDE DEF i
  <2>3. /\ b \in [1 .. Len(a) -> Slots]
        /\ \A k \in 1 .. Len(a) : b[k] \in {a[j] : j \in 1 .. Len(a)} \cup {Nil}
    BY <2>2 DEF Shrunk, Slots
  <2> HIDE DEF b
  <2>4. b \in Seq(Slots) /\ Len(b) = Len(a)
    BY <2>3, FunctionIsSeq
  <2>5. Elements(b) \subseteq Elements(a)
    BY <2>3, <2>4 DEF Elements
  <2> QED
    BY <2>1, <2>2, <2>4, <2>5
<1> QED
  BY <1>1, <1>2

(* Set grows it at most, and puts no other element into it.                *)
LEMMA PutFacts ==
    ASSUME NEW a \in Seq(Slots), NEW n \in 0 .. Len(a), NEW d, NEW o \in Objs
    PROVE  LET out == Put(a, n, d, o) IN
           /\ out.a \in Seq(Slots)
           /\ out.n \in 0 .. Len(out.a) /\ out.ok \in BOOLEAN
           /\ Elements(out.a) \subseteq Elements(a) \cup {o}
<1> DEFINE i == Search(a, n, d, d[o])
<1>1. CASE i \notin 0 .. n \/ Found(a, n, d, d[o], i)
  BY <1>1 DEF Put
<1>2. CASE ~(i \notin 0 .. n \/ Found(a, n, d, d[o], i))
  <2> DEFINE b == Grown(a, n, i, o)
             m == Capacity(a, n)
  <2>1. Put(a, n, d, o) = [ok |-> TRUE, a |-> b, n |-> n + 1]
    BY <1>2 DEF Put
  <2>2. i \in 0 .. n
    BY <1>2
  <2> HIDE DEF i
  <2>3. m \in Nat /\ n + 1 <= m /\ Len(a) <= m
    BY DEF Capacity
  <2>4. /\ b \in [1 .. m -> Slots]
        /\ \A k \in 1 .. m : b[k] \in {a[j] : j \in 1 .. Len(a)} \cup {Nil, o}
    BY <2>2, <2>3 DEF Grown, Slots
  <2> HIDE DEF b, m
  <2>5. b \in Seq(Slots) /\ Len(b) = m
    BY <2>3, <2>4, FunctionIsSeq
  <2>6. Elements(b) \subseteq Elements(a) \cup {o}
    BY <2>4, <2>5 DEF Elements
  <2> QED
    BY <2>1, <2>2, <2>3, <2>5, <2>6
<1> QED
  BY <1>1, <1>2

-----------------------------------------------------------------------------
(* The binary search: a wrong answer would have a shortest interval that   *)
(* gets one, and the probe of it asks about a shorter one.                 *)

(* A set of natural numbers has a least one.                               *)
LEMMA LeastNatural ==
    ASSUME NEW T \in SUBSET Nat, T # {}
    PROVE  \E m \in T : \A k \in T : m <= k
<1>1. PICK m \in T : \A k \in T : <<k, m>> \notin OpToRel(<, Nat)
  BY WFMin, NatLessThanWellFounded, Zenon
<1>2. \A k \in T : ~ (k < m)
  BY <1>1, Zenon DEF OpToRel
<1> QED
  BY <1>2

(* The middle of an interval is in it.                                     *)
LEMMA Halves ==
    ASSUME NEW i \in Nat, NEW j \in Nat, i < j
    PROVE  (i + j) \div 2 \in i .. j - 1
OBVIOUS

(* One probe of Search, f being its answers for shorter intervals.         *)
Probe(a, d, key, f, s) ==
    LET i == s[1]
        j == s[2]
        h == (i + j) \div 2 IN
    IF i >= j THEN i
    ELSE IF a[h + 1] = Nil THEN Panics
    ELSE IF d[a[h + 1]] < key THEN f[<<h + 1, j>>]
    ELSE f[<<i, h>>]

(* The probe asks about shorter intervals only.                            *)
LEMMA ProbeSame ==
    ASSUME NEW n \in Nat, NEW a, NEW d, NEW key, NEW f, NEW g, NEW s \in (0 .. n) \X (0 .. n),
           \A t \in (0 .. n) \X (0 .. n) : t[2] - t[1] < s[2] - s[1] => f[t] = g[t]
    PROVE Probe(a, d, key, f, s) = Probe(a, d, key, g, s)
<1>1. CASE s[1] >= s[2]
  BY <1>1 DEF Probe
<1>2. CASE s[1] < s[2]
  <2> DEFINE h == (s[1] + s[2]) \div 2
  <2>1. h \in s[1] .. s[2] - 1
    BY <1>2, Halves
  <2> HIDE DEF h
  <2>2. <<h+1, s[2]>> \in (0 .. n) \X (0 .. n) /\ <<s[1], h>> \in (0 .. n) \X (0 .. n)
    BY <2>1
  <2>3. f[<<h+1, s[2]>>] = g[<<h+1, s[2]>>] /\ f[<<s[1], h>>] = g[<<s[1], h>>]
    BY <1>2, <2>1, <2>2
  <2> QED
    BY <2>3 DEF Probe, h
<1> QED
  BY <1>1, <1>2

(* f has the answers for the intervals up to a length.                     *)
Solved(a, n, d, key, f, m) ==
  \A s \in (0 .. n) \X (0 .. n) : s[2] - s[1] <= m => f[s] = Probe(a, d, key, f, s)

LEMMA SolvedFrom ==
    ASSUME NEW n \in Nat, NEW a, NEW d, NEW key, NEW f, NEW m \in Int,
           NEW g, Solved(a, n, d, key, f, m),
           g = [s \in (0 .. n) \X (0 .. n) |-> Probe(a, d, key, f, s)]
    PROVE Solved(a, n, d, key, g, m + 1)
<1> SUFFICES ASSUME NEW s \in (0 .. n) \X (0 .. n), s[2] - s[1] <= m + 1
    PROVE  g[s] = Probe(a, d, key, g, s)
  BY DEF Solved
<1>1. \A t \in (0 .. n) \X (0 .. n) : g[t] = Probe(a, d, key, f, t)
  OBVIOUS
<1>2. ASSUME NEW t \in (0 .. n) \X (0 .. n), t[2] - t[1] < s[2] - s[1] PROVE f[t] = g[t]
  BY <1>1, <1>2 DEF Solved
<1>3. Probe(a, d, key, f, s) = Probe(a, d, key, g, s)
  BY <1>2, ProbeSame
<1> QED
  BY <1>1, <1>3

(* f has the answers for every interval.                                   *)
Probing(a, n, d, key, f) == f = [s \in (0 .. n) \X (0 .. n) |-> Probe(a, d, key, f, s)]

(* The recursion of Search has a solution, ...                             *)
LEMMA SolvedAll ==
    ASSUME NEW n \in Nat, NEW a, NEW d, NEW key
    PROVE  \E f : Probing(a, n, d, key, f)
<1> DEFINE Open == {m \in Nat : ~ \E f : Solved(a, n, d, key, f, m)}
<1>1. Open = {}
  <2> SUFFICES ASSUME Open # {} PROVE FALSE
    OBVIOUS
  <2>1. PICK m \in Open : \A k \in Open : m <= k
    BY LeastNatural, Zenon
  <2>2. \E f : Solved(a, n, d, key, f, m - 1)
    <3>1. CASE m = 0
      <4>1. PICK f : f = [s \in (0 .. n) \X (0 .. n) |-> s[1]]
        OBVIOUS
      <4>2. \A s \in (0 .. n) \X (0 .. n) : s[2] - s[1] <= -1 => f[s] = Probe(a, d, key, f, s)
        BY <4>1 DEF Probe
      <4> QED
        BY <3>1, <4>2 DEF Solved
    <3>2. CASE m # 0
      <4>1. m - 1 \in Nat /\ ~ (m <= m - 1)
        BY <3>2
      <4> QED
        BY <2>1, <4>1
    <3> QED
      BY <3>1, <3>2
  <2>3. PICK f : Solved(a, n, d, key, f, m - 1)
    BY <2>2
  <2>4. PICK g : g = [s \in (0 .. n) \X (0 .. n) |-> Probe(a, d, key, f, s)]
    OBVIOUS
  <2>5. m - 1 \in Int /\ m - 1 + 1 = m
    OBVIOUS
  <2>6. Solved(a, n, d, key, g, m - 1 + 1)
    BY <2>3, <2>4, <2>5, SolvedFrom, Zenon
  <2> QED
    BY <2>5, <2>6
<1>2. PICK f : Solved(a, n, d, key, f, n)
  BY <1>1
<1>3. PICK g : g = [s \in (0 .. n) \X (0 .. n) |-> Probe(a, d, key, f, s)]
  OBVIOUS
<1>4. \A s \in (0 .. n) \X (0 .. n) : s[2] - s[1] <= n
  OBVIOUS
<1>5. \A s \in (0 .. n) \X (0 .. n) : f[s] = Probe(a, d, key, f, s) /\ g[s] = f[s]
  BY <1>2, <1>3, <1>4 DEF Solved
<1>6. \A s \in (0 .. n) \X (0 .. n) : Probe(a, d, key, f, s) = Probe(a, d, key, g, s)
  BY <1>5, ProbeSame
<1>7. Probing(a, n, d, key, g)
  BY <1>3, <1>6 DEF Probing
<1> QED
  BY <1>7

(* ... so Search follows it.                                               *)
LEMMA SearchProbes ==
    ASSUME NEW n \in Nat, NEW a, NEW d, NEW key
    PROVE  \E f : Probing(a, n, d, key, f) /\ Search(a, n, d, key) = f[<<0, n>>]
<1> DEFINE p == CHOOSE f : Probing(a, n, d, key, f)
<1>1. Probing(a, n, d, key, p)
  BY SolvedAll, Zenon
<1>2. Search(a, n, d, key) = p[<<0, n>>]
  BY DEF Search, Probe, Probing
<1> HIDE DEF p
<1> QED
  BY <1>1, <1>2

(* What Search promises even of a slice out of order: it met a nil, or the *)
(* place is between an element before the key and one that is not.         *)
Behind(a, d, key, i) == a[i] # Nil /\ d[a[i]] < key
Ahead(a, d, key, i) == a[i] # Nil /\ ~(d[a[i]] < key)

PlaceFound(a, n, d, key, r) ==
    \/ r = Panics /\ \E k \in 1 .. n : a[k] = Nil
    \/ /\ r \in 0 .. n
       /\ r = 0 \/ Behind(a, d, key, r)
       /\ r = n \/ Ahead(a, d, key, r + 1)

LEMMA SearchFacts ==
    ASSUME NEW n \in Nat, NEW a, NEW d, NEW key
    PROVE  PlaceFound(a, n, d, key, Search(a, n, d, key))
<1>1. PICK f : Probing(a, n, d, key, f) /\ Search(a, n, d, key) = f[<<0, n>>]
  BY SearchProbes
<1>2. \A s \in (0 .. n) \X (0 .. n) : f[s] = Probe(a, d, key, f, s)
  BY <1>1 DEF Probing
<1> DEFINE Between(s) == /\ s[1] <= s[2]
                         /\ s[1] = 0 \/ Behind(a, d, key, s[1])
                         /\ s[2] = n \/ Ahead(a, d, key, s[2] + 1)
           Wrong == {m \in Nat : \E s \in (0 .. n) \X (0 .. n) :
                        m = s[2] - s[1] /\ Between(s) /\ ~ PlaceFound(a, n, d, key, f[s])}
<1>3. Wrong = {}
  <2> SUFFICES ASSUME Wrong # {} PROVE FALSE
    OBVIOUS
  <2>1. PICK m \in Wrong : \A k \in Wrong : m <= k
    BY LeastNatural, Zenon
  <2>2. PICK s \in (0 .. n) \X (0 .. n) :
            m = s[2] - s[1] /\ Between(s) /\ ~ PlaceFound(a, n, d, key, f[s])
    BY <2>1
  <2>3. ASSUME NEW t \in (0 .. n) \X (0 .. n), Between(t), t[2] - t[1] < s[2] - s[1]
        PROVE  PlaceFound(a, n, d, key, f[t])
    <3>1. t[2] - t[1] \in Nat /\ ~ (m <= t[2] - t[1])
      BY <2>2, <2>3
    <3> QED
      BY <2>1, <2>3, <3>1
  <2>4. CASE s[1] >= s[2]
    <3>1. s[1] = s[2] /\ s[1] \in 0 .. n
      BY <2>2, <2>4
    <3>2. f[s] = s[1]
      BY <1>2, <2>4 DEF Probe
    <3> QED
      BY <2>2, <3>1, <3>2 DEF PlaceFound
  <2>5. CASE s[1] < s[2]
    <3>1. PICK h \in s[1] .. s[2] - 1 : h = (s[1] + s[2]) \div 2
      BY <2>5, Halves
    <3>2. f[s] = IF a[h + 1] = Nil THEN Panics
                 ELSE IF d[a[h + 1]] < key THEN f[<<h + 1, s[2]>>]
                 ELSE f[<<s[1], h>>]
      BY <1>2, <2>5, <3>1 DEF Probe
    <3>3. CASE a[h + 1] = Nil
      <4>1. h + 1 \in 1 .. n
        BY <3>1
      <4> QED
        BY <2>2, <3>2, <3>3, <4>1 DEF PlaceFound
    <3>4. CASE a[h + 1] # Nil /\ d[a[h + 1]] < key
      <4> DEFINE t == <<h + 1, s[2]>>
      <4>1. t \in (0 .. n) \X (0 .. n) /\ t[1] = h + 1 /\ t[2] = s[2]
        BY <3>1
      <4>2. Between(t) /\ t[2] - t[1] < s[2] - s[1]
        BY <2>2, <3>1, <3>4, <4>1 DEF Behind
      <4>3. f[s] = f[t]
        BY <3>2, <3>4
      <4> HIDE DEF t
      <4> QED
        BY <2>2, <2>3, <4>1, <4>2, <4>3
    <3>5. CASE a[h + 1] # Nil /\ ~(d[a[h + 1]] < key)
      <4> DEFINE t == <<s[1], h>>
      <4>1. t \in (0 .. n) \X (0 .. n) /\ t[1] = s[1] /\ t[2] = h
        BY <3>1
      <4>2. Between(t) /\ t[2] - t[1] < s[2] - s[1]
        BY <2>2, <3>1, <3>5, <4>1 DEF Ahead
      <4>3. f[s] = f[t]
        BY <3>2, <3>5
      <4> HIDE DEF t
      <4> QED
        BY <2>2, <2>3, <4>1, <4>2, <4>3
    <3> QED
      BY <3>3, <3>4, <3>5
  <2> QED
    BY <2>4, <2>5
<1>4. <<0, n>> \in (0 .. n) \X (0 .. n)
  OBVIOUS
<1>5. Between(<<0, n>>) /\ n - 0 \in Nat
  OBVIOUS
<1>6. PlaceFound(a, n, d, key, f[<<0, n>>])
  BY <1>3, <1>4, <1>5
<1> QED
  BY <1>1, <1>6

-----------------------------------------------------------------------------
(* An index in order: no nil among its elements, the deadlines ascending.  *)
Ordered(a, n, d) ==
    \A i, j \in 1 .. n : a[i] # Nil /\ (i < j => d[a[i]] < d[a[j]])
Slice(a, n) == {a[i] : i \in 1 .. n}

LEMMA SliceIn ==
    ASSUME NEW a \in Seq(Slots), NEW n \in 0 .. Len(a), NEW d, Ordered(a, n, d)
    PROVE  \A i \in 1 .. n : a[i] \in Objs
<1>1. \A i \in 1 .. Len(a) : a[i] \in Slots
  OBVIOUS
<1> QED
  BY <1>1 DEF Ordered, Slots

(* Del finds what is in an ordered index; the rest stays in order and the  *)
(* slot behind it becomes nil.                                             *)
LEMMA TakeOrdered ==
    ASSUME NEW a \in Seq(Slots), NEW n \in 0 .. Len(a), NEW d \in [Objs -> Int],
           Ordered(a, n, d), NEW o \in Objs, NEW out, out = Take(a, n, d, d[o])
    PROVE  /\ o \in Slice(a, n) => out.ok
           /\ out.ok => /\ out.n = n - 1 /\ n # 0
                        /\ Ordered(out.a, out.n, d)
                        /\ o \notin Slice(out.a, out.n)
                        /\ Slice(out.a, out.n) \subseteq Slice(a, n)
                        /\ o \in Slice(a, n) => Slice(a, n) \ {o} \subseteq Slice(out.a, out.n)
                        /\ out.a[n] = Nil /\ \A k \in n + 1 .. Len(a) : out.a[k] = a[k]
<1>1. PICK i : i = Search(a, n, d, d[o])
  OBVIOUS
<1>2. PlaceFound(a, n, d, d[o], i)
  BY <1>1, SearchFacts
<1>3. /\ n \in Nat /\ \A k \in 1 .. n : a[k] \in Objs /\ d[a[k]] \in Int
      /\ d[o] \in Int /\ Len(a) \in Nat /\ DOMAIN a = 1 .. Len(a)
  BY SliceIn
<1>4. \A k, l \in 1 .. n : k < l => d[a[k]] < d[a[l]]
  BY DEF Ordered
<1>5. /\ i \in 0 .. n
      /\ i = 0 \/ d[a[i]] < d[o]
      /\ i = n \/ ~ (d[a[i + 1]] < d[o])
  <2>1. \A k \in 1 .. n : a[k] # Nil
    BY DEF Ordered
  <2> QED
    BY <1>2, <2>1 DEF PlaceFound, Behind, Ahead
<1>6. ASSUME NEW k \in 1 .. n, a[k] = o
      PROVE  i = k - 1
  <2>1. ~ (i >= k)
    BY <1>3, <1>4, <1>5, <1>6
  <2>2. ~ (i < k - 1)
    BY <1>3, <1>4, <1>5, <1>6
  <2> QED
    BY <1>5, <2>1, <2>2
<1>7. o \in Slice(a, n) => out.ok
  <2> SUFFICES ASSUME NEW k \in 1 .. n, a[k] = o PROVE out.ok
    BY DEF Slice
  <2>1. i = k - 1
    BY <1>6
  <2>2. Found(a, n, d, d[o], i)
    BY <1>3, <2>1 DEF Found
  <2> QED
    BY <1>1, <2>2 DEF Take
<1>8. ASSUME out.ok
      PROVE  /\ out.n = n - 1 /\ n # 0
             /\ Ordered(out.a, out.n, d)
             /\ o \notin Slice(out.a, out.n)
             /\ Slice(out.a, out.n) \subseteq Slice(a, n)
             /\ o \in Slice(a, n) => Slice(a, n) \ {o} \subseteq Slice(out.a, out.n)
             /\ out.a[n] = Nil /\ \A k \in n + 1 .. Len(a) : out.a[k] = a[k]
  <2>1. Found(a, n, d, d[o], i)
    BY <1>1, <1>8 DEF Take
  <2>2. i \in 0 .. n - 1 /\ d[a[i + 1]] = d[o]
    BY <2>1 DEF Found
  <2>3. PICK b : b = Shrunk(a, n, i)
    OBVIOUS
  <2>4. out.a = b /\ out.n = n - 1
    BY <1>1, <2>1, <2>3 DEF Take
  <2>5. /\ \A k \in 1 .. n - 1 : b[k] = IF k >= i + 1 THEN a[k + 1] ELSE a[k]
        /\ b[n] = Nil /\ \A k \in n + 1 .. Len(a) : b[k] = a[k]
    BY <1>3, <2>2, <2>3 DEF Shrunk
  <2> DEFINE place(k) == IF k >= i + 1 THEN k + 1 ELSE k
  <2>6. ASSUME NEW k \in 1 .. n - 1
        PROVE  place(k) \in 1 .. n /\ place(k) # i + 1 /\ b[k] = a[place(k)]
    <3>1. CASE k >= i + 1
      <4>1. place(k) = k + 1 /\ b[k] = a[k + 1]
        BY <2>5, <3>1
      <4> QED
        BY <1>3, <2>2, <3>1, <4>1
    <3>2. CASE ~(k >= i + 1)
      <4>1. place(k) = k /\ b[k] = a[k]
        BY <2>5, <3>2
      <4> QED
        BY <1>3, <2>2, <3>2, <4>1
    <3> QED
      BY <3>1, <3>2
  <2>7. \A k, l \in 1 .. n - 1 : k < l => place(k) < place(l)
    BY <1>3, <2>2
  <2>8. \A l \in 1 .. n : l # i + 1 => \E k \in 1 .. n - 1 : place(k) = l
    <3> SUFFICES ASSUME NEW l \in 1 .. n, l # i + 1
                 PROVE  \E k \in 1 .. n - 1 : place(k) = l
      OBVIOUS
    <3>1. CASE l < i + 1
      <4>1. l \in 1 .. n - 1 /\ place(l) = l
        BY <1>3, <2>2, <3>1
      <4> QED
        BY <4>1
    <3>2. CASE l > i + 1
      <4>1. l - 1 \in 1 .. n - 1 /\ place(l - 1) = l
        BY <1>3, <2>2, <3>2
      <4> QED
        BY <4>1
    <3> QED
      BY <2>2, <3>1, <3>2
  <2> HIDE DEF place
  <2>9. Ordered(b, n - 1, d)
    <3>1. \A k \in 1 .. n : a[k] # Nil
      BY DEF Ordered
    <3>2. \A k, l \in 1 .. n - 1 : k < l => d[b[k]] < d[b[l]]
      BY <1>4, <2>6, <2>7
    <3> QED
      BY <2>6, <3>1, <3>2 DEF Ordered
  <2>10. o \notin Slice(b, n - 1)
    <3> SUFFICES ASSUME NEW k \in 1 .. n - 1, b[k] = o PROVE FALSE
      BY DEF Slice
    <3>1. place(k) \in 1 .. n /\ a[place(k)] = o /\ place(k) # i + 1
      BY <2>6
    <3>2. i = place(k) - 1
      BY <1>6, <3>1
    <3> QED
      BY <2>2, <3>1, <3>2
  <2>11. Slice(b, n - 1) \subseteq Slice(a, n)
    BY <2>6 DEF Slice
  <2>12. ASSUME o \in Slice(a, n), NEW x \in Slice(a, n) \ {o}
         PROVE  x \in Slice(b, n - 1)
    <3>1. PICK k \in 1 .. n : a[k] = o
      BY <2>12 DEF Slice
    <3>2. PICK l \in 1 .. n : a[l] = x /\ l # k
      BY <2>12, <3>1 DEF Slice
    <3>3. i = k - 1
      BY <1>6, <3>1
    <3>4. PICK m \in 1 .. n - 1 : place(m) = l
      BY <2>2, <2>8, <3>2, <3>3
    <3> QED
      BY <2>6, <3>2, <3>4 DEF Slice
  <2> QED
    BY <1>3, <2>2, <2>4, <2>5, <2>9, <2>10, <2>11, <2>12
<1> QED
  BY <1>7, <1>8

(* The deadlines of other sessions do not matter.                          *)
LEMMA OrderedAgrees ==
    ASSUME NEW a, NEW n \in Nat, NEW d, NEW e, Ordered(a, n, d),
           \A x \in Slice(a, n) : d[x] = e[x]
    PROVE  Ordered(a, n, e)
BY DEF Ordered, Slice

(* Set keeps the order, unless it refuses an equal deadline.               *)
LEMMA PutOrdered ==
    ASSUME NEW a \in Seq(Slots), NEW n \in 0 .. Len(a), NEW d \in [Objs -> Int],
           Ordered(a, n, d), NEW o \in Objs, NEW in, in = Put(a, n, d, o), in.ok
    PROVE  /\ in.n = n + 1
           /\ Ordered(in.a, in.n, d)
           /\ Slice(in.a, in.n) = Slice(a, n) \cup {o}
<1>1. PICK i : i = Search(a, n, d, d[o])
  OBVIOUS
<1>2. PlaceFound(a, n, d, d[o], i)
  BY <1>1, SearchFacts
<1>3. /\ n \in Nat /\ \A k \in 1 .. n : a[k] \in Objs /\ d[a[k]] \in Int
      /\ d[o] \in Int /\ Len(a) \in Nat /\ DOMAIN a = 1 .. Len(a)
  BY SliceIn
<1>4. \A k, l \in 1 .. n : k < l => d[a[k]] < d[a[l]]
  BY DEF Ordered
<1>5. i \in 0 .. n /\ ~ Found(a, n, d, d[o], i)
  BY <1>1 DEF Put
<1>6. /\ i = 0 \/ d[a[i]] < d[o]
      /\ i = n \/ d[o] < d[a[i + 1]]
  <2>1. i = 0 \/ d[a[i]] < d[o]
    BY <1>2, <1>5 DEF PlaceFound, Behind, Panics
  <2>2. ASSUME i # n PROVE d[o] < d[a[i + 1]]
    <3>1. ~ (d[a[i + 1]] < d[o])
      BY <1>2, <1>5, <2>2 DEF PlaceFound, Ahead, Panics
    <3>2. d[a[i + 1]] # d[o] /\ i + 1 \in 1 .. n
      BY <1>5, <2>2 DEF Found
    <3> QED
      BY <1>3, <3>1, <3>2
  <2> QED
    BY <2>1, <2>2
<1>7. PICK b : b = Grown(a, n, i, o)
  OBVIOUS
<1>8. in.a = b /\ in.n = n + 1
  BY <1>1, <1>5, <1>7 DEF Put
<1>9. \A k \in 1 .. n + 1 : b[k] = IF k = i + 1 THEN o
                                   ELSE IF k >= i + 2 THEN a[k - 1] ELSE a[k]
  <2>1. Capacity(a, n) \in Nat /\ n + 1 <= Capacity(a, n)
    BY <1>3 DEF Capacity
  <2> QED
    BY <1>3, <1>5, <1>7, <2>1 DEF Grown
<1>10. \A k \in 1 .. n + 1 : b[k] = o \/ \E l \in 1 .. n : b[k] = a[l]
  <2> SUFFICES ASSUME NEW k \in 1 .. n + 1, k # i + 1 PROVE \E l \in 1 .. n : b[k] = a[l]
    BY <1>9
  <2>1. CASE k >= i + 2
    <3>1. k - 1 \in 1 .. n /\ b[k] = a[k - 1]
      BY <1>5, <1>9, <2>1
    <3> QED
      BY <3>1
  <2>2. CASE k <= i
    BY <1>5, <1>9, <2>2
  <2> QED
    BY <1>5, <2>1, <2>2
<1>11. Ordered(b, n + 1, d)
  <2>3. ASSUME NEW k \in 1 .. n + 1
        PROVE  b[k] # Nil
    <3>1. \A l \in 1 .. n : a[l] # Nil
      BY DEF Ordered
    <3> QED
      BY <1>10, <3>1, NilAssumption
  <2>2. ASSUME NEW k \in 1 .. n + 1, NEW l \in 1 .. n + 1, k < l
        PROVE  d[b[k]] < d[b[l]]
    <3>1. CASE k <= i /\ l <= i
      <4>1. k \in 1 .. n /\ l \in 1 .. n /\ b[k] = a[k] /\ b[l] = a[l]
        BY <1>3, <1>5, <1>9, <3>1
      <4> QED
        BY <1>4, <2>2, <4>1
    <3>2. CASE k <= i /\ l = i + 1
      <4>1. k \in 1 .. n /\ i \in 1 .. n /\ b[k] = a[k] /\ b[l] = o
        BY <1>5, <1>9, <3>2
      <4>2. k = i \/ d[a[k]] < d[a[i]]
        BY <1>4, <3>2, <4>1
      <4> QED
        BY <1>3, <1>6, <4>1, <4>2
    <3>3. CASE k <= i /\ l >= i + 2
      <4>1. k \in 1 .. n /\ l - 1 \in 1 .. n /\ k < l - 1 /\ b[k] = a[k] /\ b[l] = a[l - 1]
        BY <1>5, <1>9, <3>3
      <4> QED
        BY <1>4, <4>1
    <3>4. CASE k = i + 1 /\ l >= i + 2
      <4>1. i + 1 \in 1 .. n /\ l - 1 \in 1 .. n /\ b[k] = o /\ b[l] = a[l - 1]
        BY <1>5, <1>9, <3>4
      <4>2. l - 1 = i + 1 \/ d[a[i + 1]] < d[a[l - 1]]
        BY <1>4, <1>5, <3>4, <4>1
      <4>3. d[o] < d[a[i + 1]]
        BY <1>5, <1>6, <4>1
      <4> QED
        BY <1>3, <4>1, <4>2, <4>3
    <3>5. CASE k >= i + 2
      <4>1. k - 1 \in 1 .. n /\ l - 1 \in 1 .. n /\ k - 1 < l - 1
        BY <1>3, <1>5, <2>2, <3>5
      <4>2. b[k] = a[k - 1] /\ b[l] = a[l - 1]
        BY <1>5, <1>9, <2>2, <3>5
      <4> QED
        BY <1>4, <4>1, <4>2
    <3> QED
      BY <1>5, <2>2, <3>1, <3>2, <3>3, <3>4, <3>5
  <2> QED
    BY <2>2, <2>3 DEF Ordered
<1>12. Slice(b, n + 1) = Slice(a, n) \cup {o}
  <2>1. Slice(b, n + 1) \subseteq Slice(a, n) \cup {o}
    BY <1>10 DEF Slice
  <2>2. o \in Slice(b, n + 1)
    <3>1. i + 1 \in 1 .. n + 1 /\ b[i + 1] = o
      BY <1>3, <1>5, <1>9
    <3> QED
      BY <3>1 DEF Slice
  <2>3. ASSUME NEW l \in 1 .. n
        PROVE  \E k \in 1 .. n + 1 : b[k] = a[l]
    <3>1. CASE l <= i
      BY <1>5, <1>9, <3>1
    <3>2. CASE l > i
      <4>1. l + 1 \in 1 .. n + 1 /\ l + 1 >= i + 2
        BY <1>3, <1>5, <3>2
      <4>2. b[l + 1] = a[l]
        BY <1>5, <1>9, <4>1
      <4> QED
        BY <4>1, <4>2
    <3> QED
      BY <1>5, <3>1, <3>2
  <2>4. Slice(a, n) \subseteq Slice(b, n + 1)
    BY <2>3 DEF Slice
  <2> QED
    BY <2>1, <2>2, <2>4
<1> QED
  BY <1>8, <1>11, <1>12

(* The session o leaves the index and is back with a new deadline in its   *)
(* place: what the walk would see of it is the order, as it was.           *)
InPlace(a, n, d, e, o) ==
    LET out == Take(a, n, d, d[o])
        in == Put(out.a, out.n, e, o)
    IN out.ok /\ in.a = a /\ in.n = n

LEMMA RestoredInPlace ==
    ASSUME NEW a \in Seq(Slots), NEW n \in 0 .. Len(a), NEW m \in 0 .. n,
           NEW d \in [Objs -> Int], Ordered(a, m, d), \A k \in m + 1 .. n : a[k] = Nil,
           NEW o \in Objs, NEW e \in [Objs -> Int], \A x \in Objs : x # o => e[x] = d[x],
           InPlace(a, n, d, e, o)
    PROVE  Ordered(a, m, e)
<1>1. PICK out : out = Take(a, n, d, d[o])
  OBVIOUS
<1>2. PICK in : in = Put(out.a, out.n, e, o)
  OBVIOUS
<1>3. out.ok /\ in.a = a /\ in.n = n
  BY <1>1, <1>2 DEF InPlace
<1>4. PICK i : i = Search(a, n, d, d[o])
  OBVIOUS
<1>5. PlaceFound(a, n, d, d[o], i)
  BY <1>4, SearchFacts
<1>6. /\ n \in Nat /\ m \in Nat /\ m <= n /\ Len(a) \in Nat /\ n <= Len(a) /\ DOMAIN a = 1 .. Len(a)
      /\ \A k \in 1 .. m : a[k] \in Objs /\ d[a[k]] \in Int /\ a[k] # Nil
      /\ d[o] \in Int /\ o # Nil
  BY SliceIn, NilAssumption
<1>7. \A k, l \in 1 .. m : k < l => d[a[k]] < d[a[l]]
  BY DEF Ordered
<1>8. /\ i \in 0 .. n - 1 /\ d[a[i + 1]] = d[o]
      /\ out.a = Shrunk(a, n, i) /\ out.n = n - 1
  <2>1. Found(a, n, d, d[o], i)
    BY <1>4, <1>1, <1>3 DEF Take
  <2> QED
    BY <1>4, <1>1, <2>1 DEF Take, Found
<1>9. i + 1 \in 1 .. m
  <2>1. a[i + 1] # Nil
    BY <1>5, <1>6, <1>8 DEF PlaceFound, Ahead, Panics
  <2> QED
    BY <1>6, <1>8, <2>1
<1>10. PICK b : b = out.a
  OBVIOUS
<1>11. \A k \in 1 .. n - 1 : b[k] = IF k >= i + 1 THEN a[k + 1] ELSE a[k]
  BY <1>6, <1>8, <1>10 DEF Shrunk
<1>12. PICK p : p = Search(b, n - 1, e, e[o])
  OBVIOUS
<1>13. n - 1 \in Nat
  BY <1>6, <1>8
<1>14. PlaceFound(b, n - 1, e, e[o], p)
  BY <1>12, <1>13, SearchFacts
<1>15. p \in 0 .. n - 1 /\ ~Found(b, n - 1, e, e[o], p) /\ a = Grown(b, n - 1, p, o)
  <2>1. in.n # n - 1
    BY <1>6, <1>3
  <2> QED
    BY <1>8, <1>10, <1>12, <1>2, <1>3, <2>1 DEF Put
<1>16. a[p + 1] = o
  <2>1. p + 1 \in 1 .. Capacity(b, n - 1)
    BY <1>13, <1>15 DEF Capacity
  <2> QED
    BY <1>15, <2>1 DEF Grown
<1>17. p = i
  <2>1. p + 1 \in 1 .. m
    <3>1. p + 1 \in 1 .. n /\ a[p + 1] # Nil
      BY <1>6, <1>13, <1>15, <1>16
    <3> QED
      BY <1>6, <3>1
  <2>2. d[a[p + 1]] = d[a[i + 1]]
    BY <1>8, <1>16
  <2>3. ~ (p + 1 < i + 1) /\ ~ (i + 1 < p + 1)
    BY <1>6, <1>7, <1>9, <2>1, <2>2
  <2> QED
    BY <1>8, <1>15, <2>3
<1>18. \A k \in 1 .. m : k # i + 1 => a[k] # o /\ e[a[k]] = d[a[k]]
  <2>1. \A k \in 1 .. m : k # i + 1 => a[k] # o
    BY <1>6, <1>7, <1>8, <1>9
  <2> QED
    BY <1>6, <2>1
<1>19. i = 0 \/ d[a[i]] < e[o]
  <2> SUFFICES ASSUME i # 0 PROVE d[a[i]] < e[o]
    OBVIOUS
  <2>1. e[b[i]] < e[o]
    BY <1>14, <1>15, <1>17 DEF PlaceFound, Behind, Panics
  <2>2. i \in 1 .. m /\ i # i + 1 /\ b[i] = a[i]
    BY <1>8, <1>9, <1>11
  <2> QED
    BY <1>18, <2>1, <2>2
<1>20. ASSUME i + 2 <= m
       PROVE  e[o] < d[a[i + 2]]
  <2>1. i + 1 \in 1 .. n - 1 /\ i + 2 \in 1 .. m /\ i # n - 1
    BY <1>6, <1>8, <1>20
  <2>2. b[i + 1] = a[i + 2]
    <3>1. b[i + 1] = a[i + 1 + 1] /\ i + 1 + 1 = i + 2
      BY <1>8, <1>11, <2>1
    <3> QED
      BY <3>1
  <2>3. ~ (e[b[i + 1]] < e[o])
    BY <1>14, <1>15, <1>17, <2>1 DEF PlaceFound, Ahead, Panics
  <2>4. e[b[i + 1]] # e[o]
    BY <1>15, <1>17, <2>1 DEF Found
  <2>5. e[a[i + 2]] = d[a[i + 2]] /\ d[a[i + 2]] \in Int
    <3>1. i + 2 # i + 1
      BY <1>8
    <3> QED
      BY <1>6, <1>18, <2>1, <3>1
  <2> QED
    BY <1>18, <2>2, <2>3, <2>4, <2>5
<1>21. ASSUME NEW k \in 1 .. m, NEW l \in 1 .. m, k < l
       PROVE  e[a[k]] < e[a[l]]
  <2>1. CASE k # i + 1 /\ l # i + 1
    BY <1>7, <1>18, <1>21, <2>1
  <2>2. CASE l = i + 1
    <3>1. i \in 1 .. m /\ k # i + 1
      BY <1>8, <1>9, <1>21, <2>2
    <3>2. k = i \/ d[a[k]] < d[a[i]]
      BY <1>7, <1>21, <2>2, <3>1
    <3>3. e[a[l]] = e[o] /\ e[a[k]] = d[a[k]] /\ d[a[k]] \in Int /\ d[a[i]] \in Int
      BY <1>6, <1>16, <1>17, <1>18, <2>2, <3>1
    <3> QED
      BY <1>19, <3>1, <3>2, <3>3
  <2>3. CASE k = i + 1
    <3>1. i + 2 \in 1 .. m /\ l # i + 1
      BY <1>8, <1>21, <2>3
    <3>2. l = i + 2 \/ d[a[i + 2]] < d[a[l]]
      <4>1. l = i + 2 \/ i + 2 < l
        BY <1>8, <1>21, <2>3
      <4> QED
        BY <1>7, <3>1, <4>1
    <3>3. e[a[k]] = e[o] /\ e[a[l]] = d[a[l]] /\ d[a[l]] \in Int /\ d[a[i + 2]] \in Int
      BY <1>6, <1>16, <1>17, <1>18, <2>3, <3>1
    <3> QED
      BY <1>20, <3>1, <3>2, <3>3
  <2> QED
    BY <2>1, <2>2, <2>3
<1> QED
  BY <1>6, <1>21 DEF Ordered

-----------------------------------------------------------------------------
(* The inductive invariant *)

Walks ==
    [at : {"select", "walk", "del", "commit"}, pos : Nat, name : Names \cup {Nil},
     del : SUBSET Objs, own : BOOLEAN, a : Seq(Slots), n : Nat]
Holders(n) == {p \in Procs : Held(p, n)}

(* The walk finds a session to look at wherever it reads, ...              *)
WalkInv ==
    /\ walk \in Walks
    /\ walk.at \in {"walk", "del"} => walk.pos # 0
    /\ walk.at = "del" => walk.name \in Names
    /\ walk.at = "select" => walk = AtRest

(* ... one with a name, since an object is used again only when the index, *)
(* the walk and the requests have forgotten it.                            *)
ElementsAreNamed ==
    \A o \in Sessions \cup Elements(slots) \cup Elements(walk.a) : name[o] \in Names

(* A request that is about to make a session, or has one, knows its name.  *)
RequestsHaveNames ==
    \A p \in Procs : req[p].at \in {"new", "held"} => req[p].name \in Names

(* Who holds a session holds an object.                                    *)
HoldersHaveObjects ==
    \A p \in Procs : req[p].at = "held" => req[p].obj \in Objs

Types == TypeOK /\ WalkInv /\ ElementsAreNamed /\ RequestsHaveNames /\ HoldersHaveObjects
Counts == CountsAreHolders
IInv == Types /\ Counts

LEMMA DeadlineType ==
    ASSUME TypeOK
    PROVE  Deadline \in 0 .. MaxNow + Ttl
BY TimeAssumption DEF TypeOK, Deadline

LEMMA HoldersAreFinite ==
    ASSUME NEW n
    PROVE  /\ Holders(n) \in SUBSET Procs /\ IsFiniteSet(Holders(n))
           /\ Cardinality(Holders(n)) \in 0 .. Cardinality(Procs)
<1>1. Holders(n) \in SUBSET Procs
  BY DEF Holders
<1> QED
  BY <1>1, ProcsAssumption, FS_Subset, FS_CardinalityType

(* A call of a request changes who holds what by itself only.              *)
LEMMA HoldersAfter ==
    ASSUME TypeOK, NEW p \in Procs, NEW step, NEW n, NEW o, Become(p, step, n, o), NEW m
    PROVE  Holders(m)' = IF step = "held" /\ m = n THEN Holders(m) \cup {p}
                         ELSE Holders(m) \ {p}
<1>1. /\ req'[p].at = step /\ req'[p].name = n
      /\ \A q \in Procs : q # p => req'[q] = req[q]
  BY DEF Become, TypeOK
<1> QED
  BY <1>1 DEF Holders, Held

LEMMA HoldersSame ==
    ASSUME UNCHANGED req, NEW m
    PROVE  Holders(m)' = Holders(m)
BY DEF Holders, Held

LEMMA InitIInv == Init => IInv
<1> SUFFICES ASSUME Init PROVE IInv
  OBVIOUS
<1>1. /\ Len(<<>>) = 0 /\ <<>> \in Seq(Slots)
      /\ Elements(<<>>) = {}
  BY DEF Elements
<1>2. Cardinality(Procs) \in Nat
  BY ProcsAssumption, FS_CardinalityType
<1>3. TypeOK
  <2>1. /\ now \in 0 .. MaxNow /\ seen \in [Objs -> 0 .. MaxNow + Ttl]
        /\ name \in [Objs -> Names \cup {Nil}]
    BY TimeAssumption DEF Init
  <2>2. /\ sess \in [Names -> Objs \cup {Nil}]
        /\ count \in [Names -> 0 .. Cardinality(Procs)]
        /\ req \in [Procs -> [at : {"idle", "new", "held", "stuck"},
                              name : Names \cup {Nil}, obj : Objs \cup {Nil}]]
    BY <1>2 DEF Init, Empty, Idle
  <2>3. /\ walk.at = "select" /\ walk.del = {}
        /\ WalkArray = <<>> /\ walk.n = 0
    BY DEF Init, AtRest, WalkArray
  <2>4. /\ slots \in Seq(Objs \cup {Nil}) /\ len \in 0 .. Len(slots)
        /\ walk.n \in 0 .. Len(WalkArray)
    BY <1>1, <2>3 DEF Init, Slots
  <2> QED
    BY <2>1, <2>2, <2>3, <2>4 DEF Init, TypeOK
<1>4. WalkInv
  BY <1>1 DEF Init, WalkInv, Walks, AtRest, Slots
<1>5. Sessions = {}
  BY DEF Init, Empty, Sessions
<1>6. ElementsAreNamed /\ RequestsHaveNames /\ HoldersHaveObjects
  BY <1>1, <1>5 DEF Init, Empty, Idle, AtRest, ElementsAreNamed, RequestsHaveNames,
     HoldersHaveObjects
<1>7. Counts
  <2>1. \A n : Holders(n) = {}
    BY DEF Init, Empty, Idle, Holders, Held
  <2> QED
    BY <2>1, FS_EmptySet DEF Init, Empty, Idle, Counts, CountsAreHolders, Held, Holders
<1> QED
  BY <1>3, <1>4, <1>6, <1>7 DEF IInv, Types

-----------------------------------------------------------------------------
(* Counts *)

LEMMA CountsAre ==
    Counts <=> \A m \in Names : /\ count[m] = Cardinality(Holders(m))
                                /\ \A q \in Holders(m) : sess[m] = req[q].obj
BY DEF Counts, CountsAreHolders, Holders

LEMMA CountsAreAfter ==
    Counts' <=> \A m \in Names : /\ count'[m] = Cardinality(Holders(m)')
                                 /\ \A q \in Holders(m)' : sess'[m] = req'[q].obj
BY DEF Counts, CountsAreHolders, Holders

(* A request that holds nothing before and after changes no count.         *)
LEMMA CountsQuiet ==
    ASSUME TypeOK, Counts, NEW p \in Procs, NEW step, NEW n, NEW o,
           req[p].at # "held", step # "held", Become(p, step, n, o),
           UNCHANGED <<sess, count>>
    PROVE  Counts'
<1>1. \A m : p \notin Holders(m)
  BY DEF Holders, Held
<1>2. \A m : Holders(m)' = Holders(m)
  BY <1>1, HoldersAfter
<1>3. \A q \in Procs : q # p => req'[q] = req[q]
  BY DEF Become, TypeOK
<1> QED
  BY <1>1, <1>2, <1>3, CountsAre, CountsAreAfter DEF Holders

(* Restore and New: one more holder.                                       *)
LEMMA CountsHeld ==
    ASSUME TypeOK, Counts, NEW p \in Procs, NEW n \in Names, NEW o,
           req[p].at # "held", Become(p, "held", n, o),
           count' = [count EXCEPT ![n] = @ + 1],
           sess'[n] = o, \A m \in Names \ {n} : sess'[m] = sess[m],
           \A q \in Holders(n) : sess[n] = o
    PROVE  Counts'
<1>1. \A m : p \notin Holders(m)
  BY DEF Holders, Held
<1>2. \A m : Holders(m)' = IF m = n THEN Holders(m) \cup {p} ELSE Holders(m)
  BY <1>1, HoldersAfter
<1>3. /\ req'[p].obj = o
      /\ \A q \in Procs : q # p => req'[q] = req[q]
  BY DEF Become, TypeOK
<1>4. Cardinality(Holders(n) \cup {p}) = Cardinality(Holders(n)) + 1
  BY <1>1, HoldersAreFinite, FS_AddElement
<1>5. /\ count'[n] = count[n] + 1
      /\ \A m \in Names \ {n} : count'[m] = count[m]
  BY DEF TypeOK
<1> QED
  BY <1>1, <1>2, <1>3, <1>4, <1>5, CountsAre, CountsAreAfter DEF Holders

(* Delete and del: a session nobody holds is taken out of the map.         *)
LEMMA CountsUnused ==
    ASSUME TypeOK, Counts, NEW n, n \in Names => Unused(n),
           sess' = [sess EXCEPT ![n] = Nil], UNCHANGED <<count, req>>
    PROVE  Counts'
<1>1. \A m : Holders(m)' = Holders(m)
  BY HoldersSame
<1>2. n \in Names => Holders(n) = {}
  BY CountsAre, HoldersAreFinite, FS_EmptySet DEF Unused
<1>3. \A m \in Names \ {n} : sess'[m] = sess[m]
  BY DEF TypeOK
<1> QED
  BY <1>1, <1>2, <1>3, CountsAre, CountsAreAfter

LEMMA CountsStep ==
    ASSUME Types, Counts, Next
    PROVE  Counts'
<1> USE DEF Types
<1>1. CASE UNCHANGED <<sess, count, req>>
  BY <1>1, HoldersSame, CountsAre, CountsAreAfter
<1>2. ASSUME NEW p \in Procs, NewFound(p) \/ \E n \in Names : RestoreMissing(p, n)
      PROVE  Counts'
  <2>1. \E step \in {"idle", "new"} : \E n, o : Become(p, step, n, o)
    BY <1>2 DEF NewFound, RestoreMissing
  <2>2. req[p].at # "held" /\ UNCHANGED <<sess, count>>
    BY <1>2 DEF NewFound, RestoreMissing, store
  <2> QED
    BY <2>1, <2>2, CountsQuiet
<1>3. ASSUME NEW p \in Procs, NEW n \in Names, Restore(p, n) PROVE Counts'
  <2>1. req[p].at # "held" /\ sess' = sess
    BY <1>3 DEF Restore
  <2>2. CASE UNCHANGED <<count, req>>
    BY <1>1, <2>1, <2>2
  <2>3. CASE Become(p, "held", n, sess[n]) /\ count' = [count EXCEPT ![n] = @ + 1]
    BY <2>1, <2>3, CountsHeld
  <2> QED
    BY <1>3, <2>2, <2>3 DEF Restore, Restored
<1>4. ASSUME NEW p \in Procs, New(p) PROVE Counts'
  <2> DEFINE n == req[p].name
  <2>1. n \in Names /\ req[p].at # "held" /\ sess[n] = Nil
    BY <1>4 DEF New, RequestsHaveNames
  <2>2. Holders(n) = {}
    BY <2>1, CountsAre, NilAssumption DEF HoldersHaveObjects, Holders, Held
  <2>3. CASE Become(p, "idle", Nil, Nil) /\ UNCHANGED <<sess, count>>
    BY <2>1, <2>3, CountsQuiet
  <2>4. ASSUME NEW o, Become(p, "held", n, o), sess' = [sess EXCEPT ![n] = o],
               count' = [count EXCEPT ![n] = @ + 1]
        PROVE  Counts'
    <3>1. sess'[n] = o /\ \A m \in Names \ {n} : sess'[m] = sess[m]
      BY <2>1, <2>4 DEF TypeOK
    <3> QED
      BY <2>1, <2>2, <2>4, <3>1, CountsHeld
  <2> QED
    BY <1>4, <2>3, <2>4 DEF New
<1>5. ASSUME NEW p \in Procs, Return(p) PROVE Counts'
  <2> DEFINE n == req[p].name
  <2>1. n \in Names /\ p \in Holders(n)
    BY <1>5 DEF Return, RequestsHaveNames, Holders, Held
  <2>2. sess[n] # Nil
    BY <2>1, CountsAre, NilAssumption DEF HoldersHaveObjects, Holders, Held
  <2>3. \E step \in {"stuck", "idle"} : Become(p, step, Nil, Nil)
    BY <1>5, Zenon DEF Return
  <2>4. /\ count' = [count EXCEPT ![n] = IF @ > 0 THEN @ - 1 ELSE @]
        /\ sess' = sess
    BY <1>5, <2>2 DEF Return
  <2>5. \A m : Holders(m)' = Holders(m) \ {p}
    BY <2>3, HoldersAfter
  <2>6. \A m : m # n => p \notin Holders(m)
    BY DEF Holders, Held
  <2>7. /\ Cardinality(Holders(n) \ {p}) = Cardinality(Holders(n)) - 1
        /\ Cardinality(Holders(n)) \in Nat /\ Cardinality(Holders(n)) # 0
    BY <2>1, HoldersAreFinite, FS_RemoveElement, FS_EmptySet, FS_CardinalityType
  <2>8. count'[n] = count[n] - 1 /\ \A m \in Names \ {n} : count'[m] = count[m]
    BY <2>1, <2>4, <2>7, CountsAre DEF TypeOK
  <2>9. \A q \in Procs : q # p => req'[q] = req[q]
    BY <2>3 DEF Become, TypeOK
  <2> HIDE DEF n
  <2> SUFFICES ASSUME NEW m \in Names
               PROVE  /\ count'[m] = Cardinality(Holders(m)')
                      /\ \A q \in Holders(m)' : sess'[m] = req'[q].obj
    BY CountsAreAfter
  <2>10. count'[m] = Cardinality(Holders(m) \ {p})
    <3>1. CASE m = n
      BY <2>1, <2>7, <2>8, <3>1, CountsAre
    <3>2. CASE m # n
      BY <2>6, <2>8, <3>2, CountsAre
    <3> QED
      BY <3>1, <3>2
  <2>11. \A q \in Holders(m) \ {p} : sess[m] = req[q].obj /\ req'[q] = req[q]
    BY <2>9, CountsAre DEF Holders
  <2> QED
    BY <2>4, <2>5, <2>10, <2>11
<1>6. ASSUME NEW n \in Names, Delete(n) PROVE Counts'
  <2>1. Unused(n) /\ UNCHANGED <<count, req>>
    BY <1>6 DEF Delete
  <2>2. CASE sess' = [sess EXCEPT ![n] = Nil]
    BY <2>1, <2>2, CountsUnused
  <2>3. CASE sess' = sess
    BY <1>1, <2>1, <2>3
  <2> QED
    BY <1>6, <2>2, <2>3 DEF Delete
<1>7. CASE WalkDeletes
  <2>1. UNCHANGED <<count, req>>
    BY <1>7 DEF WalkDeletes
  <2>2. CASE Unused(walk.name) /\ sess' = [sess EXCEPT ![walk.name] = Nil]
    BY <2>1, <2>2, CountsUnused
  <2>3. CASE sess' = sess
    BY <1>1, <2>1, <2>3
  <2> QED
    BY <1>7, <2>2, <2>3 DEF WalkDeletes
<1>8. CASE WalkPanics
  <2>1. \A m : Holders(m)' = {}
    BY <1>8 DEF WalkPanics, Empty, Idle, Holders, Held
  <2>2. \A m \in Names : count'[m] = 0
    BY <1>8 DEF WalkPanics, Empty
  <2> QED
    BY <2>1, <2>2, FS_EmptySet, CountsAreAfter
<1> QED
  BY <1>1, <1>2, <1>3, <1>4, <1>5, <1>6, <1>7, <1>8 DEF Next, Serve, Walk, Tick,
     WalkStarts, WalkReads, WalkCommits, WalkEnds, CloseBegins, CloseLooks, walkOnly,
     closeOnly, store, vars
-----------------------------------------------------------------------------
(* Types *)

Requests == [at : {"idle", "new", "held", "stuck"}, name : Names \cup {Nil},
             obj : Objs \cup {Nil}]

LEMMA FreeObject ==
    ASSUME Free # {}
    PROVE  LET o == CHOOSE free \in Free : TRUE IN
           o \in Objs /\ o \notin Sessions /\ o \notin Elements(slots) \cup Elements(walk.a)
BY DEF Free

LEMMA RequestsStep ==
    ASSUME Types, Next
    PROVE  req' \in [Procs -> Requests] /\ RequestsHaveNames' /\ HoldersHaveObjects'
<1> USE DEF Types
<1>1. req \in [Procs -> Requests]
  BY DEF TypeOK, Requests
<1>2. ASSUME NEW p \in Procs, NEW step \in {"idle", "new", "held", "stuck"},
             NEW n \in Names \cup {Nil}, NEW o \in Objs \cup {Nil},
             Become(p, step, n, o),
             step \in {"new", "held"} => n \in Names, step = "held" => o \in Objs
      PROVE  req' \in [Procs -> Requests] /\ RequestsHaveNames' /\ HoldersHaveObjects'
  <2> DEFINE r == [at |-> step, name |-> n, obj |-> o]
  <2>1. r \in Requests
    BY DEF Requests
  <2>2. req' = [req EXCEPT ![p] = r]
    BY <1>2 DEF Become
  <2>3. req' \in [Procs -> Requests]
    BY <1>1, <2>1, <2>2
  <2>4. \A q \in Procs : req'[q] = req[q] \/ req'[q] = r
    BY <1>1, <2>2
  <2> QED
    BY <1>2, <2>3, <2>4 DEF RequestsHaveNames, HoldersHaveObjects
<1>3. CASE UNCHANGED req
  BY <1>1, <1>3 DEF RequestsHaveNames, HoldersHaveObjects
<1>4. ASSUME NEW p \in Procs, Serve(p)
      PROVE  req' \in [Procs -> Requests] /\ RequestsHaveNames' /\ HoldersHaveObjects'
  <2>1. CASE NewFound(p) \/ Return(p)
    <3>1. \E step \in {"idle", "stuck"} : Become(p, step, Nil, Nil)
      BY <2>1, Zenon DEF NewFound, Return
    <3> QED
      BY <1>2, <3>1
  <2>2. CASE \E n \in Names : RestoreMissing(p, n)
    BY <1>2, <2>2 DEF RestoreMissing
  <2>3. ASSUME NEW n \in Names, Restore(p, n)
        PROVE  req' \in [Procs -> Requests] /\ RequestsHaveNames' /\ HoldersHaveObjects'
    <3>1. sess[n] \in Objs
      BY <2>3 DEF Restore, TypeOK
    <3>2. Become(p, "held", n, sess[n]) \/ UNCHANGED req
      BY <2>3 DEF Restore
    <3> QED
      BY <1>2, <1>3, <3>1, <3>2
  <2>4. CASE New(p)
    <3>1. req[p].name \in Names /\ Free # {}
      BY <2>4 DEF New, RequestsHaveNames
    <3>2. \/ Become(p, "idle", Nil, Nil)
          \/ \E o \in Objs : Become(p, "held", req[p].name, o)
      BY <2>4, <3>1, FreeObject DEF New
    <3> QED
      BY <1>2, <3>1, <3>2
  <2> QED
    BY <1>4, <2>1, <2>2, <2>3, <2>4 DEF Serve
<1>5. CASE WalkPanics
  BY <1>5, NilAssumption DEF WalkPanics, Empty, Idle, Requests, RequestsHaveNames, HoldersHaveObjects
<1> QED
  BY <1>3, <1>4, <1>5 DEF Next, Walk, Tick, Delete, WalkStarts, WalkReads, WalkDeletes,
     WalkCommits, WalkEnds, CloseBegins, CloseLooks, walkOnly, closeOnly

LEMMA MapStep ==
    ASSUME Types, Next
    PROVE  /\ sess' \in [Names -> Objs \cup {Nil}] /\ count' \in [Names -> Int]
           /\ seen' \in [Objs -> 0 .. MaxNow + Ttl] /\ now' \in 0 .. MaxNow
           /\ \A n \in Names : sess'[n] \in {sess[n], Nil}
                               \/ (sess'[n] \in Objs /\ name'[sess'[n]] = n)
<1> USE DEF Types
<1> DEFINE Goal == /\ sess' \in [Names -> Objs \cup {Nil}] /\ count' \in [Names -> Int]
                   /\ seen' \in [Objs -> 0 .. MaxNow + Ttl] /\ now' \in 0 .. MaxNow
                   /\ \A n \in Names : sess'[n] \in {sess[n], Nil}
                                       \/ (sess'[n] \in Objs /\ name'[sess'[n]] = n)
<1>1. /\ sess \in [Names -> Objs \cup {Nil}] /\ count \in [Names -> Int]
      /\ seen \in [Objs -> 0 .. MaxNow + Ttl] /\ now \in 0 .. MaxNow
      /\ name \in [Objs -> Names \cup {Nil}]
  <2>1. Cardinality(Procs) \in Nat
    BY ProcsAssumption, FS_CardinalityType
  <2> QED
    BY <2>1 DEF TypeOK
<1>2. CASE UNCHANGED <<sess, count, seen, now>>
  BY <1>1, <1>2
<1>3. CASE Tick
  BY <1>1, <1>3, TimeAssumption DEF Tick, store
<1>4. ASSUME NEW p \in Procs, NEW n \in Names, Restore(p, n) PROVE Goal
  <2>1. UNCHANGED <<sess, now>>
    BY <1>4 DEF Restore
  <2>2. count' = [count EXCEPT ![n] = @ + 1] \/ count' = count
    BY <1>4 DEF Restore, Restored
  <2>3. seen' = [seen EXCEPT ![sess[n]] = Deadline] \/ seen' = seen
    BY <1>4 DEF Restore
  <2> QED
    BY <1>1, <2>1, <2>2, <2>3, DeadlineType
<1>5. ASSUME NEW p \in Procs, New(p) PROVE Goal
  <2> DEFINE n == req[p].name
  <2>1. n \in Names /\ now' = now
    BY <1>5 DEF New, RequestsHaveNames
  <2>2. CASE UNCHANGED <<sess, count, seen>>
    BY <1>1, <2>1, <2>2
  <2>3. CASE \E o \in Objs :
               /\ seen' = [seen EXCEPT ![o] = Deadline]
               /\ name' = [name EXCEPT ![o] = n]
               /\ sess' = [sess EXCEPT ![n] = o]
               /\ count' = [count EXCEPT ![n] = @ + 1]
    BY <1>1, <2>1, <2>3, DeadlineType
  <2>4. Free # {}
    BY <1>5 DEF New
  <2> QED
    BY <1>5, <2>2, <2>3, <2>4, FreeObject DEF New
<1>6. ASSUME NEW p \in Procs, Return(p) PROVE Goal
  <2>1. UNCHANGED <<sess, seen, now>>
    BY <1>6 DEF Return
  <2>2. \/ count' = count
        \/ count' = [count EXCEPT ![req[p].name] = IF @ > 0 THEN @ - 1 ELSE @]
    BY <1>6 DEF Return
  <2> QED
    BY <1>1, <2>1, <2>2
<1>7. CASE WalkDeletes \/ \E n \in Names : Delete(n)
  <2>1. UNCHANGED <<count, seen, now>>
    BY <1>7 DEF WalkDeletes, Delete
  <2>2. sess' = sess \/ \E n : sess' = [sess EXCEPT ![n] = Nil]
    BY <1>7 DEF WalkDeletes, Delete
  <2> QED
    BY <1>1, <2>1, <2>2
<1>8. CASE WalkPanics
  BY <1>1, <1>8, TimeAssumption DEF WalkPanics, Empty
<1> QED
  BY <1>2, <1>3, <1>4, <1>5, <1>6, <1>7, <1>8 DEF Next, Serve, Walk, NewFound,
     RestoreMissing, WalkStarts, WalkReads, WalkCommits, WalkEnds, CloseBegins,
     CloseLooks, walkOnly, closeOnly, store

LEMMA RacedType ==
    ASSUME TypeOK, NEW r, Reindex(r)
    PROVE  raced' \in BOOLEAN
<1>1. raced \in BOOLEAN
  BY DEF TypeOK
<1> QED
  BY <1>1, Zenon DEF Reindex

LEMMA CloseStep ==
    ASSUME Types, Next
    PROVE  /\ closer' \in {"no", "again", "wait", "done"} /\ dsignal' \in BOOLEAN
           /\ jammed' \in BOOLEAN /\ raced' \in BOOLEAN /\ tied' \in BOOLEAN
<1> USE DEF Types
<1>1. CASE \E p \in Procs : Return(p)
  BY <1>1, Zenon DEF Return, WakeClose, TypeOK, ghosts
<1>2. CASE CloseBegins \/ CloseLooks
  BY <1>2, Zenon DEF CloseBegins, CloseLooks, closeOnly, TypeOK
<1>3. CASE WalkPanics
  BY <1>3 DEF WalkPanics
<1>4. CASE UNCHANGED <<closer, dsignal, jammed>>
  <2>1. CASE UNCHANGED <<raced, tied>>
    BY <1>4, <2>1 DEF TypeOK
  <2>2. CASE \E p \in Procs : New(p) \/ \E n \in Names : Restore(p, n)
    <3>1. raced' \in BOOLEAN
      BY <2>2, RacedType DEF New, Restore
    <3>2. tied' \in BOOLEAN
      BY <2>2, Zenon DEF New, Restore, TypeOK
    <3> QED
      BY <1>4, <3>1, <3>2 DEF TypeOK
  <2>3. CASE \E n \in Names : Delete(n)
    <3>1. raced' \in BOOLEAN
      BY <2>3, RacedType DEF Delete
    <3> QED
      BY <1>4, <2>3, <3>1 DEF Delete, TypeOK
  <2> QED
    BY <1>4, <2>1, <2>2, <2>3 DEF Next, Serve, Walk, Tick, Return, NewFound, RestoreMissing,
       WalkStarts, WalkReads, WalkDeletes, WalkCommits, WalkEnds, WalkPanics, CloseBegins,
       CloseLooks, walkOnly, closeOnly, ghosts
<1> QED
  BY <1>1, <1>2, <1>3, <1>4 DEF Next, Serve, Walk, Tick, Delete, New, NewFound, Restore,
     RestoreMissing, WalkStarts, WalkReads, WalkDeletes, WalkCommits, WalkEnds, walkOnly

(* What the index and the walk need of each other.                         *)
IndexOK ==
    /\ slots \in Seq(Slots) /\ len \in 0 .. Len(slots)
    /\ walk.n \in 0 .. Len(WalkArray)
    /\ WalkInv

LEMMA WalkArrayType ==
    ASSUME IndexOK
    PROVE  /\ WalkArray \in Seq(Slots)
           /\ Elements(WalkArray) \subseteq Elements(slots) \cup Elements(walk.a)
           /\ Elements(slots) \cup Elements(walk.a) \subseteq Objs
<1>1. walk.a \in Seq(Slots) /\ slots \in Seq(Slots)
  BY DEF IndexOK, WalkInv, Walks
<1>2. WalkArray \in {walk.a, slots}
  BY DEF WalkArray
<1>3. \A a \in Seq(Slots) : Elements(a) \subseteq Objs
  BY DEF Elements, Slots
<1> QED
  BY <1>1, <1>2, <1>3

(* The index gets the slice r and the walk keeps the array it has.         *)
LEMMA ReindexFacts ==
    ASSUME IndexOK, NEW r, r.a \in Seq(Slots), r.n \in 0 .. Len(r.a), Reindex(r)
    PROVE  /\ IndexOK' /\ slots' = r.a
           /\ Elements(walk'.a) \subseteq Elements(walk.a) \cup Elements(slots)
<1>1. slots' = r.a /\ len' = r.n
  BY DEF Reindex
<1>2. CASE walk' = walk
  <2>1. walk.at = "select" \/ walk.own \/ Len(r.a) = Len(slots)
    <3>1. CASE ~(walk.at = "select" \/ walk.own \/ Len(r.a) = Len(slots))
      <4>1. walk' = [walk EXCEPT !.own = TRUE, !.a = slots]
        BY <3>1 DEF Reindex
      <4>2. ~walk.own /\ walk'.own
        BY <3>1, <4>1 DEF IndexOK, WalkInv, Walks
      <4> QED
        BY <1>2, <4>2
    <3> QED
      BY <3>1
  <2>2. walk.n \in 0 .. Len(IF walk.own THEN walk.a ELSE r.a)
    BY <2>1 DEF IndexOK, WalkInv, WalkArray, AtRest
  <2> QED
    BY <1>1, <1>2, <2>2 DEF IndexOK, WalkInv, WalkArray
<1>3. CASE /\ ~(walk.at = "select" \/ walk.own)
           /\ walk' = [walk EXCEPT !.own = TRUE, !.a = slots]
  BY <1>1, <1>3 DEF IndexOK, WalkInv, Walks, WalkArray
<1> QED
  BY <1>2, <1>3 DEF Reindex

LEMMA IndexStep ==
    ASSUME Types, Next
    PROVE  /\ IndexOK'
           /\ Elements(slots') \cup Elements(walk'.a)
                \subseteq Elements(slots) \cup Elements(walk.a) \cup Sessions'
<1> USE DEF Types
<1> DEFINE Goal == /\ IndexOK'
                   /\ Elements(slots') \cup Elements(walk'.a)
                        \subseteq Elements(slots) \cup Elements(walk.a) \cup Sessions'
<1>1. IndexOK
  BY DEF IndexOK, TypeOK, Slots
<1>2. CASE UNCHANGED <<slots, len, walk>>
  BY <1>1, <1>2 DEF IndexOK, WalkInv, WalkArray
<1>3. ASSUME NEW r, r.a \in Seq(Slots), r.n \in 0 .. Len(r.a), Reindex(r),
             Elements(r.a) \subseteq Elements(slots) \cup Sessions'
      PROVE  Goal
  BY <1>1, <1>3, ReindexFacts
<1>4. ASSUME NEW p \in Procs, NEW n \in Names, Restore(p, n) PROVE Goal
  <2> DEFINE o == sess[n]
             out == Take(slots, len, seen, seen[o])
             in == Put(out.a, out.n, [seen EXCEPT ![o] = Deadline], o)
             r == IF out.ok THEN in ELSE out
  <2>1. o \in Objs /\ sess' = sess
    BY <1>4 DEF Restore, TypeOK
  <2>2. o \in Sessions'
    BY <2>1, NilAssumption DEF Sessions
  <2> HIDE DEF o
  <2>3. /\ out.a \in Seq(Slots) /\ out.n \in 0 .. Len(out.a)
        /\ Elements(out.a) \subseteq Elements(slots)
    BY <1>1, TakeFacts DEF IndexOK
  <2>4. Reindex(r)
    BY <1>4 DEF Restore, o
  <2> HIDE DEF out
  <2>5. /\ in.a \in Seq(Slots) /\ in.n \in 0 .. Len(in.a)
        /\ Elements(in.a) \subseteq Elements(out.a) \cup {o}
    BY <2>1, <2>3, PutFacts
  <2> HIDE DEF in
  <2>6. r = in \/ r = out
    OBVIOUS
  <2> HIDE DEF r
  <2> QED
    BY <1>3, <2>2, <2>3, <2>4, <2>5, <2>6
<1>5. ASSUME NEW p \in Procs, New(p) PROVE Goal
  <2> DEFINE n == req[p].name
             o == CHOOSE free \in Free : TRUE
             in == Put(slots, len, [seen EXCEPT ![o] = Deadline], o)
  <2>1. n \in Names /\ o \in Objs /\ Reindex(in)
    BY <1>5, FreeObject DEF New, RequestsHaveNames
  <2>2. in.ok => sess' = [sess EXCEPT ![n] = o]
    BY <1>5 DEF New
  <2> HIDE DEF o
  <2>3. /\ in.a \in Seq(Slots) /\ in.n \in 0 .. Len(in.a)
        /\ Elements(in.a) \subseteq Elements(slots) \cup {o}
    BY <1>1, <2>1, PutFacts DEF IndexOK
  <2>4. ~in.ok => in.a = slots
    BY DEF Put
  <2>5. in.ok => o \in Sessions'
    BY <2>1, <2>2, NilAssumption DEF Sessions, TypeOK
  <2> HIDE DEF in
  <2> QED
    BY <1>3, <2>1, <2>3, <2>4, <2>5
<1>6. ASSUME NEW n \in Names, Delete(n) PROVE Goal
  <2> DEFINE out == Take(slots, len, seen, seen[sess[n]])
  <2>1. /\ out.a \in Seq(Slots) /\ out.n \in 0 .. Len(out.a)
        /\ Elements(out.a) \subseteq Elements(slots)
    BY <1>1, TakeFacts DEF IndexOK
  <2>2. Reindex(out)
    BY <1>6 DEF Delete
  <2> QED
    BY <1>3, <2>1, <2>2
<1>7. CASE WalkStarts
  <2>1. walk.at = "select" /\ UNCHANGED <<slots, len>>
    BY <1>7 DEF WalkStarts, walkOnly
  <2>2. walk' = [at |-> "walk", pos |-> 1, name |-> Nil, del |-> {},
                 own |-> FALSE, a |-> <<>>, n |-> len]
    BY <1>7 DEF WalkStarts, AtRest
  <2>3. len \in Nat /\ <<>> \in Seq(Slots) /\ Elements(<<>>) = {}
    BY <1>1 DEF IndexOK, Elements
  <2>4. walk' \in Walks
    BY <2>2, <2>3 DEF Walks
  <2>5. WalkInv' /\ WalkArray' = slots' /\ walk'.n = len /\ walk'.a = <<>>
    BY <2>2, <2>4 DEF WalkInv, WalkArray
  <2> QED
    BY <1>1, <2>1, <2>3, <2>5 DEF IndexOK
<1>8. CASE WalkReads
  <2> DEFINE o == WalkArray[walk.pos]
             k == walk.pos + 1
  <2>1. walk \in Walks /\ k \in Nat \ {0}
    BY <1>1 DEF IndexOK, WalkInv, Walks
  <2>2. /\ walk.at = "walk" /\ o # Nil /\ walk.pos \in 1 .. Len(WalkArray)
        /\ UNCHANGED <<slots, len>>
    BY <1>1, <1>8 DEF WalkReads, walkOnly, IndexOK, WalkInv, Walks
  <2>3. o \in Elements(WalkArray)
    BY <1>1, <2>2, WalkArrayType DEF Elements
  <2>4. name[o] \in Names
    BY <1>1, <2>3, WalkArrayType DEF ElementsAreNamed
  <2>5. \/ walk' = [walk EXCEPT !.at = "del", !.name = name[o]]
        \/ walk' = [walk EXCEPT !.pos = k]
    BY <1>8 DEF WalkReads
  <2> HIDE DEF o, k
  <2>6. WalkArray' = WalkArray /\ walk'.n = walk.n /\ walk'.a = walk.a
    BY <2>1, <2>2, <2>5 DEF WalkArray, Walks
  <2>7. walk' \in Walks
    BY <2>1, <2>4, <2>5 DEF Walks
  <2>8. \/ walk'.at = "del" /\ walk'.name = name[o] /\ walk'.pos = walk.pos
        \/ walk'.at = "walk" /\ walk'.pos = k
    BY <2>1, <2>2, <2>5 DEF Walks
  <2>9. WalkInv'
    BY <2>1, <2>2, <2>4, <2>7, <2>8 DEF WalkInv
  <2> QED
    BY <1>1, <2>2, <2>6, <2>9 DEF IndexOK
<1>9. CASE WalkDeletes
  <2> DEFINE k == walk.pos + 1
  <2>1. walk \in Walks /\ k \in Nat \ {0}
    BY <1>1 DEF IndexOK, WalkInv, Walks
  <2>2. walk.at = "del" /\ sess[walk.name] \in Objs \cup {Nil} /\ UNCHANGED <<slots, len>>
    BY <1>1, <1>9 DEF WalkDeletes, IndexOK, WalkInv, TypeOK
  <2>3. \E next :
          /\ next = [walk EXCEPT !.at = "walk", !.pos = k, !.name = Nil]
          /\ \/ walk' = next
             \/ /\ walk' = [next EXCEPT !.del = @ \cup {sess[walk.name]}]
                /\ sess[walk.name] # Nil
    BY <1>9 DEF WalkDeletes
  <2> HIDE DEF k
  <2>4. PICK next :
          /\ next \in Walks /\ next.at = "walk" /\ next.pos = k
          /\ next.own = walk.own /\ next.n = walk.n /\ next.a = walk.a
          /\ \/ walk' = next
             \/ /\ walk' = [next EXCEPT !.del = @ \cup {sess[walk.name]}]
                /\ sess[walk.name] # Nil
    BY <2>1, <2>3 DEF Walks
  <2>5. WalkArray' = WalkArray /\ walk'.n = walk.n /\ walk'.a = walk.a
    BY <2>2, <2>4 DEF WalkArray, Walks
  <2>6. walk' \in Walks /\ walk'.at = "walk" /\ walk'.pos # 0
    BY <2>1, <2>2, <2>4 DEF Walks
  <2> QED
    BY <1>1, <2>2, <2>5, <2>6 DEF IndexOK, WalkInv
<1>10. CASE WalkCommits
  <2>1. PICK o \in walk.del :
          LET out == Take(WalkArray, walk.n, seen, seen[o]) IN
          \/ /\ walk' = [walk EXCEPT !.at = "commit", !.n = out.n, !.del = @ \ {o},
                                     !.a = IF walk.own THEN out.a ELSE <<>>]
             /\ slots' = IF walk.own THEN slots ELSE out.a
          \/ walk' = AtRest /\ slots' = slots
    BY <1>10 DEF WalkCommits
  <2>2. len' = len
    BY <1>10 DEF WalkCommits
  <2> DEFINE out == Take(WalkArray, walk.n, seen, seen[o])
  <2>3. /\ out.a \in Seq(Slots) /\ Len(out.a) = Len(WalkArray)
        /\ out.n \in 0 .. Len(out.a)
        /\ Elements(out.a) \subseteq Elements(WalkArray)
    BY <1>1, WalkArrayType, TakeFacts DEF IndexOK
  <2>4. Elements(<<>>) = {} /\ <<>> \in Seq(Slots) /\ Len(<<>>) = 0
    BY DEF Elements
  <2>5. CASE walk' = AtRest /\ slots' = slots
    BY <1>1, <2>2, <2>4, <2>5 DEF IndexOK, WalkInv, Walks, WalkArray, AtRest
  <2> HIDE DEF out
  <2>6. CASE /\ walk' = [walk EXCEPT !.at = "commit", !.n = out.n, !.del = @ \ {o},
                                     !.a = IF walk.own THEN out.a ELSE <<>>]
             /\ slots' = IF walk.own THEN slots ELSE out.a
    <3>1. walk'.own = walk.own /\ walk'.n = out.n
      BY <1>1, <2>6 DEF IndexOK, WalkInv, Walks
    <3>2. walk'.a = (IF walk.own THEN out.a ELSE <<>>)
      BY <1>1, <2>6 DEF IndexOK, WalkInv, Walks
    <3>3. WalkArray' = out.a
      BY <2>6, <3>1, <3>2, Zenon DEF WalkArray
    <3>4. slots' \in Seq(Slots) /\ len' \in 0 .. Len(slots')
      BY <1>1, <2>2, <2>3, <2>6 DEF IndexOK, WalkArray
    <3>5. walk \in Walks
      BY <1>1 DEF IndexOK, WalkInv
    <3>6. (IF walk.own THEN out.a ELSE <<>>) \in Seq(Slots) /\ out.n \in Nat
      BY <2>3, <2>4
    <3>7. walk' \in Walks /\ walk'.at = "commit"
      BY <2>6, <3>5, <3>6 DEF Walks
    <3>8. WalkInv'
      BY <3>7 DEF WalkInv
    <3>9. Elements(slots') \cup Elements(walk'.a) \subseteq Elements(slots) \cup Elements(walk.a)
      BY <1>1, <2>3, <2>4, <2>6, <3>2, WalkArrayType
    <3> QED
      BY <2>3, <3>1, <3>3, <3>4, <3>8, <3>9 DEF IndexOK
  <2> QED
    BY <2>1, <2>5, <2>6 DEF out
<1>11. CASE WalkEnds
  <2>1. slots' = WalkArray /\ len' = walk.n /\ walk' = AtRest
    BY <1>11 DEF WalkEnds
  <2>2. Elements(<<>>) = {} /\ <<>> \in Seq(Slots)
    BY DEF Elements
  <2>3. WalkInv' /\ WalkArray' = slots' /\ walk'.n = 0 /\ walk'.a = <<>>
    BY <2>1, <2>2 DEF WalkInv, Walks, AtRest, WalkArray
  <2> QED
    BY <1>1, <2>1, <2>2, <2>3, WalkArrayType DEF IndexOK
<1>12. CASE WalkPanics
  <2>1. slots' = <<>> /\ len' = 0 /\ walk' = AtRest
    BY <1>12 DEF WalkPanics
  <2>2. Elements(<<>>) = {} /\ <<>> \in Seq(Slots) /\ Len(<<>>) = 0
    BY DEF Elements
  <2> QED
    BY <2>1, <2>2 DEF IndexOK, WalkInv, Walks, AtRest, WalkArray
<1> QED
  BY <1>2, <1>4, <1>5, <1>6, <1>7, <1>8, <1>9, <1>10, <1>11, <1>12 DEF Next, Serve, Walk,
     Tick, Return, NewFound, RestoreMissing, CloseBegins, CloseLooks, closeOnly, store

LEMMA NamesStep ==
    ASSUME Types, Next
    PROVE  name' \in [Objs -> Names \cup {Nil}] /\ ElementsAreNamed'
<1> USE DEF Types
<1>1. name \in [Objs -> Names \cup {Nil}] /\ IndexOK
  BY DEF TypeOK, IndexOK, Slots
<1>2. CASE WalkPanics
  <2>1. \A n \in Names : sess'[n] = Nil
    BY <1>2 DEF WalkPanics, Empty
  <2>2. Elements(slots') = {} /\ Elements(walk'.a) = {}
    BY <1>2 DEF WalkPanics, AtRest, Elements
  <2> QED
    BY <1>2, <2>1, <2>2 DEF WalkPanics, ElementsAreNamed, Sessions
<1>3. CASE name' = name \/ \E o : \E n \in Names : name' = [name EXCEPT ![o] = n]
  <2>1. /\ name' \in [Objs -> Names \cup {Nil}]
        /\ \A o \in Objs : name'[o] = name[o] \/ name'[o] \in Names
    BY <1>1, <1>3
  <2>2. \A o \in Elements(slots) \cup Elements(walk.a) \cup Sessions : o \in Objs /\ name[o] \in Names
    BY <1>1, WalkArrayType DEF ElementsAreNamed, Sessions, TypeOK
  <2>3. \A o \in Sessions' : name'[o] \in Names
    <3> SUFFICES ASSUME NEW n \in Names, sess'[n] # Nil PROVE name'[sess'[n]] \in Names
      BY DEF Sessions
    <3>1. CASE sess'[n] = sess[n]
      BY <2>1, <2>2, <3>1 DEF Sessions
    <3> QED
      BY <3>1, MapStep
  <2> QED
    BY <2>1, <2>2, <2>3, IndexStep DEF ElementsAreNamed
<1>4. ASSUME NEW p \in Procs, New(p)
      PROVE  name' = name \/ \E o : \E n \in Names : name' = [name EXCEPT ![o] = n]
  BY <1>4 DEF New, RequestsHaveNames
<1> QED
  BY <1>2, <1>3, <1>4 DEF Next, Serve, Walk, Tick, Restore, Return, NewFound, RestoreMissing,
     Delete, WalkStarts, WalkReads, WalkDeletes, WalkCommits, WalkEnds, CloseBegins,
     CloseLooks, walkOnly, closeOnly, store

LEMMA TypesStep ==
    ASSUME Types, Counts, Next
    PROVE  Types'
<1>1. count' \in [Names -> 0 .. Cardinality(Procs)]
  <2>1. \A m \in Names : count'[m] = Cardinality(Holders(m)')
    BY CountsStep, CountsAreAfter
  <2>2. \A m \in Names : Holders(m)' \in SUBSET Procs
    BY DEF Holders
  <2>3. \A m \in Names : count'[m] \in 0 .. Cardinality(Procs)
    BY <2>1, <2>2, ProcsAssumption, FS_Subset, FS_CardinalityType
  <2> QED
    BY <2>3, MapStep
<1>2. IndexOK'
  BY IndexStep
<1>3. walk'.at \in {"select", "walk", "del", "commit"} /\ walk'.del \subseteq Objs
  BY <1>2 DEF IndexOK, WalkInv, Walks
<1>4. TypeOK'
  BY <1>1, <1>2, <1>3, MapStep, CloseStep, RequestsStep, NamesStep DEF TypeOK, IndexOK,
     Requests, Slots
<1> QED
  BY <1>2, <1>4, RequestsStep, NamesStep DEF Types, IndexOK

LEMMA StutterIInv ==
    ASSUME IInv, UNCHANGED vars
    PROVE  IInv'
<1>1. TypeOK'
  BY DEF IInv, Types, TypeOK, WalkArray, vars
<1>2. WalkInv' /\ ElementsAreNamed'
  BY DEF IInv, Types, WalkInv, ElementsAreNamed, Sessions, vars
<1>3. RequestsHaveNames' /\ HoldersHaveObjects'
  BY DEF IInv, Types, RequestsHaveNames, HoldersHaveObjects, vars
<1>4. Counts'
  BY HoldersSame, CountsAre, CountsAreAfter DEF IInv, vars
<1> QED
  BY <1>1, <1>2, <1>3, <1>4 DEF IInv, Types

(* All the invariants of the store, for any number of requests, sessions   *)
(* and objects.                                                            *)
THEOREM Invariance == Spec => []IInv
<1>1. ASSUME IInv, [Next]_vars PROVE IInv'
  BY <1>1, TypesStep, CountsStep, StutterIInv DEF IInv
<1> QED
  BY InitIInv, <1>1, PTL DEF Spec

(* The types of the store: the index never runs over its array, and the    *)
(* walk never over the array it knows.                                     *)
THEOREM TypeCorrect == Spec => []TypeOK
<1>1. IInv => TypeOK
  BY DEF IInv, Types
<1> QED
  BY <1>1, Invariance, PTL

(* The count of a session is the number of its holders, and they hold the  *)
(* object in the map: no session in use is deleted (Delete, del).          *)
THEOREM CountsAreTrue == Spec => []CountsAreHolders
<1>1. IInv => CountsAreHolders
  BY DEF IInv, Counts
<1> QED
  BY <1>1, Invariance, PTL

-----------------------------------------------------------------------------
(* The order of the index *)

(* The part of the slice that is in use: Commit has shortened it already.  *)
Kept == IF walk.at = "commit" THEN walk.n ELSE len

NamesMatch == \A n \in Names : sess[n] # Nil => name[sess[n]] = n

(* The walk sees the index as it is, and knows whom it looks at.           *)
WalkSees ==
    /\ ~walk.own /\ Kept <= len
    /\ walk.at \in {"walk", "del"} => walk.n = len
    /\ walk.at = "del" => walk.pos \in 1 .. len /\ walk.name = name[slots[walk.pos]]

InOrder == Ordered(slots, Kept, seen) /\ \A k \in Kept + 1 .. len : slots[k] = Nil

(* What is chosen for deletion is in the index still, its name is free.    *)
InIndex ==
    /\ Slice(slots, Kept) \subseteq Sessions \cup walk.del
    /\ walk.del \subseteq Slice(slots, Kept)
    /\ tied \/ Sessions \subseteq Slice(slots, Kept)
    /\ \A x \in walk.del : sess[name[x]] = Nil

Intact == WalkSees /\ InOrder /\ InIndex
IndexInv == NamesMatch /\ (~raced => Intact)

LEMMA IndexTypes ==
    ASSUME IInv
    PROVE  /\ slots \in Seq(Slots) /\ len \in 0 .. Len(slots) /\ Len(slots) \in Nat
           /\ seen \in [Objs -> Int] /\ sess \in [Names -> Objs \cup {Nil}]
           /\ name \in [Objs -> Names \cup {Nil}]
           /\ walk \in Walks /\ WalkInv /\ TypeOK /\ Deadline \in Int
<1>1. TypeOK /\ WalkInv
  BY DEF IInv, Types
<1>2. Deadline \in 0 .. MaxNow + Ttl
  BY <1>1, DeadlineType
<1> QED
  BY <1>1, <1>2, TimeAssumption DEF TypeOK, WalkInv, Slots

LEMMA InitIndexInv == Init => IndexInv
<1> SUFFICES ASSUME Init PROVE IndexInv
  OBVIOUS
<1>1. /\ \A n \in Names : sess[n] = Nil
      /\ len = 0 /\ walk.at = "select" /\ ~walk.own /\ walk.del = {}
  BY DEF Init, Empty, AtRest
<1>2. Sessions = {} /\ Slice(slots, 0) = {}
  BY <1>1 DEF Sessions, Slice
<1> QED
  BY <1>1, <1>2 DEF IndexInv, NamesMatch, Intact, WalkSees, InOrder, InIndex, Kept, Ordered

LEMMA IndexSame ==
    ASSUME IndexInv, UNCHANGED <<sess, name, seen, slots, len, walk, raced, tied>>
    PROVE  IndexInv'
BY DEF IndexInv, NamesMatch, Intact, WalkSees, InOrder, InIndex, Kept, Sessions

(* At rest the walk does not matter.                                       *)
LEMMA AtRestIntact ==
    ASSUME walk' = AtRest, Ordered(slots', len', seen'),
           Slice(slots', len') \subseteq Sessions',
           tied' \/ Sessions' \subseteq Slice(slots', len'), len' \in Nat
    PROVE  Intact'
<1>1. Kept' = len' /\ walk'.at = "select" /\ ~walk'.own /\ walk'.del = {}
  BY DEF Kept, AtRest
<1>2. Kept' <= len' /\ \A k \in len' + 1 .. len' : FALSE
  <2>1. \A m \in Nat : m <= m /\ \A k \in m + 1 .. m : FALSE
    OBVIOUS
  <2> QED
    BY <1>1, <2>1, Zenon
<1>3. WalkSees'
  BY <1>1, <1>2 DEF WalkSees
<1>4. InOrder'
  BY <1>1, <1>2 DEF InOrder
<1>5. InIndex'
  BY <1>1 DEF InIndex
<1> QED
  BY <1>3, <1>4, <1>5 DEF Intact

(* A change of the index during a walk is a race.                          *)
LEMMA NoRace ==
    ASSUME NEW r, Reindex(r), ~raced'
    PROVE  /\ ~raced /\ slots' = r.a /\ len' = r.n
           /\ walk.at # "select" => r.a = slots /\ r.n = len
           /\ walk.at = "select" \/ Len(r.a) = Len(slots) => walk' = walk
BY DEF Reindex

(* Storing what is there is not a change.                                  *)
LEMMA ReindexSame ==
    ASSUME TypeOK, NEW r, Reindex(r), r.a = slots, r.n = len
    PROVE  UNCHANGED <<slots, len, walk, raced>>
<1>1. slots' = slots /\ len' = len /\ walk' = walk
  BY DEF Reindex
<1>2. <<r.a, r.n>> = <<slots, len>> /\ raced \in BOOLEAN
  BY DEF TypeOK
<1>3. raced' = raced
  BY <1>2, Zenon DEF Reindex
<1> QED
  BY <1>1, <1>3

(* Restore during a walk that does not race leaves the slice as it was;    *)
(* between walks the session leaves the index and enters it again.         *)
LEMMA RestoreIndex ==
    ASSUME IInv, IndexInv, NEW p \in Procs, NEW n \in Names, Restore(p, n)
    PROVE  IndexInv'
<1>1. PICK o : o = sess[n]
  OBVIOUS
<1>2. PICK out : out = Take(slots, len, seen, seen[o])
  OBVIOUS
<1>3. PICK e : e = [seen EXCEPT ![o] = Deadline]
  OBVIOUS
<1>4. PICK in : in = Put(out.a, out.n, e, o)
  OBVIOUS
<1>5. /\ o \in Objs /\ o \in Sessions /\ sess' = sess /\ name' = name
      /\ seen' = IF out.ok THEN e ELSE seen
      /\ Reindex(IF out.ok THEN in ELSE out)
      /\ tied' = (tied \/ (out.ok /\ ~in.ok))
  BY <1>1, <1>2, <1>3, <1>4, IndexTypes DEF Restore, Sessions
<1>6. NamesMatch' /\ Sessions' = Sessions
  BY <1>5 DEF IndexInv, NamesMatch, Sessions
<1>7. ASSUME ~raced', ~out.ok
      PROVE  Intact'
  <2>1. Reindex(out) /\ out.a = slots /\ out.n = len
    BY <1>2, <1>5, <1>7 DEF Take
  <2>2. ~raced /\ walk' = walk /\ slots' = slots /\ len' = len
    BY <1>7, <2>1, NoRace
  <2> QED
    BY <1>5, <1>6, <1>7, <2>2 DEF IndexInv, Intact, WalkSees, InOrder, InIndex, Kept
<1>8. ASSUME ~raced', out.ok, walk.at # "select"
      PROVE  Intact'
  <2>1. Reindex(in)
    BY <1>5, <1>8
  <2>2. ~raced /\ in.a = slots /\ in.n = len /\ walk' = walk /\ slots' = slots /\ len' = len
    BY <1>8, <2>1, NoRace
  <2>3. Intact /\ Kept \in 0 .. len
    BY <2>2, IndexTypes DEF IndexInv, Intact, WalkSees, Kept, Walks
  <2>4. Ordered(slots, Kept, e)
    <3>1. PICK m \in 0 .. len : m = Kept
      BY <2>3
    <3>2. Ordered(slots, m, seen) /\ \A k \in m + 1 .. len : slots[k] = Nil
      BY <2>3, <3>1 DEF Intact, InOrder
    <3>3. /\ slots \in Seq(Slots) /\ len \in 0 .. Len(slots) /\ seen \in [Objs -> Int]
          /\ Deadline \in Int /\ o \in Objs /\ in.a = slots /\ in.n = len /\ out.ok
      BY <1>5, <1>8, <2>2, IndexTypes
    <3>4. e \in [Objs -> Int] /\ \A x \in Objs : x # o => e[x] = seen[x]
      BY <1>3, <3>3
    <3>5. Ordered(slots, m, e)
      <4>1. InPlace(slots, len, seen, e, o)
        BY <1>2, <1>4, <3>3 DEF InPlace
      <4> QED
        BY <3>2, <3>3, <3>4, <4>1, RestoredInPlace
    <3> QED
      BY <3>1, <3>5
  <2>5. seen' = e /\ (tied => tied')
    BY <1>5, <1>8
  <2> QED
    BY <1>5, <1>6, <2>2, <2>3, <2>4, <2>5 DEF Intact, WalkSees, InOrder, InIndex, Kept
<1>9. ASSUME ~raced', out.ok, walk.at = "select"
      PROVE  Intact'
  <2>1. Reindex(in)
    BY <1>5, <1>9
  <2>2. ~raced /\ slots' = in.a /\ len' = in.n /\ walk' = walk /\ walk = AtRest
    BY <1>9, <2>1, NoRace, IndexTypes DEF WalkInv
  <2>3. /\ Ordered(slots, len, seen) /\ Slice(slots, len) \subseteq Sessions
        /\ tied \/ Sessions \subseteq Slice(slots, len)
    BY <2>2 DEF IndexInv, Intact, InOrder, InIndex, Kept, AtRest
  <2>4. /\ out.n = len - 1 /\ len # 0 /\ Ordered(out.a, out.n, seen)
        /\ o \notin Slice(out.a, out.n) /\ Slice(out.a, out.n) \subseteq Slice(slots, len)
        /\ o \in Slice(slots, len) => Slice(slots, len) \ {o} \subseteq Slice(out.a, out.n)
    BY <1>2, <1>5, <1>9, <2>3, IndexTypes, TakeOrdered
  <2>5. out.a \in Seq(Slots) /\ out.n \in 0 .. Len(out.a) /\ out.n \in Nat
    BY <1>2, <2>4, IndexTypes, TakeFacts
  <2>6. e \in [Objs -> Int] /\ \A x \in Objs : x # o => e[x] = seen[x]
    BY <1>3, IndexTypes
  <2>7. Ordered(out.a, out.n, e)
    <3>1. Slice(out.a, out.n) \subseteq Objs
      BY <2>3, <2>4, IndexTypes DEF Sessions
    <3>2. \A x \in Slice(out.a, out.n) : seen[x] = e[x]
      BY <2>4, <2>6, <3>1
    <3> QED
      BY <2>4, <2>5, <3>2, OrderedAgrees
  <2>8. CASE in.ok
    <3>1. in.n = out.n + 1 /\ Ordered(in.a, in.n, e) /\ Slice(in.a, in.n) = Slice(out.a, out.n) \cup {o}
      BY <1>4, <1>5, <2>5, <2>6, <2>7, <2>8, PutOrdered
    <3>2. tied \/ Sessions \subseteq Slice(in.a, in.n)
      BY <1>5, <2>3, <2>4, <3>1
    <3>3. Slice(in.a, in.n) \subseteq Sessions /\ in.n \in Nat
      BY <1>5, <2>3, <2>4, <2>5, <3>1
    <3> QED
      BY <1>5, <1>6, <1>9, <2>2, <3>1, <3>2, <3>3, AtRestIntact
  <2>9. CASE ~in.ok
    <3>1. in.a = out.a /\ in.n = out.n
      BY <1>4, <2>9 DEF Put
    <3>2. tied' /\ seen' = e
      BY <1>5, <1>9, <2>9
    <3>3. Slice(out.a, out.n) \subseteq Sessions
      BY <2>3, <2>4
    <3> QED
      BY <1>6, <2>2, <2>5, <2>7, <3>1, <3>2, <3>3, AtRestIntact
  <2> QED
    BY <2>8, <2>9
<1> QED
  BY <1>6, <1>7, <1>8, <1>9 DEF IndexInv

(* New adds an object nobody refers to.                                    *)
LEMMA NewIndex ==
    ASSUME IInv, IndexInv, NEW p \in Procs, New(p)
    PROVE  IndexInv'
<1>1. PICK n : n = req[p].name
  OBVIOUS
<1>2. PICK o : o = CHOOSE free \in Free : TRUE
  OBVIOUS
<1>3. PICK e : e = [seen EXCEPT ![o] = Deadline]
  OBVIOUS
<1>4. PICK in : in = Put(slots, len, e, o)
  OBVIOUS
<1>5. /\ n \in Names /\ sess[n] = Nil /\ Reindex(in) /\ tied' = tied
      /\ o \in Objs /\ o # Nil /\ o \notin Sessions /\ o \notin Elements(slots)
  BY <1>1, <1>2, <1>3, <1>4, FreeObject, NilAssumption DEF New, IInv, Types, RequestsHaveNames
<1>6. CASE ~in.ok
  <2>1. UNCHANGED <<seen, name, sess>>
    BY <1>1, <1>2, <1>3, <1>4, <1>6 DEF New
  <2>2. in.a = slots /\ in.n = len
    BY <1>4, <1>6 DEF Put
  <2>3. UNCHANGED <<slots, len, walk, raced>>
    BY <1>5, <2>2, IndexTypes, ReindexSame
  <2> QED
    BY <1>5, <2>1, <2>3, IndexSame
<1>7. CASE in.ok
  <2>1. /\ seen' = e /\ name' = [name EXCEPT ![o] = n]
        /\ sess' = [sess EXCEPT ![n] = o]
    BY <1>1, <1>2, <1>3, <1>4, <1>7 DEF New
  <2>2. /\ sess'[n] = o /\ name'[o] = n
        /\ \A m \in Names : m # n => sess'[m] = sess[m]
        /\ \A x \in Objs : x # o => name'[x] = name[x]
    BY <1>5, <2>1, IndexTypes
  <2>3. \A m \in Names : sess[m] \in Objs \cup {Nil} /\ sess[m] # o
    BY <1>5, IndexTypes DEF Sessions
  <2>4. NamesMatch'
    BY <2>2, <2>3 DEF IndexInv, NamesMatch
  <2>5. Sessions' = Sessions \cup {o}
    BY <1>5, <2>2 DEF Sessions
  <2>6. ASSUME ~raced'
        PROVE  Intact'
    <3>1. ~raced /\ slots' = in.a /\ len' = in.n
      BY <1>5, <2>6, NoRace
    <3>2. in.n # len
      BY <1>4, <1>7, IndexTypes DEF Put
    <3>3. walk.at = "select" /\ walk = AtRest /\ walk' = AtRest
      BY <1>5, <2>6, <3>2, NoRace, IndexTypes DEF WalkInv
    <3>4. /\ Ordered(slots, len, seen) /\ Slice(slots, len) \subseteq Sessions
          /\ tied \/ Sessions \subseteq Slice(slots, len)
      BY <3>1, <3>3 DEF IndexInv, Intact, InOrder, InIndex, Kept, AtRest
    <3>5. slots \in Seq(Slots) /\ len \in 0 .. Len(slots) /\ len \in Nat
      BY IndexTypes
    <3>6. e \in [Objs -> Int] /\ \A x \in Objs : x # o => e[x] = seen[x]
      BY <1>3, IndexTypes
    <3>7. \A x \in Slice(slots, len) : seen[x] = e[x]
      BY <1>5, <3>4, <3>6, IndexTypes DEF Sessions
    <3>8. Ordered(slots, len, e)
      BY <3>4, <3>5, <3>7, OrderedAgrees
    <3>9. /\ in.n = len + 1 /\ Ordered(in.a, in.n, e)
          /\ Slice(in.a, in.n) = Slice(slots, len) \cup {o}
      BY <1>4, <1>5, <1>7, <3>5, <3>8, <3>6, PutOrdered
    <3>10. Slice(slots', len') \subseteq Sessions' /\ len' \in Nat
      BY <2>5, <3>1, <3>4, <3>5, <3>9
    <3>11. tied' \/ Sessions' \subseteq Slice(slots', len')
      BY <1>5, <2>5, <3>1, <3>4, <3>9
    <3> QED
      BY <2>1, <3>1, <3>3, <3>9, <3>10, <3>11, AtRestIntact
  <2> QED
    BY <2>4, <2>6 DEF IndexInv
<1> QED
  BY <1>6, <1>7

LEMMA DeleteIndex ==
    ASSUME IInv, IndexInv, NEW n \in Names, Delete(n)
    PROVE  IndexInv'
<1>1. PICK o : o = sess[n]
  OBVIOUS
<1>2. PICK out : out = Take(slots, len, seen, seen[o])
  OBVIOUS
<1>3. /\ o \in Objs /\ o # Nil /\ o \in Sessions /\ name' = name /\ seen' = seen /\ tied' = tied
      /\ sess' = (IF out.ok THEN [sess EXCEPT ![n] = Nil] ELSE sess)
      /\ Reindex(out)
  BY <1>1, <1>2, IndexTypes DEF Delete, Sessions
<1>4. CASE ~out.ok
  <2>1. out.a = slots /\ out.n = len
    BY <1>2, <1>4 DEF Take
  <2>2. UNCHANGED <<slots, len, walk, raced>>
    BY <1>3, <2>1, IndexTypes, ReindexSame
  <2> QED
    BY <1>3, <1>4, <2>2, IndexSame
<1>5. CASE out.ok
  <2>1. \A m \in Names : sess'[m] = IF m = n THEN Nil ELSE sess[m]
    BY <1>3, <1>5, IndexTypes
  <2>2. NamesMatch'
    BY <1>3, <2>1 DEF IndexInv, NamesMatch
  <2>3. Sessions' = Sessions \ {o}
    <3>1. \A m \in Names : m # n => sess[m] # o
      BY <1>1, <1>3 DEF IndexInv, NamesMatch
    <3> QED
      BY <1>1, <2>1, <3>1 DEF Sessions
  <2>4. ASSUME ~raced'
        PROVE  Intact'
    <3>1. ~raced /\ slots' = out.a /\ len' = out.n
      BY <1>3, <2>4, NoRace
    <3>2. out.n # len
      BY <1>2, <1>5, IndexTypes DEF Take
    <3>3. walk.at = "select" /\ walk = AtRest /\ walk' = AtRest
      BY <1>3, <2>4, <3>2, NoRace, IndexTypes DEF WalkInv
    <3>4. /\ Ordered(slots, len, seen) /\ Slice(slots, len) \subseteq Sessions
          /\ tied \/ Sessions \subseteq Slice(slots, len)
      BY <3>1, <3>3 DEF IndexInv, Intact, InOrder, InIndex, Kept, AtRest
    <3>5. /\ out.n = len - 1 /\ len # 0 /\ Ordered(out.a, out.n, seen)
          /\ o \notin Slice(out.a, out.n) /\ Slice(out.a, out.n) \subseteq Slice(slots, len)
          /\ o \in Slice(slots, len) => Slice(slots, len) \ {o} \subseteq Slice(out.a, out.n)
      BY <1>2, <1>3, <1>5, <3>4, IndexTypes, TakeOrdered
    <3>6. len' \in Nat /\ Ordered(slots', len', seen')
      BY <1>3, <3>1, <3>5, IndexTypes
    <3>7. Slice(slots', len') \subseteq Sessions'
      BY <2>3, <3>1, <3>4, <3>5
    <3>8. tied' \/ Sessions' \subseteq Slice(slots', len')
      BY <1>3, <2>3, <3>1, <3>4, <3>5
    <3> QED
      BY <3>3, <3>6, <3>7, <3>8, AtRestIntact
  <2> QED
    BY <2>2, <2>4 DEF IndexInv
<1> QED
  BY <1>4, <1>5

(* The walk of an index that did not race has nothing of its own.          *)
LEMMA WalkFacts ==
    ASSUME IInv, IndexInv, ~raced
    PROVE  /\ WalkArray = slots /\ Kept \in Nat /\ Kept \in 0 .. len /\ ~walk.own
           /\ walk.at \in {"walk", "commit"} => walk.n = Kept
<1>1. WalkSees
  BY DEF IndexInv, Intact
<1> QED
  BY <1>1, IndexTypes DEF WalkSees, WalkArray, Kept, Walks

LEMMA WalkStartsIndex ==
    ASSUME IInv, IndexInv, WalkStarts
    PROVE  IndexInv'
<1>1. /\ walk = AtRest /\ UNCHANGED <<sess, name, seen, slots, len, raced, tied>>
      /\ walk' = [at |-> "walk", pos |-> 1, name |-> Nil, del |-> {},
                  own |-> FALSE, a |-> <<>>, n |-> len]
  BY IndexTypes DEF WalkStarts, AtRest, WalkInv, walkOnly
<1>2. Sessions' = Sessions /\ Kept' = len /\ Kept = len
  BY <1>1 DEF Sessions, Kept, AtRest
<1>3. len \in Nat /\ len <= len
  BY IndexTypes
<1>4. ASSUME ~raced
      PROVE  Intact'
  BY <1>1, <1>2, <1>3, <1>4 DEF IndexInv, Intact, WalkSees, InOrder, InIndex, AtRest
<1> QED
  BY <1>1, <1>4 DEF IndexInv, NamesMatch

LEMMA WalkReadsIndex ==
    ASSUME IInv, IndexInv, WalkReads
    PROVE  IndexInv'
<1>1. PICK k : k = walk.pos + 1
  OBVIOUS
<1>2. PICK x : x = WalkArray[walk.pos]
  OBVIOUS
<1>3. /\ walk.at = "walk" /\ walk.pos <= walk.n
      /\ UNCHANGED <<sess, name, seen, slots, len, raced, tied>>
      /\ walk \in Walks /\ walk.pos # 0
      /\ \/ walk' = [walk EXCEPT !.at = "del", !.name = name[x]]
         \/ walk' = [walk EXCEPT !.pos = k]
  BY <1>1, <1>2, IndexTypes DEF WalkReads, walkOnly, WalkInv
<1>4. /\ walk'.n = walk.n /\ walk'.own = walk.own /\ walk'.del = walk.del
      /\ \/ walk'.at = "walk"
         \/ walk'.at = "del" /\ walk'.name = name[x] /\ walk'.pos = walk.pos
  BY <1>3 DEF Walks
<1>5. Sessions' = Sessions /\ Kept' = Kept
  BY <1>3, <1>4 DEF Sessions, Kept
<1>6. ASSUME ~raced
      PROVE  Intact'
  <2>1. WalkArray = slots /\ ~walk.own /\ walk.n = len
    BY <1>3, <1>6, WalkFacts DEF Kept
  <2>2. walk.pos \in 1 .. len
    BY <1>3, <2>1, IndexTypes DEF Walks
  <2>3. WalkSees'
    BY <1>2, <1>3, <1>4, <1>5, <1>6, <2>1, <2>2 DEF IndexInv, Intact, WalkSees
  <2>4. InOrder' /\ InIndex'
    BY <1>3, <1>4, <1>5, <1>6 DEF IndexInv, Intact, InOrder, InIndex
  <2> QED
    BY <2>3, <2>4 DEF Intact
<1> QED
  BY <1>3, <1>6 DEF IndexInv, NamesMatch

(* The name the walk deletes is the name of a session it saw in the index, *)
(* and as nothing changed that is the session.                             *)
LEMMA WalkDeletesIndex ==
    ASSUME IInv, IndexInv, WalkDeletes
    PROVE  IndexInv'
<1>1. PICK n : n = walk.name
  OBVIOUS
<1>2. PICK o : o = sess[n]
  OBVIOUS
<1>3. /\ walk.at = "del" /\ UNCHANGED <<name, seen, slots, len, raced, tied>>
      /\ walk \in Walks /\ n \in Names
  BY <1>1, IndexTypes DEF WalkDeletes, WalkInv, ghosts
<1>4. /\ walk'.at = "walk" /\ walk'.n = walk.n /\ walk'.own = walk.own
      /\ \/ walk'.del = walk.del /\ sess' = sess
         \/ /\ o # Nil /\ o \notin walk.del
            /\ walk'.del = walk.del \cup {o} /\ sess' = [sess EXCEPT ![n] = Nil]
  <2>1. PICK k : k = walk.pos + 1
    OBVIOUS
  <2>2. PICK next : next = [walk EXCEPT !.at = "walk", !.pos = k, !.name = Nil]
    OBVIOUS
  <2>3. \/ walk' = next /\ sess' = sess
        \/ /\ o # Nil /\ o \notin walk.del /\ sess' = [sess EXCEPT ![n] = Nil]
           /\ walk' = [next EXCEPT !.del = @ \cup {o}]
    BY <1>1, <1>2, <2>1, <2>2 DEF WalkDeletes
  <2>4. /\ next.at = "walk" /\ next.n = walk.n /\ next.own = walk.own /\ next.del = walk.del
        /\ next \in [at : {"walk"}, pos : {k}, name : {Nil}, del : SUBSET Objs,
                     own : BOOLEAN, a : Seq(Slots), n : Nat]
    BY <1>3, <2>2 DEF Walks
  <2> QED
    BY <2>3, <2>4
<1>5. Kept' = Kept /\ Kept = len
  BY <1>3, <1>4 DEF Kept
<1>6. CASE walk'.del = walk.del /\ sess' = sess
  <2>1. Sessions' = Sessions
    BY <1>6 DEF Sessions
  <2>2. ASSUME ~raced
        PROVE  Intact'
    BY <1>3, <1>4, <1>5, <1>6, <2>1, <2>2 DEF IndexInv, Intact, WalkSees, InOrder, InIndex
  <2> QED
    BY <1>3, <1>6, <2>2 DEF IndexInv, NamesMatch
<1>7. CASE /\ o # Nil /\ o \notin walk.del
           /\ walk'.del = walk.del \cup {o} /\ sess' = [sess EXCEPT ![n] = Nil]
  <2>1. \A m \in Names : sess'[m] = IF m = n THEN Nil ELSE sess[m]
    BY <1>7, IndexTypes
  <2>2. NamesMatch'
    BY <1>3, <2>1 DEF IndexInv, NamesMatch
  <2>3. name[o] = n
    BY <1>2, <1>3, <1>7 DEF IndexInv, NamesMatch
  <2>4. Sessions' = Sessions \ {o}
    <3>1. \A m \in Names : m # n => sess[m] # o
      BY <1>7, <2>3 DEF IndexInv, NamesMatch
    <3> QED
      BY <1>2, <2>1, <3>1 DEF Sessions
  <2>5. ASSUME ~raced
        PROVE  Intact'
    <3>1. WalkSees /\ InOrder /\ InIndex
      BY <2>5 DEF IndexInv, Intact
    <3>2. PICK x : x = slots[walk.pos]
      OBVIOUS
    <3>3. x \in Slice(slots, len) /\ name[x] = n
      BY <1>1, <1>3, <3>1, <3>2 DEF WalkSees, Slice
    <3>4. x \in Sessions
      BY <1>2, <1>5, <1>7, <3>1, <3>3 DEF InIndex
    <3>5. x = o
      BY <1>2, <3>3, <3>4 DEF IndexInv, NamesMatch, Sessions
    <3>6. WalkSees'
      BY <1>3, <1>4, <1>5, <3>1 DEF WalkSees
    <3>7. InOrder'
      BY <1>3, <1>5, <3>1 DEF InOrder
    <3>8. \A y \in walk'.del : sess'[name'[y]] = Nil
      <4> SUFFICES ASSUME NEW y \in walk'.del PROVE sess'[name'[y]] = Nil
        OBVIOUS
      <4>1. CASE y = o
        BY <1>3, <2>1, <2>3, <4>1
      <4>2. CASE y # o
        <5>1. y \in walk.del /\ sess[name[y]] = Nil
          BY <1>7, <3>1, <4>2 DEF InIndex
        <5>2. name[y] \in Names
          <6>1. PICK i \in 1 .. len : y = slots[i]
            BY <1>5, <3>1, <5>1 DEF InIndex, Slice
          <6>2. y # Nil /\ i \in DOMAIN slots
            BY <1>5, <3>1, <6>1, IndexTypes DEF InOrder, Ordered
          <6>3. y \in Elements(slots)
            BY <6>1, <6>2 DEF Elements
          <6> QED
            BY <6>3 DEF IInv, Types, ElementsAreNamed
        <5> QED
          BY <1>3, <2>1, <5>1, <5>2
      <4> QED
        BY <4>1, <4>2
    <3>9. InIndex'
      BY <1>3, <1>5, <1>7, <2>4, <3>1, <3>3, <3>5, <3>8 DEF InIndex
    <3> QED
      BY <3>6, <3>7, <3>9 DEF Intact
  <2> QED
    BY <1>3, <2>2, <2>5 DEF IndexInv
<1> QED
  BY <1>4, <1>6, <1>7

(* Commit finds every session that was chosen.                             *)
LEMMA WalkCommitsIndex ==
    ASSUME IInv, IndexInv, WalkCommits
    PROVE  IndexInv'
<1>1. PICK o \in walk.del :
        \E out : /\ out = Take(WalkArray, walk.n, seen, seen[o])
                 /\ IF out.ok
                    THEN /\ walk' = [walk EXCEPT !.at = "commit", !.n = out.n,
                                                 !.del = @ \ {o},
                                                 !.a = IF walk.own THEN out.a ELSE <<>>]
                         /\ slots' = IF walk.own THEN slots ELSE out.a
                    ELSE walk' = AtRest /\ slots' = slots
  BY DEF WalkCommits
<1>2. PICK out : out = Take(WalkArray, walk.n, seen, seen[o])
  OBVIOUS
<1>3. IF out.ok
      THEN /\ walk' = [walk EXCEPT !.at = "commit", !.n = out.n, !.del = @ \ {o},
                                   !.a = IF walk.own THEN out.a ELSE <<>>]
           /\ slots' = IF walk.own THEN slots ELSE out.a
      ELSE walk' = AtRest /\ slots' = slots
  BY <1>1, <1>2
<1>4. /\ walk.at \in {"walk", "commit"} /\ walk \in Walks
      /\ UNCHANGED <<sess, name, seen, len, raced, tied>>
  BY IndexTypes DEF WalkCommits, ghosts
<1>5. NamesMatch' /\ Sessions' = Sessions
  BY <1>4 DEF IndexInv, NamesMatch, Sessions
<1>6. ASSUME ~raced
      PROVE  Intact'
  <2>1. /\ WalkArray = slots /\ Kept \in Nat /\ Kept \in 0 .. len /\ ~walk.own
        /\ walk.n = Kept
    BY <1>4, <1>6, WalkFacts
  <2>2. PICK n \in Nat : n = Kept
    BY <2>1
  <2>3. out = Take(slots, n, seen, seen[o]) /\ n \in 0 .. Len(slots) /\ n \in 0 .. len
    BY <1>2, <2>1, <2>2, IndexTypes
  <2>4. WalkSees /\ InOrder /\ InIndex
    BY <1>6 DEF IndexInv, Intact
  <2>5. /\ Ordered(slots, n, seen) /\ \A k \in n + 1 .. len : slots[k] = Nil
        /\ Slice(slots, n) \subseteq Sessions \cup walk.del
        /\ walk.del \subseteq Slice(slots, n)
        /\ tied \/ Sessions \subseteq Slice(slots, n)
        /\ \A x \in walk.del : sess[name[x]] = Nil
    BY <2>2, <2>4 DEF InOrder, InIndex
  <2>6. o \in Objs /\ o \in Slice(slots, n)
    BY <1>4, <2>5 DEF Walks
  <2>7. /\ out.ok /\ out.n = n - 1 /\ n # 0
        /\ Ordered(out.a, out.n, seen) /\ o \notin Slice(out.a, out.n)
        /\ Slice(out.a, out.n) \subseteq Slice(slots, n)
        /\ Slice(slots, n) \ {o} \subseteq Slice(out.a, out.n)
        /\ out.a[n] = Nil /\ \A k \in n + 1 .. Len(slots) : out.a[k] = slots[k]
    BY <2>3, <2>5, <2>6, IndexTypes, TakeOrdered
  <2>8. /\ slots' = out.a /\ walk'.at = "commit" /\ walk'.n = out.n
        /\ walk'.del = walk.del \ {o} /\ ~walk'.own
    BY <1>3, <1>4, <2>1, <2>7 DEF Walks
  <2>9. Kept' = out.n
    BY <2>8 DEF Kept
  <2>10. WalkSees'
    <3>1. out.n <= len
      BY <2>3, <2>7, IndexTypes
    <3> QED
      BY <1>4, <2>8, <2>9, <3>1 DEF WalkSees
  <2>11. InOrder'
    <3>1. \A k \in out.n + 1 .. len : out.a[k] = Nil
      <4> SUFFICES ASSUME NEW k \in out.n + 1 .. len PROVE out.a[k] = Nil
        OBVIOUS
      <4>1. n \in Nat /\ n # 0 /\ out.n = n - 1 /\ len \in Nat /\ len <= Len(slots)
        BY <2>7, IndexTypes
      <4>2. k = n \/ k \in n + 1 .. len
        BY <4>1
      <4>3. k = n \/ k \in n + 1 .. Len(slots)
        BY <4>1, <4>2, IndexTypes
      <4> QED
        BY <2>5, <2>7, <4>2, <4>3
    <3> QED
      BY <1>4, <2>7, <2>8, <2>9, <3>1 DEF InOrder
  <2>12. o \notin Sessions
    <3>1. \A m \in Names : sess[m] # Nil => name[sess[m]] = m
      BY DEF IndexInv, NamesMatch
    <3> QED
      BY <2>5, <3>1 DEF Sessions
  <2>13. InIndex'
    BY <1>4, <1>5, <2>5, <2>7, <2>8, <2>9, <2>12 DEF InIndex
  <2> QED
    BY <2>10, <2>11, <2>13 DEF Intact
<1> QED
  BY <1>4, <1>5, <1>6 DEF IndexInv

LEMMA WalkEndsIndex ==
    ASSUME IInv, IndexInv, WalkEnds
    PROVE  IndexInv'
<1>1. /\ walk.at \in {"walk", "commit"} /\ walk.del = {} /\ walk' = AtRest
      /\ slots' = WalkArray /\ len' = walk.n
      /\ UNCHANGED <<sess, name, seen, raced, tied>>
  BY DEF WalkEnds, ghosts
<1>2. NamesMatch' /\ Sessions' = Sessions
  BY <1>1 DEF IndexInv, NamesMatch, Sessions
<1>3. ASSUME ~raced
      PROVE  Intact'
  <2>1. slots' = slots /\ len' = Kept /\ Kept \in Nat
    BY <1>1, <1>3, WalkFacts
  <2>2. /\ Ordered(slots, Kept, seen) /\ Slice(slots, Kept) \subseteq Sessions
        /\ tied \/ Sessions \subseteq Slice(slots, Kept)
    BY <1>1, <1>3 DEF IndexInv, Intact, InOrder, InIndex
  <2> QED
    BY <1>1, <1>2, <2>1, <2>2, AtRestIntact
<1> QED
  BY <1>1, <1>2, <1>3 DEF IndexInv

LEMMA WalkPanicsIndex ==
    ASSUME WalkPanics
    PROVE  IndexInv'
<1>1. /\ \A n \in Names : sess'[n] = Nil
      /\ slots' = <<>> /\ len' = 0 /\ walk' = AtRest
  BY DEF WalkPanics, Empty
<1>2. Sessions' = {} /\ Slice(slots', 0) = {} /\ Ordered(slots', 0, seen') /\ 0 \in Nat
  BY <1>1 DEF Sessions, Slice, Ordered
<1>3. Intact'
  BY <1>1, <1>2, AtRestIntact
<1> QED
  BY <1>1, <1>3 DEF IndexInv, NamesMatch

LEMMA IndexKept ==
    ASSUME IInv, IndexInv, [Next]_vars
    PROVE  IndexInv'
<1>1. CASE UNCHANGED <<sess, name, seen, slots, len, walk, raced, tied>>
  BY <1>1, IndexSame
<1>2. CASE \E p \in Procs : Serve(p)
  <2>1. PICK p \in Procs : Serve(p)
    BY <1>2
  <2>2. \/ New(p) \/ \E n \in Names : Restore(p, n)
        \/ UNCHANGED <<sess, name, seen, slots, len, walk, raced, tied>>
    BY <2>1 DEF Serve, NewFound, Return, RestoreMissing, store, ghosts
  <2> QED
    BY <1>1, <2>2, NewIndex, RestoreIndex
<1> QED
  BY <1>1, <1>2, DeleteIndex, WalkStartsIndex, WalkReadsIndex, WalkDeletesIndex,
     WalkCommitsIndex, WalkEndsIndex, WalkPanicsIndex
     DEF Next, Walk, Tick, CloseBegins, CloseLooks, closeOnly, store, ghosts, vars

(* As long as no change of the index overlapped a clean-up, the index is   *)
(* in order, has no session that is gone, and misses one only after a tie  *)
(* (sort.Search of Ordered.Del and Set finds the place in such an index).  *)
THEOREM IndexIsKept == Spec => []IndexMatches
<1>1. IInv /\ IndexInv => IndexMatches
  <2> SUFFICES ASSUME IInv, IndexInv, ~raced, walk.at # "commit" PROVE IndexMatches
    BY DEF IndexMatches
  <2>1. Kept = len /\ InOrder /\ InIndex
    BY DEF IndexInv, Intact, Kept
  <2> QED
    BY <2>1 DEF IndexMatches, InOrder, InIndex, Ordered, Slice
<1> QED
  BY <1>1, Invariance, InitIndexInv, IndexKept, PTL DEF Spec

-----------------------------------------------------------------------------
(* The promise of the interface *)

(* What SessionStore calls live and held.                                  *)
live == {n \in Names : sess[n] # Nil}
held == {<<p, req[p].name>> : p \in {q \in Procs : req[q].at = "held"}}

(* Held, in the terms of the requests.                                     *)
LEMMA HeldBy ==
    ASSUME NEW p \in Procs, NEW n
    PROVE  <<p, n>> \in held <=> Held(p, n)
BY DEF held, Held

(* A call of one request changes what that one holds.                      *)
LEMMA HeldAfter ==
    ASSUME TypeOK, NEW p \in Procs, NEW step, NEW n, NEW o, Become(p, step, n, o)
    PROVE  held' = {h \in held : h[1] # p} \cup (IF step = "held" THEN {<<p, n>>} ELSE {})
<1>1. /\ req'[p].at = step /\ req'[p].name = n
      /\ \A q \in Procs : q # p => req'[q] = req[q]
  BY DEF Become, TypeOK
<1> QED
  BY <1>1 DEF held

LEMMA NotHeld ==
    ASSUME NEW p \in Procs, req[p].at # "held"
    PROVE  {h \in held : h[1] # p} = held
BY DEF held

(* One that holds nothing and is handed nothing changes nothing.           *)
LEMMA HeldStays ==
    ASSUME TypeOK, NEW p \in Procs, req[p].at # "held",
           NEW step, step # "held", NEW n, NEW o, Become(p, step, n, o)
    PROVE  held' = held
<1>1. held' = {h \in held : h[1] # p} \cup {}
  BY HeldAfter
<1> QED
  BY <1>1, NotHeld

LEMMA PromiseInit == Init => Promise!Init
BY DEF Init, Empty, Idle, Promise!Init

(* What a step does to live and held is a step of the promise.             *)
Promised == Promise!Next \/ UNCHANGED <<live, held>>

LEMMA PromiseNew ==
    ASSUME IInv, NEW p \in Procs, NEW n \in Names, n = req[p].name, New(p)
    PROVE  Promised
<1>1. req[p].at # "held" /\ sess[n] = Nil
  BY DEF New
<1>2. CASE sess' = sess /\ Become(p, "idle", Nil, Nil)
  <2>1. live' = live
    BY <1>2 DEF live
  <2>2. held' = held
    BY <1>1, <1>2, HeldStays DEF IInv, Types
  <2> QED
    BY <2>1, <2>2 DEF Promised
<1>3. CASE \E o \in Objs : sess' = [sess EXCEPT ![n] = o] /\ Become(p, "held", n, o)
  <2>1. live' = live \cup {n} /\ n \notin live
    BY <1>1, <1>3, NilAssumption DEF live, IInv, Types, TypeOK
  <2>2. held' = held \cup {<<p, n>>}
    BY <1>1, <1>3, HeldAfter, NotHeld DEF IInv, Types
  <2>3. Promise!New(p, n)
    BY <2>1, <2>2 DEF Promise!New, live, held
  <2> QED
    BY <2>3 DEF Promised, Promise!Next
<1> QED
  BY <1>2, <1>3, FreeObject DEF New

LEMMA PromiseRestore ==
    ASSUME IInv, NEW p \in Procs, NEW n \in Names, Restore(p, n)
    PROVE  Promised
<1>1. req[p].at # "held" /\ sess' = sess /\ sess[n] # Nil
  BY DEF Restore
<1>2. CASE UNCHANGED req
  BY <1>1, <1>2 DEF live, held, Promised
<1>3. CASE Become(p, "held", n, sess[n])
  <2>1. live' = live /\ n \in live
    BY <1>1 DEF live
  <2>2. held' = held \cup {<<p, n>>}
    BY <1>1, <1>3, HeldAfter, NotHeld DEF IInv, Types
  <2>3. Promise!Restore(p, n)
    BY <2>1, <2>2 DEF Promise!Restore, live, held
  <2> QED
    BY <2>3 DEF Promised, Promise!Next
<1> QED
  BY <1>2, <1>3 DEF Restore

LEMMA PromiseReturn ==
    ASSUME IInv, NEW p \in Procs, NEW n \in Names, n = req[p].name, Return(p)
    PROVE  Promised
<1>1. req[p].at = "held" /\ sess' = sess
  BY DEF Return
<1>2. \E step \in {"stuck", "idle"} : Become(p, step, Nil, Nil)
  BY Zenon DEF Return
<1>3. held' = {h \in held : h[1] # p}
  BY <1>2, HeldAfter DEF IInv, Types
<1>4. <<p, n>> \in held /\ {h \in held : h[1] # p} = held \ {<<p, n>>}
  BY <1>1 DEF held
<1>5. Promise!Return(p, n)
  BY <1>1, <1>3, <1>4 DEF Promise!Return, live, held
<1> QED
  BY <1>5 DEF Promised, Promise!Next

(* Delete and the clean-up: the count says that nobody holds it.           *)
LEMMA PromiseDelete ==
    ASSUME IInv, NEW n \in Names, Unused(n), sess[n] # Nil,
           sess' = [sess EXCEPT ![n] = Nil], UNCHANGED req
    PROVE  Promised
<1>1. Holders(n) = {}
  BY CountsAre, HoldersAreFinite, FS_EmptySet DEF IInv, Unused
<1>2. \A u \in Procs : <<u, n>> \notin held
  BY <1>1, HeldBy DEF Holders
<1>3. live' = live \ {n} /\ n \in live /\ held' = held
  BY DEF live, held, IInv, Types, TypeOK
<1>4. Promise!Delete(n)
  BY <1>2, <1>3 DEF Promise!Delete, live, held
<1> QED
  BY <1>4 DEF Promised, Promise!Next

LEMMA PromiseQuiet ==
    ASSUME UNCHANGED <<sess, req>>
    PROVE  Promised
BY DEF live, held, Promised

LEMMA PromiseDeletes ==
    ASSUME IInv,
           WalkDeletes \/ \E n \in Names : Delete(n)
    PROVE  Promised
<1>1. UNCHANGED req /\ \/ UNCHANGED sess
                       \/ \E n \in Names : /\ sess' = [sess EXCEPT ![n] = Nil]
                                           /\ Unused(n) /\ sess[n] # Nil
  <2>1. CASE WalkDeletes
    <3>1. walk.name \in Names
      BY <2>1 DEF WalkDeletes, IInv, Types, WalkInv
    <3> QED
      BY <2>1, <3>1 DEF WalkDeletes
  <2>2. CASE \E n \in Names : Delete(n)
    BY <2>2 DEF Delete
  <2> QED
    BY <2>1, <2>2
<1> QED
  BY <1>1, PromiseQuiet, PromiseDelete

(* The calls that find the session missing, or there.                      *)
LEMMA PromiseMisses ==
    ASSUME IInv, NEW p \in Procs, NEW n \in Names,
           NewFound(p) \/ RestoreMissing(p, n)
    PROVE  Promised
<1>1. req[p].at # "held" /\ sess' = sess
  BY DEF NewFound, RestoreMissing, store
<1>2. Become(p, "idle", Nil, Nil) \/ Become(p, "new", n, Nil)
  BY DEF NewFound, RestoreMissing
<1>3. held' = held
  BY <1>1, <1>2, HeldStays DEF IInv, Types
<1> QED
  BY <1>1, <1>3 DEF live, Promised

LEMMA PromiseServe ==
    ASSUME IInv, NEW p \in Procs, Serve(p)
    PROVE  Promised
<1>1. CASE \E n \in Names : RestoreMissing(p, n) \/ Restore(p, n)
  BY <1>1, PromiseMisses, PromiseRestore
<1>2. CASE NewFound(p) \/ New(p) \/ Return(p)
  <2>1. req[p].name \in Names
    BY <1>2 DEF NewFound, New, Return, IInv, Types, RequestsHaveNames
  <2> QED
    BY <1>2, <2>1, PromiseMisses, PromiseNew, PromiseReturn
<1> QED
  BY <1>1, <1>2 DEF Serve

LEMMA PromiseCrash ==
    ASSUME WalkPanics
    PROVE  Promised
<1>1. live' = {} /\ held' = {}
  BY DEF WalkPanics, Empty, Idle, live, held
<1>2. Promise!Crash
  BY <1>1 DEF Promise!Crash, live, held
<1> QED
  BY <1>2 DEF Promised, Promise!Next

LEMMA PromiseStep ==
    ASSUME IInv, [Next]_vars
    PROVE  [Promise!Next]_(Promise!vars)
<1>1. CASE \/ Tick \/ CloseBegins \/ CloseLooks \/ WalkStarts \/ WalkReads
           \/ WalkCommits \/ WalkEnds \/ UNCHANGED vars
  <2>1. UNCHANGED <<sess, req>>
    BY <1>1 DEF Tick, CloseBegins, CloseLooks, WalkStarts, WalkReads, WalkCommits,
       WalkEnds, walkOnly, closeOnly, store, vars
  <2> QED
    BY <2>1, PromiseQuiet DEF Promised, live, held, Promise!vars
<1>2. CASE \/ WalkDeletes \/ WalkPanics \/ \E p \in Procs : Serve(p)
           \/ \E n \in Names : Delete(n)
  <2>1. Promised
    BY <1>2, PromiseDeletes, PromiseCrash, PromiseServe
  <2> QED
    BY <2>1 DEF Promised, live, held, Promise!vars
<1> QED
  BY <1>1, <1>2 DEF Next, Walk

(* The store in memory implements SessionStore: nobody is handed a session *)
(* that does not exist, and none is deleted while a request holds it, the  *)
(* clean-up without the lock and its panics included.                      *)
THEOREM Refinement == Spec => KeepsPromise
<1> QED
  BY PromiseInit, PromiseStep, Invariance, PTL DEF Spec, KeepsPromise, Promise!Spec
=============================================================================
