------------------------- MODULE RoundRobinProofs -------------------------
(***************************************************************************)
(* Theorems about RoundRobin for every set of threads, keys, paths and     *)
(* destinations.                                                           *)
(***************************************************************************)
EXTENDS RoundRobin, SequenceTheorems, TLAPS

-----------------------------------------------------------------------------
(* The list operations of Pool, for lists of any length.                   *)

(* Registering keeps a list a list, without duplicates, and puts exactly   *)
(* the new address into it.                                                *)
LEMMA AddedToFacts ==
    ASSUME NEW S, NEW pool \in Seq(S), NEW dst \in S
    PROVE  /\ AddedTo(pool, dst) \in Seq(S)
           /\ Range(AddedTo(pool, dst)) = Range(pool) \cup {dst}
           /\ NoDuplicates(pool) => NoDuplicates(AddedTo(pool, dst))
<1>1. CASE dst \in Range(pool)
  BY <1>1 DEF AddedTo
<1>2. CASE dst \notin Range(pool)
  <2>1. /\ AddedTo(pool, dst) = Append(pool, dst)
        /\ DOMAIN Append(pool, dst) = 1 .. Len(pool) + 1
        /\ DOMAIN pool = 1 .. Len(pool)
        /\ Append(pool, dst)[Len(pool) + 1] = dst
        /\ \A i \in 1 .. Len(pool) : Append(pool, dst)[i] = pool[i]
    BY <1>2 DEF AddedTo
  <2>2. Range(Append(pool, dst)) = Range(pool) \cup {dst}
    BY <2>1 DEF Range
  <2>3. NoDuplicates(pool) => NoDuplicates(Append(pool, dst))
    BY <1>2, <2>1 DEF NoDuplicates, IsInjective, Range
  <2> QED
    BY <2>1, <2>2, <2>3
<1> QED
  BY <1>1, <1>2

(* In a list without duplicates the search of Remove stops at the one      *)
(* place of the address.                                                   *)
LEMMA FirstAtFacts ==
    ASSUME NEW S, NEW pool \in Seq(S), NoDuplicates(pool),
           NEW dst \in Range(pool)
    PROVE  FirstAt(pool, dst) \in 1 .. Len(pool) /\ pool[FirstAt(pool, dst)] = dst
<1>1. PICK j \in DOMAIN pool : pool[j] = dst
  BY DEF Range
<1>2. DOMAIN pool = 1 .. Len(pool)
  OBVIOUS
<1>3. \A i \in 1 .. j-1 : pool[i] # dst
  BY <1>1, <1>2 DEF NoDuplicates, IsInjective
<1> QED
  BY <1>1, <1>2, <1>3 DEF FirstAt

(* Removing keeps a list a list without duplicates, takes the address out, *)
(* brings nothing in and leaves what stays in its order.                   *)
LEMMA RemovedFromFacts ==
    ASSUME NEW S, NEW pool \in Seq(S), NoDuplicates(pool), NEW dst
    PROVE  /\ RemovedFrom(pool, dst) \in Seq(S)
           /\ NoDuplicates(RemovedFrom(pool, dst))
           /\ Range(RemovedFrom(pool, dst)) \subseteq Range(pool) \ {dst}
           /\ Len(RemovedFrom(pool, dst)) <= Len(pool)
           /\ \E place \in [DOMAIN RemovedFrom(pool, dst) -> DOMAIN pool] :
                /\ \A i \in DOMAIN RemovedFrom(pool, dst) :
                        RemovedFrom(pool, dst)[i] = pool[place[i]]
                /\ \A i, k \in DOMAIN RemovedFrom(pool, dst) :
                        i < k => place[i] < place[k]
<1>1. CASE dst \notin Range(pool)
  <2>1. RemovedFrom(pool, dst) = pool
    BY <1>1 DEF RemovedFrom
  <2> DEFINE same == [i \in DOMAIN pool |-> i]
  <2>2. /\ same \in [DOMAIN pool -> DOMAIN pool]
        /\ \A i \in DOMAIN pool : same[i] = i
    OBVIOUS
  <2> HIDE DEF same
  <2>3. \E place \in [DOMAIN pool -> DOMAIN pool] :
            /\ \A i \in DOMAIN pool : pool[i] = pool[place[i]]
            /\ \A i, k \in DOMAIN pool : i < k => place[i] < place[k]
    BY <2>2
  <2>4. Range(pool) \subseteq Range(pool) \ {dst}
    BY <1>1
  <2> QED
    BY <2>1, <2>3, <2>4
<1>2. CASE dst \in Range(pool)
  <2> DEFINE j == FirstAt(pool, dst)
             front == SubSeq(pool, 1, j-2)
             back == SubSeq(pool, j+1, Len(pool))
             rest == front \o back
             nf == IF j = 1 THEN 0 ELSE j - 2
  <2>1. j \in 1 .. Len(pool) /\ pool[j] = dst
    BY <1>2, FirstAtFacts
  <2> HIDE DEF j
  <2>2. front \in Seq(S) /\ Len(front) = nf /\ \A i \in 1 .. nf : front[i] = pool[i]
    BY <2>1
  <2>3. /\ back \in Seq(S)
        /\ Len(back) = Len(pool) - j
        /\ \A i \in 1 .. Len(pool) - j : back[i] = pool[j + i]
    BY <2>1
  <2> HIDE DEF front, back
  <2>4. /\ rest \in Seq(S)
        /\ Len(rest) = nf + (Len(pool) - j)
        /\ \A i \in 1 .. nf : rest[i] = pool[i]
        /\ \A i \in nf + 1 .. nf + (Len(pool) - j) : rest[i] = pool[j + (i - nf)]
    <3>1. /\ rest \in Seq(S)
          /\ Len(rest) = Len(front) + Len(back)
          /\ \A i \in 1 .. Len(rest) :
                rest[i] = IF i <= Len(front) THEN front[i] ELSE back[i - Len(front)]
      <4>1. front \in Seq(S) /\ back \in Seq(S)
        BY <2>2, <2>3
      <4>2. /\ front \o back \in Seq(S)
            /\ Len(front \o back) = Len(front) + Len(back)
            /\ \A i \in 1 .. Len(front) + Len(back) :
                  (front \o back)[i] =
                      IF i <= Len(front) THEN front[i] ELSE back[i - Len(front)]
        BY <4>1, ConcatProperties
      <4> QED
        BY <4>2
    <3>2. nf \in Nat /\ Len(pool) - j \in Nat /\ j \in Nat
      BY <2>1
    <3> HIDE DEF rest, nf
    <3>3. Len(rest) = nf + (Len(pool) - j)
      BY <2>2, <2>3, <3>1
    <3>4. \A i \in 1 .. nf : rest[i] = pool[i]
      BY <2>2, <3>1, <3>2, <3>3
    <3>5. ASSUME NEW i \in nf + 1 .. nf + (Len(pool) - j)
          PROVE  rest[i] = pool[j + (i - nf)]
      <4>1. i - nf \in 1 .. Len(pool) - j /\ i \in 1 .. Len(rest) /\ ~(i <= nf)
        BY <3>2, <3>3
      <4>2. rest[i] = back[i - nf]
        BY <2>2, <3>1, <4>1
      <4> QED
        BY <2>3, <4>1, <4>2
    <3> QED
      BY <3>1, <3>3, <3>4, <3>5
  <2> HIDE DEF rest
  <2> DEFINE place(i) == IF i <= nf THEN i ELSE j + (i - nf)
  <2>12. Len(rest) <= Len(pool)
    BY <2>1, <2>4
  <2>5. \A i \in DOMAIN rest :
            /\ place(i) \in DOMAIN pool
            /\ place(i) # j
            /\ rest[i] = pool[place(i)]
    BY <2>1, <2>4
  <2>6. \A i, k \in DOMAIN rest : place(i) = place(k) => i = k
    BY <2>1, <2>4
  <2>7. NoDuplicates(rest)
    BY <2>5, <2>6 DEF NoDuplicates, IsInjective
  <2>8. j \in DOMAIN pool
    BY <2>1
  <2>9. Range(rest) \subseteq Range(pool) \ {dst}
    BY <2>1, <2>5, <2>8 DEF NoDuplicates, IsInjective, Range
  <2>10. RemovedFrom(pool, dst) = rest
    BY <1>2 DEF RemovedFrom, rest, front, back, j
  <2>11. \E f \in [DOMAIN rest -> DOMAIN pool] :
            /\ \A i \in DOMAIN rest : rest[i] = pool[f[i]]
            /\ \A i, k \in DOMAIN rest : i < k => f[i] < f[k]
    <3> DEFINE f == [i \in DOMAIN rest |-> place(i)]
    <3>1. \A i, k \in DOMAIN rest : i < k => place(i) < place(k)
      BY <2>1, <2>4
    <3>2. f \in [DOMAIN rest -> DOMAIN pool] /\ \A i \in DOMAIN rest : f[i] = place(i)
      BY <2>5
    <3> HIDE DEF f, place
    <3> QED
      BY <2>5, <3>1, <3>2
  <2> QED
    BY <2>4, <2>7, <2>9, <2>10, <2>11, <2>12
<1> QED
  BY <1>1, <1>2

-----------------------------------------------------------------------------
(* The inductive invariant: types, the lists without duplicates (Remove    *)
(* finds the address by position, which is only well defined then), and    *)
(* the choice of a call that holds the read lock.                          *)
IInv == TypeOK /\ ListsHaveNoDuplicates /\ PickIsStillListed

LEMMA InitIInv == Init => IInv
<1> SUFFICES ASSUME Init PROVE IInv
  OBVIOUS
<1>1. TypeOK
  BY DEF Init, TypeOK
<1>2. ListsHaveNoDuplicates
  BY DEF Init, ListsHaveNoDuplicates, NoDuplicates, IsInjective
<1>3. PickIsStillListed
  BY DEF Init, PickIsStillListed
<1> QED
  BY <1>1, <1>2, <1>3 DEF IInv

(* The lists change in AddAddrs and Remove only.                           *)
LEMMA AddAddrsIInv ==
    ASSUME IInv, NEW t \in Threads, NEW k \in Keys, NEW d \in Dests, AddAddrs(t, k, d)
    PROVE  IInv'
<1>1. ips[k] \in Seq(Dests) /\ NoDuplicates(ips[k])
  BY DEF IInv, TypeOK, ListsHaveNoDuplicates
<1>2. /\ AddedTo(ips[k], d) \in Seq(Dests)
      /\ NoDuplicates(AddedTo(ips[k], d))
  BY <1>1, AddedToFacts
<1>3. /\ ips' = [ips EXCEPT ![k] = AddedTo(ips[k], d)]
      /\ known' = known \cup {k}
      /\ UNCHANGED <<actual, pc, at, pick, seen, ret>>
  BY DEF AddAddrs
<1>4. TypeOK'
  BY <1>2, <1>3 DEF IInv, TypeOK
<1>5. ListsHaveNoDuplicates'
  BY <1>2, <1>3 DEF IInv, TypeOK, ListsHaveNoDuplicates
<1>6. PickIsStillListed'
  <2>1. \A u \in Threads : pc[u] = "idle"
    BY DEF AddAddrs, CanWrite, Readers
  <2> QED
    BY <2>1, <1>3 DEF PickIsStillListed
<1> QED
  BY <1>4, <1>5, <1>6 DEF IInv

LEMMA RemoveIInv ==
    ASSUME IInv, NEW t \in Threads, NEW p \in Paths, NEW d \in Dests, Remove(t, p, d)
    PROVE  IInv'
<1>1. PICK k \in Found(p) : ips' = [ips EXCEPT ![k] = RemovedFrom(ips[k], d)]
  BY DEF Remove
<1>2. k \in Keys
  BY <1>1 DEF Found, IInv, TypeOK
<1>3. ips[k] \in Seq(Dests) /\ NoDuplicates(ips[k])
  BY <1>2 DEF IInv, TypeOK, ListsHaveNoDuplicates
<1>4. /\ RemovedFrom(ips[k], d) \in Seq(Dests)
      /\ NoDuplicates(RemovedFrom(ips[k], d))
  BY <1>3, RemovedFromFacts
<1>5. UNCHANGED <<known, actual, pc, at, pick, seen, ret>>
  BY DEF Remove
<1>6. TypeOK'
  BY <1>1, <1>2, <1>4, <1>5 DEF IInv, TypeOK
<1>7. ListsHaveNoDuplicates'
  BY <1>1, <1>2, <1>4 DEF IInv, TypeOK, ListsHaveNoDuplicates
<1>8. PickIsStillListed'
  <2>1. \A u \in Threads : pc[u] = "idle"
    BY DEF Remove, CanWrite, Readers
  <2> QED
    BY <2>1, <1>5 DEF PickIsStillListed
<1> QED
  BY <1>6, <1>7, <1>8 DEF IInv

(* The steps of Next leave the lists alone; what they need is that the key *)
(* they work on is a key and that the index they use is in its list.       *)
LEMMA NextStepIInv ==
    ASSUME IInv, NEW t \in Threads, NextStep(t)
    PROVE  IInv'
<1> USE DEF IInv, TypeOK, Goto
<1>1. at[t] \in Keys /\ ips[at[t]] \in Seq(Dests) /\ actual[at[t]] \in Nat
  OBVIOUS
<1>2. ips' = ips
  BY DEF NextStep, NextCheck, NextReset, NextIndex, NextLoad, NextStore
<1>3. ListsHaveNoDuplicates'
  BY <1>2 DEF ListsHaveNoDuplicates
<1>4. CASE NextCheck(t)
  <2>1. TypeOK'
    BY <1>4 DEF NextCheck
  <2>2. PickIsStillListed'
    BY <1>4 DEF NextCheck, PickIsStillListed
  <2> QED
    BY <1>3, <2>1, <2>2
<1>5. CASE NextReset(t)
  <2>1. TypeOK'
    BY <1>5 DEF NextReset
  <2>2. PickIsStillListed'
    BY <1>5 DEF NextReset, PickIsStillListed
  <2> QED
    BY <1>3, <2>1, <2>2
<1>6. CASE NextIndex(t)
  <2>1. Entry(at[t]) = Panic \/ Entry(at[t]) \in Range(ips[at[t]])
    BY <1>1 DEF Entry, Range
  <2>2. Range(ips[at[t]]) \subseteq Dests
    BY <1>1 DEF Range
  <2>3. TypeOK'
    BY <1>6, <2>1, <2>2 DEF NextIndex
  <2>4. PickIsStillListed'
    BY <1>6, <2>1 DEF NextIndex, PickIsStillListed
  <2> QED
    BY <1>3, <2>3, <2>4
<1>7. CASE NextLoad(t)
  <2>1. TypeOK'
    BY <1>7 DEF NextLoad
  <2>2. PickIsStillListed'
    BY <1>7 DEF NextLoad, PickIsStillListed
  <2> QED
    BY <1>3, <2>1, <2>2
<1>8. CASE NextStore(t)
  <2>1. TypeOK'
    BY <1>8 DEF NextStore, Advanced
  <2>2. PickIsStillListed'
    BY <1>8 DEF NextStore, PickIsStillListed
  <2> QED
    BY <1>3, <2>1, <2>2
<1> QED
  BY <1>4, <1>5, <1>6, <1>7, <1>8 DEF NextStep

LEMMA NextIInv == IInv /\ [Next]_vars => IInv'
<1> SUFFICES ASSUME IInv, [Next]_vars PROVE IInv'
  OBVIOUS
<1>1. ASSUME NEW t \in Threads, NEW k \in Keys, NEW d \in Dests, AddAddrs(t, k, d)
      PROVE  IInv'
  BY <1>1, AddAddrsIInv
<1>2. ASSUME NEW t \in Threads, NEW p \in Paths, NEW d \in Dests, Remove(t, p, d)
      PROVE  IInv'
  BY <1>2, RemoveIInv
<1>3. ASSUME NEW t \in Threads, NEW p \in Paths, NextNone(t, p)
      PROVE  IInv'
  BY <1>3 DEF NextNone, IInv, TypeOK, ListsHaveNoDuplicates, PickIsStillListed
<1>4. ASSUME NEW t \in Threads, NEW p \in Paths, NextEnter(t, p)
      PROVE  IInv'
  <2>1. PICK k \in Found(p) : at' = [at EXCEPT ![t] = k]
    BY <1>4 DEF NextEnter
  <2>2. k \in Keys
    BY <2>1 DEF Found, IInv, TypeOK
  <2> QED
    BY <1>4, <2>1, <2>2 DEF NextEnter, Goto, IInv, TypeOK, ListsHaveNoDuplicates,
       PickIsStillListed
<1>5. ASSUME NEW t \in Threads, NextStep(t)
      PROVE  IInv'
  BY <1>5, NextStepIInv
<1>6. CASE UNCHANGED vars
  BY <1>6 DEF vars, IInv, TypeOK, ListsHaveNoDuplicates, PickIsStillListed
<1> QED
  BY <1>1, <1>2, <1>3, <1>4, <1>5, <1>6 DEF Next

(* Types, unique addresses and the read lock's promise to Next.            *)
THEOREM ListsStayUnique == Spec => []ListsHaveNoDuplicates
<1>1. IInv => ListsHaveNoDuplicates
  BY DEF IInv
<1> QED
  BY InitIInv, NextIInv, <1>1, PTL DEF Spec

(* TypeOK for every instance.                                              *)
THEOREM TypeCorrect == Spec => []TypeOK
<1>1. IInv => TypeOK
  BY DEF IInv
<1> QED
  BY InitIInv, NextIInv, <1>1, PTL DEF Spec

(* An address Next has chosen stays listed until Next returns it: Remove   *)
(* and AddAddrs wait for the read lock (loadbalance.go:108-109, 135).      *)
THEOREM PicksStayListed == Spec => []PickIsStillListed
<1>1. IInv => PickIsStillListed
  BY DEF IInv
<1> QED
  BY InitIInv, NextIInv, <1>1, PTL DEF Spec
-----------------------------------------------------------------------------
(* Calls that follow one another: a single thread.                         *)

Sequential == \A t, u \in Threads : t = u

(* What is true between the test of the cursor and its use, when nobody    *)
(* else moves it: the list is not empty, and the index is in it.           *)
CursorInv ==
    /\ NextNeverPanics
    /\ \A t \in Threads :
        /\ pc[t] \in {"check", "reset", "index"} => ips[at[t]] # <<>>
        /\ pc[t] = "index" => actual[at[t]] < Len(ips[at[t]])

LEMMA InitCursorInv == Init => CursorInv
BY DestsAssumption DEF Init, CursorInv, NextNeverPanics

LEMMA NextCursorInv ==
    ASSUME Sequential, IInv, CursorInv, [Next]_vars
    PROVE  CursorInv'
<1> USE DEF CursorInv, NextNeverPanics, Goto
<1>1. ASSUME NEW t \in Threads, NEW k \in Keys, NEW d \in Dests, AddAddrs(t, k, d)
      PROVE  CursorInv'
  BY <1>1, Sequential DEF AddAddrs, Sequential
<1>2. ASSUME NEW t \in Threads, NEW p \in Paths, NEW d \in Dests, Remove(t, p, d)
      PROVE  CursorInv'
  BY <1>2, Sequential DEF Remove, Sequential
<1>3. ASSUME NEW t \in Threads, NEW p \in Paths, NextNone(t, p)
      PROVE  CursorInv'
  BY <1>3, DestsAssumption DEF NextNone, IInv, TypeOK
<1>4. ASSUME NEW t \in Threads, NEW p \in Paths, NextEnter(t, p)
      PROVE  CursorInv'
  <2>1. PICK k \in Found(p) : ips[k] # <<>> /\ at' = [at EXCEPT ![t] = k]
    BY <1>4 DEF NextEnter
  <2> QED
    BY <1>4, <2>1, Sequential DEF NextEnter, IInv, TypeOK, Sequential
<1>5. ASSUME NEW t \in Threads, NextStep(t)
      PROVE  CursorInv'
  <2>1. /\ at[t] \in Keys
        /\ ips[at[t]] \in Seq(Dests)
        /\ actual[at[t]] \in Nat
        /\ \A u \in Threads : u = t
    BY Sequential DEF IInv, TypeOK, Sequential
  <2>2. CASE NextCheck(t)
    BY <2>1, <2>2 DEF NextCheck, AtEnd, IInv, TypeOK
  <2>3. CASE NextReset(t)
    <3>1. pc[t] = "reset" /\ Len(ips[at[t]]) > 0
      BY <2>1, <2>3 DEF NextReset
    <3> QED
      BY <2>1, <2>3, <3>1 DEF NextReset, IInv, TypeOK
  <2>4. CASE NextIndex(t)
    <3>1. Entry(at[t]) \in Dests
      BY <2>1, <2>4 DEF NextIndex, Entry
    <3> QED
      BY <2>1, <2>4, <3>1, DestsAssumption DEF NextIndex, IInv, TypeOK
  <2>5. CASE NextLoad(t)
    BY <2>1, <2>5 DEF NextLoad, IInv, TypeOK
  <2>6. CASE NextStore(t)
    BY <2>1, <2>6, DestsAssumption DEF NextStore, IInv, TypeOK
  <2> QED
    BY <1>5, <2>2, <2>3, <2>4, <2>5, <2>6 DEF NextStep
<1>6. CASE UNCHANGED vars
  BY <1>6 DEF vars
<1> QED
  BY <1>1, <1>2, <1>3, <1>4, <1>5, <1>6 DEF Next

(* Next called by one goroutine at a time never panics, whatever is added  *)
(* and removed between the calls: the test of line 121 covers a list that  *)
(* Remove has shortened under the cursor.                                  *)
THEOREM SequentialNextNeverPanics ==
    ASSUME Sequential PROVE Spec => []NextNeverPanics
<1>1. Init => IInv /\ CursorInv
  BY InitIInv, InitCursorInv
<1>2. IInv /\ CursorInv /\ [Next]_vars => (IInv /\ CursorInv)'
  BY NextIInv, NextCursorInv, Sequential
<1>3. CursorInv => NextNeverPanics
  BY DEF CursorInv
<1> QED
  BY <1>1, <1>2, <1>3, PTL DEF Spec

-----------------------------------------------------------------------------
(* The queue of Rotation: the list, read from the cursor on.               *)

Turned(p, n) == SubSeq(p, n + 1, Len(p)) \o SubSeq(p, 1, n)
Cut(p, a) == Turned(p, Wrapped(p, a))

(* The place in a list of length len of what is at i when turned by n, and *)
(* back.                                                                   *)
From(len, n, i) == IF i <= len - n THEN n + i ELSE i - (len - n)
To(len, n, j) == IF j > n THEN j - n ELSE j + (len - n)

LEMMA FromFacts ==
    ASSUME NEW len \in Nat, NEW n \in 0 .. len, NEW i \in 1 .. len
    PROVE  /\ From(len, n, i) \in 1 .. len
           /\ To(len, n, i) \in 1 .. len
           /\ From(len, n, To(len, n, i)) = i
BY DEF From, To

LEMMA FromAgain ==
    ASSUME NEW len \in Nat, NEW c \in 0 .. len, NEW n \in 0 .. len,
           NEW m \in 0 .. len, m = c + n \/ m + len = c + n, NEW i \in 1 .. len
    PROVE  From(len, c, From(len, n, i)) = From(len, m, i)
BY DEF From

LEMMA SameElements ==
    ASSUME NEW S, NEW a \in Seq(S), NEW b \in Seq(S), Len(a) = Len(b),
           \A i \in 1 .. Len(a) : a[i] = b[i]
    PROVE  a = b
BY SeqEqual

LEMMA TurnedFacts ==
    ASSUME NEW S, NEW p \in Seq(S), NEW n \in 0 .. Len(p)
    PROVE  /\ Turned(p, n) \in Seq(S) /\ Len(Turned(p, n)) = Len(p)
           /\ \A i \in 1 .. Len(p) : Turned(p, n)[i] = p[From(Len(p), n, i)]
<1> DEFINE back == SubSeq(p, n + 1, Len(p))
           front == SubSeq(p, 1, n)
<1>1. back \in Seq(S) /\ Len(back) = Len(p) - n /\ \A i \in 1 .. Len(p) - n : back[i] = p[n + i]
  OBVIOUS
<1>2. front \in Seq(S) /\ Len(front) = n /\ \A i \in 1 .. n : front[i] = p[i]
  OBVIOUS
<1>3. Turned(p, n) = back \o front
  BY DEF Turned
<1> HIDE DEF back, front
<1>4. /\ back \o front \in Seq(S) /\ Len(back \o front) = Len(back) + Len(front)
      /\ \A i \in 1 .. Len(back) + Len(front) :
            (back \o front)[i] = IF i <= Len(back) THEN back[i] ELSE front[i - Len(back)]
  BY <1>1, <1>2, ConcatProperties
<1>5. PICK q : q = back \o front
  OBVIOUS
<1>6. q \in Seq(S) /\ Len(q) = Len(p)
  BY <1>1, <1>2, <1>4, <1>5
<1>7. ASSUME NEW i \in 1 .. Len(p)
      PROVE  q[i] = p[From(Len(p), n, i)]
  <2>1. q[i] = IF i <= Len(p) - n THEN back[i] ELSE front[i - (Len(p) - n)]
    BY <1>1, <1>2, <1>4, <1>5
  <2> QED
    BY <1>1, <1>2, <2>1 DEF From
<1> QED
  BY <1>3, <1>5, <1>6, <1>7

LEMMA TurnedRange ==
    ASSUME NEW S, NEW p \in Seq(S), NEW n \in 0 .. Len(p)
    PROVE  Range(Turned(p, n)) = Range(p)
<1>1. PICK q : q = Turned(p, n)
  OBVIOUS
<1>2. /\ q \in Seq(S) /\ Len(q) = Len(p)
      /\ \A i \in 1 .. Len(p) : q[i] = p[From(Len(p), n, i)]
  BY <1>1, TurnedFacts
<1>3. DOMAIN q = 1 .. Len(p) /\ DOMAIN p = 1 .. Len(p) /\ Len(p) \in Nat
  BY <1>2
<1>4. \A i \in DOMAIN q : \E j \in DOMAIN p : q[i] = p[j]
  BY <1>2, <1>3, FromFacts
<1>5. ASSUME NEW j \in DOMAIN p PROVE \E i \in DOMAIN q : q[i] = p[j]
  <2>1. PICK i \in 1 .. Len(p) : From(Len(p), n, i) = j
    BY <1>3, FromFacts
  <2> QED
    BY <1>2, <1>3, <2>1
<1>6. ASSUME NEW v PROVE v \in Range(q) <=> v \in Range(p)
  BY <1>4, <1>5 DEF Range
<1> QED
  BY <1>1, <1>6

LEMMA TurnedNone ==
    ASSUME NEW S, NEW p \in Seq(S)
    PROVE  Turned(p, 0) = p /\ Turned(p, Len(p)) = p
<1>1. ASSUME NEW n \in {0, Len(p)} PROVE Turned(p, n) = p
  <2>1. PICK q : q = Turned(p, n)
    OBVIOUS
  <2>2. /\ q \in Seq(S) /\ Len(q) = Len(p)
        /\ \A i \in 1 .. Len(p) : q[i] = p[From(Len(p), n, i)]
    BY <2>1, TurnedFacts
  <2>3. \A i \in 1 .. Len(p) : From(Len(p), n, i) = i
    BY DEF From
  <2> QED
    BY <2>1, <2>2, <2>3, SameElements
<1> QED
  BY <1>1

LEMMA TurnedAgain ==
    ASSUME NEW S, NEW p \in Seq(S), NEW c \in 0 .. Len(p), NEW n \in 0 .. Len(p),
           NEW m \in 0 .. Len(p), m = c + n \/ m + Len(p) = c + n
    PROVE  Turned(Turned(p, c), n) = Turned(p, m)
<1>1. PICK q : q = Turned(p, c)
  OBVIOUS
<1>2. /\ q \in Seq(S) /\ Len(q) = Len(p)
      /\ \A i \in 1 .. Len(p) : q[i] = p[From(Len(p), c, i)]
  BY <1>1, TurnedFacts
<1>3. PICK a : a = Turned(q, n)
  OBVIOUS
<1>4. /\ a \in Seq(S) /\ Len(a) = Len(p)
      /\ \A i \in 1 .. Len(p) : a[i] = q[From(Len(p), n, i)]
  BY <1>2, <1>3, TurnedFacts
<1>5. PICK b : b = Turned(p, m)
  OBVIOUS
<1>6. /\ b \in Seq(S) /\ Len(b) = Len(p)
      /\ \A i \in 1 .. Len(p) : b[i] = p[From(Len(p), m, i)]
  BY <1>5, TurnedFacts
<1>7. ASSUME NEW i \in 1 .. Len(p) PROVE a[i] = b[i]
  <2>1. Len(p) \in Nat
    OBVIOUS
  <2>2. From(Len(p), n, i) \in 1 .. Len(p)
    BY <2>1, FromFacts
  <2>3. From(Len(p), c, From(Len(p), n, i)) = From(Len(p), m, i)
    BY <2>1, FromAgain
  <2> QED
    BY <1>2, <1>4, <1>6, <2>2, <2>3
<1> QED
  BY <1>1, <1>3, <1>4, <1>5, <1>6, <1>7, SameElements

(* A sequence whose elements are some of another's, in their order, stays  *)
(* so when both are turned before the same element.                        *)
LEMMA WithinTurned ==
    ASSUME NEW S, NEW p \in Seq(S), NEW rest \in Seq(S),
           NEW place \in [DOMAIN rest -> DOMAIN p],
           \A i \in DOMAIN rest : rest[i] = p[place[i]],
           \A i, k \in DOMAIN rest : i < k => place[i] < place[k],
           NEW c \in 0 .. Len(rest), NEW m \in 0 .. Len(p),
           \A i \in DOMAIN rest : i <= c <=> place[i] <= m
    PROVE  Rotating!Within(Turned(rest, c), Turned(p, m))
<1>1. PICK a : a = Turned(rest, c)
  OBVIOUS
<1>2. PICK b : b = Turned(p, m)
  OBVIOUS
<1>3. /\ a \in Seq(S) /\ Len(a) = Len(rest)
      /\ \A i \in 1 .. Len(rest) : a[i] = rest[From(Len(rest), c, i)]
  BY <1>1, TurnedFacts
<1>4. /\ b \in Seq(S) /\ Len(b) = Len(p)
      /\ \A i \in 1 .. Len(p) : b[i] = p[From(Len(p), m, i)]
  BY <1>2, TurnedFacts
<1>5. /\ DOMAIN a = 1 .. Len(rest) /\ DOMAIN rest = 1 .. Len(rest) /\ Len(rest) \in Nat
      /\ DOMAIN b = 1 .. Len(p) /\ DOMAIN p = 1 .. Len(p) /\ Len(p) \in Nat
  BY <1>3, <1>4
<1> DEFINE was(i) == place[From(Len(rest), c, i)]
           now(i) == To(Len(p), m, was(i))
<1>6. ASSUME NEW i \in DOMAIN a
      PROVE  /\ From(Len(rest), c, i) \in DOMAIN rest
             /\ was(i) \in DOMAIN p /\ now(i) \in DOMAIN b /\ a[i] = b[now(i)]
  <2>1. From(Len(rest), c, i) \in DOMAIN rest
    BY <1>5, FromFacts
  <2>2. was(i) \in 1 .. Len(p)
    BY <1>5, <2>1
  <2>3. now(i) \in 1 .. Len(p) /\ From(Len(p), m, now(i)) = was(i)
    BY <1>5, <2>2, FromFacts
  <2> HIDE DEF now
  <2> QED
    BY <1>3, <1>4, <1>5, <2>1, <2>2, <2>3
<1>7. ASSUME NEW i \in DOMAIN a, NEW k \in DOMAIN a, i < k
      PROVE  now(i) < now(k)
  <2>1. PICK x \in DOMAIN rest : x = From(Len(rest), c, i)
    BY <1>6
  <2>2. PICK y \in DOMAIN rest : y = From(Len(rest), c, k)
    BY <1>6
  <2>3. /\ x > c /\ y > c => x < y
        /\ x <= c /\ y <= c => x < y
        /\ x <= c => y <= c
    BY <1>5, <1>7, <2>1, <2>2 DEF From
  <2>4. /\ place[x] > m /\ place[y] > m => place[x] < place[y]
        /\ place[x] <= m /\ place[y] <= m => place[x] < place[y]
        /\ place[x] <= m => place[y] <= m
    BY <1>5, <2>3
  <2>5. place[x] \in 1 .. Len(p) /\ place[y] \in 1 .. Len(p)
    BY <1>5
  <2>6. To(Len(p), m, place[x]) < To(Len(p), m, place[y])
    BY <1>5, <2>4, <2>5 DEF To
  <2> QED
    BY <2>1, <2>2, <2>6
<1> HIDE DEF was, now
<1> DEFINE f == [i \in DOMAIN a |-> now(i)]
<1>8. f \in [DOMAIN a -> DOMAIN b] /\ \A i \in DOMAIN a : f[i] = now(i)
  BY <1>6
<1> HIDE DEF f
<1>9. Rotating!Within(a, b)
  BY <1>6, <1>7, <1>8 DEF Rotating!Within
<1> QED
  BY <1>1, <1>2, <1>9

LEMMA CutFacts ==
    ASSUME NEW S, NEW p \in Seq(S), NEW a \in Nat
    PROVE  /\ Wrapped(p, a) \in 0 .. Len(p)
           /\ Cut(p, a) \in Seq(S) /\ Len(Cut(p, a)) = Len(p)
           /\ Range(Cut(p, a)) = Range(p)
<1>1. Wrapped(p, a) \in 0 .. Len(p)
  BY DEF Wrapped
<1> QED
  BY <1>1, TurnedFacts, TurnedRange DEF Cut

(* Next: the head leaves and becomes the last.                             *)
LEMMA CutServe ==
    ASSUME NEW S, NEW p \in Seq(S), NEW a \in Nat, a < Len(p)
    PROVE  /\ Head(Cut(p, a)) = p[a + 1]
           /\ Cut(p, a + 1) = Turned(Cut(p, a), 1)
<1>1. Wrapped(p, a) = a /\ a \in 0 .. Len(p) /\ Len(p) \in Nat \ {0}
  BY DEF Wrapped
<1>2. PICK q : q = Turned(p, a)
  OBVIOUS
<1>3. q \in Seq(S) /\ Len(q) = Len(p) /\ q[1] = p[From(Len(p), a, 1)]
  BY <1>1, <1>2, TurnedFacts
<1>4. Head(q) = p[a + 1]
  BY <1>1, <1>3 DEF From
<1>5. Turned(q, 1) = Turned(p, a + 1)
  BY <1>1, <1>2, TurnedAgain
<1>6. Cut(p, a + 1) = Turned(p, a + 1)
  <2>1. CASE a + 1 < Len(p)
    BY <2>1 DEF Cut, Wrapped
  <2>2. CASE a + 1 = Len(p)
    BY <2>2, TurnedNone DEF Cut, Wrapped
  <2> QED
    BY <1>1, <2>1, <2>2
<1> QED
  BY <1>1, <1>2, <1>4, <1>5, <1>6 DEF Cut

(* An address appended to the list enters the queue before the cursor's    *)
(* turn comes round, also when the cursor stands at or past the end.       *)
Inserted(q, d, n) == SubSeq(q, 1, n) \o <<d>> \o SubSeq(q, n + 1, Len(q))

LEMMA TurnedAppend ==
    ASSUME NEW S, NEW p \in Seq(S), NEW d \in S, NEW c \in 0 .. Len(p),
           NEW q \in Seq(S), q = Turned(p, c), NEW n \in 0 .. Len(p), n = Len(p) - c
    PROVE  Turned(Append(p, d), c) = Inserted(q, d, n)
<1> DEFINE front == SubSeq(q, 1, n)
           back == SubSeq(q, n + 1, Len(q))
<1>1. PICK w : w = Append(p, d)
  OBVIOUS
<1>2. /\ w \in Seq(S) /\ Len(w) = Len(p) + 1 /\ w[Len(p) + 1] = d
      /\ \A i \in 1 .. Len(p) : w[i] = p[i]
  BY <1>1
<1>3. /\ Len(q) = Len(p) /\ Len(p) \in Nat
      /\ \A i \in 1 .. Len(p) : q[i] = p[From(Len(p), c, i)]
  BY TurnedFacts
<1>4. front \in Seq(S) /\ Len(front) = n /\ \A i \in 1 .. n : front[i] = q[i]
  BY <1>3
<1>5. back \in Seq(S) /\ Len(back) = Len(p) - n /\ \A i \in 1 .. Len(p) - n : back[i] = q[n + i]
  BY <1>3
<1> HIDE DEF front, back
<1>6. PICK u : u = front \o <<d>>
  OBVIOUS
<1>7. /\ u \in Seq(S) /\ Len(u) = n + 1 /\ u[n + 1] = d
      /\ \A i \in 1 .. n : u[i] = q[i]
  BY <1>4, <1>6
<1>8. PICK b : b = u \o back
  OBVIOUS
<1>9. /\ b \in Seq(S) /\ Len(b) = Len(u) + Len(back)
      /\ \A i \in 1 .. Len(u) + Len(back) :
            b[i] = IF i <= Len(u) THEN u[i] ELSE back[i - Len(u)]
  <2>1. u \in Seq(S) /\ back \in Seq(S)
    BY <1>5, <1>7
  <2>2. /\ u \o back \in Seq(S) /\ Len(u \o back) = Len(u) + Len(back)
        /\ \A i \in 1 .. Len(u) + Len(back) :
              (u \o back)[i] = IF i <= Len(u) THEN u[i] ELSE back[i - Len(u)]
    BY <2>1, ConcatProperties
  <2> QED
    BY <1>8, <2>2
<1>10. PICK a : a = Turned(w, c)
  OBVIOUS
<1>11. /\ a \in Seq(S) /\ Len(a) = Len(p) + 1
       /\ \A i \in 1 .. Len(p) + 1 : a[i] = w[From(Len(p) + 1, c, i)]
  BY <1>2, <1>3, <1>10, TurnedFacts
<1>12. ASSUME NEW i \in 1 .. Len(a) PROVE a[i] = b[i]
  <2>1. CASE i <= n
    <3>0. i \in 1 .. n /\ i \in 1 .. Len(p) /\ i \in 1 .. Len(u) + Len(back) /\ i <= Len(u)
      BY <1>3, <1>5, <1>7, <1>11, <2>1
    <3>1. b[i] = p[From(Len(p), c, i)]
      BY <1>3, <1>7, <1>9, <3>0
    <3>2. From(Len(p), c, i) \in 1 .. Len(p)
      BY <1>3, <3>0, FromFacts
    <3>3. From(Len(p) + 1, c, i) = From(Len(p), c, i)
      BY <1>3, <2>1 DEF From
    <3> QED
      BY <1>2, <1>11, <3>1, <3>2, <3>3
  <2>2. CASE i = n + 1
    <3>0. i \in 1 .. Len(u) + Len(back) /\ i <= Len(u)
      BY <1>3, <1>5, <1>7, <2>2
    <3>1. b[i] = d
      BY <1>7, <1>9, <2>2, <3>0
    <3>2. From(Len(p) + 1, c, i) = Len(p) + 1
      BY <1>3, <2>2 DEF From
    <3> QED
      BY <1>2, <1>11, <3>1, <3>2
  <2>3. CASE i > n + 1
    <3>1. /\ b[i] = back[i - (n + 1)] /\ i - (n + 1) \in 1 .. Len(p) - n
          /\ n + (i - (n + 1)) = i - 1
      BY <1>3, <1>5, <1>7, <1>9, <1>11, <2>3
    <3>2. b[i] = q[i - 1] /\ i - 1 \in 1 .. Len(p)
      BY <1>5, <1>11, <2>3, <3>1
    <3>3. From(Len(p), c, i - 1) \in 1 .. Len(p)
      BY <1>3, <3>2, FromFacts
    <3>4. From(Len(p) + 1, c, i) = From(Len(p), c, i - 1)
      BY <1>3, <1>11, <2>3 DEF From
    <3> QED
      BY <1>2, <1>3, <1>11, <3>2, <3>3, <3>4
  <2> QED
    BY <1>3, <2>1, <2>2, <2>3
<1>13. Len(a) = Len(b)
  BY <1>5, <1>7, <1>9, <1>11
<1>14. a = b
  BY <1>9, <1>11, <1>12, <1>13, SameElements
<1>15. Turned(Append(p, d), c) = front \o <<d>> \o back
  BY <1>1, <1>6, <1>8, <1>10, <1>14
<1> QED
  BY <1>15 DEF front, back, Inserted

LEMMA CutAppend ==
    ASSUME NEW S, NEW p \in Seq(S), NEW d \in S, NEW a \in Nat
    PROVE  \E n \in 0 .. Len(p) :
             Cut(Append(p, d), a) = Inserted(Cut(p, a), d, n)
<1>1. PICK c \in 0 .. Len(p) : c = IF a <= Len(p) THEN a ELSE 0
  OBVIOUS
<1>2. Cut(Append(p, d), a) = Turned(Append(p, d), c)
  <2>1. Len(Append(p, d)) = Len(p) + 1
    OBVIOUS
  <2>2. Wrapped(Append(p, d), a) = c
    BY <1>1, <2>1 DEF Wrapped
  <2> QED
    BY <2>2 DEF Cut
<1>3. Cut(p, a) = Turned(p, c)
  <2>1. CASE a = Len(p)
    BY <1>1, <2>1, TurnedNone DEF Cut, Wrapped
  <2>2. CASE a # Len(p)
    BY <1>1, <2>2 DEF Cut, Wrapped
  <2> QED
    BY <2>1, <2>2
<1>4. PICK n \in 0 .. Len(p) : n = Len(p) - c
  OBVIOUS
<1>5. PICK q \in Seq(S) : q = Turned(p, c)
  BY TurnedFacts
<1>6. Turned(Append(p, d), c) = Inserted(q, d, n)
  BY <1>4, <1>5, TurnedAppend
<1> QED
  BY <1>2, <1>3, <1>5, <1>6

LEMMA Kept ==
    ASSUME NEW S, NEW p \in Seq(S), NoDuplicates(p), NEW d, NEW rest,
           rest = RemovedFrom(p, d)
    PROVE  \E place \in [DOMAIN rest -> DOMAIN p] :
             /\ \A i \in DOMAIN rest : rest[i] = p[place[i]]
             /\ \A i, k \in DOMAIN rest : i < k => place[i] < place[k]
<1>1. \E place \in [DOMAIN RemovedFrom(p, d) -> DOMAIN p] :
             /\ \A i \in DOMAIN RemovedFrom(p, d) : RemovedFrom(p, d)[i] = p[place[i]]
             /\ \A i, k \in DOMAIN RemovedFrom(p, d) : i < k => place[i] < place[k]
  BY RemovedFromFacts, Zenon
<1> QED
  BY <1>1

(* Remove: the addresses that stay keep their order, whatever the cursor.  *)
LEMMA CutRemove ==
    ASSUME NEW S, NEW p \in Seq(S), NoDuplicates(p), NEW d, NEW a \in Nat
    PROVE  \E n \in 0 .. Len(p) :
             Rotating!Within(Cut(RemovedFrom(p, d), a), Turned(Cut(p, a), n))
<1>1. PICK rest : rest = RemovedFrom(p, d)
  OBVIOUS
<1>2. rest \in Seq(S)
  BY <1>1, RemovedFromFacts
<1>3. PICK place \in [DOMAIN rest -> DOMAIN p] :
        /\ \A i \in DOMAIN rest : rest[i] = p[place[i]]
        /\ \A i, k \in DOMAIN rest : i < k => place[i] < place[k]
  BY <1>1, Kept
<1>4. /\ DOMAIN rest = 1 .. Len(rest) /\ Len(rest) \in Nat
      /\ DOMAIN p = 1 .. Len(p) /\ Len(p) \in Nat
  BY <1>2
<1>5. PICK c \in 0 .. Len(rest) : c = Wrapped(rest, a)
  BY <1>2, CutFacts
<1>6. PICK b \in 0 .. Len(p) : b = Wrapped(p, a)
  BY CutFacts
<1>7. PICK m \in 0 .. Len(p) : \A i \in DOMAIN rest : i <= c <=> place[i] <= m
  <2>1. CASE Len(rest) = 0
    BY <1>4, <2>1
  <2>2. CASE Len(rest) # 0
    <3>1. c + 1 \in DOMAIN rest
      BY <1>4, <1>5, <2>2 DEF Wrapped
    <3>2. PICK x \in 1 .. Len(p) : x = place[c + 1]
      BY <1>4, <3>1
    <3>3. ASSUME NEW i \in DOMAIN rest PROVE i <= c <=> place[i] <= x - 1
      <4>1. place[i] \in 1 .. Len(p) /\ i \in 1 .. Len(rest)
        BY <1>4
      <4>2. /\ i < c + 1 => place[i] < x
            /\ c + 1 < i => x < place[i]
            /\ i = c + 1 => x = place[i]
        BY <1>3, <3>1, <3>2
      <4> QED
        BY <4>1, <4>2
    <3>4. x - 1 \in 0 .. Len(p)
      BY <1>4
    <3> QED
      BY <3>3, <3>4
  <2> QED
    BY <2>1, <2>2
<1>8. Rotating!Within(Turned(rest, c), Turned(p, m))
  BY <1>2, <1>3, <1>7, WithinTurned
<1>9. PICK n \in 0 .. Len(p) : m = b + n \/ m + Len(p) = b + n
  <2>1. CASE m >= b
    <3>1. m - b \in 0 .. Len(p) /\ m = b + (m - b)
      BY <1>4, <2>1
    <3> QED
      BY <3>1
  <2>2. CASE m < b
    <3>1. m + Len(p) - b \in 0 .. Len(p) /\ m + Len(p) = b + (m + Len(p) - b)
      BY <1>4, <2>2
    <3> QED
      BY <3>1
  <2> QED
    BY <1>4, <2>1, <2>2
<1>10. Turned(Turned(p, b), n) = Turned(p, m)
  BY <1>9, TurnedAgain
<1> QED
  BY <1>1, <1>5, <1>6, <1>8, <1>10 DEF Cut

(* What a call that nobody interferes with knows at each of its steps.     *)
CallInv ==
    /\ CursorInv
    /\ \A t \in Threads :
        /\ pc[t] = "reset" => actual[at[t]] >= Len(ips[at[t]])
        /\ pc[t] \in {"load", "store"} =>
            /\ actual[at[t]] < Len(ips[at[t]])
            /\ pick[t] = ips[at[t]][actual[at[t]] + 1]
        /\ pc[t] = "store" => seen[t] = actual[at[t]]

LEMMA InitCallInv == Init => CallInv
BY InitCursorInv DEF Init, CallInv

LEMMA NextCallInv ==
    ASSUME Sequential, IInv, CallInv, [Next]_vars
    PROVE  CallInv'
<1>1. CursorInv'
  BY NextCursorInv DEF CallInv
<1> USE DEF CallInv, Goto
<1>2. ASSUME NEW t \in Threads, NEW k \in Keys, NEW d \in Dests, AddAddrs(t, k, d)
      PROVE  CallInv'
  BY <1>1, <1>2, Sequential DEF AddAddrs, Sequential
<1>3. ASSUME NEW t \in Threads, NEW p \in Paths, NEW d \in Dests, Remove(t, p, d)
      PROVE  CallInv'
  BY <1>1, <1>3, Sequential DEF Remove, Sequential
<1>4. ASSUME NEW t \in Threads, NEW p \in Paths, NextNone(t, p)
      PROVE  CallInv'
  BY <1>1, <1>4 DEF NextNone, IInv, TypeOK
<1>5. ASSUME NEW t \in Threads, NEW p \in Paths, NextEnter(t, p)
      PROVE  CallInv'
  <2>1. pc' = [pc EXCEPT ![t] = "check"]
    BY <1>5 DEF NextEnter
  <2> QED
    BY <1>1, <2>1, Sequential DEF Sequential, IInv, TypeOK
<1>6. ASSUME NEW t \in Threads, NextStep(t)
      PROVE  CallInv'
  <2>1. /\ at[t] \in Keys
        /\ ips[at[t]] \in Seq(Dests)
        /\ actual[at[t]] \in Nat
        /\ \A u \in Threads : u = t
    BY Sequential DEF IInv, TypeOK, Sequential
  <2>2. CASE NextCheck(t)
    BY <1>1, <2>1, <2>2 DEF NextCheck, AtEnd, IInv, TypeOK
  <2>3. CASE NextReset(t)
    BY <1>1, <2>1, <2>3 DEF NextReset, IInv, TypeOK
  <2>4. CASE NextIndex(t)
    BY <1>1, <2>1, <2>4 DEF NextIndex, Entry, CursorInv, IInv, TypeOK
  <2>5. CASE NextLoad(t)
    BY <1>1, <2>1, <2>5 DEF NextLoad, IInv, TypeOK
  <2>6. CASE NextStore(t)
    BY <1>1, <2>1, <2>6 DEF NextStore, IInv, TypeOK
  <2> QED
    BY <1>6, <2>2, <2>3, <2>4, <2>5, <2>6 DEF NextStep
<1>7. CASE UNCHANGED vars
  BY <1>1, <1>7 DEF vars
<1> QED
  BY <1>2, <1>3, <1>4, <1>5, <1>6, <1>7 DEF Next

LEMMA QueueIsCut ==
    /\ Queue = [k \in Keys |-> Cut(ips[k], actual[k])]
    /\ Queue' = [k \in Keys |-> Cut(ips'[k], actual'[k])]
BY DEF Queue, Cut, Turned

LEMMA InitRotates == Init => Rotating!Init
<1> SUFFICES ASSUME Init PROVE Rotating!Init
  OBVIOUS
<1>1. ASSUME NEW k \in Keys PROVE Cut(ips[k], actual[k]) = <<>>
  <2>1. ips[k] = <<>> /\ <<>> \in Seq(Dests) /\ Wrapped(<<>>, actual[k]) = 0
    BY DEF Init, Wrapped
  <2> QED
    BY <2>1, TurnedNone DEF Cut
<1> QED
  BY <1>1, QueueIsCut DEF Init, Rotating!Init

(* When one list or its cursor changes, only its queue does.               *)
LEMMA QueueChanges ==
    ASSUME IInv, NEW k \in Keys, NEW p, NEW a,
           \A j \in Keys : ips'[j] = IF j = k THEN p ELSE ips[j],
           \A j \in Keys : actual'[j] = IF j = k THEN a ELSE actual[j]
    PROVE  Queue' = [Queue EXCEPT ![k] = Cut(p, a)]
<1>1. \A j \in Keys : Cut(ips'[j], actual'[j]) =
                        IF j = k THEN Cut(p, a) ELSE Cut(ips[j], actual[j])
  OBVIOUS
<1> QED
  BY <1>1, QueueIsCut

LEMMA QueueOf ==
    ASSUME IInv, NEW k \in Keys
    PROVE  /\ Queue[k] = Cut(ips[k], actual[k])
           /\ ips[k] \in Seq(Dests) /\ NoDuplicates(ips[k]) /\ actual[k] \in Nat
BY QueueIsCut DEF IInv, TypeOK, ListsHaveNoDuplicates

(* AddAddrs inserts into the queue, or finds the address there.            *)
LEMMA AddAddrsRotates ==
    ASSUME IInv, NEW t \in Threads, NEW k \in Keys, NEW d \in Dests, AddAddrs(t, k, d)
    PROVE  Rotating!Insert(k, d) \/ UNCHANGED <<Queue, ret>>
<1>1. PICK p \in Seq(Dests) : p = ips[k]
  BY QueueOf
<1>2. PICK a \in Nat : a = actual[k]
  BY QueueOf
<1>3. Queue[k] = Cut(p, a)
  BY <1>1, <1>2, QueueOf
<1>4. /\ ips' = [ips EXCEPT ![k] = AddedTo(p, d)]
      /\ UNCHANGED <<actual, ret>>
  BY <1>1 DEF AddAddrs
<1>5. CASE d \in Range(p)
  <2>1. ips' = ips
    BY <1>1, <1>4, <1>5 DEF AddedTo, IInv, TypeOK
  <2> QED
    BY <1>4, <2>1, QueueIsCut
<1>6. CASE d \notin Range(p)
  <2>1. AddedTo(p, d) = Append(p, d)
    BY <1>6 DEF AddedTo
  <2>2. \A j \in Keys : ips'[j] = IF j = k THEN Append(p, d) ELSE ips[j]
    BY <1>4, <2>1 DEF IInv, TypeOK
  <2>3. \A j \in Keys : actual'[j] = IF j = k THEN a ELSE actual[j]
    BY <1>2, <1>4
  <2>4. Queue' = [Queue EXCEPT ![k] = Cut(Append(p, d), a)]
    BY <2>2, <2>3, QueueChanges
  <2>5. PICK n \in 0 .. Len(p) : Cut(Append(p, d), a) = Inserted(Cut(p, a), d, n)
    BY CutAppend
  <2>6. d \notin Range(Queue[k])
    BY <1>3, <1>6, CutFacts
  <2>7. n \in 0 .. Len(Queue[k])
    BY <1>3, CutFacts
  <2>8. Queue' = [Queue EXCEPT ![k] = Inserted(Queue[k], d, n)]
    BY <1>3, <2>4, <2>5
  <2>9. Rotating!Insert(k, d)
    <3>1. \E i \in 0 .. Len(Queue[k]) :
            Queue' = [Queue EXCEPT ![k] = SubSeq(Queue[k], 1, i) \o <<d>>
                                    \o SubSeq(Queue[k], i + 1, Len(Queue[k]))]
      BY <2>7, <2>8, Zenon DEF Inserted
    <3>2. UNCHANGED ret
      BY <1>4
    <3>3. d \notin Rotating!Range(Queue[k])
      BY <2>6 DEF Range, Rotating!Range
    <3> QED
      BY <3>1, <3>2, <3>3, Zenon DEF Rotating!Insert
  <2> QED
    BY <2>9
<1> QED
  BY <1>5, <1>6

(* Remove drops the address it finds, with or without the one before it.   *)
LEMMA RemoveRotates ==
    ASSUME IInv, NEW t \in Threads, NEW path \in Paths, NEW d \in Dests,
           Remove(t, path, d)
    PROVE  (\E k \in Keys : Rotating!Drop(k, d)) \/ UNCHANGED <<Queue, ret>>
<1>1. PICK k \in Found(path) : ips' = [ips EXCEPT ![k] = RemovedFrom(ips[k], d)]
  BY DEF Remove
<1>2. k \in Keys
  BY <1>1 DEF Found, IInv, TypeOK
<1>3. PICK p \in Seq(Dests) : p = ips[k] /\ NoDuplicates(p)
  BY <1>2, QueueOf
<1>4. PICK a \in Nat : a = actual[k]
  BY <1>2, QueueOf
<1>5. Queue[k] = Cut(p, a)
  BY <1>2, <1>3, <1>4, QueueOf
<1>6. UNCHANGED <<actual, ret>>
  BY DEF Remove
<1>7. CASE d \notin Range(p)
  <2>1. ips' = ips
    BY <1>1, <1>3, <1>7 DEF RemovedFrom, IInv, TypeOK
  <2> QED
    BY <1>6, <2>1, QueueIsCut
<1>8. CASE d \in Range(p)
  <2>1. \A j \in Keys : ips'[j] = IF j = k THEN RemovedFrom(p, d) ELSE ips[j]
    BY <1>1, <1>2, <1>3 DEF IInv, TypeOK
  <2>2. \A j \in Keys : actual'[j] = IF j = k THEN a ELSE actual[j]
    BY <1>4, <1>6
  <2>3. PICK rest : rest = Cut(RemovedFrom(p, d), a)
    OBVIOUS
  <2>4. Queue' = [Queue EXCEPT ![k] = rest]
    BY <1>2, <2>1, <2>2, <2>3, QueueChanges
  <2>5. /\ RemovedFrom(p, d) \in Seq(Dests)
        /\ Range(RemovedFrom(p, d)) \subseteq Range(p) \ {d}
    BY <1>3, RemovedFromFacts
  <2>6. rest \in Seq(Dests) /\ Range(rest) \subseteq Range(Queue[k]) \ {d}
    BY <1>5, <2>3, <2>5, CutFacts
  <2>7. d \in Range(Queue[k]) /\ Len(Queue[k]) = Len(p)
    BY <1>5, <1>8, CutFacts
  <2>8. PICK n \in 0 .. Len(p) : Rotating!Within(rest, Turned(Queue[k], n))
    BY <1>3, <1>5, <2>3, CutRemove
  <2>9. Len(rest) \in 0 .. Len(p) /\ rest \in [1 .. Len(rest) -> Range(Queue[k]) \ {d}]
    <3>1. DOMAIN rest = 1 .. Len(rest) /\ Len(rest) \in Nat
      BY <2>6
    <3>2. \A i \in DOMAIN rest : rest[i] \in Range(Queue[k]) \ {d}
      BY <2>6 DEF Range
    <3>3. Len(RemovedFrom(p, d)) <= Len(p)
      BY <1>3, RemovedFromFacts
    <3> QED
      BY <2>3, <2>5, <2>6, <3>1, <3>2, <3>3, CutFacts
  <2>10. Rotating!Within(rest, Rotating!Rotated(Queue[k], n))
    BY <2>8 DEF Turned, Rotating!Rotated
  <2>11. Rotating!Drop(k, d)
    <3>1. \E m, i \in 0 .. Len(Queue[k]) :
            \E r \in [1 .. m -> Rotating!Range(Queue[k]) \ {d}] :
                /\ Queue' = [Queue EXCEPT ![k] = r]
                /\ Rotating!Within(r, Rotating!Rotated(Queue[k], i))
      BY <2>4, <2>7, <2>9, <2>10, Zenon DEF Range, Rotating!Range
    <3>2. UNCHANGED ret
      BY <1>6
    <3>3. d \in Rotating!Range(Queue[k])
      BY <2>7 DEF Range, Rotating!Range
    <3> QED
      BY <3>1, <3>2, <3>3, Zenon DEF Rotating!Drop
  <2> QED
    BY <1>2, <2>11
<1> QED
  BY <1>7, <1>8

(* The steps of one call: only the last of them shows, and serves.         *)
LEMMA NextStepRotates ==
    ASSUME IInv, CallInv, NEW t \in Threads, NextStep(t)
    PROVE  (\E k \in Keys : Rotating!Serve(t, k)) \/ UNCHANGED <<Queue, ret>>
<1>1. PICK k \in Keys : k = at[t]
  BY DEF IInv, TypeOK
<1>2. PICK p \in Seq(Dests) : p = ips[k]
  BY QueueOf
<1>3. PICK a \in Nat : a = actual[k]
  BY QueueOf
<1>4. Queue[k] = Cut(p, a)
  BY <1>2, <1>3, QueueOf
<1>5. ips' = ips
  BY DEF NextStep, NextCheck, NextReset, NextIndex, NextLoad, NextStore
<1>6. \A j \in Keys : ips'[j] = IF j = k THEN p ELSE ips[j]
  BY <1>2, <1>5
<1>7. CASE NextCheck(t) \/ NextIndex(t) \/ NextLoad(t)
  <2>1. actual' = actual /\ ret' = ret
    BY <1>7 DEF NextCheck, NextIndex, NextLoad
  <2> QED
    BY <1>5, <2>1, QueueIsCut
<1>8. CASE NextReset(t)
  <2>1. a >= Len(p)
    BY <1>1, <1>2, <1>3, <1>8 DEF NextReset, CallInv
  <2>2. \A j \in Keys : actual'[j] = IF j = k THEN 0 ELSE actual[j]
    BY <1>1, <1>8 DEF NextReset, IInv, TypeOK
  <2>3. Queue' = [Queue EXCEPT ![k] = Cut(p, 0)]
    BY <1>6, <2>2, QueueChanges
  <2>4. Cut(p, 0) = Cut(p, a)
    BY <2>1 DEF Cut, Wrapped
  <2>5. ret' = ret
    BY <1>8 DEF NextReset
  <2> QED
    BY <1>4, <2>3, <2>4, <2>5, QueueIsCut
<1>9. CASE NextStore(t)
  <2>1. a < Len(p) /\ pick[t] = p[a + 1] /\ seen[t] = a
    BY <1>1, <1>2, <1>3, <1>9 DEF NextStore, CallInv
  <2>2. \A j \in Keys : actual'[j] = IF j = k THEN a + 1 ELSE actual[j]
    BY <1>1, <1>9, <2>1 DEF NextStore, Advanced, IInv, TypeOK
  <2>3. Queue' = [Queue EXCEPT ![k] = Cut(p, a + 1)]
    BY <1>6, <2>2, QueueChanges
  <2>4. /\ Head(Queue[k]) = p[a + 1]
        /\ Cut(p, a + 1) = Turned(Queue[k], 1)
    BY <1>4, <2>1, CutServe
  <2>5. Queue[k] # <<>>
    BY <1>4, <2>1, CutFacts
  <2>6. ret' = [ret EXCEPT ![t] = Head(Queue[k])]
    BY <1>9, <2>1, <2>4 DEF NextStore
  <2>7. Queue' = [Queue EXCEPT ![k] = Rotating!Rotated(Queue[k], 1)]
    BY <2>3, <2>4 DEF Turned, Rotating!Rotated
  <2>8. Rotating!Serve(t, k)
    BY <2>5, <2>6, <2>7, Zenon DEF Rotating!Serve
  <2> QED
    BY <2>8
<1> QED
  BY <1>7, <1>8, <1>9 DEF NextStep

LEMMA NextRotates ==
    ASSUME IInv, CallInv, [Next]_vars
    PROVE  [Rotating!Next]_<<Queue, ret>>
<1>1. ASSUME NEW t \in Threads, NEW k \in Keys, NEW d \in Dests, AddAddrs(t, k, d)
      PROVE  [Rotating!Next]_<<Queue, ret>>
  BY <1>1, AddAddrsRotates DEF Rotating!Next
<1>2. ASSUME NEW t \in Threads, NEW p \in Paths, NEW d \in Dests, Remove(t, p, d)
      PROVE  [Rotating!Next]_<<Queue, ret>>
  BY <1>2, RemoveRotates DEF Rotating!Next
<1>3. ASSUME NEW t \in Threads, NEW p \in Paths, NextNone(t, p)
      PROVE  [Rotating!Next]_<<Queue, ret>>
  <2>1. Queue' = Queue
    BY <1>3, QueueIsCut DEF NextNone
  <2>2. Rotating!ServeNone(t)
    BY <1>3, <2>1 DEF NextNone, Rotating!ServeNone
  <2> QED
    BY <2>2 DEF Rotating!Next
<1>4. ASSUME NEW t \in Threads, NEW p \in Paths, NextEnter(t, p)
      PROVE  [Rotating!Next]_<<Queue, ret>>
  BY <1>4, QueueIsCut DEF NextEnter
<1>5. ASSUME NEW t \in Threads, NextStep(t)
      PROVE  [Rotating!Next]_<<Queue, ret>>
  BY <1>5, NextStepRotates DEF Rotating!Next
<1>6. CASE UNCHANGED vars
  BY <1>6, QueueIsCut DEF vars
<1> QED
  BY <1>1, <1>2, <1>3, <1>4, <1>5, <1>6 DEF Next

(* Calls that follow one another see a rotating queue: every address in    *)
(* turn, whatever is added, removed or left past the end in between.       *)
THEOREM SequentialNextRotates ==
    ASSUME Sequential PROVE Spec => Rotates
<1>1. Init => IInv /\ CallInv /\ Rotating!Init
  BY InitIInv, InitCallInv, InitRotates
<1>2. IInv /\ CallInv /\ [Next]_vars => (IInv /\ CallInv)'
  BY NextIInv, NextCallInv, Sequential
<1>3. IInv /\ CallInv /\ [Next]_vars => [Rotating!Next]_<<Queue, ret>>
  BY NextRotates
<1> QED
  BY <1>1, <1>2, <1>3, PTL DEF Spec, Rotates, Rotating!Spec
=============================================================================
