------------------------- MODULE BoltSessionsProofs -------------------------
(***************************************************************************)
(* Theorems about BoltSessions for any requests, session names, keys,      *)
(* bounds of the clock and number of faults.                               *)
(***************************************************************************)
EXTENDS BoltSessions, TLAPS

(* Delete looks at the mark before it takes the record away.               *)
MarkedHaveRecords == \A n \in mark : ts[n] # NoTime

(* A session that has not been shared has one user at most.                *)
SoleUser == \A n \in Names \ shared : \A p, q \in Users(n) : p = q

(* The requests of a process end with it.                                  *)
DownIsIdle == ~up => \A p \in Procs : at[p] = "idle"

(* The inductive invariant.  MarksHaveHolders needs MarkedHaveRecords: a   *)
(* Return leaves the mark when it finds no record.  ExclusiveUseIsSafe     *)
(* needs SoleUser, since the first Return of several takes the mark from   *)
(* all of them, and DownIsIdle, since Open drops every mark.               *)
Types == TypeOK /\ DownIsIdle
Marks == MarksHaveHolders /\ MarkedHaveRecords
Uses == ExclusiveUseIsSafe /\ SoleUser
IInv == Types /\ IndexIsTruthful /\ Marks /\ Uses

-----------------------------------------------------------------------------
LEMMA DeadlineType ==
    ASSUME TypeOK
    PROVE  Deadline \in Times /\ Deadline # NoTime
BY TimeAssumption DEF TypeOK, Deadline, Times, NoTime

LEMMA DoesFacts ==
    ASSUME TypeOK, NEW p \in Procs, NEW step, NEW n, Does(p, step, n)
    PROVE  /\ at' = [at EXCEPT ![p] = step] /\ who' = [who EXCEPT ![p] = n]
           /\ at'[p] = step /\ who'[p] = n
           /\ \A q \in Procs \ {p} : at'[q] = at[q] /\ who'[q] = who[q]
BY DEF TypeOK, Does

LEMMA InitIInv == Init => IInv
<1> SUFFICES ASSUME Init PROVE IInv
  OBVIOUS
<1>1. Types
  <2>1. now \in 1 .. MaxNow /\ faults \in 0 .. MaxFaults
    BY TimeAssumption, FaultsAssumption DEF Init
  <2>2. /\ ts \in [Names -> Times \cup {NoTime}]
        /\ index \in [Times -> Names \cup {NoName}]
        /\ at \in [Procs -> {"idle", "new", "open", "cancel", "held"}]
        /\ who \in [Procs -> Names \cup {NoName}]
    BY DEF Init
  <2> QED
    BY <2>1, <2>2 DEF Init, Types, TypeOK, DownIsIdle
<1>2. IndexIsTruthful
  BY DEF Init, IndexIsTruthful
<1>3. Marks
  BY DEF Init, Marks, MarksHaveHolders, MarkedHaveRecords
<1>4. Uses
  <2>1. \A n \in Names : Users(n) = {}
    BY NameAssumption DEF Init, Users
  <2> QED
    BY <2>1 DEF Init, Uses, ExclusiveUseIsSafe, SoleUser
<1> QED
  BY <1>1, <1>2, <1>3, <1>4 DEF IInv

-----------------------------------------------------------------------------
(* Types *)

LEMMA TypesStep ==
    ASSUME Types, Next
    PROVE  Types'
<1> USE DEF Types
<1>1. CASE Tick
  <2>1. now' \in 1 .. MaxNow
    BY <1>1, TimeAssumption DEF Tick, TypeOK
  <2>2. UNCHANGED <<ts, index, mark, data, root, up, at, who, faults, lost, shared>>
    BY <1>1 DEF Tick, file, requests, ghosts
  <2> QED
    BY <2>1, <2>2 DEF TypeOK, DownIsIdle
<1>2. CASE Stop
  <2>1. faults' \in 0 .. MaxFaults
    BY <1>2, FaultsAssumption DEF Stop, Fails, TypeOK
  <2>2. /\ \A p \in Procs : at'[p] = "idle" /\ who'[p] = NoName
        /\ at' \in [Procs -> {"idle", "new", "open", "cancel", "held"}]
        /\ who' \in [Procs -> Names \cup {NoName}]
    BY <1>2 DEF Stop
  <2>3. up' \in BOOLEAN /\ UNCHANGED <<now, ts, index, mark, data, root, lost, shared>>
    BY <1>2 DEF Stop, file
  <2> QED
    BY <2>1, <2>2, <2>3 DEF TypeOK, DownIsIdle
<1>3. CASE Open
  BY <1>3 DEF Open, NoMarks, TypeOK, DownIsIdle, requests
<1>4. ASSUME NEW n \in Names, Delete(n) PROVE Types'
  BY <1>4, NameAssumption DEF Delete, Emptied, Unindexed, TypeOK, DownIsIdle, requests, ghosts, NoTime
<1>5. ASSUME NEW p \in Procs, Serve(p) PROVE Types'
  <2> DEFINE steps == {"idle", "new", "open", "cancel", "held"}
  <2>1. /\ up /\ at \in [Procs -> steps] /\ who \in [Procs -> Names \cup {NoName}]
        /\ \A q \in Procs : at[q] = "idle" <=> who[q] = NoName
    BY <1>5 DEF TypeOK, Serve, New, NewDuplicated, NewFails, OpenSession, OpenSessionFails,
       CancelSession, CancelFails, Return, ReturnFails, RestoreMissing, RestoreExpired,
       Restore, SetKey, DelKey
  <2>2. up'
    BY <1>5, <2>1 DEF Serve, New, NewDuplicated, NewFails, OpenSession, OpenSessionFails,
       CancelSession, CancelFails, Return, ReturnFails, RestoreMissing, RestoreExpired,
       Restore, SetKey, DelKey, vars
  <2>3. DownIsIdle'
    BY <2>2 DEF DownIsIdle
  <2>4. CASE New(p) \/ \E n \in Names : Restore(p, n)
    <3>1. PICK n \in Names :
            /\ ts' = [ts EXCEPT ![n] = Deadline]
            /\ index' = Moved(n) \/ index' = [index EXCEPT ![Deadline] = n]
            /\ mark' = mark \cup {n}
            /\ Does(p, "open", n) /\ Shares(n)
            /\ UNCHANGED <<now, data, root, up, faults, lost>>
      BY <2>1, <2>4, NameAssumption DEF New, Restore
    <3>2. index' \in [Times -> Names \cup {NoName}]
      BY <3>1 DEF TypeOK, Moved
    <3>3. ts' \in [Names -> Times \cup {NoTime}]
      BY <3>1, DeadlineType DEF TypeOK
    <3>4. shared' \subseteq Names
      BY <3>1 DEF TypeOK, Shares
    <3>5. TypeOK'
      BY <3>1, <3>2, <3>3, <3>4, DoesFacts, NameAssumption DEF TypeOK
    <3> QED
      BY <2>3, <3>5
  <2>5. CASE NewDuplicated(p) \/ NewFails(p) \/ CancelSession(p) \/ CancelFails(p)
             \/ Return(p) \/ ReturnFails(p)
    <3>1. /\ Does(p, "idle", NoName)
          /\ UNCHANGED <<now, ts, index, data, root, up, shared>>
          /\ mark' \subseteq mark
          /\ lost' = lost \/ lost' = lost \cup {who[p]}
          /\ faults' = faults \/ Fails
          /\ at[p] # "idle"
      BY <2>5 DEF NewDuplicated, NewFails, CancelSession, CancelFails, Return, ReturnFails,
         Fails, CancelMark, file, ghosts
    <3>2. lost' \subseteq Names
      BY <2>1, <3>1 DEF TypeOK
    <3>3. faults' \in 0 .. MaxFaults
      BY <3>1, FaultsAssumption DEF TypeOK, Fails
    <3>4. TypeOK'
      BY <3>1, <3>2, <3>3, DoesFacts DEF TypeOK
    <3> QED
      BY <2>3, <3>4
  <2>6. CASE OpenSession(p) \/ OpenSessionFails(p) \/ \E n \in Names : RestoreMissing(p, n)
    <3>1. PICK n \in Names, step \in {"new", "cancel", "held"} :
            /\ Does(p, step, n)
            /\ UNCHANGED <<now, ts, index, mark, data, up, lost, shared>>
            /\ root' = root \/ root' = TRUE
            /\ step = "held" => root'
            /\ faults' = faults \/ Fails
      BY <2>1, <2>6, NameAssumption DEF OpenSession, OpenSessionFails, RestoreMissing, Fails, file, ghosts
    <3>2. faults' \in 0 .. MaxFaults
      BY <3>1, FaultsAssumption DEF TypeOK, Fails
    <3>3. /\ at' \in [Procs -> steps] /\ who' \in [Procs -> Names \cup {NoName}]
          /\ \A q \in Procs : at'[q] = "idle" <=> who'[q] = NoName
      BY <2>1, <3>1, DoesFacts, NameAssumption
    <3>4. root' \in BOOLEAN /\ \A q \in Procs : at'[q] = "held" => root'
      <4>1. at'[p] = step /\ \A q \in Procs \ {p} : at'[q] = at[q]
        BY <3>1, DoesFacts
      <4>2. root' \in BOOLEAN /\ (root => root')
        <5>1. root \in BOOLEAN
          BY DEF TypeOK
        <5>2. CASE root' = root
          BY <5>1, <5>2, Zenon
        <5>3. CASE root' = TRUE
          BY <5>3, Zenon
        <5> QED
          BY <3>1, <5>2, <5>3
      <4>3. \A q \in Procs : at[q] = "held" => root
        BY DEF TypeOK
      <4>4. ASSUME NEW q \in Procs, at'[q] = "held" PROVE root'
        <5>1. CASE q = p
          BY <3>1, <4>1, <4>4, <5>1, Zenon
        <5>2. CASE q # p
          BY <4>1, <4>2, <4>3, <4>4, <5>2
        <5> QED
          BY <5>1, <5>2
      <4> QED
        BY <4>2, <4>4
    <3>5. TypeOK'
      BY <3>1, <3>2, <3>3, <3>4 DEF TypeOK
    <3> QED
      BY <2>3, <3>5
  <2>7. CASE \E n \in Names : RestoreExpired(p, n)
    BY <2>7 DEF RestoreExpired, vars, TypeOK, DownIsIdle
  <2>8. CASE \E k \in Keys : SetKey(p, k) \/ DelKey(p, k)
    <3>1. /\ UNCHANGED <<now, ts, index, mark, root, up, at, who, faults, lost, shared>>
          /\ at[p] = "held"
      BY <2>8 DEF SetKey, DelKey, requests, ghosts
    <3>2. who[p] \in Names
      BY <2>1, <3>1
    <3>3. data' \in [Names -> SUBSET Keys]
      BY <2>8, <3>2 DEF SetKey, DelKey, TypeOK
    <3>4. TypeOK'
      BY <3>1, <3>3 DEF TypeOK
    <3> QED
      BY <2>3, <3>4
  <2> QED
    BY <1>5, <2>4, <2>5, <2>6, <2>7, <2>8 DEF Serve
<1> QED
  BY <1>1, <1>2, <1>3, <1>4, <1>5 DEF Next
-----------------------------------------------------------------------------
(* The index *)

(* Only Restore and New move a record, and the entry of the index with it; *)
(* only Delete takes both away.                                            *)
LEMMA IndexStep ==
    ASSUME Types, IndexIsTruthful, Next
    PROVE  IndexIsTruthful'
<1> USE DEF Types
<1>1. CASE UNCHANGED <<ts, index>>
  BY <1>1 DEF IndexIsTruthful
<1>2. ASSUME NEW n \in Names, Delete(n) PROVE IndexIsTruthful'
  BY <1>2, NameAssumption DEF Delete, Unindexed, IndexIsTruthful, TypeOK, NoTime
<1>3. ASSUME NEW p \in Procs, NEW n \in Names, Restore(p, n) PROVE IndexIsTruthful'
  BY <1>3, DeadlineType, NameAssumption DEF Restore, Moved, IndexIsTruthful, TypeOK
<1>4. ASSUME NEW p \in Procs, New(p) PROVE IndexIsTruthful'
  <2>1. who[p] \in Names /\ ts[who[p]] = NoTime
    BY <1>4 DEF New, Fresh, TypeOK
  <2>2. /\ ts' = [ts EXCEPT ![who[p]] = Deadline]
        /\ index' = [index EXCEPT ![Deadline] = who[p]]
    BY <1>4 DEF New
  <2>3. \A t \in Times : t # NoTime
    BY DEF Times, NoTime
  <2> QED
    BY <2>1, <2>2, <2>3, DeadlineType, NameAssumption DEF IndexIsTruthful, TypeOK
<1> QED
  BY <1>1, <1>2, <1>3, <1>4 DEF Next, Serve, Tick, Stop, Open, NewDuplicated, NewFails,
     OpenSession, OpenSessionFails, CancelSession, CancelFails, Return, ReturnFails,
     RestoreMissing, RestoreExpired, SetKey, DelKey, file, vars
-----------------------------------------------------------------------------
(* Who uses a session *)

LEMMA UsersAfter ==
    ASSUME TypeOK, NEW p \in Procs, NEW step, NEW n, Does(p, step, n), NEW m
    PROVE  Users(m)' = IF m = n /\ step \in {"open", "cancel", "held"}
                       THEN Users(m) \cup {p} ELSE Users(m) \ {p}
BY DoesFacts DEF Users

LEMMA UsersSame ==
    ASSUME UNCHANGED <<at, who>>, NEW m
    PROVE  Users(m)' = Users(m)
BY DEF Users

(* New and Restore make a request a user of its session, ...               *)
Takes(p, n) == Restore(p, n) \/ (New(p) /\ who[p] = n)
LEMMA TakesFacts ==
    ASSUME TypeOK, NEW p \in Procs, NEW n \in Names, Takes(p, n)
    PROVE  /\ ts' = [ts EXCEPT ![n] = Deadline] /\ mark' = mark \cup {n}
           /\ Shares(n) /\ UNCHANGED <<data, up, lost>>
           /\ \A m : Users(m)' = IF m = n THEN Users(m) \cup {p} ELSE Users(m)
<1>1. Does(p, "open", n) /\ at[p] \in {"idle", "new"}
  BY DEF Takes, New, Restore
<1>2. \A m : p \notin Users(m)
  BY <1>1 DEF Users
<1>3. \A m : Users(m)' = IF m = n THEN Users(m) \cup {p} ELSE Users(m)
  BY <1>1, <1>2, UsersAfter
<1> QED
  BY <1>3 DEF Takes, New, Restore

(* ... the last call of a request ends that, ...                           *)
Leaves(p) == CancelSession(p) \/ CancelFails(p) \/ Return(p) \/ ReturnFails(p)
LEMMA LeavesFacts ==
    ASSUME TypeOK, MarkedHaveRecords, NEW p \in Procs, Leaves(p)
    PROVE  /\ who[p] \in Names /\ p \in Users(who[p])
           /\ \/ mark' = mark \ {who[p]} /\ lost' = lost
              \/ mark' = mark /\ lost' = lost \cup {who[p]}
           /\ UNCHANGED <<ts, data, up, shared>>
           /\ \A m : Users(m)' = Users(m) \ {p}
<1>1. Does(p, "idle", NoName) /\ at[p] \in {"cancel", "held"}
  BY DEF Leaves, CancelSession, CancelFails, Return, ReturnFails
<1>2. who[p] \in Names /\ p \in Users(who[p])
  BY <1>1 DEF TypeOK, Users
<1>3. \A m : Users(m)' = Users(m) \ {p}
  BY <1>1, UsersAfter
<1>4. \/ mark' = mark \ {who[p]} /\ lost' = lost
      \/ mark' = mark /\ lost' = lost \cup {who[p]}
  BY <1>2 DEF Leaves, CancelSession, CancelFails, CancelMark, Return, ReturnFails,
     MarkedHaveRecords, file, ghosts
<1> QED
  BY <1>2, <1>3, <1>4 DEF Leaves, CancelSession, CancelFails, Return, ReturnFails, file, ghosts

(* ... and these change no user.                                           *)
Stays(p) ==
    \/ OpenSession(p) \/ OpenSessionFails(p) \/ NewDuplicated(p) \/ NewFails(p)
    \/ \E n \in Names : RestoreMissing(p, n)
LEMMA StaysFacts ==
    ASSUME TypeOK, NEW p \in Procs, Stays(p)
    PROVE  /\ UNCHANGED <<ts, mark, data, up, lost, shared>>
           /\ \A m : Users(m)' = Users(m)
<1>1. UNCHANGED <<ts, mark, data, up, lost, shared>>
  BY DEF Stays, OpenSession, OpenSessionFails, NewDuplicated, NewFails, RestoreMissing,
     file, ghosts
<1>2. CASE OpenSession(p) \/ OpenSessionFails(p)
  <2>1. at[p] = "open" /\ \E step \in {"held", "cancel"} : Does(p, step, who[p])
    BY <1>2 DEF OpenSession, OpenSessionFails
  <2>2. \A m : p \in Users(m) <=> m = who[p]
    BY <2>1 DEF Users
  <2> QED
    BY <1>1, <2>1, <2>2, UsersAfter
<1>3. CASE NewDuplicated(p) \/ NewFails(p) \/ \E n \in Names : RestoreMissing(p, n)
  <2>1. at[p] \in {"idle", "new"} /\ \E step \in {"idle", "new"} : \E n : Does(p, step, n)
    BY <1>3 DEF NewDuplicated, NewFails, RestoreMissing
  <2>2. \A m : p \notin Users(m)
    BY <2>1 DEF Users
  <2> QED
    BY <1>1, <2>1, <2>2, UsersAfter
<1> QED
  BY <1>2, <1>3 DEF Stays
-----------------------------------------------------------------------------
(* Marks *)

LEMMA MarksStep ==
    ASSUME Types, Marks, Next
    PROVE  Marks'
<1> USE DEF Types, Marks
<1>1. ASSUME UNCHANGED <<ts, mark, up, at, who, lost>> PROVE Marks'
  BY <1>1, UsersSame DEF MarksHaveHolders, MarkedHaveRecords
<1>2. CASE Stop
  BY <1>2 DEF Stop, file, MarksHaveHolders, MarkedHaveRecords
<1>3. CASE Open
  BY <1>3 DEF Open, NoMarks, MarksHaveHolders, MarkedHaveRecords
<1>4. ASSUME NEW n \in Names, Delete(n) PROVE Marks'
  <2>1. /\ n \notin mark /\ ts' = [ts EXCEPT ![n] = NoTime]
        /\ UNCHANGED <<mark, up, at, who, lost>>
    BY <1>4 DEF Delete, NotInUse, requests, ghosts
  <2>2. MarksHaveHolders'
    BY <2>1, UsersSame DEF MarksHaveHolders
  <2>3. MarkedHaveRecords'
    BY <2>1 DEF MarkedHaveRecords, TypeOK
  <2> QED
    BY <2>2, <2>3
<1>5. ASSUME NEW p \in Procs, NEW n \in Names, Takes(p, n) PROVE Marks'
  <2>1. MarksHaveHolders'
    <3> SUFFICES ASSUME up', NEW m \in mark' PROVE Users(m)' # {} \/ m \in lost'
      BY DEF MarksHaveHolders
    <3>1. up
      BY <1>5, Zenon DEF Takes, New, Restore
    <3>2. lost' = lost /\ m \in mark \cup {n}
      BY <1>5, TakesFacts
    <3>3. Users(m)' = IF m = n THEN Users(m) \cup {p} ELSE Users(m)
      BY <1>5, TakesFacts
    <3>4. CASE m = n
      BY <3>3, <3>4
    <3>5. CASE m # n
      <4>1. Users(m) # {} \/ m \in lost
        BY <3>1, <3>2, <3>5 DEF MarksHaveHolders
      <4> QED
        BY <3>2, <3>3, <3>5, <4>1
    <3> QED
      BY <3>4, <3>5
  <2>2. MarkedHaveRecords'
    BY <1>5, TakesFacts, DeadlineType DEF MarkedHaveRecords, TypeOK
  <2> QED
    BY <2>1, <2>2
<1>6. ASSUME NEW p \in Procs, Leaves(p) PROVE Marks'
  <2>1. \A m : m # who[p] => p \notin Users(m)
    BY DEF Users
  <2>2. MarksHaveHolders'
    <3> SUFFICES ASSUME up', NEW m \in mark' PROVE Users(m)' # {} \/ m \in lost'
      BY DEF MarksHaveHolders
    <3>1. /\ up /\ m \in mark /\ lost \subseteq lost'
          /\ m = who[p] => m \in lost'
          /\ Users(m)' = Users(m) \ {p}
      BY <1>6, LeavesFacts
    <3>2. Users(m) # {} \/ m \in lost
      BY <3>1 DEF MarksHaveHolders
    <3> QED
      BY <2>1, <3>1, <3>2
  <2>3. MarkedHaveRecords'
    BY <1>6, LeavesFacts DEF MarkedHaveRecords
  <2> QED
    BY <2>2, <2>3
<1>7. ASSUME NEW p \in Procs, Stays(p) PROVE Marks'
  BY <1>7, StaysFacts DEF MarksHaveHolders, MarkedHaveRecords
<1>8. ASSUME NEW p \in Procs, New(p) PROVE \E n \in Names : Takes(p, n)
  BY <1>8, NameAssumption DEF New, Takes, TypeOK
<1> QED
  BY <1>1, <1>2, <1>3, <1>4, <1>5, <1>6, <1>7, <1>8 DEF Next, Serve, Takes, Leaves, Stays,
     Tick, RestoreExpired, SetKey, DelKey, file, requests, ghosts, vars
-----------------------------------------------------------------------------
(* Exclusive use *)

LEMMA UsesStep ==
    ASSUME Types, Marks, Uses, Next
    PROVE  Uses'
<1> USE DEF Types, Marks, Uses
<1>1. ASSUME UNCHANGED <<ts, mark, data, at, who, shared>> PROVE Uses'
  BY <1>1, UsersSame DEF ExclusiveUseIsSafe, SoleUser
<1>2. CASE Stop \/ Open
  <2>1. \A m : Users(m)' = {}
    BY <1>2 DEF Stop, Open, requests, DownIsIdle, Users
  <2>2. UNCHANGED <<ts, data, shared>>
    BY <1>2 DEF Stop, Open, file
  <2> QED
    BY <2>1, <2>2 DEF ExclusiveUseIsSafe, SoleUser
<1>3. ASSUME NEW n \in Names, Delete(n) PROVE Uses'
  <2>1. /\ n \notin mark
        /\ ts' = [ts EXCEPT ![n] = NoTime] /\ data' = [data EXCEPT ![n] = {}]
        /\ UNCHANGED <<mark, at, who, shared>>
    BY <1>3 DEF Delete, NotInUse, Emptied, requests, ghosts
  <2>2. \A m : Users(m)' = Users(m)
    BY <2>1, UsersSame
  <2> QED
    BY <2>1, <2>2 DEF ExclusiveUseIsSafe, SoleUser, TypeOK
<1>4. ASSUME NEW p \in Procs, NEW k \in Keys, SetKey(p, k) \/ DelKey(p, k) PROVE Uses'
  <2>1. /\ at[p] = "held" /\ UNCHANGED <<ts, mark, at, who, shared>>
        /\ \/ data' = [data EXCEPT ![who[p]] = @ \cup {k}]
           \/ data' = [data EXCEPT ![who[p]] = @ \ {k}]
    BY <1>4 DEF SetKey, DelKey, requests, ghosts
  <2>2. who[p] \in Names /\ p \in Users(who[p])
    BY <2>1 DEF TypeOK, Users
  <2>3. \A m : Users(m)' = Users(m)
    BY <2>1, UsersSame
  <2> QED
    BY <2>1, <2>2, <2>3 DEF ExclusiveUseIsSafe, SoleUser, TypeOK
<1>5. ASSUME NEW p \in Procs, NEW n \in Names, Takes(p, n) PROVE Uses'
  <2>1. shared \subseteq shared' /\ (n \notin shared' => Users(n) = {})
    BY <1>5, TakesFacts DEF Shares
  <2>2. SoleUser'
    BY <1>5, <2>1, TakesFacts DEF SoleUser
  <2>3. ExclusiveUseIsSafe'
    BY <1>5, <2>1, TakesFacts, DeadlineType DEF ExclusiveUseIsSafe, TypeOK
  <2> QED
    BY <2>2, <2>3
<1>6. ASSUME NEW p \in Procs, Leaves(p) PROVE Uses'
  <2>1. SoleUser'
    BY <1>6, LeavesFacts DEF SoleUser
  <2>2. \A m \in Names \ shared : m = who[p] => Users(m)' = {}
    BY <1>6, LeavesFacts DEF SoleUser
  <2>3. ExclusiveUseIsSafe'
    <3> SUFFICES ASSUME NEW m \in Names \ shared'
                 PROVE  /\ Users(m)' # {} => m \in mark' /\ ts'[m] # NoTime
                        /\ data'[m] # {} => ts'[m] # NoTime
      BY DEF ExclusiveUseIsSafe
    <3>1. /\ m \notin shared /\ ts' = ts /\ data' = data
          /\ Users(m)' \subseteq Users(m)
          /\ m # who[p] /\ m \in mark => m \in mark'
      BY <1>6, LeavesFacts
    <3> QED
      BY <2>2, <3>1 DEF ExclusiveUseIsSafe
  <2> QED
    BY <2>1, <2>3
<1>7. ASSUME NEW p \in Procs, Stays(p) PROVE Uses'
  BY <1>7, StaysFacts DEF ExclusiveUseIsSafe, SoleUser
<1>8. ASSUME NEW p \in Procs, New(p) PROVE \E n \in Names : Takes(p, n)
  BY <1>8, NameAssumption DEF New, Takes, TypeOK
<1> QED
  BY <1>1, <1>2, <1>3, <1>4, <1>5, <1>6, <1>7, <1>8 DEF Next, Serve, Takes, Leaves, Stays,
     Tick, RestoreExpired, file, requests, ghosts, vars
-----------------------------------------------------------------------------
LEMMA StutterIInv ==
    ASSUME IInv, UNCHANGED vars
    PROVE  IInv'
<1>1. \A m : Users(m)' = Users(m)
  BY UsersSame DEF vars
<1> QED
  BY <1>1 DEF IInv, Types, TypeOK, DownIsIdle, IndexIsTruthful, Marks, MarksHaveHolders,
     MarkedHaveRecords, Uses, ExclusiveUseIsSafe, SoleUser, vars

(* All the invariants of the store, for any number of requests, sessions   *)
(* and faults.                                                             *)
THEOREM Invariance == Spec => []IInv
<1>1. ASSUME IInv, [Next]_vars PROVE IInv'
  BY <1>1, TypesStep, IndexStep, MarksStep, UsesStep, StutterIInv DEF IInv
<1> QED
  BY InitIInv, <1>1, PTL DEF Spec

(* The types of the file and of the process.                               *)
THEOREM TypeCorrect == Spec => []TypeOK
<1>1. IInv => TypeOK
  BY DEF IInv, Types
<1> QED
  BY <1>1, Invariance, PTL

(* No mark outlives the requests that can take it off, but for a failed    *)
(* transaction before the next Open.                                       *)
THEOREM NoMarkIsStranded == Spec => []MarksHaveHolders
<1>1. IInv => MarksHaveHolders
  BY DEF IInv, Marks
<1> QED
  BY <1>1, Invariance, PTL

(* Each entry of the index has the deadline of its session's record.       *)
THEOREM IndexFollowsRecords == Spec => []IndexIsTruthful
<1>1. IInv => IndexIsTruthful
  BY DEF IInv
<1> QED
  BY <1>1, Invariance, PTL

(* A session used by one request at a time is never deleted under it.      *)
THEOREM SoleUserKeepsSession == Spec => []ExclusiveUseIsSafe
<1>1. IInv => ExclusiveUseIsSafe
  BY DEF IInv, Uses
<1> QED
  BY <1>1, Invariance, PTL
=============================================================================
