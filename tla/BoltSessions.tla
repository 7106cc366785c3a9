---------------------------- MODULE BoltSessions ----------------------------
(***************************************************************************)
(* The sessions kept in a Bolt file (sessions/boltdb.go) as the session    *)
(* middleware uses them.  Bolt (external) runs one read-write transaction  *)
(* at a time and writes all of it or nothing; each transaction is one      *)
(* action.  New and Restore are two transactions: the record, then         *)
(* openSessionBoltDB.                                                      *)
(*                                                                         *)
(* A session's data is the set of the keys it has: an empty bucket and no  *)
(* bucket answer every call the same.  The process may die, or close the   *)
(* file, at any time and open it again.                                    *)
(***************************************************************************)
EXTENDS Integers, FiniteSets

CONSTANTS
    Procs,          \* requests
    Names,          \* session ids (the cookies' uuids)
    NoName,
    Keys,           \* keys of the data of a session
    Ttl, MaxNow,    \* the life of a session; the clock's bound
    MaxFaults       \* crashes and failed transactions in a behaviour

ASSUME NameAssumption == NoName \notin Names
ASSUME TimeAssumption == Ttl \in Nat \ {0} /\ MaxNow \in Nat \ {0}
ASSUME FaultsAssumption == MaxFaults \in Nat

VARIABLES
    now,            \* time.Now()
    \* the file
    ts,             \* bUUIDTS: the deadline of each session's record
    index,          \* bTSUUID: the session of each deadline
    mark,           \* bInUse
    data,           \* bUUID: the keys of each session
    root,           \* bUUID has been created
    \* the process
    up,             \* it runs, the file open
    at, who,        \* what each request does, with which session
    \* ghosts
    faults,         \* faults so far
    lost,           \* sessions whose mark a failed transaction left
    shared          \* sessions two requests have held at once

file == <<ts, index, mark, data, root>>
requests == <<at, who>>
ghosts == <<faults, lost, shared>>
vars == <<now, ts, index, mark, data, root, up, at, who, faults, lost, shared>>

-----------------------------------------------------------------------------
NoTime == 0
Times == 1 .. MaxNow + Ttl
(* Variant: the life of a session is added twice.                          *)
DeadlineTwice == now + Ttl + Ttl
Deadline == now + Ttl

Init ==
    /\ now = 1
    /\ ts = [n \in Names |-> NoTime]
    /\ index = [t \in Times |-> NoName]
    /\ mark = {}
    /\ data = [n \in Names |-> {}]
    /\ root = FALSE
    /\ up = TRUE
    /\ at = [p \in Procs |-> "idle"]
    /\ who = [p \in Procs |-> NoName]
    /\ faults = 0 /\ lost = {} /\ shared = {}

Does(p, step, n) ==
    /\ at' = [at EXCEPT ![p] = step]
    /\ who' = [who EXCEPT ![p] = n]

(* The requests that have marked the session n and not given it back.      *)
Users(n) == {p \in Procs : who[p] = n /\ at[p] \in {"open", "cancel", "held"}}
Shares(n) == shared' = IF Users(n) = {} THEN shared ELSE shared \cup {n}

(* A transaction fails: the disk refuses the commit.                       *)
Fails == faults < MaxFaults /\ faults' = faults + 1

-----------------------------------------------------------------------------
(* Restore and New (the middleware calls New when Restore finds nothing).  *)

RestoreMissing(p, n) ==
    /\ up /\ at[p] = "idle"
    /\ ts[n] = NoTime
    /\ Does(p, "new", n)
    /\ UNCHANGED <<now, up>> /\ UNCHANGED file /\ UNCHANGED ghosts

(* An expired session is left as it was: the mark and the deletion from    *)
(* the index are rolled back.  The answer is 500, at every later try too.  *)
RestoreExpired(p, n) ==
    /\ up /\ at[p] = "idle"
    /\ ts[n] # NoTime /\ ts[n] < now
    /\ UNCHANGED vars

(* The record gets a new deadline, under which the index has it.  Variant: *)
(* the old entry of the index stays.                                       *)
MovedOnly(n) == [index EXCEPT ![Deadline] = n]
Moved(n) == [index EXCEPT ![ts[n]] = NoName, ![Deadline] = n]
Restore(p, n) ==
    /\ up /\ at[p] = "idle"
    /\ ts[n] # NoTime /\ ts[n] >= now
    /\ mark' = mark \cup {n}
    /\ index' = Moved(n)
    /\ ts' = [ts EXCEPT ![n] = Deadline]
    /\ Does(p, "open", n)
    /\ Shares(n)
    /\ UNCHANGED <<now, data, root, up, faults, lost>>

(* The record of a new session, unless another request has made one since. *)
Fresh(n) == ts[n] = NoTime
New(p) ==
    LET n == who[p] IN
    /\ up /\ at[p] = "new"
    /\ Fresh(n)
    /\ ts' = [ts EXCEPT ![n] = Deadline]
    /\ index' = [index EXCEPT ![Deadline] = n]
    /\ mark' = mark \cup {n}
    /\ Does(p, "open", n)
    /\ Shares(n)
    /\ UNCHANGED <<now, data, root, up, faults, lost>>
NewDuplicated(p) ==
    /\ up /\ at[p] = "new"
    /\ ~Fresh(who[p])
    /\ Does(p, "idle", NoName)
    /\ UNCHANGED <<now, up>> /\ UNCHANGED file /\ UNCHANGED ghosts
NewFails(p) ==
    /\ up /\ at[p] = "new"
    /\ Fails
    /\ Does(p, "idle", NoName)
    /\ UNCHANGED <<now, up, lost, shared>> /\ UNCHANGED file

(* openSessionBoltDB makes the buckets; when it fails the mark is taken    *)
(* off again (cancelSession), which may fail too.                          *)
OpenSession(p) ==
    /\ up /\ at[p] = "open"
    /\ root' = TRUE
    /\ Does(p, "held", who[p])
    /\ UNCHANGED <<now, ts, index, mark, data, up>> /\ UNCHANGED ghosts
OpenSessionFails(p) ==
    /\ up /\ at[p] = "open"
    /\ Fails
    /\ Does(p, "cancel", who[p])
    /\ UNCHANGED <<now, up, lost, shared>> /\ UNCHANGED file
(* Variant: the failure is answered and nothing is taken off.              *)
KeepMark(n) == mark
CancelMark(n) == mark \ {n}
CancelSession(p) ==
    /\ up /\ at[p] = "cancel"
    /\ mark' = CancelMark(who[p])
    /\ Does(p, "idle", NoName)
    /\ UNCHANGED <<now, ts, index, data, root, up>> /\ UNCHANGED ghosts
CancelFails(p) ==
    /\ up /\ at[p] = "cancel"
    /\ Fails
    /\ lost' = lost \cup {who[p]}
    /\ Does(p, "idle", NoName)
    /\ UNCHANGED <<now, up, shared>> /\ UNCHANGED file

-----------------------------------------------------------------------------
(* What a handler does with its session *)

(* Set makes the session's bucket when it is not there, record or not.     *)
SetKey(p, k) ==
    /\ up /\ at[p] = "held"
    /\ root
    /\ data' = [data EXCEPT ![who[p]] = @ \cup {k}]
    /\ UNCHANGED <<now, ts, index, mark, root, up>>
    /\ UNCHANGED requests /\ UNCHANGED ghosts
DelKey(p, k) ==
    /\ up /\ at[p] = "held"
    /\ k \in data[who[p]]
    /\ data' = [data EXCEPT ![who[p]] = @ \ {k}]
    /\ UNCHANGED <<now, ts, index, mark, root, up>>
    /\ UNCHANGED requests /\ UNCHANGED ghosts

(* Return fails when the record or the mark is gone; the request ends all  *)
(* the same.                                                               *)
Return(p) ==
    LET n == who[p] IN
    /\ up /\ at[p] = "held"
    /\ mark' = IF ts[n] = NoTime THEN mark ELSE mark \ {n}
    /\ Does(p, "idle", NoName)
    /\ UNCHANGED <<now, ts, index, data, root, up>> /\ UNCHANGED ghosts
ReturnFails(p) ==
    /\ up /\ at[p] = "held"
    /\ Fails
    /\ lost' = lost \cup {who[p]}
    /\ Does(p, "idle", NoName)
    /\ UNCHANGED <<now, up, shared>> /\ UNCHANGED file

(* Delete: by the handler for its own session (SessionLogout), or by       *)
(* anyone for any session.  Before the first session was opened there is   *)
(* no bUUID and it panics, which changes nothing.  Variant: the mark is    *)
(* not looked at.                                                          *)
InUseOrNot(n) == TRUE
NotInUse(n) == n \notin mark
Unindexed(n) == [index EXCEPT ![ts[n]] = NoName]
Emptied(n) == [data EXCEPT ![n] = {}]
Delete(n) ==
    /\ up /\ root
    /\ NotInUse(n)
    /\ ts[n] # NoTime
    /\ data' = Emptied(n)
    /\ index' = Unindexed(n)
    /\ ts' = [ts EXCEPT ![n] = NoTime]
    /\ UNCHANGED <<now, mark, root, up>> /\ UNCHANGED requests /\ UNCHANGED ghosts

-----------------------------------------------------------------------------
(* The process dies, or closes the file: its requests can do nothing more. *)
Stop ==
    /\ up
    /\ Fails
    /\ up' = FALSE
    /\ at' = [p \in Procs |-> "idle"]
    /\ who' = [p \in Procs |-> NoName]
    /\ UNCHANGED <<now, lost, shared>> /\ UNCHANGED file

(* OpenSessionsBoltDB: the marks are dropped; cleanup does nothing.        *)
NoMarks == {}
Open ==
    /\ ~up
    /\ up' = TRUE
    /\ mark' = NoMarks
    /\ lost' = {}
    /\ UNCHANGED <<now, ts, index, data, root, faults, shared>> /\ UNCHANGED requests

Tick ==
    /\ now < MaxNow
    /\ now' = now + 1
    /\ UNCHANGED up /\ UNCHANGED file /\ UNCHANGED requests /\ UNCHANGED ghosts

Serve(p) ==
    \/ New(p) \/ NewDuplicated(p) \/ NewFails(p)
    \/ OpenSession(p) \/ OpenSessionFails(p) \/ CancelSession(p) \/ CancelFails(p)
    \/ Return(p) \/ ReturnFails(p)
    \/ \E n \in Names : RestoreMissing(p, n) \/ RestoreExpired(p, n) \/ Restore(p, n)
    \/ \E k \in Keys : SetKey(p, k) \/ DelKey(p, k)
Next ==
    \/ Tick \/ Stop \/ Open
    \/ \E n \in Names : Delete(n)
    \/ \E p \in Procs : Serve(p)

Spec == Init /\ [][Next]_vars

-----------------------------------------------------------------------------
(* Properties *)

TypeOK ==
    /\ now \in 1 .. MaxNow
    /\ ts \in [Names -> Times \cup {NoTime}]
    /\ index \in [Times -> Names \cup {NoName}]
    /\ mark \subseteq Names
    /\ data \in [Names -> SUBSET Keys]
    /\ root \in BOOLEAN /\ up \in BOOLEAN
    /\ at \in [Procs -> {"idle", "new", "open", "cancel", "held"}]
    /\ who \in [Procs -> Names \cup {NoName}]
    /\ \A p \in Procs : at[p] = "idle" <=> who[p] = NoName
    /\ \A p \in Procs : at[p] = "held" => root
    /\ faults \in 0 .. MaxFaults
    /\ lost \subseteq Names /\ shared \subseteq Names

(* A mark has a request that will take it off: a session is not "in use"   *)
(* for ever, also when a New or a Restore failed half way, the session was *)
(* shared or deleted, or the process died and opened the file again.  Only *)
(* a Return or a cancelSession that cannot write leaves one, until the     *)
(* next Open.                                                              *)
MarksHaveHolders ==
    up => \A n \in mark : Users(n) # {} \/ n \in lost

(* What the index says of a deadline is what the record of the session     *)
(* says: a walk over the index in order (what cleanup is for) would never  *)
(* take a session for expired that was restored since.  The converse does  *)
(* not hold: two sessions with one deadline share one entry.               *)
IndexIsTruthful ==
    \A t \in Times : index[t] # NoName => ts[index[t]] = t

(* As long as a session has had one request at a time, the request that    *)
(* holds it finds its record and its mark, so that nobody can delete it,   *)
(* and data without a record is never left for a later New to find.        *)
ExclusiveUseIsSafe ==
    \A n \in Names \ shared :
        /\ Users(n) # {} => n \in mark /\ ts[n] # NoTime
        /\ data[n] # {} => ts[n] # NoTime

(* tests.go:82-87: Delete of a session that was restored and not returned  *)
(* answers ErrSessInUse.  So whoever holds a session finds its record.     *)
HeldIsNotDeleted ==
    \A p \in Procs : at[p] = "held" => ts[who[p]] # NoTime
=============================================================================
