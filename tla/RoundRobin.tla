---------------------------- MODULE RoundRobin ----------------------------
(***************************************************************************)
(* The load balancer of router/loadbalance.go: for every registered        *)
(* (method, path) key a list of destination addresses and a cursor,        *)
(* guarded by one RWMutex.  AddAddrs and Remove hold the write lock and    *)
(* are one step each.  Next holds only the READ lock, yet moves the        *)
(* cursor, so it is split at every access to it and several Next calls     *)
(* interleave.                                                             *)
(***************************************************************************)
EXTENDS Pool, FiniteSets

CONSTANTS
    Threads,    \* goroutines serving requests and registrations
    Keys,       \* (method, path) pairs that are registered by AddAddrs
    Paths,      \* (method, path) pairs that requests ask for
    Matches,    \* <<path, key>>: matchWildcard or matchNamedParam holds
    Dests,      \* destination addresses
    NoDest,     \* the empty string
    Panic       \* "index out of range", what Next ends with instead of an address

ASSUME KeysArePaths == Keys \subseteq Paths
ASSUME DestsAssumption == NoDest \notin Dests /\ Panic \notin Dests /\ NoDest # Panic

VARIABLES
    known,      \* keys for which the maps hold an ips struct
    ips,        \* ips[k] : the list of addresses of key k
    actual,     \* actual[k] : the cursor of key k (zero-based)
    pc,         \* where in Next a thread is; "idle" outside
    at,         \* at[t] : the key findPath gave to t
    pick,       \* pick[t] : the result Next is about to return
    seen,       \* seen[t] : the cursor value t loaded to increment it
    ret         \* ret[t] : what the last Next of t returned

vars == <<known, ips, actual, pc, at, pick, seen, ret>>

-----------------------------------------------------------------------------
(* Helpers *)

(* findPath: an exact key wins, otherwise any matching one (the code takes *)
(* the first in map order, which is random).                               *)
Found(path) ==
    IF path \in known THEN {path} ELSE {k \in known : <<path, k>> \in Matches}

(* Threads inside Next hold the read lock.                                 *)
Readers == {t \in Threads : pc[t] # "idle"}

(* Variant: writers that do not wait for the readers.                      *)
CanWriteUnlocked == TRUE

(* What lck.Lock waits for.                                                *)
CanWrite == Readers = {}

(* Variant of AtEnd with an off-by-one that lets the cursor stand just past *)
(* the last entry, and one that restarts before the last.                  *)
AtEndLate(k) == actual[k] > Len(ips[k])
AtEndEarly(k) == actual[k] >= Len(ips[k]) - 1

(* The test that precedes the use of the cursor (line 121).                *)
AtEnd(k) == actual[k] >= Len(ips[k])

(* p.ips[p.actual]: the runtime checks the index.                          *)
Entry(k) == IF actual[k] < Len(ips[k]) THEN ips[k][actual[k] + 1] ELSE Panic

(* Variant: the cursor walks backwards.                                    *)
Retreated(cursor) == cursor - 1

(* The cursor value the deferred function writes back.                     *)
Advanced(cursor) == cursor + 1

Goto(t, label) == pc' = [pc EXCEPT ![t] = label]

-----------------------------------------------------------------------------
Init ==
    /\ known = {}
    /\ ips = [k \in Keys |-> <<>>]
    /\ actual = [k \in Keys |-> 0]
    /\ pc = [t \in Threads |-> "idle"]
    /\ at \in [Threads -> Keys]
    /\ pick = [t \in Threads |-> NoDest]
    /\ seen = [t \in Threads |-> 0]
    /\ ret = [t \in Threads |-> NoDest]

(* AddAddrs, under the write lock.                                         *)
AddAddrs(t, k, d) ==
    /\ pc[t] = "idle" /\ CanWrite
    /\ known' = known \cup {k}
    /\ ips' = [ips EXCEPT ![k] = AddedTo(@, d)]
    /\ UNCHANGED <<actual, pc, at, pick, seen, ret>>

(* Remove, under the write lock; the cursor is left where it was.          *)
Remove(t, path, d) ==
    /\ pc[t] = "idle" /\ CanWrite
    /\ \E k \in Found(path) : ips' = [ips EXCEPT ![k] = RemovedFrom(@, d)]
    /\ UNCHANGED <<known, actual, pc, at, pick, seen, ret>>

(* Next finds no list, or an empty one: the empty string.                  *)
NextNone(t, path) ==
    /\ pc[t] = "idle"
    /\ Found(path) = {} \/ \E k \in Found(path) : ips[k] = <<>>
    /\ ret' = [ret EXCEPT ![t] = NoDest]
    /\ UNCHANGED <<known, ips, actual, pc, at, pick, seen>>

(* Next takes the read lock and finds a list with addresses.               *)
NextEnter(t, path) ==
    /\ pc[t] = "idle"
    /\ \E k \in Found(path) :
        /\ ips[k] # <<>>
        /\ at' = [at EXCEPT ![t] = k]
    /\ Goto(t, "check")
    /\ UNCHANGED <<known, ips, actual, pick, seen, ret>>

(* if p.actual >= len(p.ips)                                               *)
NextCheck(t) ==
    /\ pc[t] = "check"
    /\ Goto(t, IF AtEnd(at[t]) THEN "reset" ELSE "index")
    /\ UNCHANGED <<known, ips, actual, at, pick, seen, ret>>

(* p.actual = 0                                                            *)
NextReset(t) ==
    /\ pc[t] = "reset"
    /\ actual' = [actual EXCEPT ![at[t]] = 0]
    /\ Goto(t, "index")
    /\ UNCHANGED <<known, ips, at, pick, seen, ret>>

(* The operand of return: p.ips[p.actual], possibly a panic.               *)
NextIndex(t) ==
    /\ pc[t] = "index"
    /\ pick' = [pick EXCEPT ![t] = Entry(at[t])]
    /\ Goto(t, "load")
    /\ UNCHANGED <<known, ips, actual, at, seen, ret>>

(* The deferred p.actual = p.actual + 1: the load ...                      *)
NextLoad(t) ==
    /\ pc[t] = "load"
    /\ seen' = [seen EXCEPT ![t] = actual[at[t]]]
    /\ Goto(t, "store")
    /\ UNCHANGED <<known, ips, actual, at, pick, ret>>

(* ... and the store; it runs in a panic too.  Then RUnlock and the return *)
(* (or the panic) reaches the caller.                                      *)
NextStore(t) ==
    /\ pc[t] = "store"
    /\ actual' = [actual EXCEPT ![at[t]] = Advanced(seen[t])]
    /\ ret' = [ret EXCEPT ![t] = pick[t]]
    /\ pick' = [pick EXCEPT ![t] = NoDest]
    /\ seen' = [seen EXCEPT ![t] = 0]
    /\ Goto(t, "idle")
    /\ UNCHANGED <<known, ips, at>>

NextStep(t) ==
    NextCheck(t) \/ NextReset(t) \/ NextIndex(t) \/ NextLoad(t) \/ NextStore(t)

Next ==
    \E t \in Threads :
        \/ \E k \in Keys, d \in Dests : AddAddrs(t, k, d)
        \/ \E p \in Paths, d \in Dests : Remove(t, p, d)
        \/ \E p \in Paths : NextNone(t, p)
        \/ \E p \in Paths : NextEnter(t, p)
        \/ NextStep(t)

Spec == Init /\ [][Next]_vars

-----------------------------------------------------------------------------
(* Properties *)

TypeOK ==
    /\ known \subseteq Keys
    /\ ips \in [Keys -> Seq(Dests)]
    /\ actual \in [Keys -> Nat]
    /\ pc \in [Threads -> {"idle", "check", "reset", "index", "load", "store"}]
    /\ at \in [Threads -> Keys]
    /\ pick \in [Threads -> Dests \cup {NoDest, Panic}]
    /\ seen \in [Threads -> Nat]
    /\ ret \in [Threads -> Dests \cup {NoDest, Panic}]

(* However registrations, removals and requests interleave, no list holds  *)
(* an address twice (a client re-registers every minute, so one that got   *)
(* in twice would take a double share for good).                           *)
ListsHaveNoDuplicates == \A k \in Keys : NoDuplicates(ips[k])

(* A Next that has chosen an address still finds it in the list until it   *)
(* returns: the read lock keeps Remove out of the whole call.  It cannot   *)
(* return an address that was removed before it ends.                      *)
PickIsStillListed ==
    \A t \in Threads :
        pc[t] \in {"load", "store"} /\ pick[t] # Panic
            => pick[t] \in Range(ips[at[t]])

(* Next returns an address or the empty string, never an index panic (its  *)
(* comment, loadbalance.go:103: "Next pops the next address from the       *)
(* list").  The cursor is checked at line 121 and used at line 127, and    *)
(* other readers move it in between: the property holds when calls follow  *)
(* one another and fails when two overlap.                                 *)
NextNeverPanics == \A t \in Threads : pick[t] # Panic /\ ret[t] # Panic

(* One caller at a time sees a rotating queue: every address in turn, the  *)
(* others not displaced by an address that comes or goes.  The queue is    *)
(* the list read from the cursor on.                                       *)
Queue == [k \in Keys |->
    LET c == Wrapped(ips[k], actual[k])
    IN  SubSeq(ips[k], c + 1, Len(ips[k])) \o SubSeq(ips[k], 1, c)]
Rotating == INSTANCE Rotation WITH queue <- Queue
Rotates == Rotating!Spec
=============================================================================
