---------------------------- MODULE MemSessions ----------------------------
(***************************************************************************)
(* The sessions kept in memory (sessions/memory.go, memstorage.go) as the  *)
(* session middleware (middlewares/sessions/handler.go) uses them.         *)
(*                                                                         *)
(* Every method runs under m.lck and is one action.  The clean-up          *)
(* goroutine does not take the lock for the ordered index: it walks the    *)
(* slice it saw at the start, which shares its array with the index until  *)
(* an append moves the index to a larger one, and stores the slice it made *)
(* over the index at the end.  Reading one element, deleting one session   *)
(* and taking one element out of the slice are its steps.                  *)
(***************************************************************************)
EXTENDS Integers, Sequences, FiniteSets

CONSTANTS
    Procs,          \* requests
    Names,          \* session ids (the cookies' uuids)
    Objs,           \* session objects; one nobody refers to is used again
    Nil,
    Ttl, MaxNow     \* the life of a session; the clock's bound

ASSUME NilAssumption == Nil \notin Objs /\ Nil \notin Names
ASSUME ProcsAssumption == IsFiniteSet(Procs)
ASSUME TimeAssumption == Ttl \in Nat \ {0} /\ MaxNow \in Nat

VARIABLES
    now,            \* time.Now()
    sess,           \* m.sessions: the object of each name
    name, seen,     \* each object's UUID and lastSeen, its deadline
    count,          \* m.count
    slots, len,     \* m.o: the array, all its capacity, and the length
    walk,           \* the clean-up goroutine
    req,            \* the requests
    closer,         \* a call of Close
    dsignal,        \* m.dsignal # nil
    jammed,         \* sessionDec waits for a receiver, the lock held
    raced,          \* ghost: the index was changed during a walk
    tied            \* ghost: a Restore found its new deadline taken

store == <<sess, name, seen, count, slots, len>>
ghosts == <<raced, tied>>
vars == <<now, sess, name, seen, count, slots, len, walk, req, closer,
          dsignal, jammed, raced, tied>>

-----------------------------------------------------------------------------
(* The ordered index: an array a of which the first n elements are the     *)
(* slice, ordered by the deadlines d.                                      *)

Panics == -1

(* sort.Search for the first element whose deadline is not before key; it  *)
(* panics when it meets a nil.                                             *)
Search(a, n, d, key) ==
    LET probe[s \in (0 .. n) \X (0 .. n)] ==
            LET h == (s[1] + s[2]) \div 2 IN
            IF s[1] >= s[2] THEN s[1]
            ELSE IF a[h + 1] = Nil THEN Panics
            ELSE IF d[a[h + 1]] < key THEN probe[<<h + 1, s[2]>>]
            ELSE probe[<<s[1], h>>]
    IN probe[<<0, n>>]
Found(a, n, d, key, i) == i \in 0 .. n - 1 /\ d[a[i + 1]] = key

(* Ordered.Del: the elements after the found one move down, the last slot  *)
(* becomes nil.                                                            *)
Shrunk(a, n, i) ==
    [k \in DOMAIN a |-> IF k \in i + 1 .. n - 1 THEN a[k + 1]
                        ELSE IF k = n THEN Nil ELSE a[k]]
Take(a, n, d, key) ==
    LET i == Search(a, n, d, key) IN
    IF Found(a, n, d, key, i) THEN [ok |-> TRUE, a |-> Shrunk(a, n, i), n |-> n - 1]
    ELSE [ok |-> FALSE, a |-> a, n |-> n]

(* Ordered.Set: append grows the array to the double when it is full.      *)
Capacity(a, n) == IF n < Len(a) THEN Len(a) ELSE IF n = 0 THEN 1 ELSE 2 * n
Grown(a, n, i, o) ==
    [k \in 1 .. Capacity(a, n) |->
        IF k = i + 1 THEN o
        ELSE IF k \in i + 2 .. n + 1 THEN a[k - 1]
        ELSE IF k \in DOMAIN a THEN a[k] ELSE Nil]
Put(a, n, d, o) ==
    LET i == Search(a, n, d, d[o]) IN
    IF i \notin 0 .. n \/ Found(a, n, d, d[o], i) THEN [ok |-> FALSE, a |-> a, n |-> n]
    ELSE [ok |-> TRUE, a |-> Grown(a, n, i, o), n |-> n + 1]

-----------------------------------------------------------------------------
AtRest == [at |-> "select", pos |-> 0, name |-> Nil, del |-> {},
           own |-> FALSE, a |-> <<>>, n |-> 0]
Idle == [at |-> "idle", name |-> Nil, obj |-> Nil]

Elements(a) == {a[k] : k \in DOMAIN a} \ {Nil}
Sessions == {sess[n] : n \in Names} \ {Nil}
Free == Objs \ (Sessions \cup Elements(slots) \cup Elements(walk.a) \cup walk.del
                \cup {req[p].obj : p \in Procs})
Deadline == now + Ttl

Empty ==
    [sess |-> [n \in Names |-> Nil], count |-> [n \in Names |-> 0],
     req |-> [p \in Procs |-> Idle]]

Init ==
    /\ now = 0
    /\ sess = Empty.sess
    /\ name = [o \in Objs |-> Nil]
    /\ seen = [o \in Objs |-> 0]
    /\ count = Empty.count
    /\ slots = <<>> /\ len = 0
    /\ walk = AtRest
    /\ req = Empty.req
    /\ closer = "no" /\ dsignal = FALSE
    /\ jammed = FALSE
    /\ raced = FALSE /\ tied = FALSE

(* The index becomes the slice r: a walk keeps the array it knows when the *)
(* index got another one.                                                  *)
Reindex(r) ==
    /\ slots' = r.a /\ len' = r.n
    /\ walk' = IF walk.at = "select" \/ walk.own \/ Len(r.a) = Len(slots) THEN walk
               ELSE [walk EXCEPT !.own = TRUE, !.a = slots]
    /\ raced' = (raced \/ (walk.at # "select" /\ <<r.a, r.n>> # <<slots, len>>))

-----------------------------------------------------------------------------
(* The requests (middlewares/sessions/handler.go) *)

Become(p, step, n, o) == req' = [req EXCEPT ![p] = [at |-> step, name |-> n, obj |-> o]]

(* Restore: the session leaves the index, gets its new deadline and enters *)
(* the index again.  When it is not found the middleware calls New, at any *)
(* other error (or panic) it answers 500.                                  *)
RestoreMissing(p, n) ==
    /\ req[p].at = "idle" /\ ~jammed
    /\ sess[n] = Nil
    /\ Become(p, "new", n, Nil)
    /\ UNCHANGED <<now, walk, closer, dsignal, jammed>> /\ UNCHANGED store /\ UNCHANGED ghosts
(* Variant: a Restore that fails has counted the request.                  *)
RestoreCounted(n, ok) == [count EXCEPT ![n] = @ + 1]
Restored(n, ok) == IF ok THEN [count EXCEPT ![n] = @ + 1] ELSE count
Restore(p, n) ==
    LET o == sess[n]
        out == Take(slots, len, seen, seen[o])
        d == [seen EXCEPT ![o] = Deadline]
        in == Put(out.a, out.n, d, o)
    IN
    /\ req[p].at = "idle" /\ ~jammed
    /\ o # Nil
    /\ seen' = IF out.ok THEN d ELSE seen
    /\ Reindex(IF out.ok THEN in ELSE out)
    /\ count' = Restored(n, out.ok /\ in.ok)
    /\ tied' = (tied \/ (out.ok /\ ~in.ok))
    /\ IF out.ok /\ in.ok THEN Become(p, "held", n, o) ELSE UNCHANGED req
    /\ UNCHANGED <<now, sess, name, closer, dsignal, jammed>>

(* New after the lock was free: another request may have made the session, *)
(* then this one ends with 500.                                            *)
NewFound(p) ==
    /\ req[p].at = "new" /\ ~jammed
    /\ sess[req[p].name] # Nil
    /\ Become(p, "idle", Nil, Nil)
    /\ UNCHANGED <<now, walk, closer, dsignal, jammed>> /\ UNCHANGED store /\ UNCHANGED ghosts
New(p) ==
    LET n == req[p].name
        o == CHOOSE free \in Free : TRUE
        d == [seen EXCEPT ![o] = Deadline]
        in == Put(slots, len, d, o)
    IN
    /\ req[p].at = "new" /\ ~jammed
    /\ sess[n] = Nil /\ Free # {}
    /\ Reindex(in)
    /\ IF in.ok
       THEN /\ seen' = d
            /\ name' = [name EXCEPT ![o] = n]
            /\ sess' = [sess EXCEPT ![n] = o]
            /\ count' = [count EXCEPT ![n] = @ + 1]
            /\ Become(p, "held", n, o)
       ELSE /\ Become(p, "idle", Nil, Nil)
            /\ UNCHANGED <<seen, name, sess, count>>
    /\ UNCHANGED <<now, closer, dsignal, jammed, tied>>

(* Return, the middleware's deferred call: it fails when the session is    *)
(* not in the map.  sessionDec sends to a Close that waits; while that     *)
(* Close is on its way back to the lock nobody receives, and the lock is   *)
(* never released.  Variant: no message is sent.                           *)
SilentDec ==
    UNCHANGED <<closer, jammed>>
WakeClose ==
    /\ closer' = IF dsignal /\ closer = "wait" THEN "again" ELSE closer
    /\ jammed' = (dsignal /\ closer # "wait")
Return(p) ==
    LET n == req[p].name IN
    /\ req[p].at = "held" /\ ~jammed
    /\ IF sess[n] = Nil THEN UNCHANGED <<count, closer, jammed>>
       ELSE /\ count' = [count EXCEPT ![n] = IF @ > 0 THEN @ - 1 ELSE @]
            /\ WakeClose
    /\ Become(p, IF jammed' THEN "stuck" ELSE "idle", Nil, Nil)
    /\ UNCHANGED <<now, sess, name, seen, slots, len, walk, dsignal>> /\ UNCHANGED ghosts

(* Delete, called by a handler for its own session (SessionLogout) or by   *)
(* anyone for any session.  Variant: it does not look whether the session  *)
(* is in use.                                                              *)
NeverUsed(n) == TRUE
Unused(n) == count[n] = 0
Delete(n) ==
    LET out == Take(slots, len, seen, seen[sess[n]]) IN
    /\ ~jammed
    /\ sess[n] # Nil
    /\ Unused(n)
    /\ Reindex(out)
    /\ sess' = IF out.ok THEN [sess EXCEPT ![n] = Nil] ELSE sess
    /\ UNCHANGED <<now, name, seen, count, req, closer, dsignal, jammed, tied>>

-----------------------------------------------------------------------------
(* The clean-up goroutine *)

WalkArray == IF walk.own THEN walk.a ELSE slots
walkOnly == <<now, sess, name, seen, count, slots, len, req, closer, dsignal,
              jammed, raced, tied>>

(* Iter: s := *o.                                                          *)
WalkStarts ==
    /\ walk.at = "select"
    /\ walk' = [AtRest EXCEPT !.at = "walk", !.pos = 1, !.n = len]
    /\ UNCHANGED walkOnly

(* The next element; sessions whose deadline is still ahead are deleted.   *)
WalkReads ==
    LET o == WalkArray[walk.pos] IN
    /\ walk.at = "walk"
    /\ walk.pos <= walk.n
    /\ o # Nil
    /\ walk' = IF now < seen[o] THEN [walk EXCEPT !.at = "del", !.name = name[o]]
               ELSE [walk EXCEPT !.pos = @ + 1]
    /\ UNCHANGED walkOnly

(* del: by name, so it may be a younger session of that name; not when it  *)
(* is in use or chosen already.                                            *)
WalkDeletes ==
    LET n == walk.name
        o == sess[n]
        chosen == o # Nil /\ Unused(n) /\ o \notin walk.del
        next == [walk EXCEPT !.at = "walk", !.pos = @ + 1, !.name = Nil]
    IN
    /\ walk.at = "del" /\ ~jammed
    /\ walk' = IF chosen THEN [next EXCEPT !.del = @ \cup {o}] ELSE next
    /\ sess' = IF chosen THEN [sess EXCEPT ![n] = Nil] ELSE sess
    /\ UNCHANGED <<now, name, seen, count, slots, len, req, closer, dsignal, jammed>>
    /\ UNCHANGED ghosts

(* Commit takes one of the chosen sessions out of the slice, wherever the  *)
(* slice's array is; one it does not find ends the walk.                   *)
WalkCommits ==
    \E o \in walk.del :
    LET out == Take(WalkArray, walk.n, seen, seen[o]) IN
    /\ walk.at \in {"walk", "commit"}
    /\ walk.at = "walk" => walk.pos > walk.n
    /\ Search(WalkArray, walk.n, seen, seen[o]) # Panics
    /\ IF out.ok
       THEN /\ walk' = [walk EXCEPT !.at = "commit", !.n = out.n, !.del = @ \ {o},
                                    !.a = IF walk.own THEN out.a ELSE <<>>]
            /\ slots' = IF walk.own THEN slots ELSE out.a
       ELSE walk' = AtRest /\ UNCHANGED slots
    /\ UNCHANGED <<now, sess, name, seen, count, len, req, closer, dsignal, jammed>>
    /\ UNCHANGED ghosts

(* *o = s.  Variant: the slice is kept only by the transaction.            *)
WalkEndsUnsaved ==
    /\ walk.at \in {"walk", "commit"}
    /\ walk.at = "walk" => walk.pos > walk.n
    /\ walk.del = {}
    /\ walk' = AtRest
    /\ UNCHANGED walkOnly
WalkEnds ==
    /\ walk.at \in {"walk", "commit"}
    /\ walk.at = "walk" => walk.pos > walk.n
    /\ walk.del = {}
    /\ slots' = WalkArray /\ len' = walk.n
    /\ walk' = AtRest
    /\ UNCHANGED <<now, sess, name, seen, count, req, closer, dsignal, jammed>>
    /\ UNCHANGED ghosts

(* A nil element: nobody recovers the panic and the process dies, to be    *)
(* started again without a session.                                        *)
WalkPanics ==
    /\ \/ walk.at = "walk" /\ walk.pos <= walk.n /\ WalkArray[walk.pos] = Nil
       \/ /\ walk.at \in {"walk", "commit"}
          /\ walk.at = "walk" => walk.pos > walk.n
          /\ \E o \in walk.del : Search(WalkArray, walk.n, seen, seen[o]) = Panics
    /\ sess' = Empty.sess /\ count' = Empty.count /\ req' = Empty.req
    /\ name' = [o \in Objs |-> Nil] /\ seen' = [o \in Objs |-> 0]
    /\ slots' = <<>> /\ len' = 0
    /\ walk' = AtRest
    /\ closer' = "no" /\ dsignal' = FALSE /\ jammed' = FALSE
    /\ raced' = FALSE /\ tied' = FALSE
    /\ UNCHANGED now

-----------------------------------------------------------------------------
(* Close *)

closeOnly == <<now, sess, name, seen, count, slots, len, walk, req, jammed, raced, tied>>

(* The exchange over chclose, which the goroutine answers between walks    *)
(* and then goes on as before.                                             *)
CloseBegins ==
    /\ closer = "no" /\ ~jammed
    /\ walk.at = "select"
    /\ closer' = "again"
    /\ UNCHANGED dsignal /\ UNCHANGED closeOnly

(* again: under the lock it looks for a count, and waits for a message of  *)
(* sessionDec if there is one.  The methods go on serving all the while.   *)
CloseLooks ==
    /\ closer = "again" /\ ~jammed
    /\ dsignal' = (\E n \in Names : ~Unused(n))
    /\ closer' = IF dsignal' THEN "wait" ELSE "done"
    /\ UNCHANGED closeOnly

-----------------------------------------------------------------------------
Tick ==
    /\ now < MaxNow
    /\ now' = now + 1
    /\ UNCHANGED <<walk, req, closer, dsignal, jammed>> /\ UNCHANGED store /\ UNCHANGED ghosts

Serve(p) ==
    \/ NewFound(p) \/ New(p) \/ Return(p)
    \/ \E n \in Names : RestoreMissing(p, n) \/ Restore(p, n)
Walk == WalkStarts \/ WalkReads \/ WalkDeletes \/ WalkCommits \/ WalkEnds \/ WalkPanics
Next ==
    \/ Tick \/ Walk \/ CloseBegins \/ CloseLooks
    \/ \E p \in Procs : Serve(p)
    \/ \E n \in Names : Delete(n)

Spec == Init /\ [][Next]_vars

(* A handler ends and its deferred Return gets the lock; Close goes on.    *)
Fairness ==
    /\ \A p \in Procs : WF_vars(Return(p))
    /\ WF_vars(CloseLooks)
FairSpec == Spec /\ Fairness

-----------------------------------------------------------------------------
(* Properties *)

Held(p, n) == req[p].at = "held" /\ req[p].name = n

(* Types; the index never runs over its array, and a session is counted at *)
(* most once for each request.                                             *)
TypeOK ==
    /\ now \in 0 .. MaxNow
    /\ sess \in [Names -> Objs \cup {Nil}]
    /\ name \in [Objs -> Names \cup {Nil}]
    /\ seen \in [Objs -> 0 .. MaxNow + Ttl]
    /\ count \in [Names -> 0 .. Cardinality(Procs)]
    /\ slots \in Seq(Objs \cup {Nil}) /\ len \in 0 .. Len(slots)
    /\ walk.at \in {"select", "walk", "del", "commit"}
    /\ walk.n \in 0 .. Len(WalkArray) /\ walk.del \subseteq Objs
    /\ req \in [Procs -> [at : {"idle", "new", "held", "stuck"},
                          name : Names \cup {Nil}, obj : Objs \cup {Nil}]]
    /\ closer \in {"no", "again", "wait", "done"} /\ dsignal \in BOOLEAN
    /\ jammed \in BOOLEAN /\ raced \in BOOLEAN /\ tied \in BOOLEAN

(* The count of a session is the number of requests that hold it, and what *)
(* they hold is the object in the map, whatever Restores failed half way,  *)
(* clean-ups overlapped or logouts were tried: no session is taken from a  *)
(* request that holds it, and none stays in use when all returned it       *)
(* (sessionInc, sessionDec and the tests of the count in Delete and del).  *)
CountsAreHolders ==
    \A n \in Names :
        /\ count[n] = Cardinality({p \in Procs : Held(p, n)})
        /\ \A p \in Procs : Held(p, n) => sess[n] = req[p].obj

(* As long as no change of the index overlapped a clean-up, the index is   *)
(* in order and has no session that is gone, and misses one only after a   *)
(* Restore at the very instant of another (Restore takes the session out   *)
(* before it puts it back, and Set refuses an equal deadline).  The nil    *)
(* elements and the lost sessions come from the walk without the lock.     *)
IndexMatches ==
    ~raced /\ walk.at # "commit" =>
        LET index == {slots[i] : i \in 1 .. len} IN
        /\ \A i \in 1 .. len : slots[i] # Nil
        /\ \A i, j \in 1 .. len : i < j => seen[slots[i]] < seen[slots[j]]
        /\ index \subseteq Sessions \cup walk.del
        /\ tied \/ Sessions \subseteq index

(* A Close that waits is woken: it waits only while some session is        *)
(* counted, and the Return of the session's holder finds it in the map and *)
(* sends (sessionDec), or the store is stuck by then.                      *)
CloseIsWoken == closer = "wait" ~> closer # "wait" \/ jammed

(* The store keeps the promise of its interface, clean-up included.        *)
Promise == INSTANCE SessionStore WITH
    Users <- Procs,
    live <- {n \in Names : sess[n] # Nil},
    held <- {<<p, req[p].name>> : p \in {q \in Procs : req[q].at = "held"}}
KeepsPromise == Promise!Spec
=============================================================================
