----------------------------- MODULE Rotation -----------------------------
(***************************************************************************)
(* What a round-robin balancer promises its callers, without cursors: a    *)
(* queue of addresses per key.  Serving takes the head and moves it to the *)
(* tail.  An address that is added enters the queue once, at some place;   *)
(* removing an address keeps the others in cyclic order, and may drop      *)
(* some of them.                                                           *)
(***************************************************************************)
EXTENDS Integers, Sequences, Functions

CONSTANTS Threads, Keys, Dests, NoDest

VARIABLES queue, ret

Rotated(q, n) == SubSeq(q, n + 1, Len(q)) \o SubSeq(q, 1, n)

(* The elements of one sequence are some of another's, in their order.     *)
Within(short, long) ==
    \E place \in [DOMAIN short -> DOMAIN long] :
        /\ \A i \in DOMAIN short : short[i] = long[place[i]]
        /\ \A i, j \in DOMAIN short : i < j => place[i] < place[j]

Init ==
    /\ queue = [k \in Keys |-> <<>>]
    /\ ret = [t \in Threads |-> NoDest]

Serve(t, k) ==
    /\ queue[k] # <<>>
    /\ ret' = [ret EXCEPT ![t] = Head(queue[k])]
    /\ queue' = [queue EXCEPT ![k] = Rotated(@, 1)]

ServeNone(t) ==
    /\ ret' = [ret EXCEPT ![t] = NoDest]
    /\ UNCHANGED queue

Insert(k, d) ==
    /\ d \notin Range(queue[k])
    /\ \E n \in 0 .. Len(queue[k]) :
        queue' = [queue EXCEPT ![k] =
                    SubSeq(@, 1, n) \o <<d>> \o SubSeq(@, n + 1, Len(@))]
    /\ UNCHANGED ret

Drop(k, d) ==
    /\ d \in Range(queue[k])
    /\ \E m, n \in 0 .. Len(queue[k]) :
        \E rest \in [1 .. m -> Range(queue[k]) \ {d}] :
            /\ queue' = [queue EXCEPT ![k] = rest]
            /\ Within(rest, Rotated(queue[k], n))
    /\ UNCHANGED ret

Next ==
    \/ \E t \in Threads, k \in Keys : Serve(t, k)
    \/ \E t \in Threads : ServeNone(t)
    \/ \E k \in Keys, d \in Dests : Insert(k, d) \/ Drop(k, d)

Spec == Init /\ [][Next]_<<queue, ret>>
=============================================================================
