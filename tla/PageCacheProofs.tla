-------------------------- MODULE PageCacheProofs --------------------------
(***************************************************************************)
(* The page cache, for any requests, versions of the page and failing      *)
(* writes: its types and who has the lock, that the headers in the cache   *)
(* are those of the body, that a hit is no older than the request, and     *)
(* that an undisturbed answer reaches its client whole.                    *)
(***************************************************************************)
EXTENDS PageCache, TLAPS

Steps == {"idle", "mtime", "read", "readBody", "run", "mkdir", "open", "copy",
          "openHeader", "encode", "answer"}
Storing == {"open", "copy", "openHeader", "encode"}
Locking == Storing \cup {"readBody"}

(* A body, and a request, made of versions up to v until the time t.       *)
Copies(v, t) ==
    [ver : 0 .. v, size : Nat, mtime : 0 .. t, bad : BOOLEAN, late : BOOLEAN]
Requests(v, t) ==
    [at : Steps, meta : [ver : 0 .. v, mtime : 0 .. t], got : 0 .. v,
     good : BOOLEAN, calm : BOOLEAN]
Outs(v, t) ==
    [code : {0, Ok, NotModified, ServerError}, hver : 0 .. Len(Size),
     copy : Copies(v, t), bver : Nat]

Shapes ==
    /\ now \in 0 .. MaxNow /\ faults \in 0 .. MaxFaults
    /\ src \in [ver : Versions, mtime : 0 .. now]
    /\ dir \in BOOLEAN
    /\ body = None \/ body \in Copies(src.ver, now)
    /\ hdr \in Versions \cup {Absent, Garbled}
    /\ lck \in Procs \cup {None}
    /\ sweep \in {"idle", "removed", "empty"}
    /\ req \in [Procs -> Requests(src.ver, now)]
    /\ out \in [Procs -> Outs(src.ver, now)]

(* Whoever is in Store or in ReadTo has the lock; files are in the         *)
(* directory.                                                              *)
LockInv == \A p \in Procs : lck = p <=> req[p].at \in Locking
DirInv == body # None \/ hdr # Absent => dir

(* The pair of files: right but for the time between the end of the body   *)
(* and the end of the headers, when the body is the one of this Store.     *)
Pair == body # None /\ hdr \in Versions => body.bad \/ hdr = body.ver
PairInv ==
    \/ Pair
    \/ \E p \in Procs : req[p].at \in {"openHeader", "encode"}
NewBodyInv ==
    \A p \in Procs :
        req[p].at \in {"openHeader", "encode"} /\ body # None => body.ver = req[p].got

(* A good body that is older than m was made before m: no change of the    *)
(* source lies before the body that it has overtaken.                      *)
Follows(copy, m) ==
    copy.late \/ copy.bad \/ copy.mtime <= m.mtime \/ copy.ver >= m.ver
SourceInv ==
    body # None =>
        Follows(body, src) /\ \A p \in Procs : Follows(body, req[p].meta)

(* What is read from the cache was not out of date when the request looked *)
(* (OutDate), and files only get younger.                                  *)
Reading(r) == r.at \in {"read", "readBody"} /\ body # None => body.mtime >= r.meta.mtime
Hit(r, w) == w.copy # NoBody => w.copy.mtime >= r.meta.mtime /\ Follows(w.copy, r.meta)
HitInv == \A p \in Procs : Reading(req[p]) /\ Hit(req[p], out[p])

(* A calm request writes nothing before its answer is there, and its       *)
(* directory stays.                                                        *)
Whole(r, w) ==
    /\ r.at \in {"mtime", "read"} => w.code = 0
    /\ r.at \in {"mtime", "read", "readBody", "run"} => ~r.good
    /\ r.at \in Storing \cup {"mkdir", "answer"} => r.got \in Versions
    /\ r.at \in Storing \cup {"run", "mkdir", "answer"} /\ r.calm => w.code = 0
    /\ r.at \in Storing /\ r.calm => dir
    /\ r.at = "idle" /\ w.code # 0 /\ r.good /\ r.calm =>
          w.code = Ok /\ w.hver = r.got /\ w.bver = r.got
WholeInv == \A p \in Procs : Whole(req[p], out[p])

IInv ==
    /\ Shapes /\ LockInv /\ DirInv /\ PairInv /\ NewBodyInv
    /\ SourceInv /\ HitInv /\ WholeInv

LEMMA InitIInv == Init => IInv
<1> SUFFICES ASSUME Init PROVE IInv
  OBVIOUS
<1>1. Versions = 1 .. Len(Size) /\ Len(Size) \in Nat \ {0}
  BY SizeAssumption DEF Versions
<1>2. /\ src \in [ver : Versions, mtime : 0 .. now]
      /\ src.ver = 1 /\ now = 0
  BY <1>1 DEF Init
<1>3. \A p \in Procs : req[p] = Idle /\ out[p] = Nothing
  BY DEF Init
<1>4. Idle \in Requests(1, 0) /\ Nothing \in Outs(1, 0)
  BY <1>1 DEF Idle, Nothing, NoBody, Requests, Outs, Copies, Steps
<1>5. Shapes
  <2>1. req \in [Procs -> Requests(src.ver, now)] /\ out \in [Procs -> Outs(src.ver, now)]
    BY <1>2, <1>4 DEF Init
  <2>2. now \in 0 .. MaxNow /\ faults \in 0 .. MaxFaults
    BY BoundsAssumption DEF Init
  <2> QED
    BY <1>2, <2>1, <2>2 DEF Init, Shapes
<1>6. LockInv /\ DirInv /\ PairInv /\ NewBodyInv /\ SourceInv
  BY <1>3, NoneAssumption DEF Init, LockInv, DirInv, PairInv, Pair, NewBodyInv, SourceInv, Locking,
     Storing, Idle
<1>7. HitInv /\ WholeInv
  BY <1>3 DEF HitInv, Reading, Hit, WholeInv, Whole, Idle, Nothing, Storing
<1> QED
  BY <1>5, <1>6, <1>7 DEF IInv

-----------------------------------------------------------------------------
(* What the steps of one request have in common *)

LEMMA VersionsAre == Versions = 1 .. Len(Size) /\ Len(Size) \in Nat \ {0}
BY SizeAssumption DEF Versions

(* A request that changes no file, and does not store its headers.         *)
LEMMA QuietStep ==
    ASSUME IInv, NEW p \in Procs,
           NEW r \in Requests(src.ver, now), NEW w \in Outs(src.ver, now),
           req' = [req EXCEPT ![p] = r], out' = [out EXCEPT ![p] = w],
           UNCHANGED <<now, src, sweep, faults, body, hdr>>,
           dir' = dir \/ dir' = TRUE,
           lck' = lck \/ (lck \in {p, None} /\ lck' \in {p, None}),
           lck' = p <=> r.at \in Locking,
           req[p].at \notin {"openHeader", "encode"}, r.at \notin {"openHeader", "encode"},
           r.meta = req[p].meta \/ r.meta = src,
           Reading(r), Hit(r, w), Whole(r, w)'
    PROVE  IInv'
<1>1. /\ req'[p] = r /\ out'[p] = w
      /\ \A q \in Procs : q # p => req'[q] = req[q] /\ out'[q] = out[q]
  BY DEF IInv, Shapes
<1>2. Shapes'
  <2>1. dir' \in BOOLEAN /\ lck' \in Procs \cup {None}
    BY DEF IInv, Shapes
  <2>2. req' \in [Procs -> Requests(src.ver, now)] /\ out' \in [Procs -> Outs(src.ver, now)]
    BY DEF IInv, Shapes
  <2> QED
    BY <2>1, <2>2 DEF IInv, Shapes
<1>3. LockInv'
  BY <1>1, NoneAssumption DEF IInv, LockInv
<1>4. DirInv'
  BY DEF IInv, DirInv
<1>5. PairInv' /\ NewBodyInv'
  BY <1>1 DEF IInv, PairInv, Pair, NewBodyInv
<1>6. SourceInv'
  BY <1>1 DEF IInv, SourceInv, Follows
<1>7. HitInv'
  BY <1>1 DEF IInv, HitInv, Reading, Hit, Follows
<1>8. WholeInv'
  BY <1>1 DEF IInv, WholeInv, Whole
<1> QED
  BY <1>2, <1>3, <1>4, <1>5, <1>6, <1>7, <1>8 DEF IInv

(* A step of Store, under the lock: what it writes is of now and of the    *)
(* version it got, which may be older than the source (late), or it spoils *)
(* the body (bad).                                                         *)
Rewritten ==
    \/ body' = body \/ body' = None
    \/ body'.mtime = now /\ (body'.late \/ body'.ver = src.ver)
    \/ body'.bad /\ (body'.mtime = now \/ (body # None /\ body'.mtime = body.mtime))

LEMMA StoreStep ==
    ASSUME IInv, NEW p \in Procs, lck = p,
           NEW r \in Requests(src.ver, now), NEW w \in Outs(src.ver, now),
           req' = [req EXCEPT ![p] = r], out' = [out EXCEPT ![p] = w],
           UNCHANGED <<now, src, sweep, dir>>, faults' \in 0 .. MaxFaults,
           body' = None \/ body' \in Copies(src.ver, now),
           hdr' \in Versions \cup {Absent, Garbled},
           DirInv', Rewritten,
           lck' = IF r.at \in Locking THEN p ELSE None,
           IF r.at \in {"openHeader", "encode"} THEN body' = None \/ body'.ver = r.got
           ELSE Pair',
           r.at \notin {"read", "readBody"}, r.meta = req[p].meta,
           w.copy = out[p].copy, Whole(r, w)
    PROVE  IInv'
<1>1. /\ req'[p] = r /\ out'[p] = w
      /\ \A q \in Procs : q # p => req'[q] = req[q] /\ out'[q] = out[q]
  BY DEF IInv, Shapes
<1>2. \A q \in Procs : q # p => req[q].at \notin Locking
  BY DEF IInv, LockInv
<1>3. Shapes'
  <2>1. lck' \in Procs \cup {None}
    OBVIOUS
  <2>2. req' \in [Procs -> Requests(src.ver, now)] /\ out' \in [Procs -> Outs(src.ver, now)]
    BY DEF IInv, Shapes
  <2> QED
    BY <2>1, <2>2 DEF IInv, Shapes
<1>4. LockInv'
  BY <1>1, <1>2, NoneAssumption DEF LockInv
<1>5. PairInv' /\ NewBodyInv'
  BY <1>1, <1>2 DEF PairInv, NewBodyInv, Locking, Storing
<1>6. body' # None => /\ body'.mtime \in 0 .. now /\ body'.ver \in 0 .. src.ver
  BY DEF Copies
<1>7. \A q \in Procs : req[q].meta.ver \in 0 .. src.ver /\ req[q].meta.mtime \in 0 .. now
  BY DEF IInv, Shapes, Requests
<1>8. src.ver \in Nat /\ now \in Nat
  BY VersionsAre, BoundsAssumption DEF IInv, Shapes
<1>9. SourceInv'
  <2>1. CASE body' = body \/ body' = None
    BY <1>1, <2>1 DEF IInv, SourceInv, Follows
  <2>2. CASE body' # None /\ (body'.bad \/ body'.late \/ body'.ver = src.ver)
    BY <1>1, <1>6, <1>7, <1>8, <2>2 DEF SourceInv, Follows
  <2> QED
    BY <2>1, <2>2 DEF Rewritten
<1>10. HitInv'
  <2>1. \A q \in Procs : q # p => Reading(req[q])'
    BY <1>1, <1>7, <1>8 DEF IInv, HitInv, Reading, Rewritten
  <2>2. Reading(req[p])'
    BY <1>1 DEF Reading
  <2>3. \A q \in Procs : Hit(req[q], out[q])'
    BY <1>1 DEF IInv, HitInv, Hit, Follows
  <2> QED
    BY <2>1, <2>2, <2>3 DEF HitInv
<1>11. WholeInv'
  BY <1>1 DEF IInv, WholeInv, Whole
<1> QED
  BY <1>3, <1>4, <1>5, <1>9, <1>10, <1>11 DEF IInv

-----------------------------------------------------------------------------
(* The middleware *)

LEMMA OwnTypes ==
    ASSUME IInv, NEW p \in Procs
    PROVE  /\ req[p] \in Requests(src.ver, now) /\ out[p] \in Outs(src.ver, now)
           /\ src \in [ver : 0 .. src.ver, mtime : 0 .. now]
           /\ src.ver \in Versions
BY VersionsAre DEF IInv, Shapes

(* What a request becomes that only goes on, and what it has written.      *)
Moved(q, r, step, calm) ==
    /\ r.at = step /\ r.calm = calm
    /\ r.meta = q.meta /\ r.got = q.got /\ r.good = q.good

LEMMA GoFacts ==
    ASSUME IInv, NEW p \in Procs, NEW step \in Steps, NEW calm \in BOOLEAN,
           \/ Go(p, step) /\ calm = req[p].calm
           \/ req' = [req EXCEPT ![p].at = step, ![p].calm = calm]
    PROVE  \E r \in Requests(src.ver, now) :
              req' = [req EXCEPT ![p] = r] /\ Moved(req[p], r, step, calm)
<1>1. req[p] \in Requests(src.ver, now) /\ req \in [Procs -> Requests(src.ver, now)]
  BY DEF IInv, Shapes
<1>2. PICK r : r = [req[p] EXCEPT !.at = step, !.calm = calm]
  OBVIOUS
<1>3. r \in Requests(src.ver, now) /\ Moved(req[p], r, step, calm)
  BY <1>1, <1>2 DEF Requests, Moved
<1>4. req' = [req EXCEPT ![p] = r]
  <2>1. CASE Go(p, step) /\ calm = req[p].calm
    <3>1. [req[p] EXCEPT !.at = step] = r
      BY <1>1, <1>2, <2>1 DEF Requests
    <3>2. req' = [req EXCEPT ![p] = [req[p] EXCEPT !.at = step]]
      BY <1>1, <2>1 DEF Go
    <3> QED
      BY <3>1, <3>2
  <2>2. CASE req' = [req EXCEPT ![p].at = step, ![p].calm = calm]
    BY <1>1, <1>2, <2>2
  <2> QED
    BY <2>1, <2>2
<1> QED
  BY <1>3, <1>4

LEMMA GoesOn ==
    ASSUME IInv, NEW p \in Procs, NEW step \in Steps, Go(p, step)
    PROVE  \E r \in Requests(src.ver, now) :
              req' = [req EXCEPT ![p] = r] /\ Moved(req[p], r, step, req[p].calm)
<1>1. PICK calm \in BOOLEAN : calm = req[p].calm
  BY OwnTypes DEF Requests
<1>2. \E r \in Requests(src.ver, now) :
        req' = [req EXCEPT ![p] = r] /\ Moved(req[p], r, step, calm)
  BY <1>1, GoFacts
<1> QED
  BY <1>1, <1>2

LEMMA HeaderFacts ==
    ASSUME IInv, NEW p \in Procs, NEW code \in {Ok, NotModified, ServerError},
           NEW ver \in 0 .. Len(Size)
    PROVE  \E w \in Outs(src.ver, now) :
              /\ w = Header(p, code, ver)
              /\ w.copy = out[p].copy /\ w.bver = out[p].bver
              /\ IF out[p].code = 0 THEN w.code = code /\ w.hver = ver
                 ELSE w.code = out[p].code /\ w.hver = out[p].hver
<1>1. out[p] \in Outs(src.ver, now)
  BY OwnTypes
<1>2. Header(p, code, ver) \in Outs(src.ver, now)
  BY <1>1 DEF Header, Outs
<1> QED
  BY <1>1, <1>2 DEF Header, Outs

(* The answer is written, with the body of version b.                      *)
LEMMA AnswerFacts ==
    ASSUME IInv, NEW p \in Procs, NEW code \in {Ok, NotModified, ServerError},
           NEW ver \in 0 .. Len(Size), NEW b \in Nat
    PROVE  \E w \in Outs(src.ver, now) :
              /\ w = [Header(p, code, ver) EXCEPT !.bver = b]
              /\ w.copy = out[p].copy /\ w.bver = b
              /\ IF out[p].code = 0 THEN w.code = code /\ w.hver = ver
                 ELSE w.code = out[p].code /\ w.hver = out[p].hver
<1>1. PICK h \in Outs(src.ver, now) :
          /\ h = Header(p, code, ver)
          /\ h.copy = out[p].copy /\ h.bver = out[p].bver
          /\ IF out[p].code = 0 THEN h.code = code /\ h.hver = ver
             ELSE h.code = out[p].code /\ h.hver = out[p].hver
  BY HeaderFacts
<1>2. PICK w : w = [h EXCEPT !.bver = b]
  OBVIOUS
<1>3. /\ w \in Outs(src.ver, now) /\ w.copy = h.copy /\ w.bver = b
      /\ w.code = h.code /\ w.hver = h.hver
  BY <1>2 DEF Outs
<1> QED
  BY <1>1, <1>2, <1>3

(* Who does not have the lock when another has, and the step it is at.     *)
LEMMA Locks ==
    ASSUME IInv, NEW p \in Procs
    PROVE  /\ lck = p <=> req[p].at \in Locking
           /\ p # None
BY NoneAssumption DEF IInv, LockInv

(* A step that changes neither the lock nor what was written.              *)
LEMMA QuietGo ==
    ASSUME IInv, NEW p \in Procs, NEW step \in Steps \ Locking, Go(p, step),
           req[p].at \notin Locking,
           UNCHANGED <<now, src, dir, body, hdr, lck, out, sweep, faults>>,
           step = "read" => body # None /\ body.mtime >= req[p].meta.mtime,
           \A r : Moved(req[p], r, step, req[p].calm) => Whole(r, out[p])
    PROVE  IInv'
<1>1. req[p].calm \in BOOLEAN
  BY OwnTypes DEF Requests
<1>2. PICK r \in Requests(src.ver, now) :
          req' = [req EXCEPT ![p] = r] /\ Moved(req[p], r, step, req[p].calm)
  BY <1>1, GoFacts
<1>3. PICK w \in Outs(src.ver, now) : w = out[p]
  BY OwnTypes
<1>4. out' = [out EXCEPT ![p] = w]
  BY <1>3 DEF IInv, Shapes
<1>5. Whole(r, w)'
  BY <1>2, <1>3 DEF Whole
<1>6. Reading(r) /\ Hit(r, w)
  BY <1>2, <1>3 DEF Reading, Moved, IInv, HitInv, Hit, Locking
<1>7. /\ lck' = p <=> r.at \in Locking
      /\ r.at \notin {"openHeader", "encode"} /\ req[p].at \notin {"openHeader", "encode"}
      /\ r.meta = req[p].meta
  BY <1>2, Locks DEF Moved, Locking, Storing
<1> QED
  BY <1>2, <1>4, <1>5, <1>6, <1>7, QuietStep

LEMMA LookStep ==
    ASSUME IInv, NEW p \in Procs, Miss(p) \/ Outdated(p)
    PROVE  IInv'
<1>1. /\ req[p].at = "mtime"
      /\ \E step \in {"run", "read"} : /\ Go(p, step)
                                       /\ step = "read" => body # None /\ ~OutDate(req[p].meta, body)
      /\ UNCHANGED <<now, src, dir, body, hdr, lck, out, sweep, faults>>
  BY DEF Miss, Outdated, At, files
<1>2. PICK step \in {"run", "read"} :
          /\ Go(p, step)
          /\ step = "read" => body # None /\ ~OutDate(req[p].meta, body)
  BY <1>1
<1>3. step = "read" => body # None /\ body.mtime >= req[p].meta.mtime
  BY <1>2, BoundsAssumption, OwnTypes DEF OutDate, IInv, Shapes, Copies, Requests
<1>4. Whole(req[p], out[p])
  BY DEF IInv, WholeInv
<1>5. \A r : Moved(req[p], r, step, req[p].calm) => Whole(r, out[p])
  BY <1>1, <1>4 DEF Moved, Whole, Storing
<1>6. step \in Steps \ Locking /\ req[p].at \notin Locking
  BY <1>1 DEF Steps, Locking, Storing
<1> QED
  BY <1>1, <1>2, <1>3, <1>5, <1>6, QuietGo

LEMMA RequestStep ==
    ASSUME IInv, NEW p \in Procs, Request(p)
    PROVE  IInv'
<1>1. /\ req[p].at = "idle"
      /\ req' = [req EXCEPT ![p] = [Idle EXCEPT !.at = "mtime", !.meta = src,
                                                !.calm = (sweep = "idle")]]
      /\ out' = [out EXCEPT ![p] = Nothing]
      /\ UNCHANGED <<now, src, dir, body, hdr, lck, sweep, faults>>
  BY DEF Request, At, files
<1>2. PICK r : r = [Idle EXCEPT !.at = "mtime", !.meta = src, !.calm = (sweep = "idle")]
  OBVIOUS
<1>3. r \in Requests(src.ver, now) /\ r.at = "mtime" /\ r.meta = src /\ ~r.good
  <2>1. (sweep = "idle") \in BOOLEAN
    OBVIOUS
  <2>2. 0 \in 0 .. src.ver
    BY OwnTypes, VersionsAre
  <2>3. src \in [ver : 0 .. src.ver, mtime : 0 .. now]
    BY OwnTypes
  <2> QED
    BY <1>2, <2>1, <2>2, <2>3 DEF Requests, Steps, Idle
<1>4. req' = [req EXCEPT ![p] = r]
  BY <1>1, <1>2
<1>5. PICK w : w = Nothing
  OBVIOUS
<1>6. w \in Outs(src.ver, now) /\ w.code = 0 /\ w.copy = NoBody
  BY <1>5, VersionsAre, BoundsAssumption, OwnTypes
     DEF Nothing, NoBody, Outs, Copies, IInv, Shapes
<1>7. out' = [out EXCEPT ![p] = w]
  BY <1>1, <1>5
<1>8. Whole(r, w)' /\ Reading(r) /\ Hit(r, w)
  BY <1>3, <1>6 DEF Whole, Reading, Hit, Storing
<1>9. /\ lck' = p <=> r.at \in Locking
      /\ r.at \notin {"openHeader", "encode"} /\ req[p].at \notin {"openHeader", "encode"}
      /\ r.meta = src
  BY <1>1, <1>3, Locks DEF Locking, Storing
<1> QED
  BY <1>1, <1>3, <1>4, <1>6, <1>7, <1>8, <1>9, QuietStep

(* The request ends with a status and no copy of the page.                 *)
LEMMA EndStep ==
    ASSUME IInv, NEW p \in Procs, NotChanged(p) \/ RunUnstored(p)
    PROVE  IInv'
<1>1. req[p].at \in {"mtime", "run"} /\ Go(p, "idle")
      /\ UNCHANGED <<now, src, dir, body, hdr, lck, sweep, faults>>
  BY DEF NotChanged, RunUnstored, At, files
<1>2. req[p].calm \in BOOLEAN /\ "idle" \in Steps
  BY OwnTypes DEF Requests, Steps
<1>3. PICK r \in Requests(src.ver, now) :
          req' = [req EXCEPT ![p] = r] /\ Moved(req[p], r, "idle", req[p].calm)
  BY <1>1, <1>2, GoFacts
<1>4. PICK w \in Outs(src.ver, now) : out' = [out EXCEPT ![p] = w] /\ w.copy = out[p].copy
  <2>1. CASE NotChanged(p)
    <3>1. 0 \in 0 .. Len(Size)
      BY VersionsAre
    <3>2. PICK w \in Outs(src.ver, now) :
              w = Header(p, NotModified, 0) /\ w.copy = out[p].copy
      BY <3>1, HeaderFacts
    <3>3. out' = [out EXCEPT ![p] = Header(p, NotModified, 0)]
      BY <2>1 DEF NotChanged
    <3> QED
      BY <3>2, <3>3
  <2>2. CASE RunUnstored(p)
    <3>1. 0 \in 0 .. Len(Size) /\ 0 \in Nat
      BY VersionsAre
    <3>2. out' = [out EXCEPT ![p] = [Header(p, ServerError, 0) EXCEPT !.bver = 0]]
      BY <2>2 DEF RunUnstored, EndsWithError
    <3>3. PICK w \in Outs(src.ver, now) :
              w = [Header(p, ServerError, 0) EXCEPT !.bver = 0] /\ w.copy = out[p].copy
      BY <3>1, AnswerFacts
    <3> QED
      BY <3>2, <3>3
  <2> QED
    BY <2>1, <2>2
<1>5. Whole(r, w)'
  BY <1>1, <1>3 DEF IInv, WholeInv, Whole, Moved, Storing
<1>6. Reading(r) /\ Hit(r, w)
  BY <1>3, <1>4 DEF Reading, Moved, IInv, HitInv, Hit
<1>7. /\ lck' = p <=> r.at \in Locking
      /\ r.at \notin {"openHeader", "encode"} /\ req[p].at \notin {"openHeader", "encode"}
      /\ r.meta = req[p].meta
  BY <1>1, <1>3, Locks DEF Moved, Locking, Storing
<1> QED
  BY <1>1, <1>3, <1>4, <1>5, <1>6, <1>7, QuietStep

LEMMA ReadHeaderStep ==
    ASSUME IInv, NEW p \in Procs, ReadHeader(p)
    PROVE  IInv'
<1>1. /\ req[p].at = "read" /\ lck = None
      /\ UNCHANGED <<now, src, dir, body, hdr, sweep, faults>>
  BY DEF ReadHeader, At, files
<1>2. CASE hdr \notin Versions
  <2>1. Go(p, "run") /\ UNCHANGED lck /\ out' = out
    BY <1>2 DEF ReadHeader, StatusAfter, IInv, Shapes
  <2>2. Whole(req[p], out[p])
    BY DEF IInv, WholeInv
  <2>3. \A r : Moved(req[p], r, "run", req[p].calm) => Whole(r, out[p])
    BY <1>1, <2>2 DEF Moved, Whole, Storing
  <2>4. "run" \in Steps \ Locking /\ req[p].at \notin Locking
    BY <1>1 DEF Steps, Locking, Storing
  <2> QED
    BY <1>1, <2>1, <2>3, <2>4, QuietGo
<1>3. CASE hdr \in Versions
  <2>1. Go(p, "readBody") /\ lck' = p /\ out' = [out EXCEPT ![p] = Header(p, Ok, hdr)]
    BY <1>3 DEF ReadHeader, StatusAfter
  <2>2. req[p].calm \in BOOLEAN /\ "readBody" \in Steps /\ hdr \in 0 .. Len(Size)
    BY <1>3, OwnTypes, VersionsAre DEF Requests, Steps
  <2>3. PICK r \in Requests(src.ver, now) :
            req' = [req EXCEPT ![p] = r] /\ Moved(req[p], r, "readBody", req[p].calm)
    BY <2>1, <2>2, GoFacts
  <2>4. PICK w \in Outs(src.ver, now) : out' = [out EXCEPT ![p] = w] /\ w.copy = out[p].copy
    BY <2>1, <2>2, HeaderFacts
  <2>5. Whole(r, w)'
    BY <1>1, <2>3 DEF IInv, WholeInv, Whole, Moved, Storing
  <2>6. Reading(r) /\ Hit(r, w)
    BY <1>1, <2>3, <2>4 DEF Reading, Moved, IInv, HitInv, Hit
  <2>7. /\ lck' = p <=> r.at \in Locking
        /\ lck \in {p, None} /\ lck' \in {p, None}
        /\ r.at \notin {"openHeader", "encode"} /\ req[p].at \notin {"openHeader", "encode"}
        /\ r.meta = req[p].meta
    BY <1>1, <2>1, <2>3 DEF Moved, Locking
  <2> QED
    BY <1>1, <2>3, <2>4, <2>5, <2>6, <2>7, QuietStep
<1> QED
  BY <1>2, <1>3

(* What is read was not out of date, and follows the source the request    *)
(* has seen.                                                               *)
LEMMA ReadBodyStep ==
    ASSUME IInv, NEW p \in Procs, ReadBody(p)
    PROVE  IInv'
<1>1. /\ req[p].at = "readBody" /\ body # None /\ Go(p, "idle") /\ lck' = None
      /\ out' = [out EXCEPT ![p].bver = body.ver, ![p].copy = body]
      /\ UNCHANGED <<now, src, dir, body, hdr, sweep, faults>>
  BY DEF ReadBody, At, files
<1>2. req[p].calm \in BOOLEAN /\ "idle" \in Steps
  BY OwnTypes DEF Requests, Steps
<1>3. PICK r \in Requests(src.ver, now) :
          req' = [req EXCEPT ![p] = r] /\ Moved(req[p], r, "idle", req[p].calm)
  BY <1>1, <1>2, GoFacts
<1>4. body \in Copies(src.ver, now) /\ body.ver \in Nat
  BY <1>1, VersionsAre DEF IInv, Shapes, Copies
<1>5. PICK w : w = [out[p] EXCEPT !.bver = body.ver, !.copy = body]
  OBVIOUS
<1>6. w \in Outs(src.ver, now) /\ w.copy = body
  BY <1>4, <1>5, OwnTypes DEF Outs
<1>7. out' = [out EXCEPT ![p] = w]
  BY <1>1, <1>5 DEF IInv, Shapes
<1>8. Whole(r, w)'
  BY <1>1, <1>3 DEF IInv, WholeInv, Whole, Moved, Storing
<1>9. Reading(r) /\ Hit(r, w)
  BY <1>1, <1>3, <1>6 DEF Reading, Moved, IInv, HitInv, Hit, SourceInv
<1>10. /\ lck' = p <=> r.at \in Locking
       /\ lck \in {p, None} /\ lck' \in {p, None}
       /\ r.at \notin {"openHeader", "encode"} /\ req[p].at \notin {"openHeader", "encode"}
       /\ r.meta = req[p].meta
  BY <1>1, <1>3, Locks DEF Moved, Locking, Storing
<1> QED
  BY <1>1, <1>3, <1>6, <1>7, <1>8, <1>9, <1>10, QuietStep

LEMMA ReadFailsStep ==
    ASSUME IInv, NEW p \in Procs, ReadFails(p)
    PROVE  IInv'
<1>1. /\ req[p].at = "readBody" /\ lck' = None
      /\ req' = [req EXCEPT ![p].at = "run", ![p].calm = FALSE]
      /\ UNCHANGED <<now, src, dir, body, hdr, out, sweep, faults>>
  BY DEF ReadFails, At, files
<1>2. PICK r \in Requests(src.ver, now) :
          req' = [req EXCEPT ![p] = r] /\ Moved(req[p], r, "run", FALSE)
  BY <1>1, GoFacts DEF Steps
<1>3. PICK w \in Outs(src.ver, now) : w = out[p]
  BY OwnTypes
<1>4. out' = [out EXCEPT ![p] = w]
  BY <1>1, <1>3 DEF IInv, Shapes
<1>5. Whole(r, w)'
  BY <1>1, <1>2 DEF IInv, WholeInv, Whole, Moved, Storing
<1>6. Reading(r) /\ Hit(r, w)
  BY <1>2, <1>3 DEF Reading, Moved, IInv, HitInv, Hit
<1>7. /\ lck' = p <=> r.at \in Locking
      /\ lck \in {p, None} /\ lck' \in {p, None}
      /\ r.at \notin {"openHeader", "encode"} /\ req[p].at \notin {"openHeader", "encode"}
      /\ r.meta = req[p].meta
  BY <1>1, <1>2, Locks DEF Moved, Locking, Storing
<1> QED
  BY <1>1, <1>2, <1>4, <1>5, <1>6, <1>7, QuietStep

-----------------------------------------------------------------------------
(* exec *)

LEMMA RunStep ==
    ASSUME IInv, NEW p \in Procs, Run(p)
    PROVE  IInv'
<1>1. /\ req[p].at = "run"
      /\ req' = [req EXCEPT ![p].at = "mkdir", ![p].got = src.ver, ![p].good = TRUE]
      /\ UNCHANGED <<now, src, dir, body, hdr, lck, out, sweep, faults>>
  BY DEF Run, At, files
<1>2. PICK r : r = [req[p] EXCEPT !.at = "mkdir", !.got = src.ver, !.good = TRUE]
  OBVIOUS
<1>3. /\ r \in Requests(src.ver, now)
      /\ r.at = "mkdir" /\ r.meta = req[p].meta /\ r.got = src.ver /\ r.calm = req[p].calm
  BY <1>2, OwnTypes, VersionsAre DEF Requests, Steps
<1>4. req' = [req EXCEPT ![p] = r]
  BY <1>1, <1>2 DEF IInv, Shapes
<1>5. PICK w \in Outs(src.ver, now) : w = out[p]
  BY OwnTypes
<1>6. out' = [out EXCEPT ![p] = w]
  BY <1>1, <1>5 DEF IInv, Shapes
<1>7. Whole(r, w)'
  BY <1>1, <1>3, <1>5, OwnTypes DEF IInv, WholeInv, Whole, Storing
<1>8. Reading(r) /\ Hit(r, w)
  BY <1>3, <1>5 DEF Reading, IInv, HitInv, Hit
<1>9. /\ lck' = p <=> r.at \in Locking
      /\ r.at \notin {"openHeader", "encode"} /\ req[p].at \notin {"openHeader", "encode"}
  BY <1>1, <1>3, Locks DEF Locking, Storing
<1> QED
  BY <1>1, <1>3, <1>4, <1>6, <1>7, <1>8, <1>9, QuietStep

LEMMA MkdirAllStep ==
    ASSUME IInv, NEW p \in Procs, MkdirAll(p)
    PROVE  IInv'
<1>1. /\ req[p].at = "mkdir" /\ lck = None /\ lck' = p /\ dir' = TRUE /\ Go(p, "open")
      /\ UNCHANGED <<now, src, body, hdr, out, sweep, faults>>
  BY DEF MkdirAll, FreeLock, At
<1>2. req[p].calm \in BOOLEAN /\ "open" \in Steps
  BY OwnTypes DEF Requests, Steps
<1>3. PICK r \in Requests(src.ver, now) :
          req' = [req EXCEPT ![p] = r] /\ Moved(req[p], r, "open", req[p].calm)
  BY <1>1, <1>2, GoFacts
<1>4. PICK w \in Outs(src.ver, now) : w = out[p]
  BY OwnTypes
<1>5. out' = [out EXCEPT ![p] = w]
  BY <1>1, <1>4 DEF IInv, Shapes
<1>6. Whole(r, w)'
  BY <1>1, <1>3, <1>4 DEF IInv, WholeInv, Whole, Moved, Storing
<1>7. Reading(r) /\ Hit(r, w)
  BY <1>3, <1>4 DEF Reading, Moved, IInv, HitInv, Hit
<1>8. /\ lck' = p <=> r.at \in Locking
      /\ lck \in {p, None} /\ lck' \in {p, None}
      /\ r.at \notin {"openHeader", "encode"} /\ req[p].at \notin {"openHeader", "encode"}
      /\ r.meta = req[p].meta
  BY <1>1, <1>3 DEF Moved, Locking, Storing
<1> QED
  BY <1>1, <1>3, <1>5, <1>6, <1>7, <1>8, QuietStep

(* A calm request has written nothing: its status and headers are those of *)
(* the answer.                                                             *)
LEMMA AnswerStep ==
    ASSUME IInv, NEW p \in Procs, Answer(p)
    PROVE  IInv'
<1>1. /\ req[p].at = "answer" /\ Go(p, "idle")
      /\ out' = [out EXCEPT ![p] = [Header(p, Ok, req[p].got) EXCEPT !.bver = req[p].got]]
      /\ UNCHANGED <<now, src, dir, body, hdr, lck, sweep, faults>>
  BY DEF Answer, At, files
<1>2. req[p].calm \in BOOLEAN /\ "idle" \in Steps /\ Whole(req[p], out[p])
  BY OwnTypes DEF Requests, Steps, IInv, WholeInv
<1>3. req[p].got \in 0 .. Len(Size) /\ req[p].got \in Nat
  BY <1>1, <1>2, VersionsAre DEF Whole
<1>4. PICK r \in Requests(src.ver, now) :
          req' = [req EXCEPT ![p] = r] /\ Moved(req[p], r, "idle", req[p].calm)
  BY <1>1, <1>2, GoFacts
<1>5. PICK w \in Outs(src.ver, now) :
          /\ w = [Header(p, Ok, req[p].got) EXCEPT !.bver = req[p].got]
          /\ w.copy = out[p].copy /\ w.bver = req[p].got
          /\ out[p].code = 0 => w.code = Ok /\ w.hver = req[p].got
  BY <1>3, AnswerFacts
<1>6. out' = [out EXCEPT ![p] = w]
  BY <1>1, <1>5
<1>7. Whole(r, w)'
  BY <1>1, <1>2, <1>4, <1>5 DEF Whole, Moved, Storing
<1>8. Reading(r) /\ Hit(r, w)
  BY <1>4, <1>5 DEF Reading, Moved, IInv, HitInv, Hit
<1>9. /\ lck' = p <=> r.at \in Locking
      /\ r.at \notin {"openHeader", "encode"} /\ req[p].at \notin {"openHeader", "encode"}
      /\ r.meta = req[p].meta
  BY <1>1, <1>4, Locks DEF Moved, Locking, Storing
<1> QED
  BY <1>1, <1>4, <1>6, <1>7, <1>8, <1>9, QuietStep

-----------------------------------------------------------------------------
(* Store *)

(* Under the lock the pair is right unless this Store is between its files. *)
LEMMA PairHeld ==
    ASSUME IInv, NEW p \in Procs, req[p].at \in Storing \ {"openHeader", "encode"}
    PROVE  Pair
<1>1. lck = p
  BY Locks DEF Locking
<1>2. \A q \in Procs : req[q].at \in {"openHeader", "encode"} => q = p
  BY <1>1, Locks DEF Locking, Storing
<1> QED
  BY <1>2 DEF IInv, PairInv, Storing

LEMMA OneMoreFault == ASSUME IInv, Fails PROVE faults' \in 0 .. MaxFaults
<1>1. faults \in 0 .. MaxFaults /\ faults < MaxFaults /\ faults' = faults + 1
  BY DEF Fails, IInv, Shapes
<1> QED
  BY <1>1, BoundsAssumption

(* A step that cannot write: a request it ends is not calm.                *)
LEMMA StoreEnds ==
    ASSUME IInv, NEW p \in Procs, req[p].at \in Storing,
           NEW calm, calm = FALSE, StoreFails(p, calm),
           UNCHANGED <<now, src, sweep, dir>>, faults' \in 0 .. MaxFaults,
           body' = None \/ body' \in Copies(src.ver, now),
           hdr' \in Versions \cup {Absent, Garbled},
           DirInv', Rewritten, Pair'
    PROVE  IInv'
<1>1. /\ req' = [req EXCEPT ![p].at = "idle", ![p].calm = calm]
      /\ out' = [out EXCEPT ![p] = [Header(p, ServerError, 0) EXCEPT !.bver = 0]]
      /\ lck' = None /\ lck = p
  BY Locks DEF StoreFails, EndsWithError, Locking
<1>2. PICK r \in Requests(src.ver, now) :
          req' = [req EXCEPT ![p] = r] /\ Moved(req[p], r, "idle", calm)
  BY <1>1, GoFacts DEF Steps
<1>3. 0 \in 0 .. Len(Size) /\ 0 \in Nat
  BY VersionsAre
<1>4. PICK w \in Outs(src.ver, now) :
          w = [Header(p, ServerError, 0) EXCEPT !.bver = 0] /\ w.copy = out[p].copy
  BY <1>3, AnswerFacts
<1>5. out' = [out EXCEPT ![p] = w]
  BY <1>1, <1>4
<1>6. Whole(r, w)
  BY <1>2 DEF Whole, Moved, Storing
<1>7. /\ lck' = IF r.at \in Locking THEN p ELSE None
      /\ r.at \notin {"openHeader", "encode"} /\ r.at \notin {"read", "readBody"}
      /\ r.meta = req[p].meta
  BY <1>1, <1>2 DEF Moved, Locking, Storing
<1> QED
  BY <1>1, <1>2, <1>4, <1>5, <1>6, <1>7, StoreStep

(* A step that writes and goes on.                                         *)
LEMMA StoreGoes ==
    ASSUME IInv, NEW p \in Procs, req[p].at \in Storing,
           NEW step \in (Storing \cup {"answer"}) \ {"open"}, Go(p, step),
           UNCHANGED <<now, src, sweep, dir, out, faults>>,
           lck' = IF step \in Locking THEN p ELSE None,
           body' = None \/ body' \in Copies(src.ver, now),
           hdr' \in Versions \cup {Absent, Garbled},
           DirInv', Rewritten,
           IF step \in {"openHeader", "encode"} THEN body' = None \/ body'.ver = req[p].got
           ELSE Pair'
    PROVE  IInv'
<1>1. req[p].calm \in BOOLEAN /\ step \in Steps /\ lck = p
  BY OwnTypes, Locks DEF Requests, Steps, Storing, Locking
<1>2. PICK r \in Requests(src.ver, now) :
          req' = [req EXCEPT ![p] = r] /\ Moved(req[p], r, step, req[p].calm)
  BY <1>1, GoesOn
<1>3. PICK w \in Outs(src.ver, now) : w = out[p]
  BY OwnTypes
<1>4. out' = [out EXCEPT ![p] = w]
  BY <1>3 DEF IInv, Shapes
<1>5. Whole(req[p], out[p])
  BY DEF IInv, WholeInv
<1>6. Whole(r, w)
  BY <1>2, <1>3, <1>5 DEF Whole, Moved, Storing
<1>7. /\ r.at = step /\ r.at \notin {"read", "readBody"}
      /\ r.meta = req[p].meta /\ r.got = req[p].got
  BY <1>2 DEF Moved, Storing
<1>8. faults' \in 0 .. MaxFaults
  BY DEF IInv, Shapes
<1> QED
  BY <1>1, <1>2, <1>3, <1>4, <1>6, <1>7, <1>8, StoreStep

LEMMA OpenBodyStep ==
    ASSUME IInv, NEW p \in Procs, OpenBody(p)
    PROVE  IInv'
<1>1. /\ req[p].at = "open" /\ dir /\ Go(p, "copy")
      /\ body' = IF body = None THEN [NoBody EXCEPT !.mtime = now, !.bad = TRUE] ELSE body
      /\ UNCHANGED <<now, src, dir, hdr, lck, out, sweep, faults>>
  BY DEF OpenBody, At
<1>2. Pair /\ lck = p
  BY <1>1, PairHeld, Locks DEF Storing, Locking
<1>3. CASE body = None
  <2>1. /\ body'.ver = 0 /\ body'.size = 0 /\ body'.mtime = now
        /\ body'.bad = TRUE /\ body'.late = FALSE
        /\ body' = [ver |-> 0, size |-> 0, mtime |-> now, bad |-> TRUE, late |-> FALSE]
    BY <1>1, <1>3 DEF NoBody
  <2>2. 0 \in 0 .. src.ver /\ now \in 0 .. now
    BY OwnTypes, VersionsAre, BoundsAssumption DEF IInv, Shapes
  <2>3. body' \in Copies(src.ver, now)
    BY <2>1, <2>2 DEF Copies
  <2>4. Rewritten /\ Pair' /\ DirInv'
    BY <1>1, <2>1 DEF Rewritten, Pair, DirInv
  <2> QED
    BY <1>1, <1>2, <2>3, <2>4, StoreGoes DEF Storing, Locking, IInv, Shapes
<1>4. CASE body # None
  <2>1. body' = body /\ Rewritten /\ Pair' /\ DirInv'
    BY <1>1, <1>2, <1>4 DEF Rewritten, Pair, DirInv, IInv
  <2> QED
    BY <1>1, <1>2, <2>1, StoreGoes DEF Storing, Locking, IInv, Shapes
<1> QED
  BY <1>3, <1>4

LEMMA WrittenFacts ==
    ASSUME IInv, NEW p \in Procs, body # None, req[p].at = "copy"
    PROVE  /\ Written(p) \in Copies(src.ver, now)
           /\ Written(p).ver = req[p].got /\ Written(p).mtime = now
           /\ Written(p).late \/ Written(p).ver = src.ver
<1>1. req[p].got \in Versions /\ req[p].got \in 0 .. src.ver
  BY OwnTypes DEF IInv, WholeInv, Whole, Storing, Requests
<1>2. Size[req[p].got] \in Nat /\ body.size \in Nat
  BY <1>1, VersionsAre, SizeAssumption DEF IInv, Shapes, Copies
<1>3. now \in 0 .. now
  BY BoundsAssumption DEF IInv, Shapes
<1>4. (src.ver # req[p].got) \in BOOLEAN
  OBVIOUS
<1>5. (IF body.size > Size[req[p].got] THEN body.size ELSE Size[req[p].got]) \in Nat
  BY <1>2
<1>6. Written(p) \in Copies(src.ver, now)
  BY <1>1, <1>3, <1>4, <1>5 DEF Written, Copies
<1> QED
  BY <1>6 DEF Written

LEMMA CopyStep ==
    ASSUME IInv, NEW p \in Procs, Copy(p)
    PROVE  IInv'
<1>1. /\ req[p].at = "copy" /\ Go(p, "openHeader")
      /\ body' = IF body = None THEN None ELSE Written(p)
      /\ UNCHANGED <<now, src, dir, hdr, lck, out, sweep, faults>>
  BY DEF Copy, At
<1>2. lck = p
  BY <1>1, Locks DEF Storing, Locking
<1>3. body' = None \/ (body' \in Copies(src.ver, now) /\ body'.ver = req[p].got)
  BY <1>1, WrittenFacts
<1>4. Rewritten
  BY <1>1, WrittenFacts DEF Rewritten
<1>5. DirInv'
  BY <1>1 DEF DirInv, IInv
<1> QED
  BY <1>1, <1>2, <1>3, <1>4, <1>5, StoreGoes DEF Storing, Locking, IInv, Shapes

(* What a step that fails leaves of the body.                              *)
LEMMA SpoiltFacts ==
    ASSUME IInv, body # None, NEW t \in {body.mtime, now}, NEW b \in BOOLEAN,
           NEW new, new = [body EXCEPT !.mtime = t, !.bad = b]
    PROVE  /\ new \in Copies(src.ver, now)
           /\ new.mtime = t /\ new.bad = b /\ new.ver = body.ver
           /\ t = body.mtime /\ b = body.bad => new = body
<1>1. body \in Copies(src.ver, now)
  BY DEF IInv, Shapes
<1>2. t \in 0 .. now
  BY <1>1, BoundsAssumption DEF IInv, Shapes, Copies
<1> QED
  BY <1>1, <1>2 DEF Copies

LEMMA CopyFailsStep ==
    ASSUME IInv, NEW p \in Procs, CopyFails(p)
    PROVE  IInv'
<1>1. /\ req[p].at = "copy" /\ Fails /\ StoreFails(p, FALSE)
      /\ body' = IF body = None THEN None ELSE [body EXCEPT !.mtime = now, !.bad = TRUE]
      /\ UNCHANGED <<now, src, dir, hdr, sweep>>
  BY DEF CopyFails, At
<1>2. body # None => /\ body' \in Copies(src.ver, now)
                     /\ body'.mtime = now /\ body'.bad
  <2> SUFFICES ASSUME body # None
               PROVE  body' \in Copies(src.ver, now) /\ body'.mtime = now /\ body'.bad
    OBVIOUS
  <2>1. PICK new : new = [body EXCEPT !.mtime = now, !.bad = TRUE]
    OBVIOUS
  <2> QED
    BY <1>1, <2>1, SpoiltFacts
<1>3. Rewritten /\ Pair' /\ DirInv'
  BY <1>1, <1>2 DEF Rewritten, Pair, DirInv, IInv
<1> QED
  BY <1>1, <1>2, <1>3, OneMoreFault, StoreEnds DEF Storing, IInv, Shapes

LEMMA OpenHeaderStep ==
    ASSUME IInv, NEW p \in Procs, OpenHeader(p)
    PROVE  IInv'
<1>1. /\ req[p].at = "openHeader" /\ dir /\ Go(p, "encode")
      /\ hdr' = IF hdr = Absent THEN Garbled ELSE hdr
      /\ UNCHANGED <<now, src, dir, body, lck, out, sweep, faults>>
  BY DEF OpenHeader, At
<1>2. lck = p
  BY <1>1, Locks DEF Storing, Locking
<1>3. body' = None \/ body'.ver = req[p].got
  BY <1>1 DEF IInv, NewBodyInv
<1>4. Rewritten /\ DirInv'
  BY <1>1 DEF Rewritten, DirInv
<1> QED
  BY <1>1, <1>2, <1>3, <1>4, StoreGoes DEF Storing, Locking, IInv, Shapes

LEMMA EncodeStep ==
    ASSUME IInv, NEW p \in Procs, Encode(p)
    PROVE  IInv'
<1>1. /\ req[p].at = "encode" /\ Go(p, "answer") /\ lck' = None
      /\ hdr' = IF hdr = Absent THEN Absent ELSE req[p].got
      /\ UNCHANGED <<now, src, dir, body, out, sweep, faults>>
  BY DEF Encode, At
<1>2. req[p].got \in Versions
  BY <1>1 DEF IInv, WholeInv, Whole, Storing
<1>3. hdr' \in Versions \cup {Absent, Garbled}
  BY <1>1, <1>2
<1>4. Pair'
  BY <1>1, VersionsAre DEF Pair, IInv, NewBodyInv, Absent
<1>5. Rewritten /\ DirInv'
  BY <1>1 DEF Rewritten, DirInv, IInv
<1> QED
  BY <1>1, <1>3, <1>4, <1>5, StoreGoes DEF Storing, Locking, IInv, Shapes

LEMMA EncodeFailsStep ==
    ASSUME IInv, NEW p \in Procs, EncodeFails(p)
    PROVE  IInv'
<1>1. /\ req[p].at = "encode" /\ Fails /\ StoreFails(p, FALSE)
      /\ hdr' \in {hdr, IF hdr = Absent THEN Absent ELSE Garbled}
      /\ body' = IF body = None THEN None ELSE [body EXCEPT !.bad = TRUE]
      /\ UNCHANGED <<now, src, dir, sweep>>
  BY DEF EncodeFails, At
<1>2. body # None => /\ body' \in Copies(src.ver, now)
                     /\ body'.mtime = body.mtime /\ body'.bad
  <2> SUFFICES ASSUME body # None
               PROVE  body' \in Copies(src.ver, now) /\ body'.mtime = body.mtime /\ body'.bad
    OBVIOUS
  <2>1. PICK new : new = [body EXCEPT !.mtime = body.mtime, !.bad = TRUE]
    OBVIOUS
  <2>2. body' = new
    BY <1>1, <2>1 DEF IInv, Shapes, Copies
  <2> QED
    BY <2>1, <2>2, SpoiltFacts
<1>3. Rewritten /\ Pair' /\ DirInv'
  BY <1>1, <1>2 DEF Rewritten, Pair, DirInv, IInv
<1>4. hdr' \in Versions \cup {Absent, Garbled}
  BY <1>1 DEF IInv, Shapes
<1> QED
  BY <1>1, <1>2, <1>3, <1>4, OneMoreFault, StoreEnds DEF Storing

LEMMA DirGoneStep ==
    ASSUME IInv, NEW p \in Procs, DirGone(p)
    PROVE  IInv'
<1>1. /\ req[p].at \in {"open", "openHeader"} /\ ~dir /\ StoreFails(p, req[p].calm)
      /\ UNCHANGED <<now, src, dir, body, hdr, sweep, faults>>
  BY DEF DirGone, At, files
<1>2. req[p].calm = FALSE
  <2>1. ~req[p].calm
    BY <1>1 DEF IInv, WholeInv, Whole, Storing
  <2>2. req[p].calm \in BOOLEAN
    BY OwnTypes DEF Requests
  <2> QED
    BY <2>1, <2>2
<1>3. PICK calm : calm = req[p].calm
  OBVIOUS
<1>4. body = None /\ Pair'
  BY <1>1 DEF IInv, DirInv, Pair
<1>5. Rewritten /\ DirInv'
  BY <1>1 DEF Rewritten, DirInv, IInv
<1> QED
  BY <1>1, <1>2, <1>3, <1>4, <1>5, StoreEnds DEF Storing, IInv, Shapes

LEMMA OpenFailsStep ==
    ASSUME IInv, NEW p \in Procs, OpenFails(p)
    PROVE  IInv'
<1>1. /\ req[p].at \in {"open", "openHeader"} /\ Fails /\ StoreFails(p, FALSE)
      /\ body' = IF body = None THEN None
                 ELSE [body EXCEPT !.bad = @ \/ At(p, "openHeader")]
      /\ UNCHANGED <<now, src, dir, hdr, sweep>>
  BY DEF OpenFails, At
<1>2. body # None => /\ body' \in Copies(src.ver, now)
                     /\ body'.mtime = body.mtime /\ body'.ver = body.ver
                     /\ body'.bad \/ (body' = body /\ req[p].at = "open")
  <2> SUFFICES ASSUME body # None
               PROVE  /\ body' \in Copies(src.ver, now)
                      /\ body'.mtime = body.mtime /\ body'.ver = body.ver
                      /\ body'.bad \/ (body' = body /\ req[p].at = "open")
    OBVIOUS
  <2>1. PICK bad \in BOOLEAN : bad <=> body.bad \/ req[p].at = "openHeader"
    OBVIOUS
  <2>2. PICK new : new = [body EXCEPT !.mtime = body.mtime, !.bad = bad]
    OBVIOUS
  <2>3. body \in Copies(src.ver, now) /\ body.bad \in BOOLEAN
    BY DEF IInv, Shapes, Copies
  <2>4. (body.bad \/ At(p, "openHeader")) = bad
    BY <2>1, <2>3 DEF At
  <2>5. body' = new
    BY <1>1, <2>2, <2>3, <2>4 DEF Copies
  <2>6. /\ new \in Copies(src.ver, now)
        /\ new.mtime = body.mtime /\ new.bad = bad /\ new.ver = body.ver
    BY <2>2, SpoiltFacts
  <2>7. CASE bad
    BY <1>1, <2>5, <2>6, <2>7
  <2>8. CASE ~bad
    <3>1. req[p].at = "open" /\ bad = body.bad
      BY <1>1, <2>1, <2>3, <2>8
    <3>2. new = body
      BY <2>2, <2>3, <3>1 DEF Copies
    <3> QED
      BY <2>5, <2>6, <3>1, <3>2
  <2> QED
    BY <2>7, <2>8
<1>3. Rewritten /\ DirInv'
  BY <1>1, <1>2 DEF Rewritten, DirInv, IInv
<1>4. Pair'
  <2>1. CASE req[p].at = "open"
    BY <1>1, <1>2, <2>1, PairHeld DEF Pair, Storing
  <2>2. CASE req[p].at # "open"
    BY <1>1, <1>2, <2>2 DEF Pair
  <2> QED
    BY <2>1, <2>2
<1> QED
  BY <1>1, <1>2, <1>3, <1>4, OneMoreFault, StoreEnds DEF Storing, IInv, Shapes

-----------------------------------------------------------------------------
(* The clean-up and the environment *)

(* The clean-up only removes; nobody under way stays calm.                 *)
LEMMA SweepStep ==
    ASSUME IInv, req' = Stirred(req), UNCHANGED sweepOnly,
           sweep' \in {"idle", "removed", "empty"},
           body' = body \/ body' = None, hdr' = hdr \/ hdr' = Absent,
           dir' = dir \/ (dir' = FALSE /\ body' = None /\ hdr' = Absent)
    PROVE  IInv'
<1>1. UNCHANGED <<now, src, lck, out, faults>>
  BY DEF sweepOnly
<1>2. \A p \in Procs :
        /\ req[p] \in Requests(src.ver, now) /\ req'[p] \in Requests(src.ver, now)
        /\ req'[p].at = req[p].at /\ req'[p].meta = req[p].meta
        /\ req'[p].got = req[p].got /\ req'[p].good = req[p].good
        /\ req'[p].calm = FALSE
  <2> SUFFICES ASSUME NEW p \in Procs
               PROVE  /\ req[p] \in Requests(src.ver, now)
                      /\ req'[p] \in Requests(src.ver, now)
                      /\ req'[p].at = req[p].at /\ req'[p].meta = req[p].meta
                      /\ req'[p].got = req[p].got /\ req'[p].good = req[p].good
                      /\ req'[p].calm = FALSE
    OBVIOUS
  <2>1. req[p] \in Requests(src.ver, now)
    BY DEF IInv, Shapes
  <2>2. req'[p] = [req[p] EXCEPT !.calm = FALSE]
    BY DEF Stirred
  <2> QED
    BY <2>1, <2>2 DEF Requests
<1>3. Shapes'
  <2>1. req' \in [Procs -> Requests(src.ver, now)]
    BY <1>2 DEF Stirred
  <2>2. hdr' \in Versions \cup {Absent, Garbled} /\ dir' \in BOOLEAN
    BY DEF IInv, Shapes
  <2>3. body' = None \/ body' \in Copies(src.ver, now)
    BY DEF IInv, Shapes
  <2> QED
    BY <1>1, <2>1, <2>2, <2>3 DEF IInv, Shapes
<1>4. LockInv' /\ DirInv'
  BY <1>1, <1>2 DEF IInv, LockInv, DirInv
<1>5. PairInv' /\ NewBodyInv'
  <2>1. Absent \notin Versions
    BY VersionsAre DEF Absent
  <2> QED
    BY <1>2, <2>1 DEF IInv, PairInv, Pair, NewBodyInv
<1>6. SourceInv'
  BY <1>1, <1>2 DEF IInv, SourceInv, Follows
<1>7. HitInv'
  BY <1>1, <1>2 DEF IInv, HitInv, Reading, Hit, Follows
<1>8. WholeInv'
  <2> SUFFICES ASSUME NEW p \in Procs PROVE Whole(req[p], out[p])'
    BY DEF WholeInv
  <2>1. Whole(req[p], out[p])
    BY DEF IInv, WholeInv
  <2> QED
    BY <1>1, <1>2, <2>1 DEF Whole
<1> QED
  BY <1>3, <1>4, <1>5, <1>6, <1>7, <1>8 DEF IInv

(* What there was before remains so when the source or the clock goes on.  *)
LEMMA TypesGrow ==
    ASSUME NEW v \in Nat, NEW t \in Nat, NEW v2 \in Nat, NEW t2 \in Nat, v <= v2, t <= t2
    PROVE  /\ Copies(v, t) \subseteq Copies(v2, t2)
           /\ Requests(v, t) \subseteq Requests(v2, t2)
           /\ Outs(v, t) \subseteq Outs(v2, t2)
<1>1. 0 .. v \subseteq 0 .. v2 /\ 0 .. t \subseteq 0 .. t2
  OBVIOUS
<1>2. Copies(v, t) \subseteq Copies(v2, t2)
  BY <1>1 DEF Copies
<1>3. Requests(v, t) \subseteq Requests(v2, t2)
  BY <1>1 DEF Requests
<1>4. Outs(v, t) \subseteq Outs(v2, t2)
  BY <1>2 DEF Outs
<1> QED
  BY <1>2, <1>3, <1>4

LEMMA EnvStep ==
    ASSUME IInv, UNCHANGED <<lck, req, out, sweep, faults, dir, body, hdr>>,
           now' \in 0 .. MaxNow, now <= now',
           src' \in [ver : Versions, mtime : 0 .. now'], src.ver <= src'.ver,
           src' = src \/ src'.mtime = now
    PROVE  IInv'
<1>1. /\ src.ver \in Nat /\ src'.ver \in Nat /\ now \in Nat /\ now' \in Nat
      /\ src.mtime \in 0 .. now
  BY VersionsAre, BoundsAssumption DEF IInv, Shapes
<1>2. /\ Copies(src.ver, now) \subseteq Copies(src'.ver, now')
      /\ Requests(src.ver, now) \subseteq Requests(src'.ver, now')
      /\ Outs(src.ver, now) \subseteq Outs(src'.ver, now')
  BY <1>1, TypesGrow
<1>3. Shapes'
  <2>1. /\ req' \in [Procs -> Requests(src'.ver, now')]
        /\ out' \in [Procs -> Outs(src'.ver, now')]
    BY <1>2 DEF IInv, Shapes
  <2>2. body' = None \/ body' \in Copies(src'.ver, now')
    BY <1>2 DEF IInv, Shapes
  <2> QED
    BY <2>1, <2>2 DEF IInv, Shapes
<1>4. LockInv' /\ DirInv' /\ PairInv' /\ NewBodyInv'
  BY DEF IInv, LockInv, DirInv, PairInv, Pair, NewBodyInv
<1>5. SourceInv'
  <2>1. body # None => body.mtime \in 0 .. now
    BY DEF IInv, Shapes, Copies
  <2> QED
    BY <1>1, <2>1 DEF IInv, SourceInv, Follows
<1>6. HitInv' /\ WholeInv'
  BY DEF IInv, HitInv, Reading, Hit, Follows, WholeInv, Whole
<1> QED
  BY <1>3, <1>4, <1>5, <1>6 DEF IInv

-----------------------------------------------------------------------------
(* The invariant *)

LEMMA NextIInv == IInv /\ [Next]_vars => IInv'
<1> SUFFICES ASSUME IInv, [Next]_vars PROVE IInv'
  OBVIOUS
<1>1. CASE SweepFile
  BY <1>1, SweepStep DEF SweepFile
<1>2. CASE SweepLooks
  BY <1>2, SweepStep DEF SweepLooks, files
<1>3. CASE SweepDir
  BY <1>3, SweepStep DEF SweepDir
<1>4. CASE Edit
  <2>1. /\ src.ver + 1 \in Versions
        /\ src' = [ver |-> src.ver + 1, mtime |-> now]
        /\ UNCHANGED <<now, lck, req, out, sweep, faults, dir, body, hdr>>
    BY <1>4 DEF Edit, files
  <2>2. src.ver \in Nat /\ now \in Nat /\ now \in 0 .. MaxNow
    BY VersionsAre, BoundsAssumption DEF IInv, Shapes
  <2> QED
    BY <2>1, <2>2, EnvStep
<1>5. CASE Tick
  <2>1. /\ now < MaxNow /\ now' = now + 1
        /\ UNCHANGED <<src, lck, req, out, sweep, faults, dir, body, hdr>>
    BY <1>5 DEF Tick, files
  <2>2. /\ src \in [ver : Versions, mtime : 0 .. now] /\ src.ver \in Nat
        /\ now \in Nat /\ MaxNow \in Nat
    BY VersionsAre, BoundsAssumption DEF IInv, Shapes
  <2>3. src \in [ver : Versions, mtime : 0 .. now']
    BY <2>1, <2>2
  <2> QED
    BY <2>1, <2>2, <2>3, EnvStep
<1>6. ASSUME NEW p \in Procs, Serve(p) PROVE IInv'
  <2>1. CASE Request(p) \/ Miss(p) \/ Outdated(p)
    BY <2>1, RequestStep, LookStep
  <2>2. CASE NotChanged(p) \/ RunUnstored(p)
    BY <2>2, EndStep
  <2>3. CASE ReadHeader(p) \/ ReadBody(p) \/ ReadFails(p)
    BY <2>3, ReadHeaderStep, ReadBodyStep, ReadFailsStep
  <2>4. CASE Run(p) \/ Answer(p)
    BY <2>4, RunStep, AnswerStep
  <2>5. CASE MkdirAll(p) \/ OpenBody(p) \/ Copy(p) \/ CopyFails(p)
    BY <2>5, MkdirAllStep, OpenBodyStep, CopyStep, CopyFailsStep
  <2>6. CASE OpenHeader(p) \/ Encode(p) \/ EncodeFails(p)
    BY <2>6, OpenHeaderStep, EncodeStep, EncodeFailsStep
  <2>7. CASE DirGone(p) \/ OpenFails(p)
    BY <2>7, DirGoneStep, OpenFailsStep
  <2> QED
    BY <1>6, <2>1, <2>2, <2>3, <2>4, <2>5, <2>6, <2>7 DEF Serve, Store
<1>7. CASE UNCHANGED vars
  BY <1>7 DEF vars, files, IInv, Shapes, LockInv, DirInv, PairInv, Pair, NewBodyInv,
     SourceInv, Follows, HitInv, Reading, Hit, WholeInv, Whole
<1> QED
  BY <1>1, <1>2, <1>3, <1>4, <1>5, <1>6, <1>7 DEF Next

(* Every reachable state satisfies the inductive invariant: nobody stores  *)
(* or reads the files without s.lck (Store and ReadTo), and a body is never *)
(* behind a change of the source that lies before it.                      *)
THEOREM Invariance == Spec => []IInv
<1> QED
  BY InitIInv, NextIInv, PTL DEF Spec

(* The types; whoever is in Store or ReadTo has s.lck and nobody else; a   *)
(* file lies in a directory that exists.                                   *)
THEOREM TypeCorrect == Spec => []TypeOK
<1>1. IInv => TypeOK
  <2> SUFFICES ASSUME IInv PROVE TypeOK
    OBVIOUS
  <2>1. src.ver \in Versions /\ src.mtime \in 0 .. now
    BY DEF IInv, Shapes
  <2>2. body = None \/ (body.mtime \in 0 .. now /\ body.ver \in 0 .. src.ver)
    BY DEF IInv, Shapes, Copies
  <2>3. ASSUME NEW p \in Procs
        PROVE  /\ req[p].at \in Steps
               /\ lck = p <=> req[p].at \in Locking
               /\ out[p].code \in {0, Ok, NotModified, ServerError}
    <3>1. req[p] \in Requests(src.ver, now) /\ out[p] \in Outs(src.ver, now)
      BY DEF IInv, Shapes
    <3>2. lck = p <=> req[p].at \in Locking
      BY DEF IInv, LockInv
    <3> QED
      BY <3>1, <3>2 DEF Requests, Outs
  <2>4. Locking = {"readBody", "open", "copy", "openHeader", "encode"}
    BY DEF Locking, Storing
  <2> QED
    BY <2>1, <2>2, <2>3, <2>4 DEF TypeOK, IInv, Shapes, DirInv, Steps
<1> QED
  BY <1>1, Invariance, PTL

(* Whenever nobody is in Store or ReadTo, headers that can be read are     *)
(* those of the body (Storage.Store writes both under s.lck), however many *)
(* requests stored and whatever the clean-up removed; unless a Store could *)
(* not write.                                                              *)
THEOREM PairsMatch == Spec => []PairMatches
<1>1. IInv => PairMatches
  BY NoneAssumption DEF IInv, PairInv, Pair, PairMatches, LockInv, Locking, Storing
<1> QED
  BY <1>1, Invariance, PTL

(* What Cache answers from the Storage is not older than the source was    *)
(* when the request came, but for the three cases HitIsFresh names.        *)
THEOREM HitsAreFresh == Spec => []HitIsFresh
<1>1. IInv => HitIsFresh
  <2> SUFFICES ASSUME IInv, NEW p \in Procs, out[p].copy # NoBody
               PROVE  /\ out[p].copy.mtime >= req[p].meta.mtime
                      /\ \/ out[p].copy.late \/ out[p].copy.bad
                         \/ out[p].copy.mtime = req[p].meta.mtime
                         \/ out[p].copy.ver >= req[p].meta.ver
    BY DEF HitIsFresh
  <2>1. Hit(req[p], out[p])
    BY DEF IInv, HitInv
  <2>2. req[p] \in Requests(src.ver, now) /\ out[p] \in Outs(src.ver, now) /\ now \in Nat
    BY OwnTypes, BoundsAssumption DEF IInv, Shapes
  <2>3. out[p].copy.mtime \in Nat /\ req[p].meta.mtime \in Nat
    BY <2>2 DEF Outs, Copies, Requests
  <2> QED
    BY <2>1, <2>3 DEF Hit, Follows
<1> QED
  BY <1>1, Invariance, PTL

(* exec sends a good answer of the handler with its own headers and status *)
(* to the client, when no write failed, no clean-up ran and no body of the *)
(* cache was refused during the request.                                   *)
THEOREM GoodAnswersAreWhole == Spec => []GoodAnswerIsWhole
<1>1. IInv => GoodAnswerIsWhole
  BY DEF IInv, WholeInv, Whole, GoodAnswerIsWhole, Done, At
<1> QED
  BY <1>1, Invariance, PTL
=============================================================================
