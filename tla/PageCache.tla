----------------------------- MODULE PageCache -----------------------------
(***************************************************************************)
(* The page cache (middlewares/cache): the middleware Cache before a       *)
(* handler f, the Storage of stored answers in files, and the clean-up     *)
(* that walks the files without the Storage's lock.                        *)
(*                                                                         *)
(* There is one page.  It has a source, which changes, and the copy of the *)
(* cache: a file with the body and one with the headers, in a directory    *)
(* that other pages use too.  A body or a header is the number of the      *)
(* source's version it was made from.  The file system (external) sets     *)
(* modification times from a clock with ticks, so a change may have the    *)
(* time of the write before it.                                            *)
(***************************************************************************)
EXTENDS Integers, Sequences, FiniteSets

CONSTANTS
    Procs,          \* requests
    None,
    Size,           \* the length of each version of the source
    MaxNow,         \* the clock's bound
    MaxFaults       \* failing writes in a behaviour

ASSUME SizeAssumption == Size \in Seq(Nat \ {0}) /\ Size # <<>>
ASSUME NoneAssumption == None \notin Procs
ASSUME BoundsAssumption == MaxNow \in Nat /\ MaxFaults \in Nat

VARIABLES
    now,
    src,            \* the source: its version and modification time
    dir, body, hdr, \* the directory exists; the files
    lck,            \* who holds s.lck
    req,            \* the requests: where they are, what they have read
    out,            \* what was written to each request's ResponseWriter
    sweep,          \* the clean-up goroutine
    faults

files == <<dir, body, hdr>>
vars == <<now, src, dir, body, hdr, lck, req, out, sweep, faults>>

Versions == DOMAIN Size
Absent == 0         \* no header file
Garbled == -1       \* one that cannot be decoded
NoBody == [ver |-> 0, size |-> 0, mtime |-> 0, bad |-> FALSE, late |-> FALSE]
Idle == [at |-> "idle", meta |-> [ver |-> 0, mtime |-> 0], got |-> 0,
         good |-> FALSE, calm |-> TRUE]
Nothing == [code |-> 0, hver |-> 0, copy |-> NoBody, bver |-> 0]

Init ==
    /\ now = 0
    /\ src = [ver |-> 1, mtime |-> 0]
    /\ dir = FALSE /\ body = None /\ hdr = Absent
    /\ lck = None
    /\ req = [p \in Procs |-> Idle]
    /\ out = [p \in Procs |-> Nothing]
    /\ sweep = "idle"
    /\ faults = 0

-----------------------------------------------------------------------------
(* Helpers *)

At(p, step) == req[p].at = step
Go(p, step) == req' = [req EXCEPT ![p].at = step]

(* http.ResponseWriter: the first WriteHeader decides the status, with the *)
(* headers there are by then.                                              *)
Header(p, code, ver) ==
    IF out[p].code # 0 THEN out[p] ELSE [out[p] EXCEPT !.code = code, !.hver = ver]
Ok == 200
NotModified == 304
ServerError == 500

(* The request ends with an error, or another answer that is not cached:   *)
(* ServerError stands for every status that is not 2xx.                    *)
EndsWithError(p) == out' = [out EXCEPT ![p] = [Header(p, ServerError, 0) EXCEPT !.bver = 0]]

(* A write fails; the requests under way are no longer calm.               *)
Fails == faults < MaxFaults /\ faults' = faults + 1
Stirred(r) == [p \in Procs |-> [r[p] EXCEPT !.calm = FALSE]]

-----------------------------------------------------------------------------
(* Cache *)

(* The characteristics of the source (MetaFS).                             *)
Request(p) ==
    /\ At(p, "idle")
    /\ req' = [req EXCEPT ![p] = [Idle EXCEPT !.at = "mtime", !.meta = src,
                                              !.calm = (sweep = "idle")]]
    /\ out' = [out EXCEPT ![p] = Nothing]
    /\ UNCHANGED <<now, src, lck, sweep, faults>> /\ UNCHANGED files

(* OutDate.  Variant: the copy is never out of date.                       *)
NeverOutDate(m, copy) == FALSE
OutDate(m, copy) == m.mtime > copy.mtime

(* GetMTime and what follows from it.                                      *)
Miss(p) ==
    /\ At(p, "mtime") /\ lck = None
    /\ body = None
    /\ Go(p, "run")
    /\ UNCHANGED <<now, src, lck, out, sweep, faults>> /\ UNCHANGED files
(* If-Modified-Since: the client's time lies at or after the source's.     *)
NotChanged(p) ==
    /\ At(p, "mtime") /\ lck = None
    /\ body # None
    /\ Go(p, "idle")
    /\ out' = [out EXCEPT ![p] = Header(p, NotModified, 0)]
    /\ UNCHANGED <<now, src, lck, sweep, faults>> /\ UNCHANGED files
Outdated(p) ==
    /\ At(p, "mtime") /\ lck = None
    /\ body # None
    /\ Go(p, IF OutDate(req[p].meta, body) THEN "run" ELSE "read")
    /\ UNCHANGED <<now, src, lck, out, sweep, faults>> /\ UNCHANGED files

(* ReadTo: the headers, if the file is there and can be decoded, and with  *)
(* them the status; otherwise the request goes on with exec.  Variant: the *)
(* status before the headers.                                              *)
StatusFirst(p) == [Header(p, Ok, hdr) EXCEPT !.code = Ok]
StatusAfter(p) == IF hdr \in Versions THEN Header(p, Ok, hdr) ELSE out[p]
ReadHeader(p) ==
    /\ At(p, "read") /\ lck = None
    /\ out' = [out EXCEPT ![p] = StatusAfter(p)]
    /\ IF hdr \in Versions THEN Go(p, "readBody") /\ lck' = p
       ELSE Go(p, "run") /\ UNCHANGED lck
    /\ UNCHANGED <<now, src, sweep, faults>> /\ UNCHANGED files

(* Then the body.  A body longer than the Content-Length is refused by the *)
(* server's ResponseWriter; then, as when the file is gone, exec writes    *)
(* its answer after these headers.                                         *)
TooLong(p) == body # None /\ body.size > Size[out[p].hver]
ReadBody(p) ==
    /\ At(p, "readBody")
    /\ body # None
    /\ out' = [out EXCEPT ![p].bver = body.ver, ![p].copy = body]
    /\ Go(p, "idle")
    /\ lck' = None
    /\ UNCHANGED <<now, src, sweep, faults>> /\ UNCHANGED files
ReadFails(p) ==
    /\ At(p, "readBody")
    /\ body = None \/ TooLong(p)
    /\ req' = [req EXCEPT ![p].at = "run", ![p].calm = FALSE]
    /\ lck' = None
    /\ UNCHANGED <<now, src, out, sweep, faults>> /\ UNCHANGED files

-----------------------------------------------------------------------------
(* exec *)

(* The handler f makes its answer from the source of this moment: one that *)
(* is stored ...                                                           *)
Run(p) ==
    /\ At(p, "run")
    /\ req' = [req EXCEPT ![p].at = "mkdir", ![p].got = src.ver, ![p].good = TRUE]
    /\ UNCHANGED <<now, src, lck, out, sweep, faults>> /\ UNCHANGED files
(* ... or a status other than 2xx, or no body, which is an error.          *)
RunUnstored(p) ==
    /\ At(p, "run")
    /\ Go(p, "idle")
    /\ EndsWithError(p)
    /\ UNCHANGED <<now, src, lck, sweep, faults>> /\ UNCHANGED files

(* Store.  A step that cannot write ends it, and the request with 500,     *)
(* though the answer is there; what was written stays.                     *)
StoreFails(p, calm) ==
    /\ req' = [req EXCEPT ![p].at = "idle", ![p].calm = calm]
    /\ EndsWithError(p)
    /\ lck' = None

(* Variant: the lock is not waited for.                                    *)
AnyLock == TRUE
FreeLock == lck = None
MkdirAll(p) ==
    /\ At(p, "mkdir")
    /\ FreeLock
    /\ lck' = p
    /\ dir' = TRUE
    /\ Go(p, "open")
    /\ UNCHANGED <<now, src, body, hdr, out, sweep, faults>>

(* An existing file keeps its content (no O_TRUNC); a new one is empty.    *)
OpenBody(p) ==
    /\ At(p, "open") /\ dir
    /\ body' = IF body = None THEN [NoBody EXCEPT !.mtime = now, !.bad = TRUE] ELSE body
    /\ Go(p, "copy")
    /\ UNCHANGED <<now, src, dir, hdr, lck, out, sweep, faults>>

(* The body is written over the old one, of which a tail stays if it was   *)
(* longer.  The file may have been removed by now.                         *)
Written(p) ==
    [ver |-> req[p].got,
     size |-> IF body.size > Size[req[p].got] THEN body.size ELSE Size[req[p].got],
     mtime |-> now, bad |-> FALSE, late |-> src.ver # req[p].got]
Copy(p) ==
    /\ At(p, "copy")
    /\ body' = IF body = None THEN None ELSE Written(p)
    /\ Go(p, "openHeader")
    /\ UNCHANGED <<now, src, dir, hdr, lck, out, sweep, faults>>
CopyFails(p) ==
    /\ At(p, "copy")
    /\ Fails
    /\ body' = IF body = None THEN None ELSE [body EXCEPT !.mtime = now, !.bad = TRUE]
    /\ StoreFails(p, FALSE)
    /\ UNCHANGED <<now, src, dir, hdr, sweep>>

(* The headers.  A new file is empty and cannot be decoded yet.            *)
OpenHeader(p) ==
    /\ At(p, "openHeader") /\ dir
    /\ hdr' = IF hdr = Absent THEN Garbled ELSE hdr
    /\ Go(p, "encode")
    /\ UNCHANGED <<now, src, dir, body, lck, out, sweep, faults>>
Encode(p) ==
    /\ At(p, "encode")
    /\ hdr' = IF hdr = Absent THEN Absent ELSE req[p].got
    /\ Go(p, "answer")
    /\ lck' = None
    /\ UNCHANGED <<now, src, dir, body, out, sweep, faults>>
EncodeFails(p) ==
    /\ At(p, "encode")
    /\ Fails
    /\ hdr' \in {hdr, IF hdr = Absent THEN Absent ELSE Garbled}
    /\ body' = IF body = None THEN None ELSE [body EXCEPT !.bad = TRUE]
    /\ StoreFails(p, FALSE)
    /\ UNCHANGED <<now, src, dir, sweep>>

(* A file cannot be opened, because the disk is full or the clean-up has   *)
(* removed the directory.                                                  *)
DirGone(p) ==
    /\ At(p, "open") \/ At(p, "openHeader")
    /\ ~dir
    /\ StoreFails(p, req[p].calm)
    /\ UNCHANGED <<now, src, sweep, faults>> /\ UNCHANGED files
OpenFails(p) ==
    /\ At(p, "open") \/ At(p, "openHeader")
    /\ Fails
    /\ body' = IF body = None THEN None
               ELSE [body EXCEPT !.bad = @ \/ At(p, "openHeader")]
    /\ StoreFails(p, FALSE)
    /\ UNCHANGED <<now, src, dir, hdr, sweep>>

(* The answer goes to the client.                                          *)
Answer(p) ==
    /\ At(p, "answer")
    /\ out' = [out EXCEPT ![p] = [Header(p, Ok, req[p].got) EXCEPT !.bver = req[p].got]]
    /\ Go(p, "idle")
    /\ UNCHANGED <<now, src, lck, sweep, faults>> /\ UNCHANGED files

-----------------------------------------------------------------------------
(* The clean-up, without the lock: a file nobody has read for long is      *)
(* removed (access times depend on the file system, so any file may be     *)
(* old, another page's too), ...                                           *)
sweepOnly == <<now, src, lck, out, faults>>
SweepFile ==
    /\ sweep = "idle" /\ dir
    /\ \/ body' = None /\ UNCHANGED hdr
       \/ hdr' = Absent /\ UNCHANGED body
       \/ UNCHANGED <<body, hdr>>
    /\ sweep' = "removed"
    /\ req' = Stirred(req)
    /\ UNCHANGED dir /\ UNCHANGED sweepOnly
(* ... then it looks whether the directory is empty (another page may be   *)
(* in it), ...                                                             *)
SweepLooks ==
    /\ sweep = "removed"
    /\ \/ sweep' = "idle"
       \/ body = None /\ hdr = Absent /\ sweep' = "empty"
    /\ req' = Stirred(req)
    /\ UNCHANGED files /\ UNCHANGED sweepOnly
(* ... and removes it with all that is in it by then.                      *)
SweepDir ==
    /\ sweep = "empty"
    /\ sweep' = "idle"
    /\ dir' = FALSE /\ body' = None /\ hdr' = Absent
    /\ req' = Stirred(req)
    /\ UNCHANGED sweepOnly

-----------------------------------------------------------------------------
(* The environment *)
Edit ==
    /\ src.ver + 1 \in Versions
    /\ src' = [ver |-> src.ver + 1, mtime |-> now]
    /\ UNCHANGED <<now, lck, req, out, sweep, faults>> /\ UNCHANGED files
Tick ==
    /\ now < MaxNow
    /\ now' = now + 1
    /\ UNCHANGED <<src, lck, req, out, sweep, faults>> /\ UNCHANGED files

Store(p) ==
    \/ MkdirAll(p) \/ OpenBody(p) \/ Copy(p) \/ CopyFails(p)
    \/ OpenHeader(p) \/ Encode(p) \/ EncodeFails(p)
    \/ DirGone(p) \/ OpenFails(p)
Serve(p) ==
    \/ Request(p) \/ Miss(p) \/ NotChanged(p) \/ Outdated(p)
    \/ ReadHeader(p) \/ ReadBody(p) \/ ReadFails(p)
    \/ Run(p) \/ RunUnstored(p) \/ Store(p) \/ Answer(p)
Next ==
    \/ SweepFile \/ SweepLooks \/ SweepDir
    \/ Edit \/ Tick
    \/ \E p \in Procs : Serve(p)

Spec == Init /\ [][Next]_vars

-----------------------------------------------------------------------------
(* Properties *)

(* Types; files are in the directory, and whoever is in Store or ReadTo    *)
(* has the lock, and nobody else.                                          *)
TypeOK ==
    /\ now \in 0 .. MaxNow
    /\ src.ver \in Versions /\ src.mtime \in 0 .. now
    /\ dir \in BOOLEAN /\ (body # None \/ hdr # Absent => dir)
    /\ body = None \/ (body.mtime \in 0 .. now /\ body.ver \in 0 .. src.ver)
    /\ hdr \in Versions \cup {Absent, Garbled}
    /\ \A p \in Procs :
        /\ req[p].at \in {"idle", "mtime", "read", "readBody", "run", "mkdir",
                          "open", "copy", "openHeader", "encode", "answer"}
        /\ lck = p <=> req[p].at \in {"readBody", "open", "copy", "openHeader", "encode"}
        /\ out[p].code \in {0, Ok, NotModified, ServerError}
    /\ lck \in Procs \cup {None}
    /\ sweep \in {"idle", "removed", "empty"}
    /\ faults \in 0 .. MaxFaults

(* Outside Store, the headers that can be read are those of the body,      *)
(* whatever requests stored one after the other and whatever the clean-up  *)
(* removed in between; unless a Store could not write (bad).               *)
PairMatches ==
    lck = None /\ body # None /\ hdr \in Versions => body.bad \/ hdr = body.ver

(* A request that is answered from the cache gets a version no older than  *)
(* the source was when it came, also when other requests store while it    *)
(* reads.  Three things get in between: a version stored after the source  *)
(* had already changed (late, it is as new as the change for OutDate), a   *)
(* change in the tick of the clock in which the copy was stored, and a     *)
(* Store that could not write.                                             *)
Done(p) == At(p, "idle") /\ out[p].code # 0
HitIsFresh ==
    \A p \in Procs :
        Done(p) /\ out[p].copy # NoBody =>
            LET copy == out[p].copy IN
            /\ copy.mtime >= req[p].meta.mtime
            /\ copy.late \/ copy.bad \/ copy.mtime = req[p].meta.mtime
               \/ copy.ver >= req[p].meta.ver

(* What f answered well reaches the client with its own headers, unless    *)
(* during the request a write failed, the clean-up ran, or a body from the *)
(* cache did not fit its headers: then the client may get 500 for a good   *)
(* answer, or the headers of the copy with the body of f.                  *)
GoodAnswerIsWhole ==
    \A p \in Procs :
        Done(p) /\ req[p].good /\ req[p].calm =>
            /\ out[p].code = Ok
            /\ out[p].hver = req[p].got /\ out[p].bver = req[p].got
=============================================================================
