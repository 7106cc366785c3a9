---------------------------- MODULE AccessProofs ----------------------------
(***************************************************************************)
(* Theorems about Access for any lists and configurations, any systems     *)
(* with any answers, and any number of failures and crashes.               *)
(***************************************************************************)
EXTENDS Access, TLAPS

Entries == DOMAIN Matches \cup {Invalid}
Stages == {"idle", "block", "allowed", "deny", "isFB", "default", "passed", "denied"}
Places == {"allowed", "denied", "neither"}
Requests == [at : Stages, ip : Ips \cup {Nobody}, ref : Refs \cup {Nobody},
             seen : SUBSET Places]

Shapes ==
    /\ TypeOK
    /\ list \in [Lists -> SUBSET Entries]
    /\ file \in [is : {"absent", "torn", "stored"}, objs : SUBSET Routes]
    /\ req \in Requests

(* While a process fetches or stores there is no file that can be decoded. *)
FileInv ==
    /\ StoredIsUsed
    /\ boot \in {"retrieve", "store"} => file.is # "stored"

(* What the systems asked so far have published is known.                  *)
WholeInv ==
    /\ CacheIsWhole
    /\ ~cut /\ boot \in {"retrieve", "store"} =>
        \A i \in DOMAIN Systems :
            boot = "store" \/ i < pos => Published(Systems[i]) \subseteq objs

(* The lists are right from the moment they are made.                      *)
KeepsEntries(l) ==
    kind[l] = "text" \/ (kind[l] = "regexp" /\ l \notin spoilt) =>
        Constantly(l) \subseteq Matched(list[l])
ListInv == boot # "down" => \A l \in Lists : KeepsEntries(l)

(* A request has seen where its referrer is now, and between its two looks *)
(* a moment at which it was not allowed.                                   *)
SeenInv ==
    /\ ListedIsNotDefaulted
    /\ req.at = "idle" => req.ref = Nobody
    /\ req.at \in {"allowed", "deny", "isFB"} => req.ref # Nobody
    /\ req.ref # Nobody /\ ~Ended => Listed(list, req.ref) \in req.seen
    /\ req.at = "deny" => req.seen \cap {"denied", "neither"} # {}

IInv == Shapes /\ FileInv /\ WholeInv /\ ListInv /\ SeenInv

LEMMA InitIInv == Init => IInv
<1> SUFFICES ASSUME Init PROVE IInv
  OBVIOUS
<1>1. Len(Systems) \in Nat /\ MaxFaults \in Nat
  BY SystemsAssumption, FaultsAssumption
<1>2. /\ kind \in Kinds /\ def \in {"ALLOW", "DENY"} /\ list = [l \in Lists |-> {}]
      /\ boot = "down" /\ pos = 1 /\ objs = {} /\ file = NoFile /\ req = NoRequest
      /\ faults = 0 /\ spoilt = {} /\ cut = FALSE
  BY DEF Init
<1>3. /\ req = [at |-> "idle", ip |-> Nobody, ref |-> Nobody, seen |-> {}]
      /\ file = [is |-> "absent", objs |-> {}]
  BY <1>2 DEF NoRequest, NoFile
<1>4. Shapes
  <2>1. req \in Requests /\ req.at = "idle"
    BY <1>3 DEF Requests, Stages, Places
  <2>2. /\ file \in [is : {"absent", "torn", "stored"}, objs : SUBSET Routes]
        /\ file.is = "absent" /\ file.objs = {}
    BY <1>3
  <2>3. list \in [Lists -> SUBSET Entries] /\ \A l \in Lists : list[l] = {}
    BY <1>2
  <2>4. pos \in 1 .. Len(Systems) + 1 /\ faults \in 0 .. MaxFaults
    BY <1>1, <1>2
  <2>5. TypeOK
    BY <1>2, <2>1, <2>2, <2>3, <2>4 DEF TypeOK, Stages
  <2> QED
    BY <2>1, <2>2, <2>3, <2>5 DEF Shapes
<1>5. FileInv /\ WholeInv /\ ListInv
  BY <1>2, <1>3 DEF FileInv, StoredIsUsed, WholeInv, CacheIsWhole, ListInv
<1>6. SeenInv
  BY <1>3 DEF SeenInv, ListedIsNotDefaulted
<1> QED
  BY <1>4, <1>5, <1>6 DEF IInv

(* The parts of the types, one by one.                                     *)
LEMMA Parts ==
    ASSUME Shapes
    PROVE  /\ kind \in Kinds /\ def \in {"ALLOW", "DENY"}
           /\ boot \in {"down", "open", "retrieve", "store", "ready"}
           /\ pos \in 1 .. Len(Systems) + 1 /\ Len(Systems) \in Nat
           /\ DOMAIN Systems = 1 .. Len(Systems)
           /\ objs \subseteq Routes
           /\ file.is \in {"absent", "torn", "stored"} /\ file.objs \subseteq Routes
           /\ (req.at # "idle" => boot = "ready")
           /\ faults \in 0 .. MaxFaults
           /\ spoilt \subseteq Lists /\ cut \in BOOLEAN
BY SystemsAssumption DEF Shapes, TypeOK

(* And together again, for the next state.                                 *)
LEMMA ShapesAgain ==
    ASSUME kind' \in Kinds, def' \in {"ALLOW", "DENY"},
           list' \in [Lists -> SUBSET Entries],
           boot' \in {"down", "open", "retrieve", "store", "ready"},
           pos' \in 1 .. Len(Systems) + 1,
           objs' \subseteq Routes,
           file' \in [is : {"absent", "torn", "stored"}, objs : SUBSET Routes],
           req' \in Requests, req'.at # "idle" => boot' = "ready",
           faults' \in 0 .. MaxFaults, spoilt' \subseteq Lists, cut' \in BOOLEAN
    PROVE  Shapes'
<1>1. \A l \in Lists : list'[l] \subseteq DOMAIN Matches \cup {Invalid}
  BY DEF Entries
<1>2. file'.is \in {"absent", "torn", "stored"} /\ file'.objs \subseteq Routes
  OBVIOUS
<1>3. req'.at \in Stages
  BY DEF Requests
<1>4. TypeOK'
  BY <1>1, <1>2, <1>3 DEF TypeOK, Stages
<1> QED
  BY <1>4 DEF Shapes

LEMMA FailsAgain ==
    ASSUME Shapes, Fails
    PROVE  faults' \in 0 .. MaxFaults
BY Parts, FaultsAssumption DEF Fails

-----------------------------------------------------------------------------
(* The process dies, and begins.                                           *)

LEMMA DeadIInv ==
    ASSUME IInv, Dead, UNCHANGED file, UNCHANGED made,
           faults' \in 0 .. MaxFaults, cut' \in BOOLEAN, cut => cut'
    PROVE  IInv'
<1>1. Shapes /\ Len(Systems) \in Nat
  BY Parts DEF IInv
<1>2. /\ boot' = "down" /\ pos' = 1 /\ objs' = {} /\ list' = [l \in Lists |-> {}]
      /\ spoilt' = {} /\ file' = file /\ kind' = kind /\ def' = def
  BY DEF Dead, made
<1>3. req' = [at |-> "idle", ip |-> Nobody, ref |-> Nobody, seen |-> {}]
  BY DEF Dead, NoRequest
<1>4. req' \in Requests /\ req'.at = "idle" /\ req'.ref = Nobody
  BY <1>3 DEF Requests, Stages, Places
<1>5. Shapes'
  <2>1. list' \in [Lists -> SUBSET Entries]
    BY <1>2
  <2>2. pos' \in 1 .. Len(Systems) + 1
    BY <1>1, <1>2
  <2>3. /\ file' \in [is : {"absent", "torn", "stored"}, objs : SUBSET Routes]
        /\ kind' \in Kinds /\ def' \in {"ALLOW", "DENY"}
    BY <1>1, <1>2, Parts DEF Shapes
  <2> QED
    BY <1>2, <1>4, <2>1, <2>2, <2>3, ShapesAgain
<1>6. FileInv'
  BY <1>2 DEF FileInv, StoredIsUsed
<1>7. WholeInv'
  <2>1. CacheIsWhole
    BY DEF IInv, WholeInv
  <2>2. CacheIsWhole'
    BY <1>2, <2>1 DEF CacheIsWhole
  <2> QED
    BY <1>2, <2>2 DEF WholeInv
<1>8. ListInv'
  BY <1>2 DEF ListInv
<1>9. SeenInv'
  BY <1>4 DEF SeenInv, ListedIsNotDefaulted
<1> QED
  BY <1>5, <1>6, <1>7, <1>8, <1>9 DEF IInv

LEMMA CrashIInv ==
    ASSUME IInv, Crash
    PROVE  IInv'
<1>1. Dead /\ Fails /\ UNCHANGED file /\ UNCHANGED made /\ cut' = cut
  BY DEF Crash
<1>2. faults' \in 0 .. MaxFaults /\ cut' \in BOOLEAN
  BY <1>1, FailsAgain, Parts DEF IInv
<1> QED
  BY <1>1, <1>2, DeadIInv

(* A usable configuration, loaded, has what every usable one names.        *)
LEMMA UsableKeeps ==
    ASSUME NEW l \in Lists, NEW c \in Configs[l], Usable(l, c)
    PROVE  Constantly(l) \subseteq Matched(Range(c))
BY DEF Constantly

LEMMA StartIInv ==
    ASSUME IInv, Start
    PROVE  IInv'
<1>1. PICK c \in [Lists -> UNION {Configs[l] : l \in Lists}] :
        /\ \A l \in Lists : c[l] \in Configs[l] /\ Usable(l, c[l])
        /\ list' = [l \in Lists |-> IF kind[l] = "nil" THEN {} ELSE Range(c[l])]
  BY Zenon DEF Start
<1>2. /\ boot = "down" /\ boot' = "open" /\ spoilt' = {} /\ pos' = pos /\ objs' = objs
      /\ file' = file /\ req' = req /\ faults' = faults /\ cut' = cut
      /\ kind' = kind /\ def' = def
  BY DEF Start, made
<1>3. Shapes /\ FileInv /\ WholeInv /\ SeenInv
  BY DEF IInv
<1>4. req.at = "idle" /\ req.ref = Nobody
  BY <1>2, <1>3, Parts DEF SeenInv
<1>5. Shapes'
  <2>1. ASSUME NEW l \in Lists PROVE Range(c[l]) \subseteq Entries
    <3>1. c[l] \in Seq(Entries)
      BY <1>1, ConfigsAssumption DEF Entries
    <3> QED
      BY <3>1 DEF Range
  <2>2. list' \in [Lists -> SUBSET Entries]
    BY <1>1, <2>1
  <2> QED
    BY <1>2, <1>3, <1>4, <2>2, Parts, ShapesAgain DEF Shapes
<1>6. FileInv'
  BY <1>2 DEF FileInv, StoredIsUsed
<1>7. WholeInv'
  BY <1>2, <1>3 DEF WholeInv, CacheIsWhole
<1>8. ListInv'
  <2>1. ASSUME NEW l \in Lists, kind[l] = "text" \/ kind[l] = "regexp"
        PROVE  Constantly(l) \subseteq Matched(list'[l])
    BY <1>1, <2>1, UsableKeeps
  <2>2. \A l \in Lists : Constantly(l)' = Constantly(l)
    BY <1>2 DEF Constantly, Usable
  <2> QED
    BY <1>2, <2>1, <2>2 DEF ListInv, KeepsEntries
<1>9. SeenInv'
  BY <1>2, <1>4 DEF SeenInv, ListedIsNotDefaulted
<1> QED
  BY <1>5, <1>6, <1>7, <1>8, <1>9 DEF IInv

-----------------------------------------------------------------------------
(* FBCrawler is made.                                                      *)

LEMMA EndIsOne ==
    ASSUME NEW lines
    PROVE  End(lines) \in {"no", "error", "panic"}
BY DEF End

LEMMA RecordedAreRoutes ==
    ASSUME NEW lines
    PROVE  Recorded(lines) \subseteq Routes
BY DEF Recorded, Begin

(* Nothing but the crawler list changes, and it is not served yet.         *)
LEMMA CrawlerIInv ==
    ASSUME IInv, boot \in {"open", "retrieve", "store"},
           UNCHANGED made, list' = list, req' = req, spoilt' = spoilt,
           boot' \in {"retrieve", "store", "ready"},
           pos' \in 1 .. Len(Systems) + 1, objs' \subseteq Routes,
           file' \in [is : {"absent", "torn", "stored"}, objs : SUBSET Routes],
           faults' \in 0 .. MaxFaults, cut' \in BOOLEAN, FileInv', WholeInv'
    PROVE  IInv'
<1>1. Shapes /\ ListInv /\ SeenInv /\ kind' = kind /\ def' = def
  BY DEF IInv, made
<1>2. req.at = "idle"
  BY <1>1, Parts
<1>3. Shapes'
  BY <1>1, <1>2, Parts, ShapesAgain DEF Shapes
<1>4. ListInv'
  <2>1. \A l \in Lists : KeepsEntries(l)
    BY <1>1 DEF ListInv
  <2>2. \A l \in Lists : KeepsEntries(l)' = KeepsEntries(l)
    BY <1>1 DEF KeepsEntries, Constantly, Usable
  <2> QED
    BY <2>1, <2>2 DEF ListInv
<1>5. SeenInv'
  BY <1>1, <1>2 DEF SeenInv, ListedIsNotDefaulted, Ended
<1> QED
  BY <1>3, <1>4, <1>5 DEF IInv

LEMMA OpenCacheIInv ==
    ASSUME IInv, OpenCache
    PROVE  IInv'
<1>1. Shapes /\ FileInv /\ WholeInv
  BY DEF IInv
<1>2. /\ boot = "open" /\ pos' = 1 /\ list' = list /\ file' = file /\ req' = req
      /\ faults' = faults /\ spoilt' = spoilt /\ cut' = cut /\ UNCHANGED made
      /\ boot' = IF file.is = "stored" THEN "ready" ELSE "retrieve"
      /\ objs' = IF file.is = "stored" THEN file.objs ELSE {}
  BY DEF OpenCache, Decodes
<1>3. pos' \in 1 .. Len(Systems) + 1 /\ objs' \subseteq Routes
  BY <1>1, <1>2, Parts
<1>4. FileInv'
  BY <1>2 DEF FileInv, StoredIsUsed
<1>5. WholeInv'
  <2>1. CacheIsWhole'
    BY <1>1, <1>2 DEF WholeInv, CacheIsWhole
  <2>2. ASSUME boot' = "retrieve", NEW i \in DOMAIN Systems
        PROVE  ~ (i < pos')
    BY <1>1, <1>2, Parts
  <2> QED
    BY <1>2, <2>1, <2>2 DEF WholeInv
<1>6. /\ faults' \in 0 .. MaxFaults /\ cut' \in BOOLEAN
      /\ file' \in [is : {"absent", "torn", "stored"}, objs : SUBSET Routes]
  BY <1>1, <1>2, Parts DEF Shapes
<1> QED
  BY <1>2, <1>3, <1>4, <1>5, <1>6, CrawlerIInv

(* Whatever was sent, cut short or not; what one system published is known *)
(* when a whole answer of it was read to the end.                          *)
LEMMA ParseIInv ==
    ASSUME IInv, NEW lines, Parse(lines),
           faults' \in 0 .. MaxFaults, cut' \in BOOLEAN,
           cut' \/ (cut' = cut /\ lines \in Answers[Systems[pos]])
    PROVE  IInv'
<1>1. Shapes /\ FileInv /\ WholeInv
  BY DEF IInv
<1>2. boot = "retrieve" /\ pos <= Len(Systems) /\ file' = file /\ UNCHANGED made
  BY DEF Parse
<1>3. CASE End(lines) = "panic"
  <2>1. Dead
    BY <1>3 DEF Parse
  <2>2. cut => cut'
    OBVIOUS
  <2> QED
    BY <1>2, <2>1, <2>2, DeadIInv
<1>4. CASE End(lines) # "panic"
  <2>1. /\ objs' = objs \cup Recorded(lines)
        /\ list' = list /\ req' = req /\ spoilt' = spoilt
        /\ IF End(lines) = "error" THEN GiveUp ELSE NextSystem
    BY <1>4 DEF Parse
  <2>2. \/ boot' = "ready" /\ pos' = 1
        \/ boot' = "retrieve" /\ pos' = pos + 1 /\ End(lines) = "no"
    BY <1>2, <1>4, <2>1, EndIsOne DEF GiveUp, NextSystem
  <2>3. pos' \in 1 .. Len(Systems) + 1
    BY <1>1, <1>2, <2>2, Parts
  <2>4. objs' \subseteq Routes
    BY <1>1, <2>1, Parts, RecordedAreRoutes
  <2>5. file.is # "stored"
    BY <1>1, <1>2 DEF FileInv
  <2>6. FileInv'
    BY <1>2, <2>2, <2>5 DEF FileInv, StoredIsUsed
  <2>7. ASSUME ~cut', boot' = "retrieve", NEW i \in DOMAIN Systems, i < pos'
        PROVE  Published(Systems[i]) \subseteq objs'
    <3>1. pos' = pos + 1 /\ End(lines) = "no" /\ lines \in Answers[Systems[pos]] /\ ~cut
      BY <2>2, <2>7
    <3>2. i \in Nat /\ pos \in Nat
      BY <1>1, Parts
    <3>3. i < pos \/ i = pos
      BY <2>7, <3>1, <3>2
    <3>4. CASE i < pos
      BY <1>1, <1>2, <2>1, <3>1, <3>4 DEF WholeInv
    <3>5. CASE i = pos
      BY <2>1, <3>1, <3>5 DEF Published
    <3> QED
      BY <3>3, <3>4, <3>5
  <2>8. WholeInv'
    BY <1>2, <2>2, <2>5, <2>7 DEF WholeInv, CacheIsWhole
  <2>9. file' \in [is : {"absent", "torn", "stored"}, objs : SUBSET Routes]
    BY <1>1, <1>2 DEF Shapes
  <2> QED
    BY <1>2, <2>1, <2>2, <2>3, <2>4, <2>6, <2>8, <2>9, CrawlerIInv
<1> QED
  BY <1>3, <1>4

LEMMA RetrieveIInv ==
    ASSUME IInv, Retrieve \/ RetrieveCut
    PROVE  IInv'
<1>1. Shapes
  BY DEF IInv
<1>2. CASE Retrieve
  <2>1. PICK lines \in Answers[Systems[pos]] : Parse(lines) /\ UNCHANGED <<faults, cut>>
    BY <1>2 DEF Retrieve
  <2>2. faults' \in 0 .. MaxFaults /\ cut' \in BOOLEAN
    BY <1>1, <2>1, Parts
  <2> QED
    BY <2>1, <2>2, ParseIInv
<1>3. CASE RetrieveCut
  <2>1. PICK part : Parse(part)
    BY <1>3 DEF RetrieveCut
  <2>2. faults' \in 0 .. MaxFaults /\ cut' = TRUE
    BY <1>1, <1>3, FailsAgain DEF RetrieveCut
  <2> QED
    BY <2>1, <2>2, ParseIInv
<1> QED
  BY <1>2, <1>3

LEMMA RetrieveFailsIInv ==
    ASSUME IInv, RetrieveFails
    PROVE  IInv'
<1>1. Shapes /\ FileInv /\ WholeInv
  BY DEF IInv
<1>2. /\ boot = "retrieve" /\ boot' = "ready" /\ pos' = 1 /\ UNCHANGED made /\ Fails
      /\ list' = list /\ file' = file /\ req' = req /\ spoilt' = spoilt /\ cut' = cut
  BY DEF RetrieveFails, GiveUp
<1>3. objs' \subseteq Routes
  BY <1>1, Parts, RecordedAreRoutes DEF RetrieveFails
<1>4. /\ pos' \in 1 .. Len(Systems) + 1 /\ faults' \in 0 .. MaxFaults
      /\ cut' \in BOOLEAN
      /\ file' \in [is : {"absent", "torn", "stored"}, objs : SUBSET Routes]
  <2>1. pos' \in 1 .. Len(Systems) + 1
    BY <1>1, <1>2, Parts
  <2> QED
    BY <1>1, <1>2, <2>1, Parts, FailsAgain DEF Shapes
<1>5. FileInv' /\ WholeInv'
  BY <1>1, <1>2 DEF FileInv, StoredIsUsed, WholeInv, CacheIsWhole
<1> QED
  BY <1>2, <1>3, <1>4, <1>5, CrawlerIInv

LEMMA StoreIInv ==
    ASSUME IInv, StoreBegins \/ StoreEnds \/ StoreFails
    PROVE  IInv'
<1>1. Shapes /\ FileInv /\ WholeInv
  BY DEF IInv
<1>2. /\ boot \in {"retrieve", "store"} /\ boot' \in {"store", "ready"}
      /\ pos' = 1 \/ pos' = pos
      /\ objs' = objs /\ list' = list /\ req' = req /\ spoilt' = spoilt /\ cut' = cut
      /\ UNCHANGED made /\ (Fails \/ faults' = faults)
  BY DEF StoreBegins, StoreEnds, StoreFails, storeOnly
<1>3. /\ pos' \in 1 .. Len(Systems) + 1 /\ faults' \in 0 .. MaxFaults
      /\ cut' \in BOOLEAN /\ objs' \subseteq Routes
  <2>1. pos' \in 1 .. Len(Systems) + 1
    BY <1>1, <1>2, Parts
  <2> QED
    BY <1>1, <1>2, <2>1, Parts, FailsAgain
<1>4. file.is # "stored"
  BY <1>1, <1>2 DEF FileInv
<1>5. CASE StoreBegins
  <2>1. /\ pos > Len(Systems) /\ boot = "retrieve" /\ boot' = "store"
        /\ file' = [is |-> "torn", objs |-> {}]
    BY <1>5 DEF StoreBegins, Torn
  <2>2. \A i \in DOMAIN Systems : i < pos
    BY <1>1, <2>1, Parts
  <2>3. FileInv' /\ WholeInv'
    BY <1>1, <1>2, <2>1, <2>2 DEF FileInv, StoredIsUsed, WholeInv, CacheIsWhole
  <2>4. file' \in [is : {"absent", "torn", "stored"}, objs : SUBSET Routes]
    BY <2>1
  <2> QED
    BY <1>2, <1>3, <2>3, <2>4, CrawlerIInv
<1>6. CASE StoreEnds
  <2>1. boot = "store" /\ boot' = "ready" /\ file' = [is |-> "stored", objs |-> objs]
    BY <1>6 DEF StoreEnds
  <2>2. file'.is = "stored" /\ file'.objs = objs
    BY <2>1
  <2>3. FileInv' /\ WholeInv'
    BY <1>1, <1>2, <2>1, <2>2 DEF FileInv, StoredIsUsed, WholeInv, CacheIsWhole
  <2>4. file' \in [is : {"absent", "torn", "stored"}, objs : SUBSET Routes]
    BY <1>1, <2>1, Parts
  <2> QED
    BY <1>2, <1>3, <2>3, <2>4, CrawlerIInv
<1>7. CASE StoreFails
  <2>1. boot' = "ready" /\ file' = file
    BY <1>7 DEF StoreFails
  <2>2. FileInv' /\ WholeInv'
    BY <1>2, <1>4, <2>1 DEF FileInv, StoredIsUsed, WholeInv, CacheIsWhole
  <2>3. file' \in [is : {"absent", "torn", "stored"}, objs : SUBSET Routes]
    BY <1>1, <2>1 DEF Shapes
  <2> QED
    BY <1>2, <1>3, <2>2, <2>3, CrawlerIInv
<1> QED
  BY <1>5, <1>6, <1>7

-----------------------------------------------------------------------------
(* The lists and the requests.                                             *)

(* The crawler list is made and stays as it is.                            *)
LEMMA ServedIInv ==
    ASSUME IInv, boot = "ready", UNCHANGED crawler, UNCHANGED made, faults' = faults,
           list' \in [Lists -> SUBSET Entries], req' \in Requests, spoilt' \subseteq Lists,
           ListInv', SeenInv'
    PROVE  IInv'
<1>1. Shapes /\ FileInv /\ WholeInv
  BY DEF IInv
<1>2. /\ boot' = boot /\ pos' = pos /\ objs' = objs /\ file' = file /\ cut' = cut
      /\ kind' = kind /\ def' = def
  BY DEF crawler, made
<1>3. Shapes'
  BY <1>1, <1>2, Parts, ShapesAgain DEF Shapes
<1>4. FileInv' /\ WholeInv'
  BY <1>1, <1>2 DEF FileInv, StoredIsUsed, WholeInv, CacheIsWhole
<1> QED
  BY <1>3, <1>4 DEF IInv

LEMMA CompiledIsRange ==
    ASSUME NEW c \in Seq(Entries), Invalid \notin Range(c)
    PROVE  Compiled(c) = Range(c)
BY DEF Compiled, Range

LEMMA LoadedEntries ==
    ASSUME NEW l \in Lists, NEW c \in Configs[l], list[l] \subseteq Entries
    PROVE  Loaded(l, c) \subseteq Entries
<1>1. c \in Seq(Entries)
  BY ConfigsAssumption DEF Entries
<1>2. \A k \in DOMAIN c : c[k] \in Entries
  BY <1>1
<1>3. Range(c) \subseteq Entries /\ Compiled(c) \subseteq Entries
  BY <1>2 DEF Range, Compiled
<1> QED
  BY <1>3 DEF Loaded

(* What Update makes of a list that kept its entries.                      *)
LEMMA LoadedKeeps ==
    ASSUME NEW l \in Lists, NEW c \in Configs[l], kind[l] \in {"text", "regexp"},
           KeepsEntries(l), kind[l] = "text" \/ Usable(l, c)
    PROVE  Constantly(l) \subseteq Matched(Loaded(l, c))
<1>1. c \in Seq(Entries)
  BY ConfigsAssumption DEF Entries
<1>2. CASE kind[l] = "text" /\ c = <<>>
  BY <1>2 DEF Loaded, KeepsEntries
<1>3. CASE kind[l] = "text" /\ c # <<>>
  <2>1. Usable(l, c) /\ Loaded(l, c) = Range(c)
    BY <1>3 DEF Usable, Loaded
  <2> QED
    BY <2>1, UsableKeeps
<1>4. CASE kind[l] = "regexp"
  <2>1. Usable(l, c) /\ Invalid \notin Range(c)
    BY <1>4 DEF Usable
  <2>2. Loaded(l, c) = Range(c)
    BY <1>1, <1>4, <2>1, CompiledIsRange DEF Loaded
  <2> QED
    BY <2>1, <2>2, UsableKeeps
<1> QED
  BY <1>2, <1>3, <1>4

LEMMA ListedPlace ==
    ASSUME NEW lists, NEW ref
    PROVE  Listed(lists, ref) \in Places
BY DEF Listed, Places

LEMMA UpdateIInv ==
    ASSUME IInv, NEW l \in Lists, Update(l)
    PROVE  IInv'
<1>1. Shapes /\ ListInv /\ SeenInv /\ req \in Requests /\ list \in [Lists -> SUBSET Entries]
  BY DEF IInv, Shapes
<1>2. PICK c \in Configs[l] :
        /\ list' = [list EXCEPT ![l] = Loaded(l, c)]
        /\ spoilt' = IF Usable(l, c) THEN spoilt \ {l} ELSE spoilt \cup {l}
  BY DEF Update
<1>3. /\ boot = "ready" /\ boot' = boot /\ kind' = kind /\ kind[l] # "nil"
      /\ faults' = faults /\ UNCHANGED crawler /\ UNCHANGED made
  BY DEF Update, crawler, made
<1>4. list[l] \subseteq Entries /\ list'[l] = Loaded(l, c)
      /\ \A k \in Lists \ {l} : list'[k] = list[k]
  BY <1>1, <1>2
<1>5. list' \in [Lists -> SUBSET Entries] /\ spoilt' \subseteq Lists
  <2>1. Loaded(l, c) \in SUBSET Entries
    BY <1>4, LoadedEntries
  <2>2. spoilt \subseteq Lists
    BY <1>1, Parts
  <2> QED
    BY <1>1, <1>2, <2>1, <2>2
<1>6. ListInv'
  <2>1. \A k \in Lists : Constantly(k)' = Constantly(k)
    BY <1>3 DEF Constantly, Usable
  <2>2. \A k \in Lists : KeepsEntries(k)
    BY <1>1, <1>3 DEF ListInv
  <2>3. ASSUME NEW k \in Lists \ {l},
               kind[k] = "text" \/ (kind[k] = "regexp" /\ k \notin spoilt')
        PROVE  Constantly(k) \subseteq Matched(list'[k])
    <3>1. k \in spoilt <=> k \in spoilt'
      BY <1>2, <2>3
    <3> QED
      BY <1>4, <2>2, <2>3, <3>1 DEF KeepsEntries
  <2>4. ASSUME kind[l] = "text" \/ (kind[l] = "regexp" /\ l \notin spoilt')
        PROVE  Constantly(l) \subseteq Matched(list'[l])
    <3>1. kind[l] = "text" \/ Usable(l, c)
      BY <1>2, <2>4
    <3> QED
      BY <1>4, <2>2, <2>4, <3>1, LoadedKeeps
  <2>5. \A k \in Lists : KeepsEntries(k)'
    <3> SUFFICES ASSUME NEW k \in Lists,
                        kind'[k] = "text" \/ (kind'[k] = "regexp" /\ k \notin spoilt')
                 PROVE  Constantly(k)' \subseteq Matched(list'[k])
      BY DEF KeepsEntries
    <3>1. kind[k] = "text" \/ (kind[k] = "regexp" /\ k \notin spoilt')
      BY <1>3
    <3> QED
      BY <2>1, <2>3, <2>4, <3>1
  <2> QED
    BY <2>5 DEF ListInv
<1>7. req' \in Requests /\ SeenInv'
  <2>1. CASE req.ref = Nobody \/ Ended
    <3>1. req' = req
      BY <2>1 DEF Update
    <3> QED
      BY <1>1, <2>1, <3>1 DEF SeenInv, ListedIsNotDefaulted, Ended
  <2>2. CASE ~ (req.ref = Nobody \/ Ended)
    <3>1. req' = [req EXCEPT !.seen = @ \cup {Listed(list', req.ref)}]
      BY <2>2 DEF Update
    <3>2. Listed(list', req.ref) \in Places
      BY ListedPlace
    <3>3. /\ req'.at = req.at /\ req'.ref = req.ref
          /\ req'.seen = req.seen \cup {Listed(list', req.ref)}
      BY <1>1, <3>1 DEF Requests
    <3>4. req' \in Requests
      <4>1. req.seen \cup {Listed(list', req.ref)} \in SUBSET Places
        BY <1>1, <3>2 DEF Requests
      <4> QED
        BY <1>1, <3>1, <4>1 DEF Requests
    <3>5. SeenInv'
      BY <1>1, <3>3 DEF SeenInv, ListedIsNotDefaulted, Ended
    <3> QED
      BY <3>4, <3>5
  <2> QED
    BY <2>1, <2>2
<1> QED
  BY <1>3, <1>5, <1>6, <1>7, ServedIInv

(* Of the lists nothing changes.                                           *)
LEMMA RequestIInv ==
    ASSUME IInv, boot = "ready", UNCHANGED requestOnly, UNCHANGED crawler, UNCHANGED made,
           req' \in Requests, SeenInv'
    PROVE  IInv'
<1>1. Shapes /\ ListInv
  BY DEF IInv
<1>2. list' = list /\ faults' = faults /\ spoilt' = spoilt /\ kind' = kind /\ boot' = boot
  BY DEF requestOnly, crawler, made
<1>3. ListInv'
  <2>1. \A l \in Lists : KeepsEntries(l)
    BY <1>1, <1>2 DEF ListInv
  <2>2. \A l \in Lists : KeepsEntries(l)' = KeepsEntries(l)
    BY <1>2 DEF KeepsEntries, Constantly, Usable
  <2> QED
    BY <2>1, <2>2 DEF ListInv
<1>4. list' \in [Lists -> SUBSET Entries] /\ spoilt' \subseteq Lists
  BY <1>1, <1>2, Parts DEF Shapes
<1> QED
  BY <1>2, <1>3, <1>4, ServedIInv

LEMMA ArriveIInv ==
    ASSUME IInv, NEW mw, NEW ip \in Ips \cup {Nobody}, NEW ref \in Refs \cup {Nobody},
           Arrive(mw, ip, ref), mw = "IPBlock" => ref = Nobody
    PROVE  IInv'
<1>1. PICK at \in {"block", "default", "allowed"} :
        /\ at = IF mw = "IPBlock" THEN "block" ELSE IF ref = Nobody THEN "default" ELSE "allowed"
        /\ req' = [at |-> at, ip |-> ip, ref |-> ref,
                   seen |-> IF ref = Nobody THEN {} ELSE {Listed(list, ref)}]
  BY DEF Arrive
<1>2. /\ boot = "ready" /\ UNCHANGED requestOnly /\ UNCHANGED crawler /\ UNCHANGED made
      /\ list' = list
  BY DEF Arrive, requestOnly
<1>3. Listed(list, ref) \in Places
  BY ListedPlace
<1>4. req' \in Requests
  BY <1>1, <1>3 DEF Requests, Stages
<1>5. /\ req'.at = at /\ req'.ref = ref
      /\ req'.seen = IF ref = Nobody THEN {} ELSE {Listed(list, ref)}
  BY <1>1
<1>6. SeenInv'
  BY <1>1, <1>2, <1>5 DEF SeenInv, ListedIsNotDefaulted
<1> QED
  BY <1>2, <1>4, <1>6, RequestIInv

(* A request goes on to a stage at which it need not have seen anything.   *)
LEMMA GoesIInv ==
    ASSUME IInv, NEW step \in Stages \ {"idle"}, Goes(step), req.at # "idle",
           step \in {"allowed", "deny", "isFB"} => req.ref # Nobody,
           step = "default" /\ req.ref # Nobody =>
             "neither" \in req.seen \/ {"allowed", "denied"} \subseteq req.seen,
           step = "deny" => req.seen \cap {"denied", "neither"} # {},
           step \in {"passed", "denied"} \/ ~Ended
    PROVE  IInv'
<1>1. Shapes /\ SeenInv /\ req \in Requests
  BY DEF IInv, Shapes
<1>2. boot = "ready"
  BY <1>1, Parts
<1>3. /\ req' = [req EXCEPT !.at = step] /\ list' = list
      /\ UNCHANGED requestOnly /\ UNCHANGED crawler /\ UNCHANGED made
  BY DEF Goes, requestOnly
<1>4. req' \in Requests /\ req'.at = step /\ req'.ref = req.ref /\ req'.seen = req.seen
  BY <1>1, <1>3 DEF Requests
<1>5. SeenInv'
  BY <1>1, <1>3, <1>4 DEF SeenInv, ListedIsNotDefaulted, Ended
<1> QED
  BY <1>2, <1>3, <1>4, <1>5, RequestIInv

(* Not on the one list and, at another moment, not on the other.           *)
LEMMA LookIInv ==
    ASSUME IInv, LookAllowed \/ LookDenied
    PROVE  IInv'
<1>1. SeenInv /\ \A l \in {"allowed", "deny"} : Exist(l, req.ref) <=> req.ref \in Matched(list[l])
  BY DEF IInv, Exist
<1>2. CASE LookAllowed
  <2>1. req.at = "allowed"
    BY <1>2 DEF LookAllowed
  <2>2. req.ref # Nobody /\ Listed(list, req.ref) \in req.seen
    BY <1>1, <2>1 DEF SeenInv, Ended
  <2>3. CASE Exist("allowed", req.ref)
    BY <1>2, <2>1, <2>3, GoesIInv DEF LookAllowed, Stages
  <2>4. CASE ~ Exist("allowed", req.ref)
    <3>1. Listed(list, req.ref) \in {"denied", "neither"}
      BY <1>1, <2>4 DEF Listed
    <3>2. Goes("deny") /\ "deny" \in Stages \ {"idle"}
      BY <1>2, <2>4 DEF LookAllowed, Stages
    <3>3. ~Ended
      BY <2>1 DEF Ended
    <3> QED
      BY <2>1, <2>2, <3>1, <3>2, <3>3, GoesIInv
  <2> QED
    BY <2>3, <2>4
<1>3. CASE LookDenied
  <2>1. req.at = "deny" /\ ListOf("deny") = "deny"
    BY <1>3 DEF LookDenied, ListOf
  <2>2. /\ req.ref # Nobody /\ Listed(list, req.ref) \in req.seen
        /\ req.seen \cap {"denied", "neither"} # {}
    BY <1>1, <2>1 DEF SeenInv, Ended
  <2>3. ~Ended
    BY <2>1 DEF Ended
  <2>4. CASE Exist("deny", req.ref)
    <3>1. Goes("isFB") /\ "isFB" \in Stages \ {"idle"}
      BY <1>3, <2>1, <2>4 DEF LookDenied, Stages
    <3> QED
      BY <2>1, <2>2, <2>3, <3>1, GoesIInv
  <2>5. CASE ~ Exist("deny", req.ref)
    <3>1. Listed(list, req.ref) \in {"allowed", "neither"}
      BY <1>1, <2>5 DEF Listed
    <3>2. "neither" \in req.seen \/ {"allowed", "denied"} \subseteq req.seen
      BY <2>2, <3>1
    <3>3. Goes("default") /\ "default" \in Stages \ {"idle"}
      BY <1>3, <2>1, <2>5 DEF LookDenied, Stages
    <3> QED
      BY <2>1, <2>2, <2>3, <3>2, <3>3, GoesIInv
  <2> QED
    BY <2>4, <2>5
<1> QED
  BY <1>2, <1>3

LEMMA EndIInv ==
    ASSUME IInv, IPBlock \/ IsFB \/ Default
    PROVE  IInv'
<1>1. req.at # "idle"
  BY DEF IPBlock, IsFB, Default
<1>2. PICK step \in {"passed", "denied"} : Goes(step)
  BY DEF IPBlock, IsFB, Default
<1> QED
  BY <1>1, <1>2, GoesIInv DEF Stages

-----------------------------------------------------------------------------
LEMMA NextIInv ==
    ASSUME IInv, [Next]_vars
    PROVE  IInv'
<1>1. CASE Start
  BY <1>1, StartIInv
<1>2. CASE Crawler
  BY <1>2, OpenCacheIInv, RetrieveIInv, RetrieveFailsIInv, StoreIInv DEF Crawler
<1>3. CASE Crash
  BY <1>3, CrashIInv
<1>4. CASE \E l \in Lists : Update(l)
  BY <1>4, UpdateIInv
<1>5. CASE Serve
  <2>1. ASSUME NEW ip \in Ips \cup {Nobody}, Arrive("IPBlock", ip, Nobody) PROVE IInv'
    BY <2>1, ArriveIInv
  <2>2. ASSUME NEW ip \in Ips \cup {Nobody}, NEW ref \in Refs \cup {Nobody},
               Arrive("Referrer", ip, ref)
        PROVE  IInv'
    BY <2>2, ArriveIInv
  <2> QED
    BY <1>5, <2>1, <2>2, LookIInv, EndIInv DEF Serve
<1>6. CASE UNCHANGED vars
  <2>1. /\ kind' = kind /\ def' = def /\ list' = list /\ boot' = boot /\ pos' = pos
        /\ objs' = objs /\ file' = file /\ req' = req /\ faults' = faults
        /\ spoilt' = spoilt /\ cut' = cut
    BY <1>6 DEF vars
  <2>2. Shapes' /\ FileInv' /\ WholeInv' /\ SeenInv'
    BY <2>1 DEF IInv, Shapes, TypeOK, FileInv, StoredIsUsed, WholeInv, CacheIsWhole,
                SeenInv, ListedIsNotDefaulted, Ended
  <2>3. ListInv'
    BY <2>1 DEF IInv, ListInv, KeepsEntries, Constantly, Usable
  <2> QED
    BY <2>2, <2>3 DEF IInv
<1> QED
  BY <1>1, <1>2, <1>3, <1>4, <1>5, <1>6 DEF Next

LEMMA Inductive == Spec => []IInv
BY InitIInv, NextIInv, PTL DEF Spec

(* Types; nothing is served before FBCrawler is made, and only the routes  *)
(* of answers are in it.                                                   *)
THEOREM TypeCorrect == Spec => []TypeOK
<1>1. IInv => TypeOK
  BY DEF IInv, Shapes
<1> QED
  BY <1>1, Inductive, PTL

(* Whatever Update reads, and in whichever order (list/list.go): what every*)
(* usable configuration names is on a text list always, and on a list of   *)
(* expressions unless the last configuration it read was unusable.         *)
THEOREM EntriesAreKept == Spec => []ListsKeepEntries
<1>1. IInv => ListsKeepEntries
  BY DEF IInv, ListInv, KeepsEntries, ListsKeepEntries
<1> QED
  BY <1>1, Inductive, PTL

(* Between the two looks of Referrer the lists may be updated any number of*)
(* times: the default rule decides only on a referrer that at some moment  *)
(* was on neither list, or that moved from the one to the other.           *)
THEOREM ListedAreNotDefaulted == Spec => []ListedIsNotDefaulted
<1>1. IInv => ListedIsNotDefaulted
  BY DEF IInv, SeenInv
<1> QED
  BY <1>1, Inductive, PTL

(* After any failures, crashes and restarts, and whatever the whois server *)
(* answers: a cache file that decodes has every route that is in all whole *)
(* answers for a system of FBCrawler, unless an answer was cut short.      *)
THEOREM StoredIsWhole == Spec => []CacheIsWhole
<1>1. IInv => CacheIsWhole
  BY DEF IInv, WholeInv
<1> QED
  BY <1>1, Inductive, PTL

(* What the process uses is what the cache file has, once there is one: a  *)
(* fetch that failed half way is never mixed with it (init, retrieve,      *)
(* store).                                                                 *)
THEOREM StoredAreUsed == Spec => []StoredIsUsed
<1>1. IInv => StoredIsUsed
  BY DEF IInv, FileInv
<1> QED
  BY <1>1, Inductive, PTL
=============================================================================
