------------------------------- MODULE Access -------------------------------
(***************************************************************************)
(* The middlewares that let requests in or refuse them: IPBlock and        *)
(* Referrer (middlewares/iplists, router/ipblock.go) over lists that are   *)
(* read again from the configuration (list/list.go), and the crawler list  *)
(* FBCrawler, which is fetched from a whois server or read from its cache  *)
(* file when the process starts.                                           *)
(*                                                                         *)
(* Each call of a list or of FBCrawler holds the lock of that list, and is *)
(* one action; a request makes several.  The order of the entries of a     *)
(* list is not kept: Exist answers the same.                               *)
(***************************************************************************)
EXTENDS Naturals, Sequences, Functions

CONSTANTS
    Ips, Refs, Nobody,  \* addresses and referrers; a request without one
    Matches,            \* what each entry of a list matches
    Invalid,            \* an entry that is no regular expression
    Configs,            \* what the configuration may hold for each list;
                        \* <<>> when it cannot be read
    Kinds,              \* how the lists may be made: "text", "regexp", "nil"
    Systems,            \* fbc.AS, in order
    Answers,            \* the lines the whois server may send for each
    Routes,
    Covers,             \* the addresses of each route
    MaxFaults           \* failures and crashes in a behaviour

Lists == {"blocked", "allowed", "deny"}

ASSUME SystemsAssumption == Systems \in Seq(DOMAIN Answers)
ASSUME ConfigsAssumption ==
    Configs \in [Lists -> SUBSET Seq(DOMAIN Matches \cup {Invalid})]
ASSUME NobodyAssumption == Nobody \notin Ips \cup Refs
ASSUME KindsAssumption == Kinds \subseteq [Lists -> {"text", "regexp", "nil"}]
ASSUME FaultsAssumption == MaxFaults \in Nat

VARIABLES
    kind, def,      \* how the lists were made; the default rule
    list,           \* the entries of each list
    boot, pos,      \* FBCrawler.init: where it is; the next of fbc.AS
    objs, file,     \* fbc.objs; the cache file
    req,            \* a request
    faults,
    spoilt,         \* ghost: lists whose last Update read no usable list
    cut             \* ghost: an answer ended early

made == <<kind, def>>
crawler == <<boot, pos, objs, file, cut>>
vars == <<kind, def, list, boot, pos, objs, file, req, faults, spoilt, cut>>

NoRequest == [at |-> "idle", ip |-> Nobody, ref |-> Nobody, seen |-> {}]
NoFile == [is |-> "absent", objs |-> {}]
Torn == [is |-> "torn", objs |-> {}]

Init ==
    /\ kind \in Kinds /\ def \in {"ALLOW", "DENY"}
    /\ list = [l \in Lists |-> {}]
    /\ boot = "down" /\ pos = 1
    /\ objs = {} /\ file = NoFile
    /\ req = NoRequest
    /\ faults = 0 /\ spoilt = {} /\ cut = FALSE

Fails == faults < MaxFaults /\ faults' = faults + 1

-----------------------------------------------------------------------------
(* Lists *)

Usable(l, c) == c # <<>> /\ (kind[l] = "regexp" => Invalid \notin Range(c))

(* Update: a text list stays as it is when the configuration cannot be     *)
(* read; a list of expressions is emptied first and filled up to the first *)
(* one that does not compile.  Variant: the text list is emptied, too.     *)
Compiled(c) == {c[i] : i \in {k \in DOMAIN c : \A j \in 1 .. k : c[j] # Invalid}}
LoadedAnyway(l, c) == IF kind[l] = "text" THEN Range(c) ELSE Compiled(c)
Loaded(l, c) ==
    IF kind[l] = "text" THEN (IF c = <<>> THEN list[l] ELSE Range(c)) ELSE Compiled(c)

Matched(entries) == UNION {Matches[e] : e \in entries}
Exist(l, x) == x \in Matched(list[l])

-----------------------------------------------------------------------------
(* FBCrawler *)

(* parse: a record begins with its route and is put into objs by the blank *)
(* line after it.  A bad route, or "No entries found", is an error; an     *)
(* attribute or a blank line before any route is a nil pointer.  Variant:  *)
(* a record begins with any line that is not blank.                        *)
BeginAny(lines) == {i \in DOMAIN lines : lines[i] # "blank"}
Begin(lines) == {i \in DOMAIN lines : lines[i] \in Routes}
Bad(lines) == {i \in DOMAIN lines : lines[i] \in {"bad route", "No entries found"}}
Orphans(lines) ==
    {i \in DOMAIN lines :
        lines[i] \in {"attribute", "blank"} /\ \A h \in Begin(lines) : h > i}
Stops(lines) == Bad(lines) \cup Orphans(lines)

(* Line i is the blank one at which the record that begins at h is stored. *)
Ends(lines, h, i) ==
    /\ lines[i] = "blank"
    /\ h < i /\ \A g \in Begin(lines) : g <= h \/ g > i
    /\ \A s \in Stops(lines) : s > i
Recorded(lines) ==
    {lines[h] : h \in {g \in Begin(lines) : \E i \in DOMAIN lines : Ends(lines, g, i)}}
End(lines) ==
    CASE Stops(lines) = {} -> "no"
      [] \E i \in Bad(lines) : \A s \in Stops(lines) : i <= s -> "error"
      [] OTHER -> "panic"

HaveIP(ip) == \E r \in objs : ip \in Covers[r]

(* The constructors of the lists want a usable configuration.              *)
Start ==
    /\ boot = "down"
    /\ \E c \in [Lists -> UNION {Configs[l] : l \in Lists}] :
        /\ \A l \in Lists : c[l] \in Configs[l] /\ Usable(l, c[l])
        /\ list' = [l \in Lists |-> IF kind[l] = "nil" THEN {} ELSE Range(c[l])]
    /\ boot' = "open"
    /\ spoilt' = {}
    /\ UNCHANGED <<pos, objs, file, req, faults, cut>> /\ UNCHANGED made

(* init: the cache file, if it can be decoded.  Variant: it is fetched     *)
(* anew every time.                                                        *)
Undecoded == FALSE
Decodes == file.is = "stored"
OpenCache ==
    /\ boot = "open"
    /\ boot' = IF Decodes THEN "ready" ELSE "retrieve"
    /\ objs' = IF Decodes THEN file.objs ELSE {}
    /\ pos' = 1
    /\ UNCHANGED <<list, file, req, faults, spoilt, cut>> /\ UNCHANGED made

(* retrieve, one system at a time.  An error in parse ends it; init only   *)
(* logs that, and what was parsed stays.  Variant: the other systems are   *)
(* asked all the same.  An answer that ends early is taken for a whole     *)
(* one, a line that was cut for a bad one.                                 *)
NextSystem == boot' = boot /\ pos' = pos + 1
GiveUp == boot' = "ready" /\ pos' = 1
CutShort(lines) ==
    UNION {{SubSeq(lines, 1, k), Append(SubSeq(lines, 1, k), "bad route")} :
            k \in 0 .. Len(lines) - 1}
Dead ==
    /\ boot' = "down" /\ pos' = 1 /\ objs' = {}
    /\ req' = NoRequest /\ list' = [l \in Lists |-> {}] /\ spoilt' = {}
Parse(lines) ==
    /\ boot = "retrieve" /\ pos <= Len(Systems)
    /\ IF End(lines) = "panic" THEN Dead
       ELSE /\ objs' = objs \cup Recorded(lines)
            /\ IF End(lines) = "error" THEN GiveUp ELSE NextSystem
            /\ UNCHANGED <<list, req, spoilt>>
    /\ UNCHANGED file /\ UNCHANGED made
Retrieve ==
    \E lines \in Answers[Systems[pos]] : Parse(lines) /\ UNCHANGED <<faults, cut>>
RetrieveCut ==
    /\ Fails
    /\ cut' = TRUE
    /\ \E lines \in Answers[Systems[pos]] : \E part \in CutShort(lines) : Parse(part)

(* An error in the connection ends it, too.                                *)
RetrieveFails ==
    /\ boot = "retrieve" /\ pos <= Len(Systems)
    /\ Fails
    /\ GiveUp
    /\ \/ UNCHANGED objs
       \/ \E lines \in Answers[Systems[pos]] :
            End(lines) = "no" /\ objs' = objs \cup Recorded(lines)
    /\ UNCHANGED <<list, file, req, spoilt, cut>> /\ UNCHANGED made

(* store, over a file that is absent or torn: what may be left of it after *)
(* the new value is not decoded.                                           *)
storeOnly == <<objs, list, req, spoilt, cut>>
StoreBegins ==
    /\ boot = "retrieve" /\ pos > Len(Systems)
    /\ boot' = "store" /\ pos' = 1
    /\ file' = Torn
    /\ UNCHANGED faults /\ UNCHANGED storeOnly /\ UNCHANGED made
StoreEnds ==
    /\ boot = "store"
    /\ boot' = "ready"
    /\ file' = [is |-> "stored", objs |-> objs]
    /\ UNCHANGED <<pos, faults>> /\ UNCHANGED storeOnly /\ UNCHANGED made
StoreFails ==
    /\ boot = "store" \/ (boot = "retrieve" /\ pos > Len(Systems))
    /\ Fails
    /\ boot' = "ready" /\ pos' = 1
    /\ UNCHANGED file /\ UNCHANGED storeOnly /\ UNCHANGED made

Crash ==
    /\ boot # "down"
    /\ Fails
    /\ Dead
    /\ UNCHANGED <<file, cut>> /\ UNCHANGED made

-----------------------------------------------------------------------------
(* Requests *)

(* Where a referrer is listed (Referrer looks at allowed first).           *)
Listed(lists, ref) ==
    CASE ref \in Matched(lists["allowed"]) -> "allowed"
      [] ref \in Matched(lists["deny"]) -> "denied"
      [] OTHER -> "neither"
Ended == req.at \in {"passed", "denied"}

Update(l) ==
    /\ boot = "ready" /\ kind[l] # "nil"
    /\ \E c \in Configs[l] :
        /\ list' = [list EXCEPT ![l] = Loaded(l, c)]
        /\ spoilt' = IF Usable(l, c) THEN spoilt \ {l} ELSE spoilt \cup {l}
    /\ req' = IF req.ref = Nobody \/ Ended THEN req
              ELSE [req EXCEPT !.seen = @ \cup {Listed(list', req.ref)}]
    /\ UNCHANGED faults /\ UNCHANGED crawler /\ UNCHANGED made

requestOnly == <<list, faults, spoilt>>
Goes(step) ==
    /\ req' = [req EXCEPT !.at = step]
    /\ UNCHANGED requestOnly /\ UNCHANGED crawler /\ UNCHANGED made

Arrive(mw, ip, ref) ==
    /\ boot = "ready"
    /\ req.at = "idle" \/ Ended
    /\ req' = [at |-> IF mw = "IPBlock" THEN "block"
                      ELSE IF ref = Nobody THEN "default" ELSE "allowed",
               ip |-> ip, ref |-> ref,
               seen |-> IF ref = Nobody THEN {} ELSE {Listed(list, ref)}]
    /\ UNCHANGED requestOnly /\ UNCHANGED crawler /\ UNCHANGED made

(* IPBlock, which both packages have: refused without a list, too.         *)
NotBlocked == req.ip # Nobody /\ kind["blocked"] # "nil" /\ ~Exist("blocked", req.ip)
IPBlock ==
    /\ req.at = "block"
    /\ Goes(IF NotBlocked THEN "passed" ELSE "denied")

(* Referrer: the allowed list, then the denied one, then the default rule. *)
(* Variant: the one list is looked at in place of the other.               *)
OtherList(l) == IF l = "deny" THEN "allowed" ELSE "deny"
ListOf(l) == l
LookAllowed ==
    /\ req.at = "allowed"
    /\ Goes(IF Exist("allowed", req.ref) THEN "passed" ELSE "deny")
LookDenied ==
    /\ req.at = "deny"
    /\ Goes(IF Exist(ListOf("deny"), req.ref) THEN "isFB" ELSE "default")
(* isFB: the name may have any address, or none.                           *)
IsFB ==
    /\ req.at = "isFB"
    /\ \E ip \in Ips \cup {Nobody} :
        Goes(IF ip # Nobody /\ HaveIP(ip) THEN "passed" ELSE "denied")
Default ==
    /\ req.at = "default"
    /\ Goes(IF def = "ALLOW" \/ (req.ip # Nobody /\ HaveIP(req.ip))
            THEN "passed" ELSE "denied")

-----------------------------------------------------------------------------
Crawler ==
    \/ OpenCache \/ (pos <= Len(Systems) /\ (Retrieve \/ RetrieveCut))
    \/ RetrieveFails \/ StoreBegins \/ StoreEnds \/ StoreFails
Serve ==
    \/ \E ip \in Ips \cup {Nobody} :
        \/ Arrive("IPBlock", ip, Nobody)
        \/ \E ref \in Refs \cup {Nobody} : Arrive("Referrer", ip, ref)
    \/ IPBlock \/ LookAllowed \/ LookDenied \/ IsFB \/ Default
Next ==
    \/ Start \/ Crawler \/ Crash
    \/ \E l \in Lists : Update(l)
    \/ Serve

Spec == Init /\ [][Next]_vars

-----------------------------------------------------------------------------
(* Properties *)

(* Types; nothing is served before FBCrawler is made, and only the routes  *)
(* of answers are in it.                                                   *)
TypeOK ==
    /\ kind \in Kinds /\ def \in {"ALLOW", "DENY"}
    /\ \A l \in Lists : list[l] \subseteq DOMAIN Matches \cup {Invalid}
    /\ boot \in {"down", "open", "retrieve", "store", "ready"}
    /\ pos \in 1 .. Len(Systems) + 1
    /\ objs \subseteq Routes
    /\ file.is \in {"absent", "torn", "stored"} /\ file.objs \subseteq Routes
    /\ req.at \in {"idle", "block", "allowed", "deny", "isFB", "default", "passed", "denied"}
    /\ req.at # "idle" => boot = "ready"
    /\ faults \in 0 .. MaxFaults
    /\ spoilt \subseteq Lists /\ cut \in BOOLEAN

(* What every usable configuration names is on the list, whatever was read *)
(* in between.  A text list outlives a configuration that cannot be read;  *)
(* a list of expressions that read one is emptied or cut short until the   *)
(* next Update, and IPBlock lets everybody in meanwhile.                   *)
Constantly(l) ==
    {x \in Ips \cup Refs : \A c \in Configs[l] : Usable(l, c) => x \in Matched(Range(c))}
ListsKeepEntries ==
    boot = "ready" => \A l \in Lists :
        kind[l] = "text" \/ (kind[l] = "regexp" /\ l \notin spoilt) =>
            Constantly(l) \subseteq Matched(list[l])

(* The default rule decides on no referrer that was listed throughout its  *)
(* request, though the two lists are looked at one after the other and are *)
(* updated in between; only one that moved from the one list to the other  *)
(* can slip between the two looks.                                         *)
ListedIsNotDefaulted ==
    req.at = "default" /\ req.ref # Nobody =>
        "neither" \in req.seen \/ {"allowed", "denied"} \subseteq req.seen

(* A cache file that can be decoded has the routes of every system, after  *)
(* any failures, crashes and restarts: retrieve stores only when all of it *)
(* went well, and store writes over no file that could be decoded.  The    *)
(* exception is an answer that ended early, which nothing tells from a     *)
(* whole one.                                                              *)
Published(as) ==
    {r \in Routes : \A lines \in Answers[as] : End(lines) = "no" => r \in Recorded(lines)}
CacheIsWhole ==
    file.is = "stored" /\ ~cut =>
        \A i \in DOMAIN Systems : Published(Systems[i]) \subseteq file.objs

(* A crawler that the stored list has is known to every process that is    *)
(* started later, and no other is: what one process knew from a fetch that *)
(* failed half way is never mixed with it (init, retrieve, store).         *)
StoredIsUsed ==
    boot = "ready" /\ file.is = "stored" => objs = file.objs
=============================================================================
