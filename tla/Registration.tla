--------------------------- MODULE Registration ---------------------------
(***************************************************************************)
(* How applications put their routes into the proxy: the client            *)
(* (client/client.go) posts a route to the proxy's internal endpoint       *)
(* (router/router.go, addRoute and Add) and serves it locally; a goroutine *)
(* of the client posts every remembered route again each minute, which     *)
(* repairs a proxy that was restarted or has taken an address off a list.  *)
(*                                                                         *)
(* The method of a route is left out: it only makes more keys.  A client   *)
(* is its own address.  httprouter (external) is a set of routes per       *)
(* router with the answers of Lookup and the panics of Handle.             *)
(***************************************************************************)
EXTENDS Pool, FiniteSets

CONSTANTS
    Clients,        \* application servers; also their addresses
    Paths,          \* paths they register
    NoPath,
    Routers,        \* routers the proxy has, the default among them
    Default,        \* "_def_"
    Named,          \* [Clients -> names]: the router name each client sends
    Covers,         \* <<q, p>>: wildcard route q also answers for p
    Twins,          \* <<q, p>>: p is q with the other trailing slash
    Invalid,        \* <<c, p>>: the add fails the validation (names, path, URL)
    MaxFaults       \* crashes, lost messages and removals in a behaviour

ASSUME RoutersAssumption == Default \in Routers
ASSUME PathsAssumption == NoPath \notin Paths /\ Invalid \subseteq Clients \X Paths
ASSUME FaultsAssumption == MaxFaults \in Nat

VARIABLES
    \* the proxy
    up,             \* it runs
    tree,           \* registered routes: <<router, path>>
    keys, pool,     \* the balancer: keys with a list, and the lists
    hand,           \* the add request of each client that the proxy handles
    \* the clients
    lck,            \* who holds r.lck: "free", "app" or "loop"
    phase,          \* what the holder does: "idle", "post" or "wait"
    cur,            \* the path it registers
    todo,           \* the routes the loop has still to visit
    local,          \* paths the client's own router handles
    routes,         \* paths it remembers for the loop
    \* the environment
    faults          \* faults so far

proxyVars == <<up, tree, keys, pool, hand>>
clientVars == <<lck, phase, cur, todo, local, routes>>
vars == <<up, tree, keys, pool, hand, lck, phase, cur, todo, local, routes, faults>>

-----------------------------------------------------------------------------
(* Helpers *)

Created == 201
Unprocessable == 422

NoHand == [at |-> "none", path |-> NoPath, code |-> 0]

(* Routers.Get: an unknown name means the default router.                  *)
RouterOf(c) == IF Named[c] \in Routers THEN Named[c] ELSE Default

(* router.Lookup: a handler answers for p, or p with the other trailing    *)
(* slash has one (redir).                                                  *)
Handles(r, p) == \E q \in Paths : <<r, q>> \in tree /\ (q = p \/ <<q, p>> \in Covers)
Redirects(r, p) == \E q \in Paths : <<q, p>> \in Twins /\ Handles(r, q)

(* Handle panics for a route that is registered or overlaps a wildcard.    *)
Conflicts(set, p) ==
    \E q \in set : q = p \/ <<q, p>> \in Covers \/ <<p, q>> \in Covers
InTree(r) == {q \in Paths : <<r, q>> \in tree}

(* lb.AddAddrs.                                                            *)
List(p, c) ==
    /\ keys' = keys \cup {p}
    /\ pool' = [pool EXCEPT ![p] = AddedTo(@, c)]

HandAt(c, step) == hand' = [hand EXCEPT ![c].at = step]
Reply(c, status) == hand' = [hand EXCEPT ![c].at = "reply", ![c].code = status]

-----------------------------------------------------------------------------
Init ==
    /\ up = TRUE
    /\ tree = {}
    /\ keys = {}
    /\ pool = [p \in Paths |-> <<>>]
    /\ hand = [c \in Clients |-> NoHand]
    /\ lck = [c \in Clients |-> "free"]
    /\ phase = [c \in Clients |-> "idle"]
    /\ cur = [c \in Clients |-> NoPath]
    /\ todo = [c \in Clients |-> {}]
    /\ local = [c \in Clients |-> {}]
    /\ routes = [c \in Clients |-> {}]
    /\ faults = 0

-----------------------------------------------------------------------------
(* The client *)

(* HandlerFunc, called by the application, takes the lock.                 *)
HandlerFunc(c, p) ==
    /\ lck[c] = "free"
    /\ lck' = [lck EXCEPT ![c] = "app"]
    /\ phase' = [phase EXCEPT ![c] = "post"]
    /\ cur' = [cur EXCEPT ![c] = p]
    /\ UNCHANGED <<todo, local, routes, faults>> /\ UNCHANGED proxyVars

(* A minute has passed: the loop takes the lock and visits every route it  *)
(* remembers, in any order.                                                *)
LoopTick(c) ==
    /\ lck[c] = "free"
    /\ \E p \in routes[c] :
        /\ cur' = [cur EXCEPT ![c] = p]
        /\ todo' = [todo EXCEPT ![c] = routes[c] \ {p}]
    /\ lck' = [lck EXCEPT ![c] = "loop"]
    /\ phase' = [phase EXCEPT ![c] = "post"]
    /\ UNCHANGED <<local, routes, faults>> /\ UNCHANGED proxyVars

(* The post reaches the proxy.  While the proxy is down the connection is  *)
(* refused and the client tries again, the lock held.                      *)
Post(c) ==
    /\ phase[c] = "post"
    /\ up
    /\ hand[c] = NoHand
    /\ hand' = [hand EXCEPT ![c] = [at |-> "lookup", path |-> cur[c], code |-> 0]]
    /\ phase' = [phase EXCEPT ![c] = "wait"]
    /\ UNCHANGED <<up, tree, keys, pool, lck, cur, todo, local, routes, faults>>

(* handlerfunc returns, with an error or not; HandlerFunc remembers the    *)
(* route, the loop goes to its next route.  Variant: HandlerFunc remembers *)
(* a route whose registration failed.                                      *)
RememberedAnyway(c, ok) ==
    IF lck[c] = "app" THEN [routes EXCEPT ![c] = @ \cup {cur[c]}] ELSE routes
Remembered(c, ok) ==
    IF lck[c] = "app" /\ ok THEN [routes EXCEPT ![c] = @ \cup {cur[c]}] ELSE routes
Finish(c, ok) ==
    /\ routes' = Remembered(c, ok)
    /\ \/ /\ todo[c] = {}
          /\ lck' = [lck EXCEPT ![c] = "free"]
          /\ phase' = [phase EXCEPT ![c] = "idle"]
          /\ cur' = [cur EXCEPT ![c] = NoPath]
          /\ UNCHANGED todo
       \/ \E p \in todo[c] :
          /\ cur' = [cur EXCEPT ![c] = p]
          /\ todo' = [todo EXCEPT ![c] = @ \ {p}]
          /\ phase' = [phase EXCEPT ![c] = "post"]
          /\ UNCHANGED lck

(* Created: the client's own router gets the handler; its Handle panics    *)
(* for a route it has, which is recovered and makes an error (so a route   *)
(* that is added again always ends with one).  Other codes are errors.     *)
GotReply(c) ==
    /\ phase[c] = "wait"
    /\ hand[c].at = "reply"
    /\ LET ok == hand[c].code = Created /\ ~Conflicts(local[c], cur[c]) IN
        /\ local' = IF ok THEN [local EXCEPT ![c] = @ \cup {cur[c]}] ELSE local
        /\ Finish(c, ok)
    /\ hand' = [hand EXCEPT ![c] = NoHand]
    /\ UNCHANGED <<up, tree, keys, pool, faults>>

(* The retries run out while the proxy is down, or the context ends: the    *)
(* one given to HandlerFunc may end at any time, that of the loop is the    *)
(* one Start keeps for the life of the router.                              *)
GiveUp(c) ==
    /\ phase[c] = "post"
    /\ ~up \/ lck[c] = "app"
    /\ Finish(c, FALSE)
    /\ UNCHANGED <<local, faults>> /\ UNCHANGED proxyVars

-----------------------------------------------------------------------------
(* The proxy: Add *)

AddInvalid(c) ==
    /\ hand[c].at = "lookup"
    /\ <<c, hand[c].path>> \in Invalid
    /\ Reply(c, Unprocessable)
    /\ UNCHANGED <<up, tree, keys, pool, faults>> /\ UNCHANGED clientVars

(* Variant: an add of a route that exists returns at once.                 *)
AddExistingReturns(c) ==
    LET p == hand[c].path IN
    /\ hand[c].at = "lookup"
    /\ <<c, p>> \notin Invalid
    /\ Handles(RouterOf(c), p) \/ Redirects(RouterOf(c), p)
    /\ Reply(c, Created)
    /\ UNCHANGED <<up, tree, keys, pool, faults>> /\ UNCHANGED clientVars

(* The route exists, or redirects: only the address is added.              *)
AddExisting(c) ==
    LET p == hand[c].path IN
    /\ hand[c].at = "lookup"
    /\ <<c, p>> \notin Invalid
    /\ Handles(RouterOf(c), p) \/ Redirects(RouterOf(c), p)
    /\ List(p, c)
    /\ Reply(c, Created)
    /\ UNCHANGED <<up, tree, faults>> /\ UNCHANGED clientVars

(* Variant: the address is added before the route is made.                 *)
AddNewListsFirst(c) ==
    LET p == hand[c].path IN
    /\ hand[c].at = "lookup"
    /\ <<c, p>> \notin Invalid
    /\ ~Handles(RouterOf(c), p) /\ ~Redirects(RouterOf(c), p)
    /\ List(p, c)
    /\ HandAt(c, "handle")
    /\ UNCHANGED <<up, tree, faults>> /\ UNCHANGED clientVars

(* The route is new: Handle is called.                                     *)
AddNew(c) ==
    LET p == hand[c].path IN
    /\ hand[c].at = "lookup"
    /\ <<c, p>> \notin Invalid
    /\ ~Handles(RouterOf(c), p) /\ ~Redirects(RouterOf(c), p)
    /\ HandAt(c, "handle")
    /\ UNCHANGED <<up, tree, keys, pool, faults>> /\ UNCHANGED clientVars

(* router.Handle panics (another add came between); Add recovers it.       *)
HandlePanics(c) ==
    /\ hand[c].at = "handle"
    /\ Conflicts(InTree(RouterOf(c)), hand[c].path)
    /\ Reply(c, Unprocessable)
    /\ UNCHANGED <<up, tree, keys, pool, faults>> /\ UNCHANGED clientVars

(* router.Handle begins to insert the route ...                            *)
HandleBegins(c) ==
    /\ hand[c].at = "handle"
    /\ ~Conflicts(InTree(RouterOf(c)), hand[c].path)
    /\ HandAt(c, "insert")
    /\ UNCHANGED <<up, tree, keys, pool, faults>> /\ UNCHANGED clientVars

(* Variant of the step after it: the address is never added.               *)
HandleEndsUnlisted(c) ==
    /\ hand[c].at = "insert"
    /\ tree' = tree \cup {<<RouterOf(c), hand[c].path>>}
    /\ Reply(c, Created)
    /\ UNCHANGED <<up, keys, pool, faults>> /\ UNCHANGED clientVars

(* ... and ends.  The tree has no lock: an insertion that overlaps another *)
(* into the same router may be lost.                                       *)
Overlaps(c) ==
    \E d \in Clients \ {c} : hand[d].at = "insert" /\ RouterOf(d) = RouterOf(c)
HandleEnds(c) ==
    /\ hand[c].at = "insert"
    /\ \/ tree' = tree \cup {<<RouterOf(c), hand[c].path>>}
       \/ Overlaps(c) /\ UNCHANGED tree
    /\ HandAt(c, "list")
    /\ UNCHANGED <<up, keys, pool, faults>> /\ UNCHANGED clientVars

(* Then the address is added to the list of the new route.                 *)
AddAddrs(c) ==
    /\ hand[c].at = "list"
    /\ List(hand[c].path, c)
    /\ Reply(c, Created)
    /\ UNCHANGED <<up, tree, faults>> /\ UNCHANGED clientVars

Add(c) ==
    \/ AddInvalid(c) \/ AddExisting(c) \/ AddNew(c)
    \/ HandlePanics(c) \/ HandleBegins(c) \/ HandleEnds(c)
    \/ AddAddrs(c)

-----------------------------------------------------------------------------
(* The balancer takes an address off a list after a bad answer (Balance).  *)
Unlist(p, d) ==
    /\ faults < MaxFaults
    /\ p \in keys /\ d \in Range(pool[p])
    /\ pool' = [pool EXCEPT ![p] = RemovedFrom(@, d)]
    /\ faults' = faults + 1
    /\ UNCHANGED <<up, tree, keys, hand>> /\ UNCHANGED clientVars

(* The proxy dies with all it knew, nothing of which is on a disk, ...     *)
ProxyCrash ==
    /\ up
    /\ faults < MaxFaults
    /\ up' = FALSE
    /\ tree' = {}
    /\ keys' = {}
    /\ pool' = [p \in Paths |-> <<>>]
    /\ hand' = [c \in Clients |-> NoHand]
    /\ faults' = faults + 1
    /\ UNCHANGED clientVars

(* ... and starts empty.                                                   *)
Restart ==
    /\ ~up
    /\ up' = TRUE
    /\ UNCHANGED <<tree, keys, pool, hand, faults>> /\ UNCHANGED clientVars

(* The connection breaks while the client waits; the proxy goes on with    *)
(* the request.  The error is not "connection refused", so no retry.       *)
ConnectionBreaks(c) ==
    /\ phase[c] = "wait"
    /\ hand[c] # NoHand
    /\ faults < MaxFaults
    /\ Finish(c, FALSE)
    /\ faults' = faults + 1
    /\ UNCHANGED local /\ UNCHANGED proxyVars

(* The client whose proxy died while it waited gets the same error.        *)
ConnectionLost(c) ==
    /\ phase[c] = "wait"
    /\ hand[c] = NoHand
    /\ Finish(c, FALSE)
    /\ UNCHANGED <<local, faults>> /\ UNCHANGED proxyVars

(* A reply nobody waits for.                                               *)
DropReply(c) ==
    /\ hand[c].at = "reply"
    /\ phase[c] # "wait"
    /\ hand' = [hand EXCEPT ![c] = NoHand]
    /\ UNCHANGED <<up, tree, keys, pool, faults>> /\ UNCHANGED clientVars

(* The application dies and starts again at the same address.              *)
ClientRestart(c) ==
    /\ faults < MaxFaults
    /\ lck' = [lck EXCEPT ![c] = "free"]
    /\ phase' = [phase EXCEPT ![c] = "idle"]
    /\ cur' = [cur EXCEPT ![c] = NoPath]
    /\ todo' = [todo EXCEPT ![c] = {}]
    /\ local' = [local EXCEPT ![c] = {}]
    /\ routes' = [routes EXCEPT ![c] = {}]
    /\ faults' = faults + 1
    /\ UNCHANGED proxyVars

Client(c) ==
    \/ LoopTick(c) \/ Post(c) \/ GotReply(c) \/ GiveUp(c)
    \/ \E p \in Paths : HandlerFunc(c, p)
Network(c) == ConnectionBreaks(c) \/ ConnectionLost(c) \/ DropReply(c)
Faults ==
    \/ ProxyCrash \/ Restart
    \/ \E p \in Paths, d \in Clients : Unlist(p, d)
    \/ \E c \in Clients : ClientRestart(c)

Next == Faults \/ \E c \in Clients : Client(c) \/ Add(c) \/ Network(c)

Spec == Init /\ [][Next]_vars

(* The proxy is started again by its supervisor, its handlers and the      *)
(* network go on, and a client that holds its lock goes on.  The ticker    *)
(* competes with the application for a sync.Mutex, which does not starve a *)
(* waiter: strong fairness.                                                *)
Fairness ==
    /\ WF_vars(Restart)
    /\ \A c \in Clients :
        /\ WF_vars(Add(c))
        /\ WF_vars(ConnectionLost(c) \/ DropReply(c))
        /\ WF_vars(Post(c)) /\ WF_vars(GotReply(c))
        /\ SF_vars(LoopTick(c))
FairSpec == Spec /\ Fairness

-----------------------------------------------------------------------------
(* Properties *)

(* Types.  A waiting client holds its lock, and no list has an address     *)
(* twice however often the loop adds it again.                             *)
TypeOK ==
    /\ up \in BOOLEAN
    /\ tree \subseteq Routers \X Paths
    /\ keys \subseteq Paths
    /\ \A p \in Paths : pool[p] \in Seq(Clients) /\ NoDuplicates(pool[p])
    /\ hand \in [Clients -> [at : {"none", "lookup", "handle", "insert", "list", "reply"},
                             path : Paths \cup {NoPath},
                             code : {0, Created, Unprocessable}]]
    /\ lck \in [Clients -> {"free", "app", "loop"}]
    /\ phase \in [Clients -> {"idle", "post", "wait"}]
    /\ cur \in [Clients -> Paths \cup {NoPath}]
    /\ \A c \in Clients : /\ lck[c] = "free" <=> phase[c] = "idle"
                          /\ todo[c] \subseteq routes[c]
                          /\ routes[c] \subseteq local[c] /\ local[c] \subseteq Paths
    /\ faults \in 0 .. MaxFaults

(* A route the proxy answers for has a list, or an add of it is about to   *)
(* make one: a request never meets a handler whose Balance will find no    *)
(* list for ever.  Add makes the route first and the list after, without   *)
(* a lock around the two.                                                  *)
RouteHasListOrAdder ==
    \A r \in Routers, p \in Paths : <<r, p>> \in tree =>
        \/ p \in keys
        \/ \E c \in Clients : hand[c].at = "list" /\ hand[c].path = p /\ RouterOf(c) = r

(* Without faults, whoever is on the list of a path serves it, or is about *)
(* to receive the Created that makes it do so (HandlerFunc installs the    *)
(* handler only then): requests are not sent to a server that answers 404. *)
(* Except that where routes overlap, the client's own router may refuse    *)
(* the handler when its address is on the list already: then it has the    *)
(* route that overlaps.                                                    *)
Promised(c, p) ==
    /\ phase[c] = "wait" /\ cur[c] = p
    /\ hand[c].at = "reply" /\ hand[c].code = Created
ListedIsServed ==
    faults = 0 =>
        \A p \in keys : \A c \in Range(pool[p]) : Conflicts(local[c], p) \/ Promised(c, p)

(* A client that remembers a route is put back on its list after the proxy *)
(* restarted, the balancer removed it or a concurrent add of the same      *)
(* route lost its race, unless the client restarts: the loop of Start.     *)
Reregistered ==
    \A c \in Clients, p \in Paths :
        p \in routes[c] ~> (c \in Range(pool[p]) \/ p \notin routes[c])
=============================================================================
