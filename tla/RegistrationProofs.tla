------------------------- MODULE RegistrationProofs -------------------------
(***************************************************************************)
(* The registration, for any clients, paths, routers and overlaps of       *)
(* routes: its types, that a route never stays without a list (Add makes   *)
(* the one after the other), and who is on the lists.                      *)
(***************************************************************************)
EXTENDS Registration, SequenceTheorems, TLAPS

(* Registering keeps a list without duplicates, with the new address.      *)
LEMMA AddedToFacts ==
    ASSUME NEW S, NEW b \in Seq(S), NoDuplicates(b), NEW d \in S
    PROVE  /\ AddedTo(b, d) \in Seq(S) /\ NoDuplicates(AddedTo(b, d))
           /\ Range(AddedTo(b, d)) = Range(b) \cup {d}
<1>1. CASE d \in Range(b)
  BY <1>1 DEF AddedTo
<1>2. CASE d \notin Range(b)
  <2> DEFINE a == Append(b, d)
  <2>1. /\ a \in Seq(S) /\ DOMAIN a = 1 .. Len(b) + 1 /\ a[Len(b) + 1] = d
        /\ DOMAIN b = 1 .. Len(b) /\ \A i \in 1 .. Len(b) : a[i] = b[i]
    OBVIOUS
  <2>2. AddedTo(b, d) = a
    BY <1>2 DEF AddedTo
  <2> HIDE DEF a
  <2> QED
    BY <1>2, <2>1, <2>2 DEF NoDuplicates, IsInjective, Range
<1> QED
  BY <1>1, <1>2

(* And so does Remove, which takes the address out with the one before it. *)
LEMMA RemovedFromFacts ==
    ASSUME NEW S, NEW b \in Seq(S), NoDuplicates(b), NEW d
    PROVE  RemovedFrom(b, d) \in Seq(S) /\ NoDuplicates(RemovedFrom(b, d))
<1>1. CASE d \in Range(b)
  <2> DEFINE j == FirstAt(b, d)
             front == SubSeq(b, 1, j-2)
             back == SubSeq(b, j+1, Len(b))
             rest == front \o back
             place(i) == IF i <= Len(front) THEN i ELSE j + (i - Len(front))
  <2>1. DOMAIN b = 1 .. Len(b) /\ \E i \in DOMAIN b : b[i] = d
    BY <1>1 DEF Range
  <2>2. \A i, k \in DOMAIN b : b[i] = b[k] => i = k
    BY DEF NoDuplicates, IsInjective
  <2>3. \E i \in DOMAIN b : b[i] = d /\ \A k \in 1 .. i - 1 : b[k] # d
    BY <2>1, <2>2
  <2>4. j \in 1 .. Len(b)
    BY <2>1, <2>3 DEF FirstAt
  <2> HIDE DEF j
  <2>5. /\ front \in Seq(S) /\ Len(front) \in Nat /\ Len(front) < j
        /\ \A i \in 1 .. Len(front) : front[i] = b[i]
    BY <2>4
  <2>6. /\ back \in Seq(S) /\ Len(back) = Len(b) - j
        /\ \A i \in 1 .. Len(back) : back[i] = b[j + i]
    BY <2>4
  <2>7. RemovedFrom(b, d) = rest
    BY <1>1 DEF RemovedFrom, j
  <2> HIDE DEF front, back
  <2>8. /\ rest \in Seq(S) /\ Len(rest) = Len(front) + Len(back)
        /\ \A i \in 1 .. Len(front) + Len(back) :
              rest[i] = IF i <= Len(front) THEN front[i] ELSE back[i - Len(front)]
    BY <2>5, <2>6, ConcatProperties
  <2> HIDE DEF rest
  <2>9. DOMAIN rest = 1 .. Len(front) + Len(back) /\ Len(back) \in Nat /\ Len(b) \in Nat
    BY <2>6, <2>8
  <2>10. ASSUME NEW i \in DOMAIN rest
         PROVE  place(i) \in DOMAIN b /\ rest[i] = b[place(i)]
    <3>1. CASE i <= Len(front)
      BY <2>1, <2>4, <2>5, <2>8, <2>9, <3>1
    <3>2. CASE ~ (i <= Len(front))
      <4>1. i - Len(front) \in 1 .. Len(back) /\ j + (i - Len(front)) \in 1 .. Len(b)
        BY <2>4, <2>5, <2>6, <2>9, <3>2
      <4> QED
        BY <2>1, <2>6, <2>8, <2>9, <3>2, <4>1
    <3> QED
      BY <3>1, <3>2
  <2>11. \A i, k \in DOMAIN rest : place(i) = place(k) => i = k
    BY <2>4, <2>5, <2>9
  <2> HIDE DEF place
  <2>12. NoDuplicates(rest)
    BY <2>2, <2>10, <2>11 DEF NoDuplicates, IsInjective
  <2> QED
    BY <2>7, <2>8, <2>12
<1>2. CASE d \notin Range(b)
  BY <1>2 DEF RemovedFrom
<1> QED
  BY <1>1, <1>2

Hands == [at : {"none", "lookup", "handle", "insert", "list", "reply"},
          path : Paths \cup {NoPath},
          code : {0, Created, Unprocessable}]

(* The proxy: an add it works on has a path.                               *)
ProxyOK ==
    /\ up \in BOOLEAN
    /\ tree \subseteq Routers \X Paths
    /\ keys \subseteq Paths
    /\ pool \in [Paths -> Seq(Clients)]
    /\ \A p \in Paths : NoDuplicates(pool[p]) /\ (p \notin keys => pool[p] = <<>>)
    /\ hand \in [Clients -> Hands]
    /\ \A c \in Clients : hand[c].at # "none" => hand[c].path \in Paths

(* The clients: a registration under way has the lock and a path, and only *)
(* the loop has more than one to do.                                       *)
ClientsOK ==
    /\ lck \in [Clients -> {"free", "app", "loop"}]
    /\ phase \in [Clients -> {"idle", "post", "wait"}]
    /\ cur \in [Clients -> Paths \cup {NoPath}]
    /\ todo \in [Clients -> SUBSET Paths]
    /\ routes \in [Clients -> SUBSET Paths]
    /\ local \in [Clients -> SUBSET Paths]
    /\ \A c \in Clients :
        /\ lck[c] = "free" <=> phase[c] = "idle"
        /\ todo[c] \subseteq routes[c] /\ routes[c] \subseteq local[c]
        /\ phase[c] # "idle" => cur[c] \in Paths
        /\ lck[c] # "loop" => todo[c] = {}

(* Without faults the proxy works only for clients that wait for it, and   *)
(* on the route they register.                                             *)
WorkIsAwaited ==
    faults = 0 =>
        \A c \in Clients :
            hand[c].at # "none" => phase[c] = "wait" /\ hand[c].path = cur[c]

IInv ==
    /\ ProxyOK /\ ClientsOK /\ faults \in 0 .. MaxFaults
    /\ RouteHasListOrAdder /\ WorkIsAwaited /\ ListedIsServed

LEMMA InitIInv == Init => IInv
<1> SUFFICES ASSUME Init PROVE IInv
  OBVIOUS
<1>1. ProxyOK
  <2>1. hand \in [Clients -> Hands]
    BY DEF Init, NoHand, Hands
  <2>2. \A p \in Paths : pool[p] = <<>> /\ NoDuplicates(pool[p])
    BY DEF Init, NoDuplicates, IsInjective
  <2>3. pool \in [Paths -> Seq(Clients)]
    BY DEF Init
  <2> QED
    BY <2>1, <2>2, <2>3 DEF Init, ProxyOK, NoHand
<1>2. ClientsOK
  BY DEF Init, ClientsOK
<1>3. RouteHasListOrAdder /\ WorkIsAwaited /\ ListedIsServed
  BY DEF Init, RouteHasListOrAdder, WorkIsAwaited, ListedIsServed, NoHand
<1> QED
  BY <1>1, <1>2, <1>3, FaultsAssumption DEF Init, IInv

-----------------------------------------------------------------------------
(* What the steps have in common *)

(* A route that is listed stays listed, and one whose add is about to list *)
(* it is listed next.                                                      *)
LEMMA RouteStep ==
    ASSUME RouteHasListOrAdder, keys \subseteq keys',
           \A r \in Routers, p \in Paths : <<r, p>> \in tree' =>
              <<r, p>> \in tree \/ \E c \in Clients : /\ hand'[c].at = "list"
                                                      /\ hand'[c].path = p /\ RouterOf(c) = r,
           \A c \in Clients : hand[c].at = "list" =>
              \/ hand'[c].at = "list" /\ hand'[c].path = hand[c].path
              \/ hand[c].path \in keys'
    PROVE  RouteHasListOrAdder'
BY DEF RouteHasListOrAdder, RouterOf

(* One client's add goes on.                                               *)
LEMMA HandFacts ==
    ASSUME hand \in [Clients -> Hands], NEW c \in Clients,
           NEW step \in {"none", "lookup", "handle", "insert", "list", "reply"}, HandAt(c, step)
    PROVE  /\ hand' \in [Clients -> Hands]
           /\ hand'[c].at = step /\ hand'[c].path = hand[c].path
           /\ \A d \in Clients : d # c => hand'[d] = hand[d]
BY DEF HandAt, Hands

LEMMA ReplyFacts ==
    ASSUME hand \in [Clients -> Hands], NEW c \in Clients,
           NEW status \in {Created, Unprocessable}, Reply(c, status)
    PROVE  /\ hand' \in [Clients -> Hands]
           /\ hand'[c].at = "reply" /\ hand'[c].path = hand[c].path /\ hand'[c].code = status
           /\ \A d \in Clients : d # c => hand'[d] = hand[d]
BY DEF Reply, Hands

(* An add takes steps of its own until it replies.                         *)
LEMMA HandStep ==
    ASSUME IInv, NEW c \in Clients, hand[c].at # "none",
           hand' \in [Clients -> Hands],
           hand'[c].path = hand[c].path,
           \A d \in Clients : d # c => hand'[d] = hand[d],
           UNCHANGED clientVars, UNCHANGED faults
    PROVE  /\ ClientsOK' /\ WorkIsAwaited' /\ faults' \in 0 .. MaxFaults
           /\ \A d \in Clients : hand'[d].at # "none" => hand'[d].path \in Paths
<1>1. ClientsOK'
  BY DEF IInv, ClientsOK, clientVars
<1>2. WorkIsAwaited'
  BY DEF IInv, WorkIsAwaited, clientVars
<1>3. \A d \in Clients : hand'[d].at # "none" => hand'[d].path \in Paths
  BY DEF IInv, ProxyOK
<1> QED
  BY <1>1, <1>2, <1>3 DEF IInv

(* An add that is still without its reply promises nothing.                *)
LEMMA StillListed ==
    ASSUME IInv, NEW c \in Clients, hand[c].at # "reply",
           \A d \in Clients : d # c => hand'[d] = hand[d],
           UNCHANGED clientVars, UNCHANGED <<keys, pool, faults>>
    PROVE  ListedIsServed'
<1> SUFFICES ASSUME faults = 0, NEW p \in keys, NEW d \in Range(pool[p])
             PROVE  Conflicts(local[d], p) \/ Promised(d, p)'
  BY DEF ListedIsServed, Conflicts, clientVars
<1>1. d \in Clients
  BY DEF IInv, ProxyOK, Range
<1>2. Conflicts(local[d], p) \/ Promised(d, p)
  BY DEF IInv, ListedIsServed
<1> QED
  BY <1>1, <1>2 DEF Promised, clientVars

(* AddAddrs puts the client on the list of its path, and the Created is on *)
(* its way.                                                                *)
LEMMA ListStep ==
    ASSUME IInv, NEW c \in Clients, hand[c].at \in {"lookup", "list"},
           List(hand[c].path, c), Reply(c, Created),
           UNCHANGED <<up, tree, faults>>, UNCHANGED clientVars
    PROVE  IInv'
<1> DEFINE p == hand[c].path
<1>1. p \in Paths
  BY DEF IInv, ProxyOK
<1>2. /\ hand' \in [Clients -> Hands]
      /\ hand'[c].at = "reply" /\ hand'[c].path = p /\ hand'[c].code = Created
      /\ \A d \in Clients : d # c => hand'[d] = hand[d]
  BY ReplyFacts DEF IInv, ProxyOK
<1>3. keys' = keys \cup {p} /\ pool' = [pool EXCEPT ![p] = AddedTo(@, c)]
  BY DEF List
<1> HIDE DEF p
<1>4. /\ AddedTo(pool[p], c) \in Seq(Clients)
      /\ Range(AddedTo(pool[p], c)) = Range(pool[p]) \cup {c}
      /\ NoDuplicates(AddedTo(pool[p], c))
  BY <1>1, AddedToFacts DEF IInv, ProxyOK
<1>5. /\ ClientsOK' /\ WorkIsAwaited' /\ faults' \in 0 .. MaxFaults
      /\ \A d \in Clients : hand'[d].at # "none" => hand'[d].path \in Paths
  BY <1>2, HandStep DEF p
<1>6. ProxyOK'
  BY <1>1, <1>2, <1>3, <1>4, <1>5 DEF IInv, ProxyOK
<1>7. RouteHasListOrAdder'
  <2>1. \A d \in Clients : hand[d].at = "list" =>
            \/ hand'[d].at = "list" /\ hand'[d].path = hand[d].path
            \/ hand[d].path \in keys'
    BY <1>2, <1>3 DEF p
  <2> QED
    BY <1>3, <2>1, RouteStep DEF IInv
<1>8. ListedIsServed'
  <2> SUFFICES ASSUME faults = 0, NEW q \in keys', NEW d \in Range(pool'[q])
               PROVE  Conflicts(local[d], q) \/ Promised(d, q)'
    BY DEF ListedIsServed, Conflicts, clientVars
  <2>1. q \in Paths /\ d \in Clients
    BY <1>1, <1>3, <1>6 DEF IInv, ProxyOK, Range
  <2>2. CASE q = p /\ d = c
    BY <1>2, <2>2 DEF Promised, clientVars, IInv, WorkIsAwaited, p
  <2>3. CASE ~(q = p /\ d = c)
    <3>1. d \in Range(pool[q]) /\ (q = p => d # c)
      BY <1>1, <1>3, <1>4, <2>1, <2>3 DEF IInv, ProxyOK
    <3>2. CASE q \in keys
      BY <1>2, <2>1, <3>1, <3>2 DEF IInv, ListedIsServed, Promised, clientVars
    <3>3. q \in keys
      BY <2>1, <3>1 DEF IInv, ProxyOK, Range
    <3> QED
      BY <3>2, <3>3
  <2> QED
    BY <2>2, <2>3
<1> QED
  BY <1>5, <1>6, <1>7, <1>8 DEF IInv

-----------------------------------------------------------------------------
(* The proxy *)

LEMMA ReplyStep ==
    ASSUME IInv, NEW c \in Clients, hand[c].at \in {"lookup", "handle"},
           Reply(c, Unprocessable),
           UNCHANGED <<up, tree, keys, pool, faults>>, UNCHANGED clientVars
    PROVE  IInv'
<1>1. /\ hand' \in [Clients -> Hands]
      /\ hand'[c].path = hand[c].path
      /\ \A d \in Clients : d # c => hand'[d] = hand[d]
  BY ReplyFacts DEF IInv, ProxyOK
<1>2. /\ ClientsOK' /\ WorkIsAwaited' /\ faults' \in 0 .. MaxFaults
      /\ \A d \in Clients : hand'[d].at # "none" => hand'[d].path \in Paths
  BY <1>1, HandStep
<1>3. ProxyOK'
  BY <1>1, <1>2 DEF IInv, ProxyOK
<1>4. RouteHasListOrAdder'
  BY <1>1, RouteStep DEF IInv
<1>5. ListedIsServed'
  BY <1>1, StillListed
<1> QED
  BY <1>2, <1>3, <1>4, <1>5 DEF IInv

(* Handle: the route is made, or lost, and its list is next.               *)
LEMMA HandleStep ==
    ASSUME IInv, NEW c \in Clients, AddNew(c) \/ HandleBegins(c) \/ HandleEnds(c)
    PROVE  IInv'
<1>1. /\ \E step \in {"handle", "insert", "list"} : HandAt(c, step)
      /\ hand[c].at \in {"lookup", "handle", "insert"}
      /\ UNCHANGED <<up, keys, pool, faults>> /\ UNCHANGED clientVars
  BY DEF AddNew, HandleBegins, HandleEnds
<1>2. /\ hand' \in [Clients -> Hands]
      /\ hand'[c].path = hand[c].path
      /\ \A d \in Clients : d # c => hand'[d] = hand[d]
  BY <1>1, HandFacts DEF IInv, ProxyOK
<1>3. /\ ClientsOK' /\ WorkIsAwaited' /\ faults' \in 0 .. MaxFaults
      /\ \A d \in Clients : hand'[d].at # "none" => hand'[d].path \in Paths
  BY <1>1, <1>2, HandStep
<1>4. tree' = tree \/ (tree' = tree \cup {<<RouterOf(c), hand[c].path>>} /\ HandAt(c, "list"))
  BY DEF AddNew, HandleBegins, HandleEnds
<1>5. hand[c].path \in Paths /\ RouterOf(c) \in Routers
  BY <1>1, RoutersAssumption DEF IInv, ProxyOK, RouterOf
<1>6. ProxyOK'
  BY <1>1, <1>2, <1>3, <1>4, <1>5 DEF IInv, ProxyOK
<1>7. HandAt(c, "list") => hand'[c].at = "list"
  BY HandFacts DEF IInv, ProxyOK
<1>8. RouteHasListOrAdder'
  <2>1. \A r \in Routers, p \in Paths : <<r, p>> \in tree' =>
            <<r, p>> \in tree \/ \E d \in Clients : /\ hand'[d].at = "list"
                                                    /\ hand'[d].path = p /\ RouterOf(d) = r
    BY <1>2, <1>4, <1>7
  <2> QED
    BY <1>1, <1>2, <2>1, RouteStep DEF IInv
<1>9. ListedIsServed'
  BY <1>1, <1>2, StillListed
<1> QED
  BY <1>3, <1>6, <1>8, <1>9 DEF IInv

LEMMA AddStep ==
    ASSUME IInv, NEW c \in Clients, Add(c)
    PROVE  IInv'
<1>1. CASE AddInvalid(c) \/ HandlePanics(c)
  BY <1>1, ReplyStep DEF AddInvalid, HandlePanics
<1>2. CASE AddExisting(c) \/ AddAddrs(c)
  BY <1>2, ListStep DEF AddExisting, AddAddrs
<1>3. CASE AddNew(c) \/ HandleBegins(c) \/ HandleEnds(c)
  BY <1>3, HandleStep
<1> QED
  BY <1>1, <1>2, <1>3 DEF Add

-----------------------------------------------------------------------------
(* The clients *)

(* A registration ends, and a client with more to do begins the next.      *)
LEMMA FinishFacts ==
    ASSUME IInv, NEW c \in Clients, NEW ok \in BOOLEAN, Finish(c, ok), phase[c] # "idle",
           local' \in [Clients -> SUBSET Paths],
           \A d \in Clients : local[d] \subseteq local'[d],
           ok => cur[c] \in local'[c]
    PROVE  /\ ClientsOK'
           /\ phase'[c] # "wait"
           /\ \A d \in Clients : d # c => phase'[d] = phase[d] /\ cur'[d] = cur[d]
<1>1. /\ cur[c] \in Paths /\ todo[c] \subseteq Paths /\ lck[c] \in {"app", "loop"}
      /\ todo[c] # {} => lck[c] = "loop"
  BY DEF IInv, ClientsOK
<1>2. /\ routes' \in [Clients -> SUBSET Paths]
      /\ \A d \in Clients : routes[d] \subseteq routes'[d] /\ routes'[d] \subseteq local'[d]
  <2>1. CASE routes' = routes
    BY <2>1 DEF IInv, ClientsOK
  <2>2. CASE ok /\ routes' = [routes EXCEPT ![c] = @ \cup {cur[c]}]
    BY <1>1, <2>2 DEF IInv, ClientsOK
  <2> QED
    BY <2>1, <2>2 DEF Finish, Remembered
<1>3. CASE /\ todo[c] = {}
           /\ lck' = [lck EXCEPT ![c] = "free"]
           /\ phase' = [phase EXCEPT ![c] = "idle"]
           /\ cur' = [cur EXCEPT ![c] = NoPath]
           /\ UNCHANGED todo
  <2>1. ClientsOK'
    BY <1>2, <1>3 DEF IInv, ClientsOK
  <2> QED
    BY <1>3, <2>1 DEF IInv, ClientsOK
<1>4. CASE \E p \in todo[c] :
              /\ cur' = [cur EXCEPT ![c] = p]
              /\ todo' = [todo EXCEPT ![c] = @ \ {p}]
              /\ phase' = [phase EXCEPT ![c] = "post"]
              /\ UNCHANGED lck
  <2>1. ClientsOK'
    BY <1>1, <1>2, <1>4 DEF IInv, ClientsOK
  <2> QED
    BY <1>4, <2>1 DEF IInv, ClientsOK
<1> QED
  BY <1>3, <1>4 DEF Finish

(* A step of the client after which the proxy still works on what it       *)
(* worked on before, and which breaks no promise.                          *)
LEMMA ClientStep ==
    ASSUME IInv, ClientsOK', UNCHANGED <<up, tree, keys, pool>>, faults' \in 0 .. MaxFaults,
           hand' \in [Clients -> Hands],
           \A c \in Clients : hand'[c].at # "none" => hand'[c].path \in Paths,
           \A c \in Clients : hand[c].at = "list" => hand'[c] = hand[c],
           WorkIsAwaited', ListedIsServed'
    PROVE  IInv'
<1>1. ProxyOK'
  BY DEF IInv, ProxyOK
<1>2. RouteHasListOrAdder'
  BY RouteStep DEF IInv
<1> QED
  BY <1>1, <1>2 DEF IInv

(* Steps of a client that does not wait for the proxy.                     *)
LEMMA NotWaiting ==
    ASSUME IInv, NEW c \in Clients, phase[c] # "wait", ClientsOK',
           UNCHANGED proxyVars, UNCHANGED <<local, faults>>,
           \A d \in Clients : d # c => phase'[d] = phase[d] /\ cur'[d] = cur[d]
    PROVE  IInv'
<1>1. WorkIsAwaited'
  BY DEF IInv, WorkIsAwaited, proxyVars
<1>2. ListedIsServed'
  <2> SUFFICES ASSUME faults = 0, NEW p \in keys, NEW d \in Range(pool[p])
               PROVE  Conflicts(local[d], p) \/ Promised(d, p)'
    BY DEF ListedIsServed, Conflicts, proxyVars
  <2>1. d \in Clients
    BY DEF IInv, ProxyOK, Range
  <2>2. Conflicts(local[d], p) \/ Promised(d, p)
    BY DEF IInv, ListedIsServed
  <2> QED
    BY <2>1, <2>2 DEF Promised, proxyVars
<1> QED
  BY <1>1, <1>2, ClientStep DEF IInv, ProxyOK, proxyVars

LEMMA HandlerFuncStep ==
    ASSUME IInv, NEW c \in Clients, NEW p \in Paths, HandlerFunc(c, p)
    PROVE  IInv'
<1>1. ClientsOK'
  BY DEF IInv, ClientsOK, HandlerFunc
<1>2. /\ phase[c] # "wait" /\ UNCHANGED proxyVars /\ UNCHANGED <<local, faults>>
      /\ \A d \in Clients : d # c => phase'[d] = phase[d] /\ cur'[d] = cur[d]
  BY DEF IInv, ClientsOK, HandlerFunc
<1> QED
  BY <1>1, <1>2, NotWaiting

LEMMA LoopTickStep ==
    ASSUME IInv, NEW c \in Clients, LoopTick(c)
    PROVE  IInv'
<1>1. PICK p \in routes[c] : /\ cur' = [cur EXCEPT ![c] = p]
                             /\ todo' = [todo EXCEPT ![c] = routes[c] \ {p}]
  BY DEF LoopTick
<1>2. /\ lck' = [lck EXCEPT ![c] = "loop"] /\ phase' = [phase EXCEPT ![c] = "post"]
      /\ lck[c] = "free" /\ UNCHANGED <<routes, local, faults>> /\ UNCHANGED proxyVars
  BY DEF LoopTick
<1>3. p \in Paths /\ routes[c] \ {p} \in SUBSET Paths
  BY <1>1 DEF IInv, ClientsOK
<1>4. ClientsOK'
  BY <1>1, <1>2, <1>3 DEF IInv, ClientsOK
<1>5. phase[c] # "wait" /\ \A d \in Clients : d # c => phase'[d] = phase[d] /\ cur'[d] = cur[d]
  BY <1>1, <1>2 DEF IInv, ClientsOK
<1> QED
  BY <1>2, <1>4, <1>5, NotWaiting

LEMMA GiveUpStep ==
    ASSUME IInv, NEW c \in Clients, GiveUp(c)
    PROVE  IInv'
<1>1. /\ phase[c] = "post" /\ Finish(c, FALSE)
      /\ UNCHANGED <<local, faults>> /\ UNCHANGED proxyVars
  BY DEF GiveUp
<1>2. /\ ClientsOK'
      /\ \A d \in Clients : d # c => phase'[d] = phase[d] /\ cur'[d] = cur[d]
  BY <1>1, FinishFacts DEF IInv, ClientsOK
<1> QED
  BY <1>1, <1>2, NotWaiting

LEMMA PostStep ==
    ASSUME IInv, NEW c \in Clients, Post(c)
    PROVE  IInv'
<1>1. /\ hand' = [hand EXCEPT ![c] = [at |-> "lookup", path |-> cur[c], code |-> 0]]
      /\ phase' = [phase EXCEPT ![c] = "wait"] /\ phase[c] = "post" /\ hand[c] = NoHand
      /\ UNCHANGED <<up, tree, keys, pool, lck, cur, todo, local, routes, faults>>
  BY DEF Post
<1>2. cur[c] \in Paths
  BY <1>1 DEF IInv, ClientsOK
<1>3. /\ hand' \in [Clients -> Hands]
      /\ hand'[c].at = "lookup" /\ hand'[c].path = cur[c]
      /\ \A d \in Clients : d # c => hand'[d] = hand[d]
  BY <1>1, <1>2 DEF IInv, ProxyOK, Hands
<1>4. ClientsOK'
  BY <1>1 DEF IInv, ClientsOK
<1>5. WorkIsAwaited'
  BY <1>1, <1>3 DEF IInv, WorkIsAwaited, ClientsOK
<1>6. ListedIsServed'
  <2> SUFFICES ASSUME faults = 0, NEW p \in keys, NEW d \in Range(pool[p])
               PROVE  Conflicts(local[d], p) \/ Promised(d, p)'
    BY <1>1 DEF ListedIsServed, Conflicts
  <2>1. d \in Clients
    BY DEF IInv, ProxyOK, Range
  <2>2. Conflicts(local[d], p) \/ Promised(d, p)
    BY DEF IInv, ListedIsServed
  <2>3. d = c => Conflicts(local[d], p)
    BY <1>1, <2>2 DEF Promised, NoHand
  <2> QED
    BY <1>1, <1>3, <2>1, <2>2, <2>3 DEF Promised, IInv, ClientsOK
<1> QED
  BY <1>1, <1>2, <1>3, <1>4, <1>5, <1>6, ClientStep DEF NoHand, IInv, ProxyOK

(* The proxy's answer leaves it.                                           *)
LEMMA NoHandFacts ==
    ASSUME hand \in [Clients -> Hands], NEW c \in Clients,
           hand' = [hand EXCEPT ![c] = NoHand]
    PROVE  /\ hand' \in [Clients -> Hands]
           /\ hand'[c].at = "none"
           /\ \A d \in Clients : d # c => hand'[d] = hand[d]
BY DEF Hands, NoHand

(* The client has the handler now, or its router refused it for a route    *)
(* that overlaps.                                                          *)
LEMMA GotReplyStep ==
    ASSUME IInv, NEW c \in Clients, GotReply(c)
    PROVE  IInv'
<1> DEFINE ok == hand[c].code = Created /\ ~Conflicts(local[c], cur[c])
<1>1. /\ phase[c] = "wait" /\ hand[c].at = "reply"
      /\ local' = IF ok THEN [local EXCEPT ![c] = @ \cup {cur[c]}] ELSE local
      /\ Finish(c, ok)
      /\ hand' = [hand EXCEPT ![c] = NoHand]
      /\ UNCHANGED <<up, tree, keys, pool, faults>>
  BY DEF GotReply
<1>2. ok \in BOOLEAN /\ cur[c] \in Paths
  BY <1>1 DEF IInv, ClientsOK
<1>3. ok => cur[c] \in local'[c]
  BY <1>1, <1>2 DEF IInv, ClientsOK
<1>4. /\ local' \in [Clients -> SUBSET Paths]
      /\ \A d \in Clients : local[d] \subseteq local'[d]
  <2> HIDE DEF ok
  <2> QED
    BY <1>1, <1>2 DEF IInv, ClientsOK
<1>5. /\ ClientsOK'
      /\ \A d \in Clients : d # c => phase'[d] = phase[d] /\ cur'[d] = cur[d]
  <2> HIDE DEF ok
  <2> QED
    BY <1>1, <1>2, <1>3, <1>4, FinishFacts
<1>6. /\ hand' \in [Clients -> Hands]
      /\ hand'[c].at = "none"
      /\ \A d \in Clients : d # c => hand'[d] = hand[d]
  BY <1>1, NoHandFacts DEF IInv, ProxyOK
<1>7. WorkIsAwaited'
  BY <1>1, <1>5, <1>6 DEF IInv, WorkIsAwaited
<1>8. ListedIsServed'
  <2> SUFFICES ASSUME faults = 0, NEW p \in keys, NEW d \in Range(pool[p])
               PROVE  Conflicts(local'[d], p) \/ Promised(d, p)'
    BY <1>1 DEF ListedIsServed, Conflicts
  <2>1. d \in Clients
    BY DEF IInv, ProxyOK, Range
  <2>2. Conflicts(local[d], p) \/ Promised(d, p)
    BY DEF IInv, ListedIsServed
  <2>3. CASE Conflicts(local[d], p)
    BY <1>4, <2>1, <2>3 DEF Conflicts
  <2>4. CASE Promised(d, p) /\ d # c
    BY <1>5, <1>6, <2>1, <2>4 DEF Promised
  <2>5. CASE Promised(d, p) /\ d = c
    <3>1. cur[c] = p /\ hand[c].code = Created
      BY <2>5 DEF Promised
    <3>2. CASE ok
      BY <1>3, <2>5, <3>1, <3>2 DEF Conflicts
    <3>3. CASE Conflicts(local[c], p)
      BY <1>4, <2>5, <3>3 DEF Conflicts
    <3> QED
      BY <3>1, <3>2, <3>3
  <2> QED
    BY <2>2, <2>3, <2>4, <2>5
<1>9. \A d \in Clients : /\ hand'[d].at # "none" => hand'[d].path \in Paths
                         /\ hand[d].at = "list" => hand'[d] = hand[d]
  BY <1>1, <1>6 DEF IInv, ProxyOK
<1> QED
  BY <1>1, <1>5, <1>6, <1>7, <1>8, <1>9, ClientStep DEF IInv

-----------------------------------------------------------------------------
(* The network, the faults and the proxy's restart *)

LEMMA NetworkStep ==
    ASSUME IInv, NEW c \in Clients, Network(c)
    PROVE  IInv'
<1>1. CASE ConnectionBreaks(c)
  <2>1. phase[c] = "wait" /\ Finish(c, FALSE) /\ UNCHANGED local /\ UNCHANGED proxyVars
    BY <1>1 DEF ConnectionBreaks
  <2>4. faults' \in 0 .. MaxFaults /\ faults' # 0
    <3>1. faults \in 0 .. MaxFaults /\ faults < MaxFaults /\ faults' = faults + 1
      BY <1>1 DEF ConnectionBreaks, IInv
    <3> QED
      BY <3>1, FaultsAssumption
  <2>2. ClientsOK'
    BY <2>1, FinishFacts DEF IInv, ClientsOK
  <2>3. WorkIsAwaited' /\ ListedIsServed'
    BY <2>4 DEF WorkIsAwaited, ListedIsServed
  <2> QED
    BY <2>1, <2>2, <2>3, <2>4, ClientStep DEF IInv, ProxyOK, proxyVars
<1>2. CASE ConnectionLost(c)
  <2>1. /\ phase[c] = "wait" /\ hand[c] = NoHand /\ Finish(c, FALSE)
        /\ UNCHANGED <<local, faults>> /\ UNCHANGED proxyVars
    BY <1>2 DEF ConnectionLost
  <2>2. /\ ClientsOK'
        /\ \A d \in Clients : d # c => phase'[d] = phase[d] /\ cur'[d] = cur[d]
    BY <2>1, FinishFacts DEF IInv, ClientsOK
  <2>3. WorkIsAwaited'
    BY <2>1, <2>2 DEF IInv, WorkIsAwaited, proxyVars, NoHand
  <2>4. ListedIsServed'
    <3> SUFFICES ASSUME faults = 0, NEW p \in keys, NEW d \in Range(pool[p])
                 PROVE  Conflicts(local[d], p) \/ Promised(d, p)'
      BY <2>1 DEF ListedIsServed, Conflicts, proxyVars
    <3>1. d \in Clients
      BY DEF IInv, ProxyOK, Range
    <3>2. Conflicts(local[d], p) \/ Promised(d, p)
      BY DEF IInv, ListedIsServed
    <3> QED
      BY <2>1, <2>2, <3>1, <3>2 DEF Promised, proxyVars, NoHand
  <2> QED
    BY <2>1, <2>2, <2>3, <2>4, ClientStep DEF IInv, ProxyOK, proxyVars
<1>3. CASE DropReply(c)
  <2>1. /\ hand[c].at = "reply" /\ phase[c] # "wait"
        /\ hand' = [hand EXCEPT ![c] = NoHand]
        /\ UNCHANGED <<up, tree, keys, pool, faults>> /\ UNCHANGED clientVars
    BY <1>3 DEF DropReply
  <2>2. /\ hand' \in [Clients -> Hands]
        /\ hand'[c].at = "none"
        /\ \A d \in Clients : d # c => hand'[d] = hand[d]
    BY <2>1, NoHandFacts DEF IInv, ProxyOK
  <2>3. faults # 0
    BY <2>1 DEF IInv, WorkIsAwaited
  <2>4. ClientsOK' /\ WorkIsAwaited' /\ ListedIsServed'
    BY <2>1, <2>3 DEF IInv, ClientsOK, WorkIsAwaited, ListedIsServed, clientVars
  <2> QED
    BY <2>1, <2>2, <2>4, ClientStep DEF IInv, ProxyOK
<1> QED
  BY <1>1, <1>2, <1>3 DEF Network

LEMMA FaultsStep ==
    ASSUME IInv, Faults
    PROVE  IInv'
<1>1. ASSUME NEW p \in Paths, NEW d \in Clients, Unlist(p, d) PROVE IInv'
  <2>1. /\ pool' = [pool EXCEPT ![p] = RemovedFrom(@, d)] /\ p \in keys
        /\ faults' \in 0 .. MaxFaults /\ faults' # 0
        /\ UNCHANGED <<up, tree, keys, hand>> /\ UNCHANGED clientVars
    BY <1>1, FaultsAssumption DEF Unlist, IInv
  <2>2. RemovedFrom(pool[p], d) \in Seq(Clients) /\ NoDuplicates(RemovedFrom(pool[p], d))
    BY RemovedFromFacts DEF IInv, ProxyOK
  <2>3. ProxyOK' /\ ClientsOK'
    BY <2>1, <2>2 DEF IInv, ProxyOK, ClientsOK, clientVars
  <2>4. RouteHasListOrAdder'
    BY <2>1, RouteStep DEF IInv
  <2> QED
    BY <2>1, <2>3, <2>4 DEF IInv, WorkIsAwaited, ListedIsServed
<1>2. CASE ProxyCrash
  <2>1. /\ up' = FALSE /\ tree' = {} /\ keys' = {}
        /\ pool' = [p \in Paths |-> <<>>] /\ hand' = [c \in Clients |-> NoHand]
        /\ faults' \in 0 .. MaxFaults /\ faults' # 0 /\ UNCHANGED clientVars
    BY <1>2, FaultsAssumption DEF ProxyCrash, IInv
  <2>2. hand' \in [Clients -> Hands] /\ \A c \in Clients : hand'[c].at = "none"
    BY <2>1 DEF NoHand, Hands
  <2>3. \A p \in Paths : pool'[p] = <<>> /\ NoDuplicates(pool'[p])
    BY <2>1 DEF NoDuplicates, IsInjective
  <2>4. ProxyOK'
    <3>1. pool' \in [Paths -> Seq(Clients)]
      BY <2>1
    <3> QED
      BY <2>1, <2>2, <2>3, <3>1 DEF ProxyOK
  <2>5. ClientsOK'
    BY <2>1 DEF IInv, ClientsOK, clientVars
  <2> QED
    BY <2>1, <2>4, <2>5 DEF IInv, RouteHasListOrAdder, WorkIsAwaited, ListedIsServed
<1>3. CASE Restart
  BY <1>3 DEF Restart, IInv, ProxyOK, ClientsOK, RouteHasListOrAdder, WorkIsAwaited,
     ListedIsServed, Promised, Conflicts, clientVars
<1>4. ASSUME NEW c \in Clients, ClientRestart(c) PROVE IInv'
  <2>1. /\ UNCHANGED proxyVars /\ faults' \in 0 .. MaxFaults /\ faults' # 0
    BY <1>4, FaultsAssumption DEF ClientRestart, IInv
  <2>2. ClientsOK'
    BY <1>4 DEF ClientRestart, IInv, ClientsOK
  <2>3. WorkIsAwaited' /\ ListedIsServed'
    BY <2>1 DEF WorkIsAwaited, ListedIsServed
  <2> QED
    BY <2>1, <2>2, <2>3, ClientStep DEF IInv, ProxyOK, proxyVars
<1> QED
  BY <1>1, <1>2, <1>3, <1>4 DEF Faults

-----------------------------------------------------------------------------
(* Every reachable state satisfies the inductive invariant: what Add and   *)
(* the clients' loops keep, and what crashes leave of it.                  *)
THEOREM Invariance == Spec => []IInv
<1>1. ASSUME IInv, [Next]_vars PROVE IInv'
  <2>1. ASSUME NEW c \in Clients, Client(c) PROVE IInv'
    BY <1>1, <2>1, HandlerFuncStep, LoopTickStep, PostStep, GotReplyStep, GiveUpStep DEF Client
  <2>2. CASE UNCHANGED vars
    BY <1>1, <2>2 DEF IInv, ProxyOK, ClientsOK, RouteHasListOrAdder, WorkIsAwaited,
       ListedIsServed, Promised, Conflicts, vars
  <2> QED
    BY <1>1, <2>1, <2>2, AddStep, NetworkStep, FaultsStep DEF Next
<1> QED
  BY InitIInv, <1>1, PTL DEF Spec

(* The types of the proxy and its clients: no list has an address twice    *)
(* however often the loop registers it, and a client remembers only what   *)
(* it serves (HandlerFunc).                                                *)
THEOREM TypeCorrect == Spec => []TypeOK
<1>1. IInv => TypeOK
  BY DEF IInv, ProxyOK, ClientsOK, TypeOK, Hands
<1> QED
  BY <1>1, Invariance, PTL

(* A route the proxy answers for has a list, or an add that is next to     *)
(* make it (Add).                                                          *)
THEOREM RoutesHaveLists == Spec => []RouteHasListOrAdder
<1>1. IInv => RouteHasListOrAdder
  BY DEF IInv
<1> QED
  BY <1>1, Invariance, PTL

(* Without faults a listed client serves the path, or is about to; where   *)
(* routes overlap, it may have one of those that do instead (Add lists the *)
(* address before the client's router has the handler).                    *)
THEOREM ListedAreServed == Spec => []ListedIsServed
<1>1. IInv => ListedIsServed
  BY DEF IInv
<1> QED
  BY <1>1, Invariance, PTL
=============================================================================
