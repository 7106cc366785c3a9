---------------------------- MODULE ServerProofs ----------------------------
(***************************************************************************)
(* The server program, for any requests, workers and domains: the types    *)
(* (every request that waits is in the queue once, and no two workers have *)
(* the same one), what answers a request for a configured domain, which    *)
(* writes of the host switch a lookup may meet, and what a late writer's   *)
(* client was told.                                                        *)
(***************************************************************************)
EXTENDS Server, TLAPS

(* The routers the host switch can have.                                   *)
Served == {None, Default} \cup {RouterOf[h] : h \in Domains}

(* Functions and sequences of the right kind.                              *)
Shapes ==
    /\ queue \in Seq(Procs)
    /\ job \in [Workers -> Procs \cup {None}]
    /\ answer \in [Procs -> Served \cup {Unavailable, Forbidden}]

(* The request of a worker is out of the queue, so a request is not given  *)
(* to two workers; a request whose ServeHTTP returned does not come again  *)
(* while its worker is busy with it (Arrive).                              *)
JobsLeftQueue ==
    \A w \in Workers : job[w] # None => at[job[w]] \in {"wait", "late", "done"}

(* Nothing is served before the domains have their routers, nor does       *)
(* anybody take them away; a worker refuses only hosts without a router.   *)
DomainsAreSet ==
    /\ \A p \in Procs : at[p] # "none" => Listening /\ host[p] \in Hosts
    /\ \A h \in Domains : hosts[h] = RouterOf[h] \/ (hosts[h] = None /\ ~Listening)
    /\ \A w \in Workers : step[w] = "forbid" => host[job[w]] \notin Domains

(* What main writes is due: a domain only while it has no router, so main  *)
(* cannot have named all of them and still be writing one.                 *)
WritesAreDue == writing # None => Due(writing)

(* A client has no answer before its worker or the time-out gave it one.   *)
NotWritten ==
    /\ \A p \in Procs : at[p] = "queue" => answer[p] = None
    /\ \A w \in Workers :
          step[w] \in {"lookup", "serve", "forbid"} /\ at[job[w]] \in {"wait", "late"} =>
              answer[job[w]] = None

IInv ==
    /\ TypeOK /\ Shapes /\ JobsLeftQueue /\ DomainsAreSet /\ WritesAreDue
    /\ DomainIsServed /\ NotWritten /\ LateWriterWasTold

LEMMA InitIInv == Init => IInv
<1> SUFFICES ASSUME Init PROVE IInv
  OBVIOUS
<1>1. TypeOK
  <2>1. DOMAIN queue = {}
    BY DEF Init
  <2>2. /\ \A p \in Procs : at[p] = "queue" <=> \E i \in DOMAIN queue : queue[i] = p
        /\ \A i, j \in DOMAIN queue : queue[i] = queue[j] => i = j
    BY <2>1 DEF Init, Empty
  <2>3. \A w \in Workers : job[w] = None /\ step[w] = "idle"
    BY DEF Init, Empty
  <2> QED
    BY <2>2, <2>3 DEF Init, Empty, TypeOK
<1>2. Shapes /\ JobsLeftQueue
  BY DEF Init, Empty, Shapes, JobsLeftQueue, Served
<1>3. DomainsAreSet /\ WritesAreDue
  BY HostsAssumption DEF Init, Empty, DomainsAreSet, WritesAreDue, Listening, Hosts
<1>4. DomainIsServed /\ NotWritten /\ LateWriterWasTold
  BY DEF Init, Empty, DomainIsServed, NotWritten, LateWriterWasTold
<1> QED
  BY <1>1, <1>2, <1>3, <1>4 DEF IInv

-----------------------------------------------------------------------------
(* main and the end of the process *)

(* What a step of main and the end of the process leave alone.             *)
LEMMA StartupStep ==
    ASSUME IInv,
           UNCHANGED requests, UNCHANGED work, UNCHANGED answer, UNCHANGED https,
           writing' \in Hosts \cup {None}, WritesAreDue',
           boot' \in {"start", "domains", "https", "httpaddr", "httpsaddr", "ready"},
           Listening => Listening',
           hosts' \in [Hosts -> Served],
           \A h \in Domains : hosts'[h] = RouterOf[h] \/ (hosts'[h] = None /\ ~Listening'),
           alive' \in BOOLEAN
    PROVE  IInv'
<1>1. TypeOK'
  BY DEF IInv, TypeOK, Served, requests, work
<1>2. Shapes' /\ JobsLeftQueue'
  BY DEF IInv, Shapes, JobsLeftQueue, requests, work
<1>3. DomainsAreSet'
  BY DEF IInv, DomainsAreSet, requests, work
<1>4. DomainIsServed' /\ NotWritten' /\ LateWriterWasTold'
  BY DEF IInv, DomainIsServed, NotWritten, LateWriterWasTold, requests, work
<1> QED
  BY <1>1, <1>2, <1>3, <1>4 DEF IInv

LEMMA DiesStep ==
    ASSUME IInv, Dies
    PROVE  IInv'
<1>1. WritesAreDue' /\ (Listening => Listening')
  BY DEF IInv, WritesAreDue, Due, Dies, startup, Listening
<1>2. /\ hosts' \in [Hosts -> Served] /\ writing' \in Hosts \cup {None}
      /\ \A h \in Domains : hosts'[h] = RouterOf[h] \/ (hosts'[h] = None /\ ~Listening')
  BY DEF IInv, DomainsAreSet, TypeOK, Served, Dies, startup, Listening
<1> QED
  BY <1>1, <1>2, StartupStep DEF Dies, startup, IInv, TypeOK

(* The end of hostSwitch.Set.                                              *)
LEMMA SetStep ==
    ASSUME IInv, NEW h \in Hosts, NEW router \in Served, Set(h, router),
           h \in Domains => router = RouterOf[h],
           boot' \in {"domains", "httpaddr", "httpsaddr", "ready"},
           Listening <=> Listening'
    PROVE  IInv'
<1>1. hosts' = [hosts EXCEPT ![h] = router] /\ writing' = None /\ UNCHANGED bootOnly
  BY DEF Set
<1>2. hosts \in [Hosts -> Served] /\ Domains \subseteq Hosts
  BY DEF IInv, TypeOK, Served, Hosts
<1>3. hosts' \in [Hosts -> Served]
  BY <1>1, <1>2
<1>4. \A g \in Domains : hosts'[g] = RouterOf[g] \/ (hosts'[g] = None /\ ~Listening')
  BY <1>1, <1>2 DEF IInv, DomainsAreSet
<1>5. WritesAreDue'
  BY <1>1 DEF WritesAreDue
<1> QED
  BY <1>1, <1>3, <1>4, <1>5, StartupStep DEF bootOnly, requests, work, IInv, TypeOK

LEMMA MainStep ==
    ASSUME IInv, Main
    PROVE  IInv'
<1> USE DEF IInv
<1>1. CASE InitFails \/ GetHTTPSAddrPanics
  BY <1>1, DiesStep DEF InitFails, GetHTTPSAddrPanics
<1>2. CASE Start \/ SetHTTPAddr \/ SetHTTPSAddr
  <2>1. {Localhost, HttpAddr, HttpsAddr} \subseteq Hosts \ Domains /\ Default \in Served
    BY HostsAssumption DEF Hosts, Served
  <2>2. PICK h \in {Localhost, HttpAddr, HttpsAddr} : Set(h, Default)
    BY <1>2 DEF Start, SetHTTPAddr, SetHTTPSAddr
  <2>3. /\ boot' \in {"domains", "httpaddr", "httpsaddr", "ready"}
        /\ Listening <=> Listening'
    BY <1>2 DEF Start, SetHTTPAddr, SetHTTPSAddr, Boot, Listening
  <2> QED
    BY <2>1, <2>2, <2>3, SetStep
<1>3. ASSUME NEW h \in Domains, SetHostSwitch(h)
      PROVE  IInv'
  <2>1. h \in Hosts /\ RouterOf[h] \in Served
    BY DEF Hosts, Served
  <2>2. /\ boot' = "domains" /\ (Listening <=> Listening')
        /\ Set(h, RouterOf[h])
    BY <1>3 DEF SetHostSwitch, Boot, Listening
  <2> QED
    BY <2>1, <2>2, SetStep
<1>4. ASSUME NEW h \in Hosts, SetBegins(h)
      PROVE  IInv'
  <2>1. UNCHANGED <<boot, hosts>> /\ UNCHANGED bootOnly /\ writing' = h /\ Due(h)
    BY <1>4 DEF SetBegins
  <2>2. WritesAreDue' /\ (Listening <=> Listening')
    BY <2>1 DEF WritesAreDue, Due, Listening, bootOnly
  <2>3. /\ hosts' \in [Hosts -> Served] /\ alive' \in BOOLEAN
        /\ boot' \in {"start", "domains", "https", "httpaddr", "httpsaddr", "ready"}
    BY <2>1 DEF TypeOK, Served, bootOnly
  <2>4. \A g \in Domains : hosts'[g] = RouterOf[g] \/ (hosts'[g] = None /\ ~Listening')
    BY <2>1, <2>2 DEF DomainsAreSet
  <2> QED
    BY <2>1, <2>2, <2>3, <2>4, StartupStep DEF bootOnly, requests, work
<1>5. CASE Listen \/ ListenTLS
  <2>1. /\ UNCHANGED <<hosts, writing>> /\ UNCHANGED bootOnly
        /\ boot' \in {"https", "httpaddr"}
    BY <1>5 DEF Listen, ListenTLS, Boot
  <2>2. boot \in {"domains", "https"} /\ (boot = "domains" => Named)
    BY <1>5 DEF Listen, ListenTLS, Boot
  <2>3. writing = None
    BY <2>2 DEF WritesAreDue, Due, Named
  <2>4. WritesAreDue' /\ Listening'
    BY <2>1, <2>3 DEF WritesAreDue, Listening
  <2>5. \A g \in Domains : hosts[g] = RouterOf[g]
    BY <2>2 DEF DomainsAreSet, Named, Listening
  <2>6. /\ hosts' \in [Hosts -> Served] /\ alive' \in BOOLEAN
        /\ writing' \in Hosts \cup {None}
    BY <2>1 DEF TypeOK, Served, bootOnly
  <2> QED
    BY <2>1, <2>4, <2>5, <2>6, StartupStep DEF bootOnly, requests, work
<1> QED
  BY <1>1, <1>2, <1>3, <1>4, <1>5 DEF Main

LEMMA FaultsStep ==
    ASSUME IInv, Faults
    PROVE  IInv'
<1>1. CASE Restart
  <2>1. TypeOK'
    <3>1. DOMAIN queue' = {}
      BY <1>1 DEF Restart
    <3>2. /\ \A p \in Procs : at'[p] = "queue" <=> \E i \in DOMAIN queue' : queue'[i] = p
          /\ \A i, j \in DOMAIN queue' : queue'[i] = queue'[j] => i = j
      BY <1>1, <3>1 DEF Restart, Empty
    <3>3. \A w \in Workers : job'[w] = None /\ step'[w] = "idle"
      BY <1>1 DEF Restart, Empty
    <3> QED
      BY <1>1, <3>2, <3>3 DEF Restart, Empty, TypeOK, IInv
  <2>2. Shapes' /\ JobsLeftQueue'
    BY <1>1 DEF Restart, Empty, Shapes, JobsLeftQueue, Served
  <2>3. DomainsAreSet' /\ WritesAreDue'
    BY <1>1, HostsAssumption DEF Restart, Empty, DomainsAreSet, WritesAreDue, Listening, Hosts
  <2>4. DomainIsServed' /\ NotWritten' /\ LateWriterWasTold'
    BY <1>1 DEF Restart, Empty, DomainIsServed, NotWritten, LateWriterWasTold
  <2> QED
    BY <2>1, <2>2, <2>3, <2>4 DEF IInv
<1>2. CASE Signal
  BY <1>2, DiesStep DEF Signal
<1>3. CASE \E w \in Workers : MapFault(w) \/ LateWriteFault(w) \/ HandlerPanics(w)
  BY <1>3, DiesStep DEF MapFault, LateWriteFault, HandlerPanics
<1> QED
  BY <1>1, <1>2, <1>3 DEF Faults

-----------------------------------------------------------------------------
(* The bucket *)

LEMMA ArriveStep ==
    ASSUME IInv, NEW p \in Procs, NEW h \in Hosts, Arrive(p, h)
    PROVE  IInv'
<1> USE DEF IInv
<1>1. /\ at' = [at EXCEPT ![p] = "queue"] /\ at[p] \in {"none", "done"}
      /\ host' = [host EXCEPT ![p] = h]
      /\ answer' = [answer EXCEPT ![p] = None]
      /\ UNCHANGED <<https, boot, hosts, writing, alive, job, step>>
      /\ \A w \in Workers : job[w] # p
  BY DEF Arrive, work, startup
<1>2. /\ queue' \in Seq(Procs)
      /\ DOMAIN queue' = 1 .. Len(queue) + 1 /\ DOMAIN queue = 1 .. Len(queue)
      /\ Len(queue) \in Nat
      /\ queue'[Len(queue) + 1] = p
      /\ \A i \in 1 .. Len(queue) : queue'[i] = queue[i]
  BY DEF Arrive, Shapes
<1>3. \A i \in DOMAIN queue : queue[i] # p /\ queue[i] \in Procs
  BY <1>1 DEF TypeOK, Shapes
<1>4. \A q \in Procs : at'[q] = "queue" <=> (\E i \in DOMAIN queue' : queue'[i] = q)
  <2>1. at'[p] = "queue" <=> (\E i \in DOMAIN queue' : queue'[i] = p)
    BY <1>1, <1>2 DEF TypeOK
  <2>2. ASSUME NEW q \in Procs, q # p
        PROVE  at'[q] = "queue" <=> (\E i \in DOMAIN queue' : queue'[i] = q)
    <3>1. at[q] = "queue" <=> (\E i \in DOMAIN queue : queue[i] = q)
      BY DEF TypeOK
    <3>2. (\E i \in DOMAIN queue' : queue'[i] = q) <=> (\E i \in DOMAIN queue : queue[i] = q)
      BY <1>2, <2>2
    <3>3. at'[q] = at[q]
      BY <1>1, <2>2 DEF TypeOK
    <3> QED
      BY <3>1, <3>2, <3>3
  <2> QED
    BY <2>1, <2>2
<1>5. \A i, j \in DOMAIN queue' : queue'[i] = queue'[j] => i = j
  BY <1>2, <1>3 DEF TypeOK
<1>6. TypeOK'
  BY <1>1, <1>4, <1>5 DEF TypeOK
<1>7. Shapes' /\ JobsLeftQueue'
  BY <1>1, <1>2 DEF Shapes, JobsLeftQueue, TypeOK, Served
<1>8. DomainsAreSet'
  BY <1>1 DEF DomainsAreSet, TypeOK, Shapes, Listening, Arrive
<1>9. DomainIsServed' /\ WritesAreDue'
  BY <1>1 DEF DomainIsServed, WritesAreDue, Due, TypeOK, Shapes
<1>10. NotWritten' /\ LateWriterWasTold'
  BY <1>1 DEF NotWritten, LateWriterWasTold, TypeOK, Shapes
<1> QED
  BY <1>6, <1>7, <1>8, <1>9, <1>10

LEMMA TimeOutStep ==
    ASSUME IInv, NEW p \in Procs, TimeOut(p)
    PROVE  IInv'
<1> USE DEF IInv
<1>1. /\ at' = [at EXCEPT ![p] = "late"] /\ at[p] = "wait"
      /\ UNCHANGED <<https, boot, hosts, writing, alive, host, queue, job, step, answer>>
  BY DEF TimeOut, work, startup
<1>2. TypeOK'
  BY <1>1 DEF TypeOK
<1>3. Shapes' /\ JobsLeftQueue' /\ DomainsAreSet'
  BY <1>1 DEF Shapes, JobsLeftQueue, DomainsAreSet, TypeOK, Listening
<1>4. DomainIsServed' /\ WritesAreDue'
  BY <1>1 DEF DomainIsServed, WritesAreDue, Due
<1>5. NotWritten' /\ LateWriterWasTold'
  BY <1>1 DEF NotWritten, LateWriterWasTold, TypeOK
<1> QED
  BY <1>2, <1>3, <1>4, <1>5

LEMMA Return503Step ==
    ASSUME IInv, NEW p \in Procs, Return503(p)
    PROVE  IInv'
<1> USE DEF IInv
<1>1. /\ at' = [at EXCEPT ![p] = "done"] /\ at[p] = "late"
      /\ answer' = [answer EXCEPT ![p] = IF @ = None THEN Unavailable ELSE @]
      /\ UNCHANGED <<https, boot, hosts, writing, alive, host, queue, job, step>>
  BY DEF Return503, work, startup
<1>2. TypeOK'
  BY <1>1 DEF TypeOK
<1>3. Shapes' /\ JobsLeftQueue' /\ DomainsAreSet'
  BY <1>1 DEF Shapes, JobsLeftQueue, DomainsAreSet, TypeOK, Listening
<1>4. DomainIsServed' /\ WritesAreDue'
  BY <1>1 DEF DomainIsServed, WritesAreDue, Due, TypeOK, Shapes
<1>5. NotWritten' /\ LateWriterWasTold'
  BY <1>1 DEF NotWritten, LateWriterWasTold, TypeOK, Shapes
<1> QED
  BY <1>2, <1>3, <1>4, <1>5

-----------------------------------------------------------------------------
(* The workers *)

(* Out of the queue, every request moves one place up.                     *)
LEMMA TakeFacts ==
    ASSUME NEW S, NEW q \in Seq(S), q # <<>>,
           NEW rest, rest = SubSeq(q, 1, 0) \o SubSeq(q, 2, Len(q))
    PROVE  /\ rest \in Seq(S)
           /\ DOMAIN q = 1 .. Len(q) /\ Len(q) \in Nat \ {0}
           /\ DOMAIN rest = 1 .. Len(q) - 1
           /\ \A i \in 1 .. Len(q) - 1 : rest[i] = q[i + 1]
<1>1. Len(q) \in Nat \ {0} /\ DOMAIN q = 1 .. Len(q)
  OBVIOUS
<1>2. rest \in Seq(S) /\ DOMAIN rest = 1 .. Len(q) - 1
  BY <1>1
<1>3. \A i \in 1 .. Len(q) - 1 : rest[i] = q[i + 1]
  BY <1>1
<1> QED
  BY <1>1, <1>2, <1>3

LEMMA TakeStep ==
    ASSUME IInv, NEW w \in Workers, Take(w)
    PROVE  IInv'
<1> USE DEF IInv
<1> DEFINE p == queue[1]
<1>1. /\ at' = [at EXCEPT ![p] = "wait"]
      /\ job' = [job EXCEPT ![w] = p]
      /\ step' = [step EXCEPT ![w] = "lookup"] /\ step[w] = "idle"
      /\ queue # <<>> /\ queue' = SubSeq(queue, 1, 0) \o SubSeq(queue, 2, Len(queue))
      /\ UNCHANGED <<https, boot, hosts, writing, alive, host, answer>>
  BY DEF Take, Oldest, startup
<1>2. p \in Procs /\ at[p] = "queue"
  BY <1>1 DEF TypeOK, Shapes
<1> HIDE DEF p
<1>3. \A q \in Procs : at'[q] = "queue" <=> at[q] = "queue" /\ q # p
  BY <1>1, <1>2 DEF TypeOK
<1>4. /\ queue' \in Seq(Procs)
      /\ \A q \in Procs : at'[q] = "queue" <=> \E i \in DOMAIN queue' : queue'[i] = q
      /\ \A i, j \in DOMAIN queue' : queue'[i] = queue'[j] => i = j
  <2>1. queue \in Seq(Procs)
    BY DEF Shapes
  <2>2. /\ queue' \in Seq(Procs)
        /\ DOMAIN queue = 1 .. Len(queue) /\ Len(queue) \in Nat \ {0}
        /\ DOMAIN queue' = 1 .. Len(queue) - 1
        /\ \A i \in 1 .. Len(queue) - 1 : queue'[i] = queue[i + 1]
    BY <1>1, <2>1, TakeFacts
  <2>3. \A i, j \in DOMAIN queue : queue[i] = queue[j] => i = j
    BY DEF TypeOK
  <2>4. ASSUME NEW i \in DOMAIN queue', NEW j \in DOMAIN queue', queue'[i] = queue'[j]
        PROVE  i = j
    <3>1. i + 1 \in DOMAIN queue /\ j + 1 \in DOMAIN queue /\ queue[i + 1] = queue[j + 1]
      BY <2>2, <2>4
    <3>2. i + 1 = j + 1
      BY <2>3, <3>1
    <3> QED
      BY <2>2, <3>2
  <2>5. ASSUME NEW q \in Procs, NEW i \in DOMAIN queue', queue'[i] = q
        PROVE  at'[q] = "queue"
    <3>1. i + 1 \in DOMAIN queue /\ 1 \in DOMAIN queue /\ queue[i + 1] = q /\ i + 1 # 1
      BY <2>2, <2>5
    <3>2. at[q] = "queue" /\ q # p
      BY <2>3, <3>1 DEF TypeOK, p
    <3> QED
      BY <1>3, <3>2
  <2>6. ASSUME NEW q \in Procs, at'[q] = "queue"
        PROVE  \E i \in DOMAIN queue' : queue'[i] = q
    <3>1. PICK k \in DOMAIN queue : queue[k] = q /\ q # p
      BY <1>3, <2>6 DEF TypeOK
    <3>2. k - 1 \in 1 .. Len(queue) - 1 /\ queue'[k - 1] = queue[(k - 1) + 1]
      BY <2>2, <3>1 DEF p
    <3> QED
      BY <2>2, <3>1, <3>2
  <2> QED
    BY <2>2, <2>4, <2>5, <2>6
<1>5. p # None /\ \A v \in Workers : job[v] # p
  BY <1>2, HostsAssumption DEF JobsLeftQueue
<1>6. TypeOK'
  BY <1>1, <1>2, <1>4, <1>5 DEF TypeOK, Shapes
<1>7. Shapes' /\ JobsLeftQueue' /\ DomainsAreSet'
  BY <1>1, <1>2, <1>4 DEF Shapes, JobsLeftQueue, DomainsAreSet, TypeOK, Listening
<1>8. DomainIsServed' /\ WritesAreDue'
  BY <1>1 DEF DomainIsServed, WritesAreDue, Due
<1>9. NotWritten' /\ LateWriterWasTold'
  BY <1>1, <1>2, <1>5 DEF NotWritten, LateWriterWasTold, TypeOK, Shapes
<1> QED
  BY <1>6, <1>7, <1>8, <1>9

(* A worker's request, and the router that its host has.                   *)
LEMMA JobFacts ==
    ASSUME IInv, NEW w \in Workers, step[w] # "idle"
    PROVE  /\ job[w] \in Procs /\ job[w] # None
           /\ at[job[w]] \in {"wait", "late", "done"}
           /\ host[job[w]] \in Hosts /\ hosts[host[job[w]]] \in Served
           /\ host[job[w]] \in Domains => hosts[host[job[w]]] = RouterOf[host[job[w]]]
<1>1. job[w] \in Procs /\ job[w] # None /\ at[job[w]] \in {"wait", "late", "done"}
  BY DEF IInv, TypeOK, Shapes, JobsLeftQueue
<1>2. host[job[w]] \in Hosts /\ Listening
  BY <1>1 DEF IInv, DomainsAreSet
<1> QED
  BY <1>1, <1>2 DEF IInv, TypeOK, DomainsAreSet, Served, Listening

LEMMA LookupStep ==
    ASSUME IInv, NEW w \in Workers, Lookup(w)
    PROVE  IInv'
<1> USE DEF IInv
<1>1. /\ step' = [step EXCEPT ![w] = IF hosts[host[job[w]]] = None THEN "forbid" ELSE "serve"]
      /\ step[w] = "lookup"
      /\ UNCHANGED <<https, boot, hosts, writing, alive, at, host, queue, job, answer>>
  BY DEF Lookup, requests, startup
<1>2. TypeOK' /\ Shapes' /\ JobsLeftQueue'
  BY <1>1 DEF TypeOK, Shapes, JobsLeftQueue
<1>3. step'[w] = "forbid" => host[job[w]] \notin Domains
  BY <1>1, JobFacts, HostsAssumption DEF TypeOK
<1>4. DomainsAreSet' /\ DomainIsServed' /\ WritesAreDue'
  BY <1>1, <1>3 DEF DomainsAreSet, DomainIsServed, WritesAreDue, Due, TypeOK, Listening
<1>5. NotWritten' /\ LateWriterWasTold'
  BY <1>1 DEF NotWritten, LateWriterWasTold, TypeOK
<1> QED
  BY <1>2, <1>4, <1>5

LEMMA HandleStep ==
    ASSUME IInv, NEW w \in Workers, Handle(w)
    PROVE  IInv'
<1> USE DEF IInv
<1>1. /\ step' = [step EXCEPT ![w] = "send"] /\ step[w] \in {"serve", "forbid"}
      /\ answer' = [answer EXCEPT ![job[w]] = IF @ = None THEN Written(w) ELSE @]
      /\ UNCHANGED <<https, boot, hosts, writing, alive, at, host, queue, job>>
  BY DEF Handle, requests, startup
<1>2. /\ Written(w) \in Served \cup {Forbidden}
      /\ host[job[w]] \in Domains => Written(w) = RouterOf[host[job[w]]]
  BY <1>1, JobFacts DEF Written, DomainsAreSet
<1>3. TypeOK' /\ Shapes' /\ JobsLeftQueue'
  BY <1>1, <1>2 DEF TypeOK, Shapes, JobsLeftQueue
<1>4. DomainIsServed'
  BY <1>1, <1>2 DEF DomainIsServed, Shapes
<1>5. DomainsAreSet' /\ WritesAreDue'
  BY <1>1 DEF DomainsAreSet, WritesAreDue, Due, TypeOK, Listening
<1>6. NotWritten' /\ LateWriterWasTold'
  BY <1>1, JobFacts DEF NotWritten, LateWriterWasTold, TypeOK, Shapes
<1> QED
  BY <1>3, <1>4, <1>5, <1>6

LEMMA RespondStep ==
    ASSUME IInv, NEW w \in Workers, Respond(w)
    PROVE  IInv'
<1> USE DEF IInv
<1>1. /\ at' = [at EXCEPT ![job[w]] = IF @ = "late" THEN @ ELSE "done"]
      /\ step[w] = "send"
      /\ job' = [job EXCEPT ![w] = None]
      /\ step' = [step EXCEPT ![w] = "idle"]
      /\ UNCHANGED <<https, boot, hosts, writing, alive, host, queue, answer>>
  BY DEF Respond, startup
<1>2. job[w] \in Procs /\ at[job[w]] \in {"wait", "late", "done"}
  BY <1>1, JobFacts
<1>3. \A q \in Procs : at'[q] = "queue" <=> (\E i \in DOMAIN queue' : queue'[i] = q)
  BY <1>1, <1>2 DEF TypeOK
<1>4. TypeOK'
  BY <1>1, <1>2, <1>3 DEF TypeOK, Shapes
<1>5. Shapes' /\ JobsLeftQueue' /\ DomainsAreSet'
  BY <1>1, <1>2 DEF Shapes, JobsLeftQueue, DomainsAreSet, TypeOK, Listening
<1>6. DomainIsServed' /\ WritesAreDue'
  BY <1>1 DEF DomainIsServed, WritesAreDue, Due
<1>7. NotWritten' /\ LateWriterWasTold'
  BY <1>1, <1>2 DEF NotWritten, LateWriterWasTold, TypeOK, Shapes
<1> QED
  BY <1>4, <1>5, <1>6, <1>7

-----------------------------------------------------------------------------
(* Every reachable state satisfies the inductive invariant, through every  *)
(* start, end and restart of the program.                                  *)
THEOREM Invariance == Spec => []IInv
<1>1. ASSUME IInv, [Next]_vars PROVE IInv'
  <2>1. CASE Next
    BY <1>1, <2>1, MainStep, FaultsStep, ArriveStep, TimeOutStep, Return503Step, TakeStep,
       LookupStep, HandleStep, RespondStep DEF Next, Worker
  <2>2. CASE UNCHANGED vars
    BY <1>1, <2>2 DEF IInv, TypeOK, Shapes, JobsLeftQueue, DomainsAreSet, WritesAreDue, Due,
       DomainIsServed, NotWritten, LateWriterWasTold, Listening, vars
  <2> QED
    BY <1>1, <2>1, <2>2
<1> QED
  BY InitIInv, <1>1, PTL DEF Spec

(* The types of the program: a request waits in the queue once, in its     *)
(* order, or has one worker, however requests, time-outs and restarts mix  *)
(* (LeekingBucket.ServeHTTP and the workers of NewBucket).                 *)
THEOREM TypeCorrect == Spec => []TypeOK
<1>1. IInv => TypeOK
  BY DEF IInv
<1> QED
  BY <1>1, Invariance, PTL

(* A request for a configured domain is answered by its router or by the   *)
(* time-out, never refused as unknown (main, HostSwitch).                  *)
THEOREM DomainsAreServed == Spec => []DomainIsServed
<1>1. IInv => DomainIsServed
  BY DEF IInv
<1> QED
  BY <1>1, Invariance, PTL

(* A lookup meets no write of the host switch but those of the two         *)
(* addresses, in every start of the program (main, HostSwitch.Set).        *)
THEOREM LookupsAreApart == Spec => []LookupsMeetAddresses
<1>1. IInv => LookupsMeetAddresses
  <2> SUFFICES ASSUME IInv, NEW w \in Workers, step[w] = "lookup"
               PROVE  writing \in {None, HttpAddr, HttpsAddr}
    BY DEF LookupsMeetAddresses
  <2>1. Listening
    BY JobFacts DEF IInv, DomainsAreSet
  <2> QED
    BY <2>1 DEF IInv, WritesAreDue, Due, Listening
<1> QED
  BY <1>1, Invariance, PTL

(* The client of a worker that writes too late has its 503 (ServeHTTP and  *)
(* the workers of the bucket).                                             *)
THEOREM LateClientsAreTold == Spec => []LateWriterWasTold
<1>1. IInv => LateWriterWasTold
  BY DEF IInv
<1> QED
  BY <1>1, Invariance, PTL
=============================================================================
