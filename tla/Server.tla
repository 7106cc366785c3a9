------------------------------- MODULE Server -------------------------------
(***************************************************************************)
(* The server program: main (main.go) that starts the router (router.go)   *)
(* and the listeners (http/http.go), the host switch (hostswitch.go) that  *)
(* selects a router by the name of the host, and the leaking bucket        *)
(* (middlewares/bucket) between the listeners and the host switch.         *)
(*                                                                         *)
(* net/http (external) runs ServeHTTP of the bucket in a goroutine for     *)
(* each request and recovers its panics.  The bucket hands the request to  *)
(* one of its workers, where nobody does.  The ResponseWriter may not be   *)
(* used after ServeHTTP returned, and a Go map may not be read while it is *)
(* written: what follows is a lost write, or the end of the process.       *)
(***************************************************************************)
EXTENDS Integers, Sequences, FiniteSets

CONSTANTS
    Procs,          \* requests
    Workers,        \* the bucket's workers
    None,
    Domains,        \* hosts main gives to SetHostSwitch ...
    RouterOf,       \* ... and their routers
    Default,        \* the default router
    HttpAddr, HttpsAddr, Localhost,
    Others          \* hosts nobody configured

Hosts == Domains \cup {HttpAddr, HttpsAddr, Localhost} \cup Others

ASSUME WorkersAssumption == Workers # {}
ASSUME HostsAssumption ==
    /\ Domains \cap ({HttpAddr, HttpsAddr, Localhost} \cup Others) = {}
    /\ Others \cap {HttpAddr, HttpsAddr, Localhost} = {}
    /\ None \notin Procs \cup Hosts
    /\ \A h \in Domains : RouterOf[h] # None

VARIABLES
    https,          \* the configuration has a certificate
    boot,           \* where main is
    hosts,          \* the host switch: the router of each host
    writing,        \* the host that main is in hostSwitch.Set with, or None
    alive,          \* the process runs
    at, host,       \* the requests: where ServeHTTP is; their host
    queue,          \* requests that wait to send to fifo, in order
    job, step,      \* the workers: their request, and where they are
    answer          \* what the client of each request got

requests == <<at, host, queue>>
work == <<job, step>>
startup == <<https, boot, hosts, writing>>
vars == <<https, boot, hosts, writing, alive, at, host, queue, job, step, answer>>

Forbidden == 403
Unavailable == 503

Empty ==
    [hosts |-> [h \in Hosts |-> None],
     at |-> [p \in Procs |-> "none"], host |-> [p \in Procs |-> None],
     job |-> [w \in Workers |-> None], step |-> [w \in Workers |-> "idle"],
     answer |-> [p \in Procs |-> None]]

Init ==
    /\ https \in BOOLEAN
    /\ boot = "start"
    /\ hosts = Empty.hosts /\ writing = None
    /\ alive = TRUE
    /\ at = Empty.at /\ host = Empty.host /\ queue = <<>>
    /\ job = Empty.job /\ step = Empty.step
    /\ answer = Empty.answer

Boot(here, next) == alive /\ boot = here /\ boot' = next
Dies ==
    /\ alive' = FALSE
    /\ UNCHANGED requests /\ UNCHANGED work /\ UNCHANGED startup /\ UNCHANGED answer

-----------------------------------------------------------------------------
(* main *)

bootOnly == <<https, alive, at, host, queue, job, step, answer>>

(* hostSwitch.Set writes the map without a lock, each time that main uses  *)
(* it: between its two steps another goroutine may read the map.           *)
Named == \A h \in Domains : hosts[h] # None
Due(h) ==
    \/ boot = "start" /\ h = Localhost
    \/ boot = "domains" /\ h \in Domains /\ hosts[h] = None
    \/ boot = "httpaddr" /\ h = HttpAddr
    \/ boot = "httpsaddr" /\ h = HttpsAddr /\ https
SetBegins(h) ==
    /\ alive /\ writing = None /\ Due(h)
    /\ writing' = h
    /\ UNCHANGED <<boot, hosts>> /\ UNCHANGED bootOnly
Set(h, router) ==
    /\ writing = h
    /\ hosts' = [hosts EXCEPT ![h] = router]
    /\ writing' = None
    /\ UNCHANGED bootOnly

(* Start and HTTPHandlers: the host switch has localhost, and is what the  *)
(* bucket's workers serve.                                                 *)
Start == Boot("start", "domains") /\ Set(Localhost, Default)

(* SetHostSwitch for each domain, before anything listens.  Variant: all   *)
(* of them get the default router.                                         *)
SetDefault(h) == Boot("domains", "domains") /\ Set(h, Default)
SetHostSwitch(h) == Boot("domains", "domains") /\ Set(h, RouterOf[h])

(* HTTPServer.Init: the http listener serves from here on.                 *)
Listen ==
    /\ Boot("domains", "https") /\ Named
    /\ UNCHANGED <<hosts, writing>> /\ UNCHANGED bootOnly
(* An address in use, a certificate that cannot be loaded: log.Fatalln.    *)
InitFails ==
    /\ alive
    /\ (boot = "domains" /\ Named) \/ (boot = "https" /\ https)
    /\ Dies
(* The https listener, if there is a certificate.                          *)
ListenTLS ==
    /\ Boot("https", "httpaddr")
    /\ UNCHANGED <<hosts, writing>> /\ UNCHANGED bootOnly

(* SetHTTPAddr, SetHTTPSAddr: while requests are served.                   *)
SetHTTPAddr == Boot("httpaddr", "httpsaddr") /\ Set(HttpAddr, Default)
SetHTTPSAddr == Boot("httpsaddr", "ready") /\ Set(HttpsAddr, Default)
(* GetHTTPSAddr without an https listener: a nil interface.                *)
GetHTTPSAddrPanics ==
    /\ alive /\ boot = "httpsaddr" /\ ~https
    /\ Dies

Signal ==
    /\ alive /\ boot = "ready"
    /\ Dies

(* The process is started again; its clients have lost their connections.  *)
Restart ==
    /\ ~alive
    /\ boot' = "start" /\ hosts' = Empty.hosts /\ writing' = None
    /\ alive' = TRUE
    /\ at' = Empty.at /\ host' = Empty.host /\ queue' = <<>>
    /\ job' = Empty.job /\ step' = Empty.step
    /\ answer' = Empty.answer
    /\ UNCHANGED https

Main ==
    \/ Start \/ Listen \/ InitFails \/ ListenTLS
    \/ SetHTTPAddr \/ SetHTTPSAddr \/ GetHTTPSAddrPanics
    \/ \E h \in Hosts : SetBegins(h)
    \/ \E h \in Domains : SetHostSwitch(h)

-----------------------------------------------------------------------------
(* The bucket: ServeHTTP *)

(* The listeners are open.  Variant: main opens them before it names the   *)
(* domains.                                                                *)
ListeningFirst == boot # "start"
Listening == boot \in {"https", "httpaddr", "httpsaddr", "ready"}

(* A request comes and waits to send itself to a worker, without a time    *)
(* limit.                                                                  *)
Arrive(p, h) ==
    /\ alive /\ Listening
    /\ at[p] \in {"none", "done"} /\ ~\E w \in Workers : job[w] = p
    /\ at' = [at EXCEPT ![p] = "queue"]
    /\ host' = [host EXCEPT ![p] = h]
    /\ queue' = Append(queue, p)
    /\ answer' = [answer EXCEPT ![p] = None]
    /\ UNCHANGED alive /\ UNCHANGED work /\ UNCHANGED startup

(* The timeout is over: a goroutine will take the worker's message, and    *)
(* ServeHTTP goes on.  Variants: also while the request waits for a        *)
(* worker, its sender left behind; ServeHTTP just returns.                 *)
TimeOutAnywhere(p) ==
    /\ alive
    /\ at[p] \in {"queue", "wait"}
    /\ at' = [at EXCEPT ![p] = "late"]
    /\ UNCHANGED <<host, queue, alive, answer>> /\ UNCHANGED work /\ UNCHANGED startup
TimeOutSilently(p) ==
    /\ alive
    /\ at[p] = "wait"
    /\ at' = [at EXCEPT ![p] = "done"]
    /\ UNCHANGED <<host, queue, alive, answer>> /\ UNCHANGED work /\ UNCHANGED startup
TimeOut(p) ==
    /\ alive
    /\ at[p] = "wait"
    /\ at' = [at EXCEPT ![p] = "late"]
    /\ UNCHANGED <<host, queue, alive, answer>> /\ UNCHANGED work /\ UNCHANGED startup

(* ... to answer 503, which is too late for a client that has its answer   *)
(* from the worker, and to return.                                         *)
Return503(p) ==
    /\ alive
    /\ at[p] = "late"
    /\ at' = [at EXCEPT ![p] = "done"]
    /\ answer' = [answer EXCEPT ![p] = IF @ = None THEN Unavailable ELSE @]
    /\ UNCHANGED <<host, queue, alive>> /\ UNCHANGED work /\ UNCHANGED startup

(* The worker that is free receives from the sender that waits longest (a  *)
(* channel of Go is fair).  Variant: from any.                             *)
AnyNext(q) == Len(q)
Oldest(q) == 1
Take(w) ==
    LET i == Oldest(queue)
        p == queue[i]
    IN
    /\ alive
    /\ step[w] = "idle" /\ queue # <<>>
    /\ queue' = SubSeq(queue, 1, i - 1) \o SubSeq(queue, i + 1, Len(queue))
    /\ at' = [at EXCEPT ![p] = "wait"]
    /\ job' = [job EXCEPT ![w] = p]
    /\ step' = [step EXCEPT ![w] = "lookup"]
    /\ UNCHANGED <<host, alive, answer>> /\ UNCHANGED startup

(* HostSwitch.ServeHTTP reads the map: 403 for a host it has not.          *)
Lookup(w) ==
    /\ alive
    /\ step[w] = "lookup"
    /\ step' = [step EXCEPT ![w] = IF hosts[host[job[w]]] = None THEN "forbid" ELSE "serve"]
    /\ UNCHANGED <<alive, job, answer>> /\ UNCHANGED requests /\ UNCHANGED startup
MapFault(w) ==
    /\ alive
    /\ step[w] = "lookup" /\ writing # None
    /\ Dies

(* The handler ends and the answer is written.  After a timeout the        *)
(* ResponseWriter is used by two goroutines, or after its time.            *)
Written(w) == IF step[w] = "forbid" THEN Forbidden ELSE hosts[host[job[w]]]
Handle(w) ==
    LET p == job[w] IN
    /\ alive
    /\ step[w] \in {"serve", "forbid"}
    /\ step' = [step EXCEPT ![w] = "send"]
    /\ answer' = [answer EXCEPT ![p] = IF @ = None THEN Written(w) ELSE @]
    /\ UNCHANGED <<alive, job>> /\ UNCHANGED requests /\ UNCHANGED startup
LateWriteFault(w) ==
    /\ alive
    /\ step[w] \in {"serve", "forbid"} /\ at[job[w]] \in {"late", "done"}
    /\ Dies
(* A handler panics (ProxyChain and RoundRobin say where): in the worker   *)
(* nobody recovers it.                                                     *)
HandlerPanics(w) ==
    /\ alive
    /\ step[w] = "serve"
    /\ Dies

(* r.resp <- struct{}{}: ServeHTTP returns, or the goroutine that the      *)
(* timeout left receives it.  Variant: there is no such goroutine.         *)
OnlyServeHTTP(p) == at[p] = "wait"
Receiver(p) == at[p] \in {"wait", "late", "done"}
Respond(w) ==
    /\ alive
    /\ step[w] = "send" /\ Receiver(job[w])
    /\ at' = [at EXCEPT ![job[w]] = IF @ = "late" THEN @ ELSE "done"]
    /\ job' = [job EXCEPT ![w] = None]
    /\ step' = [step EXCEPT ![w] = "idle"]
    /\ UNCHANGED <<host, queue, alive, answer>> /\ UNCHANGED startup

Worker(w) == Take(w) \/ Lookup(w) \/ Handle(w) \/ Respond(w)
Faults ==
    \/ Signal \/ Restart
    \/ \E w \in Workers : MapFault(w) \/ LateWriteFault(w) \/ HandlerPanics(w)
Next ==
    \/ Main \/ Faults
    \/ \E w \in Workers : Worker(w)
    \/ \E p \in Procs : TimeOut(p) \/ Return503(p) \/ \E h \in Hosts : Arrive(p, h)

Spec == Init /\ [][Next]_vars

(* The workers go on; a handler ends (the proxy's has its own time limit). *)
Fairness == \A w \in Workers : WF_vars(Worker(w))
FairSpec == Spec /\ Fairness

-----------------------------------------------------------------------------
(* Properties *)

(* Types; the queue has exactly the requests that wait, once, and no       *)
(* request has two workers.                                                *)
TypeOK ==
    /\ https \in BOOLEAN /\ writing \in Hosts \cup {None}
    /\ boot \in {"start", "domains", "https", "httpaddr", "httpsaddr", "ready"}
    /\ alive \in BOOLEAN
    /\ hosts \in [Hosts -> {None, Default} \cup {RouterOf[h] : h \in Domains}]
    /\ at \in [Procs -> {"none", "queue", "wait", "late", "done"}]
    /\ host \in [Procs -> Hosts \cup {None}]
    /\ \A p \in Procs : at[p] = "queue" <=> \E i \in DOMAIN queue : queue[i] = p
    /\ \A i, j \in DOMAIN queue : queue[i] = queue[j] => i = j
    /\ step \in [Workers -> {"idle", "lookup", "serve", "forbid", "send"}]
    /\ \A w \in Workers : job[w] = None <=> step[w] = "idle"
    /\ \A v, w \in Workers : job[v] = job[w] /\ job[v] # None => v = w

(* A request for a configured domain is never answered by another router,  *)
(* nor refused as unknown, from the first request on: main fills the host  *)
(* switch for the domains before it opens a listener.                      *)
DomainIsServed ==
    \A p \in Procs :
        host[p] \in Domains => answer[p] \in {None, Unavailable, RouterOf[host[p]]}

(* A worker's lookup and hostSwitch.Set overlap, which is fatal, in the    *)
(* two last writes of main at most: nobody looks a host up while main      *)
(* writes localhost or a domain (HostSwitch has no lock: it is the order   *)
(* of main, and of every start after an end, that keeps them apart).       *)
LookupsMeetAddresses ==
    \A w \in Workers : step[w] = "lookup" => writing \in {None, HttpAddr, HttpsAddr}

(* A worker that writes when ServeHTTP has returned, with what may come of *)
(* it, takes nothing from its client: that one has been told 503, once,    *)
(* however the timer, the worker and the return interleave.                *)
LateWriterWasTold ==
    \A w \in Workers :
        step[w] \in {"lookup", "serve", "forbid"} /\ at[job[w]] = "done" =>
            answer[job[w]] = Unavailable

(* Each request is answered, timed out or not, and each worker comes back  *)
(* for the next one, as long as the process lives: no request is overtaken *)
(* for ever and no worker waits for a receiver that has left.              *)
EveryRequestAnswered ==
    \A p \in Procs : at[p] = "queue" ~> (answer[p] # None \/ ~alive)
WorkersComeBack ==
    \A w \in Workers : step[w] # "idle" ~> (step[w] = "idle" \/ ~alive)
=============================================================================
