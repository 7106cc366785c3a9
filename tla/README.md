# droute in TLA+

droute is a reverse proxy and the client library of the servers behind it.
Servers post their routes to the proxy; the proxy keeps, for every method and
path, a list of server addresses, and sends each request to one of them through
a chain of handlers that retry, balance, brake and time out.

This directory models the parts of that program that keep state, model-checks
them with TLC and proves most of their safety with TLAPS. All paths below are relative to `src/`.

## The system

| part | state | operations | talks to |
|---|---|---|---|
| load balancer, `router/loadbalance.go` | per method and path a list of addresses and a cursor; one RWMutex | `AddAddrs`, `Next`, `Remove` | called by `Add` and by `Balance` |
| proxy chain, `router/{retry,loadbalance,circuitbrake,proxy}.go`, `responsewriter/` | per request a response writer; the map of breakers; per attempt a goroutine and a channel | `Retry`, `Balance`, `CircuitBrake`, `Proxy`, `Copy` | balancer, destinations, gobreaker |
| registration, `router/router.go`, `client/client.go` | named routers (httprouter); in the client its own router, the remembered routes, a mutex | `Add`, `addRoute`, `getRoute`; `HandlerFunc`, the loop of `Start` | HTTP from client to proxy; balancer |
| host switch, `router/hostswitch.go`, `routers.go` | host name to router | `Set`, `ServeHTTP`, `Routers.Get` | routers |
| memory sessions, `sessions/memory.go`, `memstorage.go` | sessions, an index ordered by deadline, use counts, a mutex, a clean-up goroutine | `New`, `Restore`, `Return`, `Delete`, `IsInUse`, `Ttl`, `Close` | session middleware |
| BoltDB sessions, `sessions/boltdb.go` | records, index by deadline, in-use marks, one bucket of data per session, on disk | the same, each one or two transactions | session middleware |
| session copies, `sessions/cache.go` | a map over another session | `Get`, `Set`, `Del` | nothing uses them |
| session middleware, `middlewares/sessions/` | cookie | `Handler`, `SessionLogout` | session store |
| page cache, `middlewares/cache/` | files of bodies and headers, a mutex, a clean-up goroutine | `Store`, `ReadTo`, `GetMTime`, `Cache` | file system, the handler behind it |
| leaking bucket, `middlewares/bucket/` | an unbuffered queue, worker goroutines | `ServeHTTP` | listeners before it, host switch behind it |
| server program, `main.go`, `http/http.go` | the two listeners, the order of starting | `main`, `Init`, `GetHTTPSAddr` | bucket, host switch |
| watched lists, `list/list.go` | text or compiled entries under a mutex | the constructors, `Update`, `Exist` | configuration |
| access control, `middlewares/iplists/`, `router/ipblock.go` | lists; the routes of the crawlers and their cache file | `IPBlock`, `Referrer`, `NewFBCrawler`, `HaveIP` | watched lists, whois server, files |
| the rest: etcd configuration, request parsing, compression, schemes, basic auth, headers | none of interest | | |

What is hard here is concurrency without enough locks (the cursor of the
balancer, the map of breakers, the tree of httprouter, `Add` in three steps),
goroutines that outlive the request that started them (`Proxy`, the bucket),
failures halfway (retries on one writer, recovered panics), and the recovery of
a proxy that keeps everything in memory or in files. `PROJECT.json` lists each such place
with the properties that watch it.

What makes each part correct:

* *balancer*: no address twice on a list; `Next` returns a listed address, or
  none; one caller sees a rotation; `Remove` takes out its target;
* *chain*: every request is answered, whole, by one attempt; only real failures
  of a server take it off its list; a dead server is braked; goroutines end;
* *registration*: a route that is answered for has servers; a listed server
  serves the path; a remembered route comes back after any fault; servers of
  different domains are kept apart;
* *sessions*: a session in use is not deleted; an expired one goes and a live
  one stays; `Close` returns; all stores promise the same;
* *page cache*: body and headers of a copy belong together; a hit is not stale; a
  good answer arrives whole;
* *server*: every domain gets its router from the first request on; every request
  is answered once; the workers come back;
* *access*: what is always listed is always refused or let in; the stored crawler
  list is complete and is the one that is used.

## Modules

**Pool** holds the operations on one address list as operators on sequences,
with the code's own slice bounds: `RemovedFrom` drops the entry before the
target as well. The three state machines below use it.

**RoundRobin** is the balancer. The variable `ips` is the lists, `actual` the cursors,
`known` the keys of the maps. `AddAddrs` and `Remove` hold the write lock: one
step each. `Next` holds the read lock but writes the cursor, so it is six steps
(`NextEnter`, `NextCheck`, `NextReset`, `NextIndex`, `NextLoad`, `NextStore`),
with an index panic as a possible result; the deferred increment runs in that
case too. Which wildcard or named key a path matches is the constant relation
`Matches`; with several matching keys the choice is free, as Go's map order.
The racing access to the cursor is taken as sequentially consistent loads and
stores of a word, which is what the build does on the supported platforms.

**Rotation** is what a round-robin balancer promises: per key a queue whose head
is served and moved to the tail. `RoundRobin!Rotates` says the lists implement
it under the mapping "the list read from the cursor on". An insertion may be at
any place of the queue (an append lands somewhere in the middle of it), and a
removal may drop more than its target, because the code does.

**ProxyChain** is the life of requests through
`Handler(Retry(Balance(CircuitBrake(Proxy))))`. `pc` is where the goroutine of a
request is, `call[<<r, n>>]` the goroutine of its `n`-th attempt, which writes the
same `code`, `length` and `body` (the response writer); a send on the unbuffered channel is the
stage `signal`, taken by `Receive`, or by nobody after `TimeOut`. `sent` is what the client gets. `Next` and `Remove` of the
balancer are one step each here. `cbs` is the map of breakers, and its unlocked accesses
are separate steps (`Lookup`, `Install`, `Delete`); where two of them can be in
progress at once, or two goroutines can be in one header map, `MapFault` may end
the process, as Go's runtime does when it detects concurrent map writes. The
breakers are gobreaker's with default settings (external): consecutive failures,
generations, half-open with one trial. The threshold `TripAfter` is 5 in the
library and a parameter here.

Abstractions: a body is the sequence of parts written to it (the answer of attempt `n`, what
could be read of it, or its error). Of the headers only `Content-Length` is kept, as the
attempt whose value comes first (`length`): `Proxy` adds headers, so it stays for all later
attempts, and `net/http` goes by the first. `CopyOut` is the one `Write` of `Copy`, and
`Outcomes` what `net/http` (external) makes of it: a body longer than its length, or any under
a status without one, is refused with an error and the client gets no body; a shorter one goes
out and the connection is closed; without a length all goes out. The bytes are not counted, so
where sizes decide, both outcomes are possible. `Copy`'s error is only logged. Requests with
`HEAD` are left out. A status written by `ErrHandler` and its body are one step, since the
waiting goroutine does both without blocking and nothing reads between; an empty body is a
part. `Misrouted` requests have a language prefix, which `Balance` trims for `Next` and not for
`Remove`. `Times` is at least 1 (with 0 attempts no handler is called at all).

**Registration** is how addresses get into those lists. Proxy side: `Add` in its
steps per client request (`hand`), `AddInvalid`, `AddExisting`, `AddNew`, then
`HandlePanics` or `HandleBegins`/`HandleEnds` (an insertion that overlaps another
in the same httprouter may be lost), then `AddAddrs`. Client side: `HandlerFunc`
and the loop (`LoopTick`) compete for the lock `lck` and hold it over `Post` and
`GotReply`; a route added again always fails in the client's own router
(a recovered panic), which the loop ignores. Listing the routes changes nothing and
is left out (`getRoute` panics whenever it succeeds, `router/router.go:448`). The
environment: `ProxyCrash` and `Restart`, `ClientRestart`, `ConnectionBreaks` (the
proxy goes on), `Unlist` (`Balance`'s removal), all but `Restart` counted by
`faults`. A client has one request at the proxy at a time: after a broken
connection its next one is taken up when the old one is done. Methods are left
out: they only multiply the keys. httprouter (external) is a set of routes with
the relations `Covers` (wildcards) and `Twins` (trailing slash).

**SessionStore** is the promise of the interface `Sessions` as the tests of the
package use it: which names have a session and who was handed which. A session is
deleted only while nobody holds it.

**MemSessions** is the store in memory with the requests of the session middleware.
`sess`, `count`, `slots`/`len` are `m.sessions`, `m.count` and the array and length
of the slice `m.o`; `Take` and `Put` are `Ordered.Del` and `Ordered.Set` with the
binary search (which panics on a nil element) and the growth of `append`.
`Restore`, `New`, `Return`, `Delete` hold `m.lck` and are one step each. The
clean-up goroutine walks the array it saw at its start without the lock, so its
steps are single reads, single deletions (`del`, under the lock) and single removals of
the commit; `walk.own` says that the index has moved to another array since.
`CloseLooks` and the send in `sessionDec` are the handshake of `Close`, `jammed` the
state where that send waits for ever with the lock held. A panic in the walk ends
the process. Not kept: the data of a session, which has a lock of its own, and the
partial writes of one copy of a slice (a memory move is one step).

**BoltSessions** is the store in a Bolt file. Bolt (external) runs one writing
transaction at a time and all of it or nothing, so each transaction is an action:
`Restore` and `New` are two (the record, then `OpenSession`, on whose failure
`CancelSession` takes the mark off again). `ts`, `index`, `mark`, `data` are the
buckets. A commit may fail, `Stop` ends the process at any time, `Open` is
`OpenSessionsBoltDB` on the file it left. `lost` names the sessions whose mark a
failed transaction left, `shared` those two requests have held at once; both are
there only for the properties to say what they except.

**PageCache** is `Cache` and `exec` over a `Storage`, for one page and its directory.
`OutDate`, `ReadTo` (`ReadHeader`, `ReadBody`, `ReadFails`) and `Store` (`MkdirAll`
to `Encode`) are steps at every file operation, since the clean-up (`SweepFile`,
`SweepLooks`, `SweepDir`) does not take the lock. A body or header file is the number
of the source's version it was made from, with the size, so that a shorter body
written over a longer one keeps its tail (there is no `O_TRUNC`).

**Server** is `main` in its order of calls, the map of the host switch, which `main`
still writes when the listeners serve, and the bucket. `queue` is the order of the
senders blocked on `fifo` (Go's channels are first come, first served), `step[w]` where
a worker is, `at[p]` where `ServeHTTP` of a request is: after its timer it is `late`, has its 503
to write and may do so while the worker writes too. `writing` is the host that `main` is storing
with `hostSwitch.Set`; every one of these writes, `Start`'s for localhost and those for the domains too,
has a beginning and an end, and a lookup in between may end the process (`MapFault`).
So may a nil listener, a write to a `ResponseWriter` that is used twice or was given back, and a panic
in a worker, where `net/http` recovers none. `Restart` starts it again. Here a handler is one
step; ProxyChain is what it does.

**Access** is the lists, `IPBlock`, `Referrer` and `FBCrawler`. `Loaded` is `Update`
of the two kinds of lists; `Kinds` says how the three lists may have been made.
The loop of `FBCrawler.parse` is told by its lines: those that begin a record (`Begin`), those
that stop the loop (`Stops`), the blank one that stores a record (`Ends`), and with them
what is stored of an answer (`Recorded`) and how the loop ends (`End`). `CutShort` is an
answer whose connection ended early. `Crash` and `Start` begin again from the cache file.
One request is under way at a time, while the lists change under it: requests share
nothing but the lists they read. Nothing under `src/` installs these middlewares;
they are modelled by their own code. The order of a list is dropped (`Exist` does
not depend on it); name resolution gives any address or none.

**MCRoundRobin**, **MCProxyChain**, **MCRegistration**, **MCMemSessions**, **MCBoltSessions**,
**MCPageCache**, **MCServer** and **MCAccess** give the constants their values.

## Runs

| run | result | shows |
|---|---|---|
| `roundrobin_two` | holds | two goroutines, an exact and a wildcard key: `TypeOK`, `ListsHaveNoDuplicates`, `PickIsStillListed` |
| `roundrobin_one` | holds | calls that follow one another: `NextNeverPanics`, `Rotates` |
| `roundrobin_panic` | violated | two overlapping `Next` calls: one increments the cursor after the other has checked it, the index is out of range |
| `chain_pair` | holds | two requests, two destinations: `RemovalNeedsLateAnswer`, `DirtyBreakerIsDoomed`, `TypeOK` |
| `chain_retries` | holds | two attempts, destinations that may hang or answer without a body, a misrouted request: `OnlyTimeoutsLeak`, `AnswerIsWhole`, `Answered` |
| `registration_again` | holds | two clients, slash twins, a bad add, two faults: `TypeOK`, `RouteHasListOrAdder`, `ListedIsServed`, `Reregistered` |
| `mem_sessions` | holds | two requests, two names, the clean-up and a `Close`: `TypeOK`, `CountsAreHolders`, `IndexMatches`, `CloseIsWoken`, and `KeepsPromise`, the refinement of SessionStore |
| `bolt_sessions` | holds | three requests, two names, two faults: `TypeOK`, `MarksHaveHolders`, `IndexIsTruthful`, `ExclusiveUseIsSafe` |
| `bolt_shared` | violated | of two requests with one session the first to return takes the mark off, and the session can be deleted under the other |
| `page_cache` | holds | two requests, three versions of the page, the clean-up, a failing write: `TypeOK`, `PairMatches`, `HitIsFresh`, `GoodAnswerIsWhole` |
| `server` | holds | `main`, three requests, one worker, a domain that redirects: `TypeOK`, `DomainIsServed`, `LookupsMeetAddresses`, `LateWriterWasTold`, `EveryRequestAnswered`, `WorkersComeBack` |
| `access` | holds | three makes of the lists, two whois systems, two faults: `TypeOK`, `ListsKeepEntries`, `ListedIsNotDefaulted`, `CacheIsWhole`, `StoredIsUsed` |

The violated runs are disagreements between the code and a comment or a test of
the repository; `findings` in `PROJECT.json` quotes both sides, and
[Disagreements](#disagreements) lists them with those no run is kept for.

Some of the results that hold need a word. `RemovalNeedsLateAnswer`: `Balance` removes a server
on a code above 500, but `CircuitBrake` inside it turns exactly those codes into 500, so a
removal only ever happens when an exchange that outlived its timeout overwrites the code in
between. `DirtyBreakerIsDoomed`: a breaker in the map that has counted a failure is about to be
deleted by the request that failed, so counts above one need failures at the same time.
`AnswerIsWhole`: without a timeout, the answer of a first attempt reaches the client whole and
alone. That of a later one never does, since `Retry` gives all attempts one writer and resets
nothing: it comes behind what the failed attempts left, or, when the sum does not fit the first
`Content-Length`, nothing comes at all. `LookupsMeetAddresses`: what keeps `hostSwitch`, a map
without a lock, from ending the process is only the order of `main`, and it does so for all
writes but the last two. `LateWriterWasTold`: whatever comes of a handler that writes after its
request's time, the client already has its 503.

Several properties of the later modules hold with an exception, and the exception is
the result: it is exactly what the code cannot avoid.

* `IndexMatches`: not when the index changed during a walk (`raced`), which may leave
  nil elements in it or lose sessions from it; and a `Restore` at the very deadline of
  another session loses its own entry (`tied`), as `Ordered.Set` refuses an equal key.
* `CloseIsWoken`: a `Close` that waits is woken, or the store is jammed: a `Return` that
  meets a `Close` on its way back to the lock sends with the lock held and stops every
  call for ever. That is why `mem_sessions` does not check for deadlock.
* `ListedIsServed`: without faults. Where routes overlap, a listed client may have another of
  them instead.
* `MarksHaveHolders`: a `Return` or `cancelSession` that cannot write leaves a mark, until
  the file is opened again. `ExclusiveUseIsSafe` is about sessions that were
  never shared; `bolt_shared` shows what sharing does.
* `HitIsFresh`: a copy made before the last change may be stored after it and then looks
  newer than it (`late`); a change in the clock tick of the copy cannot be told from
  it; and a `Store` that could not write leaves what it wrote. `GoodAnswerIsWhole` is about
  requests during which no write failed, no clean-up ran and no body misfitted its
  headers (`calm`).
* `ListsKeepEntries`: a list of expressions that read a configuration it cannot use is empty
  or cut short until the next `Update` (`spoilt`); a text list keeps what it had.
  `CacheIsWhole`: an answer that ended early (`cut`) is stored as if it were whole.

Bounds. `MaxCursor` (3 or 4) stops the cursor past every list length: racing stores let it
climb without end, and all larger values behave alike, since the check resets them. Three
addresses are the least for which `Remove` has a middle; two threads the least that race. Two
requests meet on every shared object of the chain, and two attempts are the least that leave a
stale exchange beside a new one; with `TripAfter = 1` two failures open a breaker. Two faults
reach every kind of fault in every state of two clients, and a second one during the recovery
from the first. Of the sessions two are the least for an index with an order, and two requests
the least that share one; Bolt has a third so that one can delete what two share. Four session
objects let a deleted one be still known to the walk while another takes its name. `MaxNow` is
1 or 3 with a `Ttl` of 1: sessions live, expired and equal in deadline all occur. The versions
of the page have sizes 1, 2, 1: longer and shorter than the one before. One worker and three
requests fill the bucket's queue behind a request that timed out; a second worker only shortens
it. The domain of `main` with the default router behaves as localhost does and is left out of
the run. The answers of `chain_retries` are one without a body (204), a good one, a plain 500
and a failure that `CircuitBrake` turns into 500. Two whois systems are the least where one can
fail after another succeeded. `MaxFaults` is 2, so that one fault may meet the recovery from
another, but for the page (1), where a failed write and the clean-up already overlap.

Fairness. `ProxyChain!FairSpec`: the goroutine of a request keeps running (Go
schedules it, and `time.After` fires); nothing is assumed of destinations or of
their goroutines. `Registration!FairSpec`: the proxy's handlers run, clients that
hold their lock go on, a stopped proxy is started again, and the loop's `LoopTick`
has strong fairness, since it competes with the application for a `sync.Mutex`,
which hands itself to a waiter that has starved for a millisecond.
`MemSessions!FairSpec`: a handler ends and its deferred `Return` gets the lock; a `Close` that
was woken looks again. `Server!FairSpec`: the workers go on, and a handler ends (the proxy's
has its own timer); `Take` is first come, first served, as a Go channel is.
Nothing is assumed of clients, of `main` or of the timer of the bucket.
`Reregistered` is checked for routes that do not overlap: with a wildcard route over
another path it fails, since after a restart the narrow route may come back first
and the wildcard then conflicts with it for good.

## Proofs

`RoundRobinProofs`, for any threads, keys, paths, addresses and any relation `Matches`:
`TypeCorrect`, `ListsStayUnique`, `PicksStayListed`. `AddedToFacts` and `RemovedFromFacts` say
what an insertion and a removal do to a duplicate-free list, and that what a removal leaves
keeps its order (the other modules that use the lists prove the little they need of it). The
inductive invariant `IInv` is the three together: that a pick stays listed needs that writers
wait for readers (`CanWrite`), and that `Entry` is an address needs the types.
`SequentialNextNeverPanics`: with at most one thread, `CursorInv` (between check and index the
list is not empty and the cursor is inside it) is inductive, so `Next` never panics.
`roundrobin_panic` shows that the assumption is needed. `SequentialNextRotates`, under the same
assumption: the balancer implements Rotation. The queue is the list turned by the cursor, and
the lemmas say what happens to it: turned by one when a call stores the cursor (`CutServe`),
one address put in when it is appended, also behind a cursor that stands at the end or past it
(`CutAppend`), the rest in cyclic order when one is removed (`WithinTurned`, `CutRemove`).
`CallInv` adds to `CursorInv` what a call knows between its steps: at the reset the cursor is
past the end, so that the reset does not show; after the index the cursor is that of its pick.

`ProxyChainProofs`, for any requests, destinations, answers, number of attempts and
threshold: `TypeCorrect`, `RemovalOnlyAfterTimeout`, `LeaksAreTimeouts`,
`BreakersForget`, `AnswersAreWhole`. The invariant `IInv` adds to the types

* `BreakerInv`: a breaker in the map or in a request's hands is of the destination it
  stands for (`Named`), one that is still to be made is nobody's (`Fresh`), and one in
  the map that is not clean has a request at `delete` that holds it (`Doomed`). `Named`
  makes the deletion hit the breaker that failed; `Fresh` keeps `Install` from wiping
  one that is in use;
* `LateInv`: `OnlyTimeoutsLeak` and `RemovalNeedsLateAnswer` together. Neither is
  inductive alone: that no code above 500 reaches `check` without a late exchange
  needs that only the exchange a request waits for can write its code, which is the
  other one;
* `AnswerInv`: an exchange is late only when the wait of its attempt, which comes once, is over
  (`LateAreOver`), so a request none of whose exchanges is late is written to only by the one
  it waits for; `Story` follows what that one has written through its stages, up to the
  answer that is sent. The parts of attempt `n` come from its exchange alone (`Unwritten`), each
  attempt before the last left something (`Leftover`), and the length that is sent is that of an
  attempt that was made (`LengthIsKnown`). `OutcomeFacts` says what `Outcomes` makes of such a body.

`BoltSessionsProofs`, for any requests, names, keys, bounds of the clock and number of
faults: `TypeCorrect`, `NoMarkIsStranded`, `IndexFollowsRecords`, `SoleUserKeepsSession`.
The invariant `IInv` adds to the four properties

* `DownIsIdle`: no request outlives its process; without it `Open`, which drops every mark,
  would take marks from requests that hold their session;
* `MarkedHaveRecords`: a session with a mark has a record, since `Delete` looks at the mark
  first. Without it a `Return` might find no record and leave its mark behind, and
  `MarksHaveHolders` would fail;
* `SoleUser`: a session that was never shared has one user at most, so that the `Return` that
  takes the mark off is its last user's. `ExclusiveUseIsSafe` needs it.

`TakesFacts`, `LeavesFacts` and `StaysFacts` say what a request's steps do to the users of a session;
the steps for the marks and for exclusive use rest on them.

`MemSessionsProofs`, for any finite set of requests and any names, objects and bounds of the
clock: `TypeCorrect`, `CountsAreTrue`, `IndexIsKept`, `Refinement`. `TakeFacts` and `PutFacts`
say what `Ordered.Del` and `Ordered.Set` do to the array, whatever place the binary search
finds. The invariant `IInv` adds to the types and the counts

* `WalkInv`: wherever the walk of the clean-up reads there is something to look at;
* `ElementsAreNamed`: every object in the map, the index or the walk's array has a name. It holds
  because an object is used again only when all of them have forgotten it, and without it
  the walk could delete for a name that is nobody's;
* `RequestsHaveNames`, `HoldersHaveObjects`: who is about to make a session knows its name,
  who holds one has its object. With `CountsAreHolders` they make each call change one count
  by the one holder it adds or takes away (`HoldersAfter`, and cardinalities of finite sets).

From `IInv` each action is a step of SessionStore or a stutter (`Refinement`): a session
leaves the map only with a count of 0, that is, held by nobody.

`IndexIsKept` (`IndexMatches`) needs what `sort.Search` finds. The recursion of `Search` asks
about shorter intervals only (`ProbeSame`), so it has a solution (`SolvedAll`) and `Search`
follows it; and an interval with a wrong answer, the shortest of them, would lead to one
with a shorter interval (`SearchFacts`). Both are arguments by the least natural number
(`LeastNatural`), which the library's theorems on well-founded orders give without an
operator as a parameter. `SearchFacts` holds of any slice: a nil was met, or the place is
between an element before the key and one that is not. For a slice in order it follows
that `Ordered.Del` finds what is there and `Ordered.Set` keeps the order (`TakeOrdered`,
`PutOrdered`). The invariant `IndexInv`, beside `IInv`, is

* `NamesMatch`: a session in the map has the name it is found under, so no object is there twice;
* and as long as nothing raced, `WalkSees`: the walk has the index's own array and all its
  length, so the name it will delete is that of an element, and that element is the session;
* `InOrder`: what the commit has left of the slice (`Kept`) is in order, the rest is nil;
* `InIndex`: the slice has sessions and what is chosen for deletion, every session
  unless there was a tie, and everything chosen, so that the commit finds it.

Without the last of these the commit could end early and store a slice with sessions that are
gone. A `Restore` may move its session within the slice; when it leaves the slice as it was
during a walk, which is no race, the order is still there (`RestoredInPlace`).

`RegistrationProofs`, for any clients, paths, routers and relations `Covers` and `Twins`:
`TypeCorrect`, `RoutesHaveLists`, `ListedAreServed`. The invariant `IInv` adds

* to the types, that a path without a list has no addresses, and that the client's
  memory is ordered: what is to be sent again is remembered, what is remembered is served;
* `WorkIsAwaited`: without faults the proxy works only on the route its client waits for, so
  that the reply it sends is about the client's current route;
  The proof of `ListedIsServed` needs it, and is how its exception was found: the proxy lists a
  client before the client's own router has accepted the route (`client/client.go:254`), so
  with a wildcard over the path the client may refuse what it is listed for, and all
  that holds then is that it has a route that overlaps. TLC shows it with one wildcard.

`PageCacheProofs`, for any requests, versions and sizes of the page, ticks and failing
writes: `TypeCorrect`, `PairsMatch`, `HitsAreFresh`, `GoodAnswersAreWhole`. The invariant `IInv` is

* `LockInv`, `DirInv`: `Store` and `ReadTo` exclude one another, files lie in the directory;
* `PairInv`, `NewBodyInv`: headers and body differ only while a request is between the two
  writes, and then the body is the one whose headers it will write, or was removed;
* `SourceInv`: of two times one can tell two versions (`Follows`). A body is behind a change only
  if it is `late`, `bad`, or no younger than the change; it holds for the source and
  for what each request knows of it;
* `HitInv`: a request that reads found the copy not out of date, and copies only get younger;
* `WholeInv`: a calm request has written nothing before its answer, and its directory stays.

Two lemmas carry the steps: `QuietStep` for those that change no file and `StoreStep` for
those of `Store`.

`ServerProofs`, for any requests, workers, hosts and domains: `TypeCorrect`, `DomainsAreServed`,
`LookupsAreApart`, `LateClientsAreTold`. The invariant `IInv` adds to them

* `Shapes` and `JobsLeftQueue`: the request of a worker is out of the queue, so none is given to two
  workers; `TypeCorrect` rests on it, as a request is in the queue once;
* `DomainsAreSet`: no request is there before main has named the domains, nobody takes their
  routers away, and a worker that refuses a host has one without a router;
* `WritesAreDue`: what main is writing is what its place in the program says, and a domain only as
  long as it has no router; so no write is under way when the first listener opens, and a
  worker, whose request came through a listener, meets only the last two writes;
* `NotWritten`: a client has no answer as long as its request waits, and while its worker has not
  written and `ServeHTTP` has not returned, so that the 503 of a timeout is not one too late.

`AccessProofs`, for any lists, entries, configurations, whois systems and answers:
`TypeCorrect`, `EntriesAreKept`, `ListedAreNotDefaulted`, `StoredIsWhole`, `StoredAreUsed`.
The invariant `IInv` is, beside the types,

* `FileInv`: while a process fetches or stores, no file can be decoded; without it a fetch could
  replace a whole file by less, or differ from it;
* `WholeInv`: what the systems asked so far have published is known (`i < pos`), so that all of
  it is when the last one was asked and the file is written;
* `ListInv`: `ListsKeepEntries` already from the start of the process, before anything is served;
* `SeenInv`: a request has seen where its referrer is now, and at `deny` a moment at which it
  was not allowed. What it sees later at `deny`, together with that, is the exception.

The assumptions are those the modules declare: names that are not addresses, codes in 100..599,
at least one attempt, a positive life of a session, finitely many requests (for counting them),
a router for every configured domain (`SetHostSwitch` refuses one that is missing), names for
nobody and nothing that are not also requests, whois systems that have answers, configurations
made of entries. TLC evaluates them in every run.

Every invariant and both refinements the passing runs check are proved, `NextNeverPanics` and
`Rotates` for one thread, as they are checked. Model-checked only: `Answered`, `Reregistered`,
`CloseIsWoken`, `EveryRequestAnswered` and `WorkersComeBack`, since liveness under fairness
is out of the prover's reach, as `ENABLED` is.

## Disagreements

With a run: overlapping `Next` calls panic (`roundrobin_panic`, `router/loadbalance.go:121`
against the comment at :103); a shared Bolt session is deleted under its holder
(`bolt_shared`, `sessions/boltdb.go:399` against `sessions/tests.go:82-87`).

Shown by the models, with no run kept for them:

* `Remove` drops the entry before its target as well: `router/loadbalance.go:150`, comment
  at :130. `Pool!RemovedFrom` has it, and `Rotates` allows it.
* A retried request gets what the failed attempts left and the good answer in one body, under the
  first attempt's `Content-Length` (`router/proxy.go:102-107`); when that is too short the `Write` of
  `responsewriter/responsewriter.go:78` fails and the client gets no body. `router/retry.go:13`
  says "Retry try multiple time to get a correct response from the handler." `AnswerIsWhole`
  says that after a retry it never arrives whole and alone.
* A late exchange overwrites the 408 of its timeout: `router/proxy.go:131`, test at
  `router/proxy_test.go:177`. `RemovalNeedsLateAnswer` is one of its effects.
* The breaker of a server that always fails is deleted at each failure and never opens:
  `router/circuitbrake.go:44`, comment at :21-22. `DirtyBreakerIsDoomed` says so.
* Of two servers that add one new route at once, one is answered 422:
  `router/router.go:202`, comment at :203-204.
* Servers of two domains share the list of a path: `router/router.go:223`,
  `README.md:10-12`.

## Plan

1. *Composition*: Registration with ProxyChain over one RoundRobin, and Server before
   them, so that a panic of the balancer ends the process and a timeout of the bucket
   meets one of the proxy.
2. *Pure functions*: `matchWildcard`, `matchNamedParam` on bounded paths; `RootDirHash`.
3. *Data of memory sessions*, under the session's own lock; `Stop` of the listeners.

## Not modelled

* `etcd/`, a client of an external service: almost every line is a call of a library
  that is not under `src/`.
* `middlewares/request`, which parses form values and headers and keeps no state.
* `middlewares/{compress,scheme,basicauth,expire,hsts,minify,redirect,fileserver}`,
  which rewrite one request or response and keep no state of their own.
* `sessions/cache.go` (`CacheEntry`, `MemEntry`), which no code of the repository uses.
* The TLS settings, the command line and the configuration file of the server, logging,
  and the wording of its answers.
* In the modelled parts: the matching of a path against wildcards, header contents,
  `Routers` beyond its default entry, the values of sessions, cookies, how a path
  becomes a file name. The notes in `PROJECT.json` say so part by part.
