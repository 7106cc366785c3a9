---------------------------- MODULE ProxyChain ----------------------------
(***************************************************************************)
(* The life of requests to one proxied route: the handler that Router.Add  *)
(* builds (router.go:210-222),                                             *)
(*                                                                         *)
(*    Handler(Retry(times, Balance(lb, CircuitBrake(cbs, Proxy(timeout)))))*)
(*                                                                         *)
(* one goroutine per request, plus one goroutine per attempt that talks to *)
(* the destination and writes the SAME response writer.  The requests      *)
(* share the list of destinations and the map of circuit breakers.         *)
(*                                                                         *)
(* Next and Remove of the balancer are one step here; module RoundRobin    *)
(* looks inside them.  The breakers are those of github.com/sony/gobreaker *)
(* with the settings CircuitBrake gives (a name), as its callers see them. *)
(* Of the headers only Content-Length is kept: net/http holds the answer   *)
(* to it, and the attempts of a request add theirs to the same map.        *)
(***************************************************************************)
EXTENDS Pool, FiniteSets

CONSTANTS
    Requests,   \* requests to the route
    Dests,      \* destination addresses
    NoDest,     \* the empty string
    Times,      \* number of attempts of Retry (proxyRetries)
    TripAfter,  \* a breaker opens at more consecutive failures than this
    Answers,    \* status codes destinations answer with
    Misrouted   \* requests whose URL path is not a key of the list (a
                \* language prefix: Balance trims it for Next, not for Remove)

ASSUME TimesAssumption == Times \in Nat \ {0}
ASSUME TripAssumption == TripAfter \in Nat
ASSUME AnswersAssumption == Answers \subseteq 100 .. 599
ASSUME NoDestAssumption == NoDest \notin Dests
ASSUME MisroutedAssumption == Misrouted \subseteq Requests

VARIABLES
    pool, cursor,   \* the balancer's list for the route, and its cursor
    cbs,            \* destination -> its breaker, or NoBreaker
    breaker,        \* the breaker objects, named by the attempt that made them
    pc,             \* where the goroutine of a request is
    try,            \* the attempt Retry is at
    dst,            \* the address Balance put in the context
    cb, gen,        \* the breaker CircuitBrake works with; its generation
    code, body,     \* the response writer: status code, and what was written
    length,         \* ... the attempt whose Content-Length is first in its
                    \* header, 0 while there is none
    call,           \* the exchange of an attempt with its destination
    sent,           \* what the client got
    alive           \* the process runs

reqVars == <<pc, try, dst, cb, gen>>
writer == <<code, length, body>>
vars ==
    <<pool, cursor, cbs, breaker, pc, try, dst, cb, gen, code, length, body, call, sent, alive>>

-----------------------------------------------------------------------------
(* Helpers *)

Attempts == 1 .. Times

(* Breakers and exchanges are named by request and attempt.                *)
Ids == Requests \X Attempts
NoBreaker == <<>>

Ok == 200
RequestTimeout == 408
InternalServerError == 500

(* What is in a body: the answer of attempt n's destination, what could be *)
(* read of one, or the JSON error that ErrHandler appended in attempt n.   *)
Parts == [attempt : Attempts, kind : {"answer", "cut", "error"}]
Answer(n) == [attempt |-> n, kind |-> "answer"]
Cut(n) == [attempt |-> n, kind |-> "cut"]
Error(n) == [attempt |-> n, kind |-> "error"]

(* Variant: 500 counts as a failure of the server too.                     *)
AnyServerError(c) == c >= 500 /\ c < 600

(* code > 500 && code < 600: CircuitBrake and Balance.                     *)
ServerFailed(c) == c > 500 /\ c < 600

(* code >= 500 && code < 600: Retry.                                       *)
WorthRetrying(c) == c >= 500 /\ c < 600

Goto(r, label) == pc' = [pc EXCEPT ![r] = label]

(* errhandler.ErrHandler with a non-nil error, for request r: it adds to   *)
(* the body and leaves a Content-Length that is there.                     *)
ErrHandler(r, c) ==
    /\ code' = [code EXCEPT ![r] = c]
    /\ body' = [body EXCEPT ![r] = Append(@, Error(try[r]))]
    /\ UNCHANGED length

(* The exchange of an attempt is over or never began.                      *)
Quiet(i) == call[i].stage \in {"none", "ended"}

(* gobreaker: counts are cleared whenever the state changes.               *)
ClosedBreaker(d) == [dst |-> d, state |-> "closed", fails |-> 0, trials |-> 0, gen |-> 0]
InState(b, s) ==
    [dst |-> b.dst, state |-> s, fails |-> 0, trials |-> 0, gen |-> b.gen + 1]

(* gobreaker, beforeRequest: an open breaker rejects, a half-open one lets *)
(* a single request through.                                               *)
Admits(b) == b.state = "closed" \/ (b.state = "half" /\ b.trials = 0)
Admitted(b) == IF b.state = "half" THEN [b EXCEPT !.trials = 1] ELSE b

(* gobreaker, afterRequest: the result of a request that began in an older *)
(* state is dropped.                                                       *)
AfterSuccess(b) == IF b.state = "half" THEN InState(b, "closed") ELSE [b EXCEPT !.fails = 0]
AfterFailure(b) ==
    IF b.state = "half" \/ b.fails + 1 > TripAfter
    THEN InState(b, "open")
    ELSE [b EXCEPT !.fails = @ + 1]
AfterRequest(b, g, failed) ==
    IF b.gen # g THEN b ELSE IF failed THEN AfterFailure(b) ELSE AfterSuccess(b)

-----------------------------------------------------------------------------
NoCall == [stage |-> "none", dst |-> NoDest, code |-> 0, sized |-> FALSE,
           err |-> FALSE, late |-> FALSE]
Begun(d) ==
    [stage |-> "do", dst |-> d, code |-> 0, sized |-> FALSE, err |-> FALSE, late |-> FALSE]

(* What a client got: status, Content-Length and body, and how the Write   *)
(* of Copy ended.                                                          *)
Unsent == [code |-> 0, length |-> 0, body |-> <<>>, end |-> "none"]

(* Every request has just entered Retry with a new response writer.        *)
Init ==
    /\ pool \in {s \in UNION {[1 .. n -> Dests] : n \in 0 .. Cardinality(Dests)} :
                    NoDuplicates(s)}
    /\ cursor = 0
    /\ cbs = [d \in Dests |-> NoBreaker]
    /\ breaker = [i \in Ids |-> ClosedBreaker(NoDest)]
    /\ pc = [r \in Requests |-> "balance"]
    /\ try = [r \in Requests |-> 1]
    /\ dst = [r \in Requests |-> NoDest]
    /\ cb = [r \in Requests |-> NoBreaker]
    /\ gen = [r \in Requests |-> 0]
    /\ code = [r \in Requests |-> 0]
    /\ body = [r \in Requests |-> <<>>]
    /\ length = [r \in Requests |-> 0]
    /\ call = [i \in Ids |-> NoCall]
    /\ sent = [r \in Requests |-> Unsent]
    /\ alive = TRUE

(* A client registers an address for the route (AddAddrs).                 *)
AddAddrs(d) ==
    /\ pool' = AddedTo(pool, d)
    /\ UNCHANGED <<cursor, cbs, breaker, reqVars, writer, call, sent>>

-----------------------------------------------------------------------------
(* Balance *)

(* The list is empty: 500, and back to Retry.                              *)
BalanceNone(r) ==
    /\ pc[r] = "balance"
    /\ pool = <<>>
    /\ ErrHandler(r, InternalServerError)
    /\ Goto(r, "retry")
    /\ UNCHANGED <<pool, cursor, cbs, breaker, try, dst, cb, gen, call, sent>>

BalanceNext(r) ==
    /\ pc[r] = "balance"
    /\ pool # <<>>
    /\ dst' = [dst EXCEPT ![r] = pool[Wrapped(pool, cursor) + 1]]
    /\ cursor' = Wrapped(pool, cursor) + 1
    /\ Goto(r, "lookup")
    /\ UNCHANGED <<pool, cbs, breaker, try, cb, gen, writer, call, sent>>

(* After the handler: a server failure takes the destination off the list. *)
(* The code is read from the writer that a late exchange may still write.  *)
BalanceCheck(r) ==
    /\ pc[r] = "check"
    /\ pool' = IF ServerFailed(code[r]) /\ r \notin Misrouted
               THEN RemovedFrom(pool, dst[r]) ELSE pool
    /\ Goto(r, "retry")
    /\ UNCHANGED <<cursor, cbs, breaker, try, dst, cb, gen, writer, call, sent>>

-----------------------------------------------------------------------------
(* CircuitBrake; the map is read, written and deleted from without a lock. *)

Lookup(r) ==
    /\ pc[r] = "lookup"
    /\ cb' = [cb EXCEPT ![r] = cbs[dst[r]]]
    /\ Goto(r, IF cbs[dst[r]] = NoBreaker THEN "install" ELSE "execute")
    /\ UNCHANGED <<pool, cursor, cbs, breaker, try, dst, gen, writer, call, sent>>

Install(r) ==
    /\ pc[r] = "install"
    /\ LET id == <<r, try[r]>> IN
        /\ breaker' = [breaker EXCEPT ![id] = ClosedBreaker(dst[r])]
        /\ cbs' = [cbs EXCEPT ![dst[r]] = id]
        /\ cb' = [cb EXCEPT ![r] = id]
    /\ Goto(r, "execute")
    /\ UNCHANGED <<pool, cursor, try, dst, gen, writer, call, sent>>

(* cb.Execute, the breaker lets the request through; Proxy starts the      *)
(* goroutine of the exchange and waits.                                    *)
Execute(r) ==
    /\ pc[r] = "execute"
    /\ Admits(breaker[cb[r]])
    /\ breaker' = [breaker EXCEPT ![cb[r]] = Admitted(@)]
    /\ gen' = [gen EXCEPT ![r] = breaker[cb[r]].gen]
    /\ call' = [call EXCEPT ![<<r, try[r]>>] = Begun(dst[r])]
    /\ Goto(r, "wait")
    /\ UNCHANGED <<pool, cursor, cbs, try, dst, cb, writer, sent>>

(* The breaker lets it through, but Proxy cannot rebuild the URL: 500.     *)
ExecuteBadUrl(r) ==
    /\ pc[r] = "execute"
    /\ Admits(breaker[cb[r]])
    /\ breaker' = [breaker EXCEPT ![cb[r]] = Admitted(@)]
    /\ gen' = [gen EXCEPT ![r] = breaker[cb[r]].gen]
    /\ ErrHandler(r, InternalServerError)
    /\ Goto(r, "judge")
    /\ UNCHANGED <<pool, cursor, cbs, try, dst, cb, call, sent>>

(* The breaker rejects the request: an error without calling Proxy.        *)
ExecuteRejected(r) ==
    /\ pc[r] = "execute"
    /\ ~Admits(breaker[cb[r]])
    /\ Goto(r, "delete")
    /\ UNCHANGED <<pool, cursor, cbs, breaker, try, dst, cb, gen, writer, call, sent>>

(* The function given to Execute looks at the code; the breaker counts.    *)
Judge(r) ==
    /\ pc[r] = "judge"
    /\ breaker' = [breaker EXCEPT ![cb[r]] =
                        AfterRequest(@, gen[r], ServerFailed(code[r]))]
    /\ Goto(r, IF ServerFailed(code[r]) THEN "delete" ELSE "check")
    /\ UNCHANGED <<pool, cursor, cbs, try, dst, cb, gen, writer, call, sent>>

(* Variant: the breaker stays in the map.                                  *)
Kept(d) == cbs

(* delete(cbs, proxy)                                                      *)
Forgotten(d) == [cbs EXCEPT ![d] = NoBreaker]

(* An error from Execute: the breaker leaves the map, and the answer       *)
(* becomes a 500 (so that Balance does not see a server failure).          *)
Delete(r) ==
    /\ pc[r] = "delete"
    /\ cbs' = Forgotten(dst[r])
    /\ ErrHandler(r, InternalServerError)
    /\ Goto(r, "check")
    /\ UNCHANGED <<pool, cursor, breaker, try, dst, cb, gen, call, sent>>

(* gobreaker: an open breaker turns half-open when its timeout is over.    *)
HalfOpen(i) ==
    /\ breaker[i].state = "open"
    /\ breaker' = [breaker EXCEPT ![i] = InState(@, "half")]
    /\ UNCHANGED <<pool, cursor, cbs, reqVars, writer, call, sent>>

-----------------------------------------------------------------------------
(* Proxy: the goroutine that waits ...                                     *)

(* Variant: the signal is sent before the body is copied.                  *)
SignalsEarly(i) == call[i].stage \in {"copy", "signal"}

(* The exchange offers its result on the channel.                          *)
Signals(i) == call[i].stage = "signal"

(* Variant: no return after the error is sent (proxy.go:96).               *)
ReceivedNoReturn(i) ==
    [call EXCEPT ![i].stage = IF call[i].err THEN "header" ELSE "ended"]

(* The channel is unbuffered: the goroutine of the exchange goes on, and   *)
(* ends, when the result is taken.                                         *)
Received(i) == [call EXCEPT ![i].stage = "ended"]

(* case err := <-signal; the goroutine of the exchange ends with it.       *)
Receive(r) ==
    LET i == <<r, try[r]>> IN
    /\ pc[r] = "wait"
    /\ Signals(i)
    /\ call' = Received(i)
    /\ IF call[i].err THEN ErrHandler(r, InternalServerError) ELSE UNCHANGED writer
    /\ Goto(r, "judge")
    /\ UNCHANGED <<pool, cursor, cbs, breaker, try, dst, cb, gen, sent>>

(* Variant: a client without a timer.                                      *)
NoTimer(r) == FALSE

(* case <-time.After(timeout): 408, and nobody will read the signal.       *)
TimeOut(r) ==
    /\ pc[r] = "wait"
    /\ call' = [call EXCEPT ![<<r, try[r]>>].late = TRUE]
    /\ ErrHandler(r, RequestTimeout)
    /\ Goto(r, "judge")
    /\ UNCHANGED <<pool, cursor, cbs, breaker, try, dst, cb, gen, sent>>

(* ... and the goroutine of an exchange: HTTPClient.Do fails ...           *)
DoFails(i) ==
    /\ call[i].stage = "do"
    /\ call' = [call EXCEPT ![i].stage = "signal", ![i].err = TRUE]
    /\ UNCHANGED <<pool, cursor, cbs, breaker, reqVars, writer, sent>>

(* ... or the destination answers, with a Content-Length or without ...    *)
DoAnswers(i, c) ==
    /\ call[i].stage = "do"
    /\ \E sized \in BOOLEAN :
        call' = [call EXCEPT ![i].stage = "header", ![i].code = c, ![i].sized = sized]
    /\ UNCHANGED <<pool, cursor, cbs, breaker, reqVars, writer, sent>>

(* ... the status goes to the request's writer, the headers are added to   *)
(* those of earlier attempts ...                                           *)
WriteHeader(i) ==
    /\ call[i].stage = "header"
    /\ code' = [code EXCEPT ![i[1]] = call[i].code]
    /\ length' = [length EXCEPT ![i[1]] = IF @ = 0 /\ call[i].sized THEN i[2] ELSE @]
    /\ call' = [call EXCEPT ![i].stage = "copy"]
    /\ UNCHANGED <<pool, cursor, cbs, breaker, reqVars, body, sent>>

(* ... the body too, unless reading it fails (what was read stays) ...     *)
CopyBody(i) ==
    /\ call[i].stage = "copy"
    /\ \E err \in BOOLEAN :
        /\ body' = [body EXCEPT ![i[1]] =
                        Append(@, IF err THEN Cut(i[2]) ELSE Answer(i[2]))]
        /\ call' = [call EXCEPT ![i].stage = "signal", ![i].err = err]
    /\ UNCHANGED <<pool, cursor, cbs, breaker, reqVars, code, length, sent>>

(* ... and the send on the unbuffered channel waits for Receive.           *)
Exchange(i) ==
    \/ DoFails(i)
    \/ \E c \in Answers : DoAnswers(i, c)
    \/ WriteHeader(i)
    \/ CopyBody(i)

-----------------------------------------------------------------------------
(* Retry and Handler *)

RetryAgain(r) ==
    /\ pc[r] = "retry"
    /\ WorthRetrying(code[r])
    /\ try[r] < Times
    /\ try' = [try EXCEPT ![r] = @ + 1]
    /\ Goto(r, "balance")
    /\ UNCHANGED <<pool, cursor, cbs, breaker, dst, cb, gen, writer, call, sent>>

RetryEnds(r) ==
    /\ pc[r] = "retry"
    /\ ~WorthRetrying(code[r]) \/ try[r] = Times
    /\ Goto(r, "copycode")
    /\ UNCHANGED <<pool, cursor, cbs, breaker, try, dst, cb, gen, writer, call, sent>>

(* net/http: what becomes of one Write of the body b under status c and    *)
(* the Content-Length of attempt n.  More than the length, or anything     *)
(* under a status without a body, is refused; less goes out and the        *)
(* connection is closed.  Sizes are not kept: an answer has the length its *)
(* destination gave, an error is never empty, and all else may be of any   *)
(* size.                                                                   *)
Bodyless(c) == c < 200 \/ c \in {204, 304}
Has(b, kind) == \E k \in DOMAIN b : b[k].kind = kind
Outcomes(b, n, c) ==
    {end \in {"whole", "short", "refused"} :
        /\ n = 0 \/ Bodyless(c) \/ Answer(n) \in Range(b) => end # "short"
        /\ n = 0 /\ ~Bodyless(c) => end # "refused"
        /\ (\E m \in Attempts : b = <<Answer(m)>> /\ n \in {0, m}) => end = "whole"
        /\ Has(b, "error") /\ (Bodyless(c) \/ Answer(n) \in Range(b)) => end = "refused"}

(* ResponseWriter.Copy to the client: the headers and the status ...       *)
CopyCode(r) ==
    /\ pc[r] = "copycode"
    /\ sent' = [sent EXCEPT ![r].code = IF code[r] = 0 THEN Ok ELSE code[r],
                            ![r].length = length[r]]
    /\ Goto(r, "copybody")
    /\ UNCHANGED <<pool, cursor, cbs, breaker, try, dst, cb, gen, writer, call>>

(* ... then the whole buffer in one Write, whose error Handler only logs.  *)
CopyOut(r) ==
    /\ pc[r] = "copybody"
    /\ \E end \in Outcomes(body[r], sent[r].length, sent[r].code) :
        sent' = [sent EXCEPT ![r].body = IF end = "refused" THEN <<>> ELSE body[r],
                             ![r].end = end]
    /\ Goto(r, "done")
    /\ UNCHANGED <<pool, cursor, cbs, breaker, try, dst, cb, gen, writer, call>>

-----------------------------------------------------------------------------
(* Maps without a lock: the Go runtime ends the process when it sees a     *)
(* write to a map overlap another access to it.                            *)

TouchesCbs == {"lookup", "install", "delete"}
WritesCbs == {"install", "delete"}
CbsFault ==
    \E r, s \in Requests : r # s /\ pc[r] \in WritesCbs /\ pc[s] \in TouchesCbs

(* The header map of a response writer: two exchanges of a request add     *)
(* headers to it, or one does while the request is in ErrHandler or Copy.  *)
TouchesHeader(r) ==
    \/ pc[r] \in {"wait", "execute", "delete", "copycode"}
    \/ pc[r] = "balance" /\ pool = <<>>
HeaderFault ==
    \E r \in Requests, n \in Attempts :
        /\ call[<<r, n>>].stage = "header"
        /\ TouchesHeader(r) \/ \E m \in Attempts \ {n} : call[<<r, m>>].stage = "header"

(* The header map of the client's request: Proxy adds X-Dst-Serv (line 86) *)
(* while a late exchange sends the request.                                *)
RequestHeaderFault ==
    \E r \in Requests, n \in Attempts : pc[r] = "execute" /\ call[<<r, n>>].stage = "do"

MapFault ==
    /\ CbsFault \/ HeaderFault \/ RequestHeaderFault
    /\ alive' = FALSE
    /\ UNCHANGED <<pool, cursor, cbs, breaker, reqVars, writer, call, sent>>

(* Every request is answered, every exchange over or stuck on its signal;  *)
(* or the process is gone.                                                 *)
Stopped ==
    /\ \/ ~alive
       \/ /\ \A r \in Requests : pc[r] = "done"
          /\ \A i \in Ids : Quiet(i) \/ call[i].stage = "signal"
    /\ UNCHANGED vars

-----------------------------------------------------------------------------
RequestStep(r) ==
    \/ BalanceNone(r) \/ BalanceNext(r) \/ BalanceCheck(r)
    \/ Lookup(r) \/ Install(r)
    \/ Execute(r) \/ ExecuteBadUrl(r) \/ ExecuteRejected(r)
    \/ Judge(r) \/ Delete(r)
    \/ Receive(r) \/ TimeOut(r)
    \/ RetryAgain(r) \/ RetryEnds(r)
    \/ CopyCode(r) \/ CopyOut(r)

RequestRuns(r) == alive /\ UNCHANGED alive /\ RequestStep(r)
ExchangeRuns(i) == alive /\ UNCHANGED alive /\ Exchange(i)
BreakerTimer(i) == alive /\ UNCHANGED alive /\ HalfOpen(i)
Registration(d) == alive /\ UNCHANGED alive /\ AddAddrs(d)

Next ==
    \/ \E r \in Requests : RequestRuns(r)
    \/ \E i \in Ids : ExchangeRuns(i) \/ BreakerTimer(i)
    \/ \E d \in Dests : Registration(d)
    \/ alive /\ MapFault
    \/ Stopped

Spec == Init /\ [][Next]_vars

(* The goroutine of a request is scheduled and the timer of Proxy fires;   *)
(* nothing is assumed of the destinations.                                 *)
Fairness == \A r \in Requests : WF_vars(RequestRuns(r))
FairSpec == Spec /\ Fairness

-----------------------------------------------------------------------------
(* Properties *)

Stages == {"none", "do", "header", "copy", "signal", "ended"}
Labels == {"balance", "lookup", "install", "execute", "wait", "judge", "delete",
           "check", "retry", "copycode", "copybody", "done"}

Breakers == [dst : Dests \cup {NoDest}, state : {"closed", "open", "half"},
             fails : Nat, trials : 0 .. 1, gen : Nat]
Calls == [stage : Stages, dst : Dests \cup {NoDest}, code : 0 .. 599,
          sized : BOOLEAN, err : BOOLEAN, late : BOOLEAN]
Sent == [code : 0 .. 599, length : 0 .. Times, body : Seq(Parts),
         end : {"none", "whole", "short", "refused"}]

TypeOK ==
    /\ pool \in Seq(Dests) /\ NoDuplicates(pool)
    /\ cursor \in Nat
    /\ cbs \in [Dests -> Ids \cup {NoBreaker}]
    /\ breaker \in [Ids -> Breakers]
    /\ pc \in [Requests -> Labels]
    /\ try \in [Requests -> Attempts]
    /\ dst \in [Requests -> Dests \cup {NoDest}]
    /\ cb \in [Requests -> Ids \cup {NoBreaker}]
    /\ gen \in [Requests -> Nat]
    /\ code \in [Requests -> 0 .. 599]
    /\ body \in [Requests -> Seq(Parts)]
    /\ call \in [Ids -> Calls]
    /\ length \in [Requests -> 0 .. Times]
    /\ sent \in [Requests -> Sent]
    /\ alive \in BOOLEAN

(* Balance takes a destination off the list only for a request one of      *)
(* whose exchanges outlived its timeout.  CircuitBrake, inside Balance,    *)
(* turns every other server failure into a 500, and 500 is no reason to    *)
(* remove (circuitbrake.go:45, loadbalance.go:192).                        *)
TimedOut(r) == \E n \in Attempts : call[<<r, n>>].late
RemovalNeedsLateAnswer ==
    \A r \in Requests : pc[r] = "check" /\ ServerFailed(code[r]) => TimedOut(r)

(* A breaker in the map that has counted a failure, or is not closed, is   *)
(* about to be deleted from it: some request has failed on it and not yet  *)
(* reached delete(cbs, proxy) (circuitbrake.go:44).  So the count can only *)
(* exceed one by requests that fail at the same time.                      *)
DirtyBreakerIsDoomed ==
    \A d \in Dests :
        LET b == breaker[cbs[d]] IN
        cbs[d] # NoBreaker /\ (b.state # "closed" \/ b.fails > 0)
            => \E r \in Requests : pc[r] = "delete" /\ cb[r] = cbs[d]

(* An exchange that its request no longer waits for is one the request     *)
(* timed out on: no other path of Proxy leaves a goroutine behind.         *)
OnlyTimeoutsLeak ==
    \A r \in Requests, n \in Attempts :
        ~Quiet(<<r, n>>) /\ ~(pc[r] = "wait" /\ try[r] = n) => call[<<r, n>>].late

(* What the client gets of a request that did not time out, whatever other *)
(* requests do, with a code that is no server error.  The code is that of  *)
(* the last attempt's destination.  The answer arrives whole and alone if  *)
(* it came at the first attempt, and never after a retry: the attempts     *)
(* share one writer that nobody resets (retry.go:17), so the client gets   *)
(* the answer with what earlier attempts left, or, since their lengths     *)
(* disagree (proxy.go:102-107), no body at all (responsewriter.go:78).  An *)
(* empty body is a part, too.                                              *)
OnlyAnswer(b, n) ==
    \E k \in DOMAIN b :
        b[k] = Answer(n) /\ \A j \in DOMAIN b \ {k} : b[j].attempt # n
AnswerIsWhole ==
    \A r \in Requests :
        LET got == sent[r]
            n == try[r]
        IN
        pc[r] = "done" /\ ~TimedOut(r) /\ ~WorthRetrying(got.code)
            => /\ got.code = call[<<r, n>>].code
               /\ got.body = <<>> \/ OnlyAnswer(got.body, n)
               /\ n = 1 <=> got.end = "whole" /\ got.body = <<Answer(n)>>

(* Every request is answered, even when destinations never answer: the     *)
(* timer of Proxy ends each attempt.  (Unless the process dies.)           *)
Answered == \A r \in Requests : <>(pc[r] = "done" \/ ~alive)
=============================================================================
