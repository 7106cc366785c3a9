------------------------- MODULE ProxyChainProofs -------------------------
(***************************************************************************)
(* Theorems about ProxyChain for every number of requests, destinations    *)
(* and attempts.                                                           *)
(***************************************************************************)
EXTENDS ProxyChain, SequenceTheorems, TLAPS

USE DEF writer

(* Registering keeps a list without duplicates, with the new address.      *)
LEMMA AddedToFacts ==
    ASSUME NEW S, NEW b \in Seq(S), NoDuplicates(b), NEW d \in S
    PROVE  /\ AddedTo(b, d) \in Seq(S) /\ NoDuplicates(AddedTo(b, d))
           /\ Range(AddedTo(b, d)) = Range(b) \cup {d}
<1>1. CASE d \in Range(b)
  BY <1>1 DEF AddedTo
<1>2. CASE d \notin Range(b)
  <2> DEFINE a == Append(b, d)
  <2>1. /\ a \in Seq(S) /\ DOMAIN a = 1 .. Len(b) + 1 /\ a[Len(b) + 1] = d
        /\ DOMAIN b = 1 .. Len(b) /\ \A i \in 1 .. Len(b) : a[i] = b[i]
    OBVIOUS
  <2>2. AddedTo(b, d) = a
    BY <1>2 DEF AddedTo
  <2> HIDE DEF a
  <2> QED
    BY <1>2, <2>1, <2>2 DEF NoDuplicates, IsInjective, Range
<1> QED
  BY <1>1, <1>2

(* And so does Remove, which takes the address out with the one before it. *)
LEMMA RemovedFromFacts ==
    ASSUME NEW S, NEW b \in Seq(S), NoDuplicates(b), NEW d
    PROVE  RemovedFrom(b, d) \in Seq(S) /\ NoDuplicates(RemovedFrom(b, d))
<1>1. CASE d \in Range(b)
  <2> DEFINE j == FirstAt(b, d)
             front == SubSeq(b, 1, j-2)
             back == SubSeq(b, j+1, Len(b))
             rest == front \o back
             place(i) == IF i <= Len(front) THEN i ELSE j + (i - Len(front))
  <2>1. DOMAIN b = 1 .. Len(b) /\ \E i \in DOMAIN b : b[i] = d
    BY <1>1 DEF Range
  <2>2. \A i, k \in DOMAIN b : b[i] = b[k] => i = k
    BY DEF NoDuplicates, IsInjective
  <2>3. \E i \in DOMAIN b : b[i] = d /\ \A k \in 1 .. i - 1 : b[k] # d
    BY <2>1, <2>2
  <2>4. j \in 1 .. Len(b)
    BY <2>1, <2>3 DEF FirstAt
  <2> HIDE DEF j
  <2>5. /\ front \in Seq(S) /\ Len(front) \in Nat /\ Len(front) < j
        /\ \A i \in 1 .. Len(front) : front[i] = b[i]
    BY <2>4
  <2>6. /\ back \in Seq(S) /\ Len(back) = Len(b) - j
        /\ \A i \in 1 .. Len(back) : back[i] = b[j + i]
    BY <2>4
  <2>7. RemovedFrom(b, d) = rest
    BY <1>1 DEF RemovedFrom, j
  <2> HIDE DEF front, back
  <2>8. /\ rest \in Seq(S) /\ Len(rest) = Len(front) + Len(back)
        /\ \A i \in 1 .. Len(front) + Len(back) :
              rest[i] = IF i <= Len(front) THEN front[i] ELSE back[i - Len(front)]
    BY <2>5, <2>6, ConcatProperties
  <2> HIDE DEF rest
  <2>9. DOMAIN rest = 1 .. Len(front) + Len(back) /\ Len(back) \in Nat /\ Len(b) \in Nat
    BY <2>6, <2>8
  <2>10. ASSUME NEW i \in DOMAIN rest
         PROVE  place(i) \in DOMAIN b /\ rest[i] = b[place(i)]
    <3>1. CASE i <= Len(front)
      BY <2>1, <2>4, <2>5, <2>8, <2>9, <3>1
    <3>2. CASE ~ (i <= Len(front))
      <4>1. i - Len(front) \in 1 .. Len(back) /\ j + (i - Len(front)) \in 1 .. Len(b)
        BY <2>4, <2>5, <2>6, <2>9, <3>2
      <4> QED
        BY <2>1, <2>6, <2>8, <2>9, <3>2, <4>1
    <3> QED
      BY <3>1, <3>2
  <2>11. \A i, k \in DOMAIN rest : place(i) = place(k) => i = k
    BY <2>4, <2>5, <2>9
  <2> HIDE DEF place
  <2>12. NoDuplicates(rest)
    BY <2>2, <2>10, <2>11 DEF NoDuplicates, IsInjective
  <2> QED
    BY <2>7, <2>8, <2>12
<1>2. CASE d \notin Range(b)
  BY <1>2 DEF RemovedFrom
<1> QED
  BY <1>1, <1>2

Clean(b) == b.state = "closed" /\ b.fails = 0

(* Every operation of a breaker gives a breaker of the same destination;   *)
(* only a failure makes a clean breaker dirty.                             *)
LEMMA InStateFacts ==
    ASSUME NEW b \in Breakers, NEW s \in {"closed", "open", "half"}
    PROVE  /\ InState(b, s) \in Breakers
           /\ InState(b, s).dst = b.dst
           /\ InState(b, s).state = s
           /\ InState(b, s).fails = 0
BY DEF Breakers, InState

LEMMA AdmittedFacts ==
    ASSUME NEW b \in Breakers
    PROVE  /\ Admitted(b) \in Breakers
           /\ Admitted(b).dst = b.dst
           /\ Clean(b) => Clean(Admitted(b))
BY DEF Breakers, Admitted, Clean

LEMMA AfterFailureFacts ==
    ASSUME NEW b \in Breakers
    PROVE  AfterFailure(b) \in Breakers /\ AfterFailure(b).dst = b.dst
<1>1. InState(b, "open") \in Breakers /\ InState(b, "open").dst = b.dst
  BY InStateFacts
<1>2. /\ [b EXCEPT !.fails = @ + 1] \in Breakers
      /\ [b EXCEPT !.fails = @ + 1].dst = b.dst
  BY DEF Breakers
<1> QED
  BY <1>1, <1>2 DEF AfterFailure

LEMMA AfterSuccessFacts ==
    ASSUME NEW b \in Breakers
    PROVE  /\ AfterSuccess(b) \in Breakers
           /\ AfterSuccess(b).dst = b.dst
           /\ Clean(b) => Clean(AfterSuccess(b))
<1>1. InState(b, "closed") \in Breakers /\ InState(b, "closed").dst = b.dst
  BY InStateFacts
<1>2. /\ [b EXCEPT !.fails = 0] \in Breakers
      /\ [b EXCEPT !.fails = 0].dst = b.dst
      /\ [b EXCEPT !.fails = 0].fails = 0
      /\ [b EXCEPT !.fails = 0].state = b.state
  BY DEF Breakers
<1> QED
  BY <1>1, <1>2 DEF AfterSuccess, Clean

LEMMA AfterRequestFacts ==
    ASSUME NEW b \in Breakers, NEW g, NEW failed \in BOOLEAN
    PROVE  /\ AfterRequest(b, g, failed) \in Breakers
           /\ AfterRequest(b, g, failed).dst = b.dst
           /\ ~failed /\ Clean(b) => Clean(AfterRequest(b, g, failed))
BY AfterFailureFacts, AfterSuccessFacts DEF AfterRequest
-----------------------------------------------------------------------------
(* Type correctness *)

LEMMA InitTypeOK == Init => TypeOK
<1> SUFFICES ASSUME Init PROVE TypeOK
  OBVIOUS
<1>1. pool \in Seq(Dests) /\ NoDuplicates(pool)
  BY DEF Init
<1>2. \A i \in Ids : breaker[i] \in Breakers
  BY DEF Init, Breakers, ClosedBreaker
<1>3. \A i \in Ids : call[i] \in Calls
  BY DEF Init, Calls, NoCall, Stages
<1>4. Unsent \in Sent
  BY TimesAssumption DEF Unsent, Sent
<1> QED
  BY <1>1, <1>2, <1>3, <1>4, TimesAssumption DEF Init, TypeOK, Attempts, Labels

(* The parts of a body, and the codes of ErrHandler, have their types.     *)
WriterType ==
    /\ code \in [Requests -> 0 .. 599]
    /\ length \in [Requests -> 0 .. Times]
    /\ body \in [Requests -> Seq(Parts)]

LEMMA ErrHandlerType ==
    ASSUME TypeOK, NEW r \in Requests, NEW c \in 0 .. 599, ErrHandler(r, c)
    PROVE  WriterType'
<1>1. Error(try[r]) \in Parts
  BY DEF TypeOK, Error, Parts
<1>2. Append(body[r], Error(try[r])) \in Seq(Parts)
  BY <1>1 DEF TypeOK
<1> QED
  BY <1>2 DEF TypeOK, ErrHandler, WriterType

LEMMA BalanceType ==
    ASSUME TypeOK, UNCHANGED alive, NEW r \in Requests,
           BalanceNone(r) \/ BalanceNext(r) \/ BalanceCheck(r)
    PROVE  TypeOK'
<1>1. CASE BalanceNone(r)
  <2>1. WriterType'
    <3>1. ErrHandler(r, InternalServerError)
      BY <1>1 DEF BalanceNone
    <3>2. InternalServerError \in 0 .. 599
      BY DEF InternalServerError
    <3> QED
      BY <3>1, <3>2, ErrHandlerType
  <2>2. pc' \in [Requests -> Labels]
    BY <1>1 DEF BalanceNone, TypeOK, Goto, Labels
  <2>3. UNCHANGED <<pool, cursor, cbs, breaker, try, dst, cb, gen, call, sent>>
    BY <1>1 DEF BalanceNone
  <2> QED
    BY <2>1, <2>2, <2>3, Zenon DEF TypeOK, WriterType
<1>2. CASE BalanceNext(r)
  <2>1. Wrapped(pool, cursor) \in Nat /\ Wrapped(pool, cursor) + 1 \in 1 .. Len(pool)
    BY <1>2 DEF BalanceNext, TypeOK, Wrapped
  <2>2. pool[Wrapped(pool, cursor) + 1] \in Dests
    BY <2>1 DEF TypeOK
  <2>3. cursor' \in Nat
    BY <1>2, <2>1 DEF BalanceNext
  <2>4. dst' \in [Requests -> Dests \cup {NoDest}]
    BY <1>2, <2>2 DEF BalanceNext, TypeOK
  <2>5. pc' \in [Requests -> Labels]
    BY <1>2 DEF BalanceNext, TypeOK, Goto, Labels
  <2>6. UNCHANGED <<pool, cbs, breaker, try, cb, gen, writer, call, sent>>
    BY <1>2 DEF BalanceNext
  <2> QED
    BY <2>3, <2>4, <2>5, <2>6 DEF TypeOK
<1>3. CASE BalanceCheck(r)
  <2>1. /\ RemovedFrom(pool, dst[r]) \in Seq(Dests)
        /\ NoDuplicates(RemovedFrom(pool, dst[r]))
    BY RemovedFromFacts DEF TypeOK
  <2> QED
    BY <1>3, <2>1 DEF BalanceCheck, TypeOK, Goto, Labels
<1> QED
  BY <1>1, <1>2, <1>3

LEMMA LookupType ==
    ASSUME TypeOK, UNCHANGED alive, NEW r \in Requests, NEW d \in Dests, dst[r] = d,
           Lookup(r) \/ Install(r)
    PROVE  TypeOK'
<1>1. CASE Lookup(r)
  BY <1>1 DEF Lookup, TypeOK, Goto, Labels
<1>2. CASE Install(r)
  <2>1. <<r, try[r]>> \in Ids
    BY DEF TypeOK, Ids
  <2>2. ClosedBreaker(dst[r]) \in Breakers
    BY DEF ClosedBreaker, Breakers
  <2> QED
    BY <1>2, <2>1, <2>2 DEF Install, TypeOK, Goto, Labels
<1> QED
  BY <1>1, <1>2

LEMMA ExecuteType ==
    ASSUME TypeOK, UNCHANGED alive, NEW r \in Requests, cb[r] \in Ids,
           Execute(r) \/ ExecuteBadUrl(r) \/ ExecuteRejected(r) \/ Judge(r)
    PROVE  TypeOK'
<1>1. breaker[cb[r]] \in Breakers
  BY DEF TypeOK
<1>2. Admitted(breaker[cb[r]]) \in Breakers /\ breaker[cb[r]].gen \in Nat
  BY <1>1, AdmittedFacts DEF Breakers
<1>3. CASE Execute(r)
  <2>1. <<r, try[r]>> \in Ids /\ dst[r] \in Dests \cup {NoDest}
    BY DEF TypeOK, Ids
  <2>2. Begun(dst[r]) \in Calls
    BY <2>1 DEF Begun, Calls, Stages
  <2>3. call' \in [Ids -> Calls]
    BY <1>3, <2>1, <2>2 DEF Execute, TypeOK
  <2> QED
    BY <1>2, <1>3, <2>3 DEF Execute, TypeOK, Goto, Labels
<1>4. CASE ExecuteBadUrl(r)
  <2>1. WriterType'
    <3>1. ErrHandler(r, InternalServerError)
      BY <1>4 DEF ExecuteBadUrl
    <3>2. InternalServerError \in 0 .. 599
      BY DEF InternalServerError
    <3> QED
      BY <3>1, <3>2, ErrHandlerType
  <2>2. breaker' \in [Ids -> Breakers] /\ gen' \in [Requests -> Nat]
    BY <1>2, <1>4 DEF ExecuteBadUrl, TypeOK
  <2>3. pc' \in [Requests -> Labels]
    BY <1>4 DEF ExecuteBadUrl, TypeOK, Goto, Labels
  <2>4. UNCHANGED <<pool, cursor, cbs, try, dst, cb, call, sent>>
    BY <1>4 DEF ExecuteBadUrl
  <2> QED
    BY <2>1, <2>2, <2>3, <2>4, Zenon DEF TypeOK, WriterType
<1>5. CASE ExecuteRejected(r)
  BY <1>5 DEF ExecuteRejected, TypeOK, Goto, Labels
<1>6. CASE Judge(r)
  <2>1. AfterRequest(breaker[cb[r]], gen[r], ServerFailed(code[r])) \in Breakers
    <3>1. ServerFailed(code[r]) \in BOOLEAN
      BY DEF ServerFailed
    <3> QED
      BY <1>1, <3>1, AfterRequestFacts
  <2> QED
    BY <1>6, <2>1 DEF Judge, TypeOK, Goto, Labels
<1> QED
  BY <1>3, <1>4, <1>5, <1>6
(* The fields of an exchange that its steps set, one at a time.            *)
LEMMA CallFacts ==
    ASSUME NEW c \in Calls
    PROVE  /\ \A s \in Stages : [c EXCEPT !.stage = s] \in Calls
           /\ \A k \in 0 .. 599 : [c EXCEPT !.code = k] \in Calls
           /\ \A z \in BOOLEAN : [c EXCEPT !.sized = z] \in Calls
           /\ \A e \in BOOLEAN : [c EXCEPT !.err = e] \in Calls
           /\ [c EXCEPT !.late = TRUE] \in Calls
<1>1. \A s \in Stages : [c EXCEPT !.stage = s] \in Calls
  BY DEF Calls
<1>2. \A k \in 0 .. 599 : [c EXCEPT !.code = k] \in Calls
  BY DEF Calls
<1>3. \A e \in BOOLEAN : [c EXCEPT !.err = e] \in Calls
  BY DEF Calls
<1>4. [c EXCEPT !.late = TRUE] \in Calls
  BY DEF Calls
<1>5. \A z \in BOOLEAN : [c EXCEPT !.sized = z] \in Calls
  BY DEF Calls
<1> QED
  BY <1>1, <1>2, <1>3, <1>4, <1>5

LEMMA WaitType ==
    ASSUME TypeOK, UNCHANGED alive, NEW r \in Requests,
           Receive(r) \/ TimeOut(r)
    PROVE  TypeOK'
<1>1. <<r, try[r]>> \in Ids
  BY DEF TypeOK, Ids
<1>2. call[<<r, try[r]>>] \in Calls
  BY <1>1 DEF TypeOK
<1>3. CASE Receive(r)
  <2>1. call' \in [Ids -> Calls]
    <3>1. [call[<<r, try[r]>>] EXCEPT !.stage = "ended"] \in Calls
      BY <1>2, CallFacts DEF Stages
    <3> QED
      BY <1>1, <1>3, <3>1 DEF Receive, Received, TypeOK
  <2>2. WriterType'
    <3>1. ErrHandler(r, InternalServerError) \/ UNCHANGED writer
      BY <1>3 DEF Receive
    <3>2. InternalServerError \in 0 .. 599
      BY DEF InternalServerError
    <3>3. CASE UNCHANGED writer
      BY <3>3 DEF TypeOK, WriterType
    <3> QED
      BY <3>1, <3>2, <3>3, ErrHandlerType
  <2>3. pc' \in [Requests -> Labels]
    BY <1>3 DEF Receive, TypeOK, Goto, Labels
  <2>4. UNCHANGED <<pool, cursor, cbs, breaker, try, dst, cb, gen, sent>>
    BY <1>3 DEF Receive
  <2> QED
    BY <2>1, <2>2, <2>3, <2>4, Zenon DEF TypeOK, WriterType
<1>4. CASE TimeOut(r)
  <2>1. call' \in [Ids -> Calls]
    <3>1. [call[<<r, try[r]>>] EXCEPT !.late = TRUE] \in Calls
      BY <1>2, CallFacts
    <3> QED
      BY <1>1, <1>4, <3>1 DEF TimeOut, TypeOK
  <2>2. WriterType'
    <3>1. ErrHandler(r, RequestTimeout)
      BY <1>4 DEF TimeOut
    <3>2. RequestTimeout \in 0 .. 599
      BY DEF RequestTimeout
    <3> QED
      BY <3>1, <3>2, ErrHandlerType
  <2>3. pc' \in [Requests -> Labels]
    BY <1>4 DEF TimeOut, TypeOK, Goto, Labels
  <2>4. UNCHANGED <<pool, cursor, cbs, breaker, try, dst, cb, gen, sent>>
    BY <1>4 DEF TimeOut
  <2> QED
    BY <2>1, <2>2, <2>3, <2>4, Zenon DEF TypeOK, WriterType
<1> QED
  BY <1>3, <1>4

LEMMA ExchangeType ==
    ASSUME TypeOK, UNCHANGED alive, NEW i \in Ids, Exchange(i)
    PROVE  TypeOK'
<1>1. call[i] \in Calls /\ i[1] \in Requests /\ i[2] \in Attempts
  BY DEF TypeOK, Ids
<1>2. CASE DoFails(i)
  <2>1. [call[i] EXCEPT !.stage = "signal"] \in Calls
    BY <1>1, CallFacts DEF Stages
  <2>2. [[call[i] EXCEPT !.stage = "signal"] EXCEPT !.err = TRUE] \in Calls
    BY <2>1, CallFacts
  <2>3. call' = [call EXCEPT ![i] = [[call[i] EXCEPT !.stage = "signal"] EXCEPT !.err = TRUE]]
    BY <1>2 DEF DoFails, TypeOK
  <2>4. call' \in [Ids -> Calls]
    BY <2>2, <2>3 DEF TypeOK
  <2>9. UNCHANGED <<pool, cursor, cbs, breaker, reqVars, writer, sent>>
    BY <1>2 DEF DoFails
  <2> QED
    BY <2>4, <2>9, Zenon DEF TypeOK, reqVars
<1>3. ASSUME NEW c \in Answers, DoAnswers(i, c)
      PROVE  TypeOK'
  <2>1. [call[i] EXCEPT !.stage = "header"] \in Calls
    BY <1>1, CallFacts DEF Stages
  <2>2. c \in 0 .. 599
    BY AnswersAssumption
  <2>3. [[call[i] EXCEPT !.stage = "header"] EXCEPT !.code = c] \in Calls
    BY <2>1, <2>2, CallFacts
  <2> DEFINE coded == [[call[i] EXCEPT !.stage = "header"] EXCEPT !.code = c]
  <2>4. PICK z \in BOOLEAN : call' = [call EXCEPT ![i] = [coded EXCEPT !.sized = z]]
    BY <1>3 DEF DoAnswers, TypeOK
  <2> HIDE DEF coded
  <2>6. [coded EXCEPT !.sized = z] \in Calls
    BY <2>3, CallFacts DEF coded
  <2>5. call' \in [Ids -> Calls]
    BY <2>4, <2>6 DEF TypeOK
  <2>9. UNCHANGED <<pool, cursor, cbs, breaker, reqVars, writer, sent>>
    BY <1>3 DEF DoAnswers
  <2> QED
    BY <2>5, <2>9, Zenon DEF TypeOK, reqVars
<1>4. CASE WriteHeader(i)
  <2>1. [call[i] EXCEPT !.stage = "copy"] \in Calls
    BY <1>1, CallFacts DEF Stages
  <2>2. call' \in [Ids -> Calls]
    BY <1>4, <2>1 DEF WriteHeader, TypeOK
  <2>3. call[i].code \in 0 .. 599
    BY <1>1 DEF Calls
  <2>4. code' \in [Requests -> 0 .. 599]
    BY <1>1, <1>4, <2>3 DEF WriteHeader, TypeOK
  <2>5. length' \in [Requests -> 0 .. Times]
    BY <1>1, <1>4, TimesAssumption DEF WriteHeader, TypeOK, Attempts
  <2>9. UNCHANGED <<pool, cursor, cbs, breaker, reqVars, body, sent>>
    BY <1>4 DEF WriteHeader
  <2> QED
    BY <2>2, <2>4, <2>5, <2>9, Zenon DEF TypeOK, reqVars
<1>5. CASE CopyBody(i)
  <2>1. PICK e \in BOOLEAN :
            /\ body' = [body EXCEPT ![i[1]] =
                            Append(@, IF e THEN Cut(i[2]) ELSE Answer(i[2]))]
            /\ call' = [call EXCEPT ![i].stage = "signal", ![i].err = e]
    BY <1>5 DEF CopyBody
  <2> DEFINE part == IF e THEN Cut(i[2]) ELSE Answer(i[2])
  <2>2. [call[i] EXCEPT !.stage = "signal"] \in Calls
    BY <1>1, CallFacts DEF Stages
  <2>3. [[call[i] EXCEPT !.stage = "signal"] EXCEPT !.err = e] \in Calls
    BY <2>2, CallFacts
  <2>4. call' = [call EXCEPT ![i] = [[call[i] EXCEPT !.stage = "signal"] EXCEPT !.err = e]]
    BY <2>1 DEF TypeOK
  <2>5. call' \in [Ids -> Calls]
    BY <2>3, <2>4 DEF TypeOK
  <2>6. Append(body[i[1]], part) \in Seq(Parts)
    <3>1. part \in Parts
      BY <1>1 DEF Answer, Cut, Parts
    <3> QED
      BY <1>1, <3>1 DEF TypeOK
  <2>7. body' \in [Requests -> Seq(Parts)]
    BY <2>1, <2>6 DEF TypeOK
  <2>8. UNCHANGED <<pool, cursor, cbs, breaker, reqVars, code, length, sent>>
    BY <1>5 DEF CopyBody
  <2> QED
    BY <2>5, <2>7, <2>8, Zenon DEF TypeOK, reqVars
<1> QED
  BY <1>2, <1>3, <1>4, <1>5 DEF Exchange
LEMMA DeleteType ==
    ASSUME TypeOK, UNCHANGED alive, NEW r \in Requests, Delete(r)
    PROVE  TypeOK'
<1>1. ErrHandler(r, InternalServerError)
  BY DEF Delete
<1>2. InternalServerError \in 0 .. 599
  BY DEF InternalServerError
<1>3. WriterType'
  BY <1>1, <1>2, ErrHandlerType
<1> QED
  BY <1>3 DEF Delete, Forgotten, TypeOK, WriterType, Goto, Labels

(* What CopyCode makes of what was sent.                                   *)
LEMMA CodeCopied ==
    ASSUME NEW s \in Sent, NEW c \in 0 .. 599, NEW n \in 0 .. Times
    PROVE  [[s EXCEPT !.code = c] EXCEPT !.length = n] \in Sent
<1> DEFINE C == 0 .. 599
           L == 0 .. Times
           B == Seq(Parts)
           E == {"none", "whole", "short", "refused"}
<1>1. Sent = [code : C, length : L, body : B, end : E]
  BY DEF Sent
<1>2. s \in [code : C, length : L, body : B, end : E] /\ c \in C /\ n \in L
  BY <1>1
<1> HIDE DEF C, L, B, E
<1>3. [[s EXCEPT !.code = c] EXCEPT !.length = n] \in [code : C, length : L, body : B, end : E]
  BY <1>2
<1> QED
  BY <1>1, <1>3

LEMMA RetryType ==
    ASSUME TypeOK, UNCHANGED alive, NEW r \in Requests,
           RetryAgain(r) \/ RetryEnds(r) \/ CopyCode(r) \/ CopyOut(r)
    PROVE  TypeOK'
<1>1. CASE RetryAgain(r)
  <2>1. try[r] + 1 \in Attempts
    BY <1>1, TimesAssumption DEF RetryAgain, TypeOK, Attempts
  <2> QED
    BY <1>1, <2>1 DEF RetryAgain, TypeOK, Goto, Labels
<1>2. CASE RetryEnds(r)
  BY <1>2 DEF RetryEnds, TypeOK, Goto, Labels
<1>3. CASE CopyCode(r)
  <2> DEFINE c == IF code[r] = 0 THEN Ok ELSE code[r]
  <2>1. c \in 0 .. 599 /\ length[r] \in 0 .. Times
    BY DEF TypeOK, Ok
  <2> HIDE DEF c
  <2>2. PICK s \in Sent : s = sent[r]
    BY DEF TypeOK
  <2>3. [[s EXCEPT !.code = c] EXCEPT !.length = length[r]] \in Sent
    BY <2>1, CodeCopied
  <2>4. sent' = [sent EXCEPT ![r] = [[s EXCEPT !.code = c] EXCEPT !.length = length[r]]]
    BY <1>3, <2>2 DEF CopyCode, TypeOK, c
  <2>5. sent' \in [Requests -> Sent]
    BY <2>3, <2>4 DEF TypeOK
  <2>6. pc' \in [Requests -> Labels]
    BY <1>3 DEF CopyCode, TypeOK, Goto, Labels
  <2>7. UNCHANGED <<pool, cursor, cbs, breaker, try, dst, cb, gen, writer, call>>
    BY <1>3 DEF CopyCode
  <2> QED
    BY <2>5, <2>6, <2>7, Zenon DEF TypeOK
<1>4. CASE CopyOut(r)
  <2>1. PICK end \in Outcomes(body[r], sent[r].length, sent[r].code) :
            sent' = [sent EXCEPT ![r].body = IF end = "refused" THEN <<>> ELSE body[r],
                                 ![r].end = end]
    BY <1>4 DEF CopyOut
  <2> DEFINE b == IF end = "refused" THEN <<>> ELSE body[r]
  <2>2. end \in {"whole", "short", "refused"}
    BY <2>1 DEF Outcomes
  <2>3. b \in Seq(Parts)
    BY DEF TypeOK
  <2> HIDE DEF b
  <2>4. PICK s \in Sent : s = sent[r]
    BY DEF TypeOK
  <2>5. [[s EXCEPT !.body = b] EXCEPT !.end = end] \in Sent
    BY <2>2, <2>3 DEF Sent
  <2>6. sent' = [sent EXCEPT ![r] = [[s EXCEPT !.body = b] EXCEPT !.end = end]]
    BY <2>1, <2>4 DEF TypeOK, b
  <2>7. sent' \in [Requests -> Sent]
    BY <2>5, <2>6 DEF TypeOK
  <2>8. pc' \in [Requests -> Labels]
    BY <1>4 DEF CopyOut, TypeOK, Goto, Labels
  <2>9. UNCHANGED <<pool, cursor, cbs, breaker, try, dst, cb, gen, writer, call>>
    BY <1>4 DEF CopyOut
  <2> QED
    BY <2>7, <2>8, <2>9, Zenon DEF TypeOK
<1> QED
  BY <1>1, <1>2, <1>3, <1>4

LEMMA EnvironmentType ==
    ASSUME TypeOK, UNCHANGED alive,
           (\E d \in Dests : AddAddrs(d)) \/ (\E i \in Ids : HalfOpen(i))
    PROVE  TypeOK'
<1>1. ASSUME NEW d \in Dests, AddAddrs(d)
      PROVE  TypeOK'
  <2>1. AddedTo(pool, d) \in Seq(Dests) /\ NoDuplicates(AddedTo(pool, d))
    BY AddedToFacts DEF TypeOK
  <2> QED
    BY <1>1, <2>1 DEF AddAddrs, TypeOK, reqVars
<1>2. ASSUME NEW i \in Ids, HalfOpen(i)
      PROVE  TypeOK'
  <2>1. InState(breaker[i], "half") \in Breakers
    BY InStateFacts DEF TypeOK
  <2> QED
    BY <1>2, <2>1 DEF HalfOpen, TypeOK, reqVars
<1> QED
  BY <1>1, <1>2

-----------------------------------------------------------------------------
(* The breakers *)

Holding == {"execute", "wait", "judge", "delete"}

(* Attempt n of r has not made a breaker.                                  *)
Unborn(r, n) == n > try[r] \/ (n = try[r] /\ pc[r] \in {"balance", "lookup", "install"})

(* From lookup to delete a request has a destination, and then a breaker   *)
(* of that destination; so has the map.                                    *)
Named ==
    /\ \A r \in Requests : pc[r] \in Holding \cup {"lookup", "install"} => dst[r] \in Dests
    /\ \A r \in Requests :
        pc[r] \in Holding => cb[r] \in Ids /\ breaker[cb[r]].dst = dst[r]
    /\ \A d \in Dests : cbs[d] \in Ids => breaker[cbs[d]].dst = d

(* A breaker that is still to be made is nobody's.                         *)
Fresh ==
    \A r \in Requests, n \in Attempts :
        Unborn(r, n) => /\ \A d \in Dests : cbs[d] # <<r, n>>
                        /\ \A s \in Requests : cb[s] # <<r, n>>

Doomed ==
    \A d \in Dests :
        cbs[d] \in Ids /\ ~Clean(breaker[cbs[d]])
            => \E r \in Requests : pc[r] = "delete" /\ cb[r] = cbs[d]

BreakerInv == Named /\ Fresh /\ Doomed

LEMMA InitBreakerInv == Init => BreakerInv
<1> SUFFICES ASSUME Init PROVE BreakerInv
  OBVIOUS
<1>1. NoBreaker \notin Ids /\ \A r, n : NoBreaker # <<r, n>>
  BY DEF NoBreaker, Ids
<1>2. Named
  BY <1>1 DEF Init, Named, Holding
<1>3. Fresh
  BY <1>1 DEF Init, Fresh
<1>4. Doomed
  BY <1>1 DEF Init, Doomed
<1> QED
  BY <1>2, <1>3, <1>4 DEF BreakerInv

(* Steps that only move a request between labels, or change its answer.    *)
LEMMA BalanceBreaker ==
    ASSUME TypeOK, BreakerInv, NEW r \in Requests,
           BalanceNone(r) \/ BalanceNext(r) \/ BalanceCheck(r)
    PROVE  BreakerInv'
<1>1. /\ cbs' = cbs /\ breaker' = breaker /\ cb' = cb /\ try' = try
      /\ \A s \in Requests : s # r => pc'[s] = pc[s] /\ dst'[s] = dst[s]
      /\ pc[r] \in {"balance", "check"} /\ pc'[r] \in {"lookup", "retry"}
      /\ pc'[r] = "lookup" => pc[r] = "balance"
  BY DEF BalanceNone, BalanceNext, BalanceCheck, Goto, TypeOK
<1>2. pc'[r] = "lookup" => dst'[r] \in Dests
  <2> SUFFICES ASSUME BalanceNext(r) PROVE dst'[r] \in Dests
    BY DEF BalanceNone, BalanceNext, BalanceCheck, Goto, TypeOK
  <2>1. Wrapped(pool, cursor) + 1 \in 1 .. Len(pool)
    BY DEF BalanceNext, TypeOK, Wrapped
  <2> QED
    BY <2>1 DEF BalanceNext, TypeOK
<1>3. Named'
  BY <1>1, <1>2 DEF BreakerInv, Named, Holding
<1>4. Fresh'
  BY <1>1 DEF BreakerInv, Fresh, Unborn
<1>5. Doomed'
  BY <1>1 DEF BreakerInv, Doomed
<1> QED
  BY <1>3, <1>4, <1>5 DEF BreakerInv
LEMMA LookupBreaker ==
    ASSUME TypeOK, BreakerInv, NEW r \in Requests, Lookup(r)
    PROVE  BreakerInv'
<1>1. /\ cbs' = cbs /\ breaker' = breaker /\ try' = try /\ dst' = dst
      /\ cb' = [cb EXCEPT ![r] = cbs[dst[r]]]
      /\ \A s \in Requests : s # r => pc'[s] = pc[s]
      /\ pc[r] = "lookup"
      /\ pc'[r] = IF cbs[dst[r]] = NoBreaker THEN "install" ELSE "execute"
  BY DEF Lookup, Goto, TypeOK
<1>2. dst[r] \in Dests /\ cbs[dst[r]] \in Ids \cup {NoBreaker}
  BY <1>1 DEF BreakerInv, Named, TypeOK
<1>3. cb'[r] = cbs[dst[r]] /\ \A s \in Requests : s # r => cb'[s] = cb[s]
  BY <1>1 DEF TypeOK
<1>4. Named'
  BY <1>1, <1>2, <1>3 DEF BreakerInv, Named, Holding
<1>5. Fresh'
  <2>1. \A s \in Requests, n \in Attempts : Unborn(s, n)' => Unborn(s, n)
    BY <1>1 DEF Unborn
  <2> QED
    BY <1>1, <1>2, <1>3, <2>1 DEF BreakerInv, Fresh
<1>6. Doomed'
  BY <1>1, <1>3 DEF BreakerInv, Doomed
<1> QED
  BY <1>4, <1>5, <1>6 DEF BreakerInv

LEMMA InstallBreaker ==
    ASSUME TypeOK, BreakerInv, NEW r \in Requests, Install(r)
    PROVE  BreakerInv'
<1> DEFINE id == <<r, try[r]>>
<1>1. /\ dst' = dst /\ try' = try
      /\ breaker' = [breaker EXCEPT ![id] = ClosedBreaker(dst[r])]
      /\ cbs' = [cbs EXCEPT ![dst[r]] = id]
      /\ cb' = [cb EXCEPT ![r] = id]
      /\ \A s \in Requests : s # r => pc'[s] = pc[s]
      /\ pc[r] = "install" /\ pc'[r] = "execute"
  BY DEF Install, Goto, TypeOK
<1>2. id \in Ids /\ dst[r] \in Dests
  BY <1>1 DEF BreakerInv, Named, TypeOK, Ids
<1>3. /\ \A d \in Dests : cbs[d] # id
      /\ \A s \in Requests : cb[s] # id
  BY <1>1, <1>2 DEF BreakerInv, Fresh, Unborn, TypeOK
<1>4. /\ breaker'[id] = ClosedBreaker(dst[r])
      /\ \A i \in Ids : i # id => breaker'[i] = breaker[i]
      /\ cbs'[dst[r]] = id
      /\ \A d \in Dests : d # dst[r] => cbs'[d] = cbs[d]
      /\ cb'[r] = id
      /\ \A s \in Requests : s # r => cb'[s] = cb[s]
  BY <1>1, <1>2 DEF TypeOK
<1>5. ClosedBreaker(dst[r]).dst = dst[r] /\ Clean(ClosedBreaker(dst[r]))
  BY DEF ClosedBreaker, Clean
<1> HIDE DEF id
<1>6. Named'
  BY <1>1, <1>2, <1>3, <1>4, <1>5 DEF BreakerInv, Named, Holding
<1>7. Fresh'
  <2>1. \A s \in Requests, n \in Attempts :
            Unborn(s, n)' => Unborn(s, n) /\ id # <<s, n>>
    <3> SUFFICES ASSUME NEW s \in Requests, NEW n \in Attempts, Unborn(s, n)'
                 PROVE  Unborn(s, n) /\ id # <<s, n>>
      OBVIOUS
    <3>1. CASE s # r
      BY <1>1, <3>1 DEF Unborn, id
    <3>2. CASE s = r
      <4>1. n > try[r]
        BY <1>1, <3>2 DEF Unborn
      <4>2. n # try[r]
        BY <4>1 DEF TypeOK, Attempts
      <4> QED
        BY <3>2, <4>1, <4>2 DEF Unborn, id
    <3> QED
      BY <3>1, <3>2
  <2> SUFFICES ASSUME NEW s \in Requests, NEW n \in Attempts, Unborn(s, n)'
               PROVE  /\ \A d \in Dests : cbs'[d] # <<s, n>>
                      /\ \A u \in Requests : cb'[u] # <<s, n>>
    BY DEF Fresh
  <2>2. /\ \A d \in Dests : cbs[d] # <<s, n>>
        /\ \A u \in Requests : cb[u] # <<s, n>>
        /\ id # <<s, n>>
    BY <2>1 DEF BreakerInv, Fresh
  <2> QED
    BY <1>4, <2>2
<1>8. Doomed'
  <2> SUFFICES ASSUME NEW d \in Dests, cbs'[d] \in Ids, ~Clean(breaker'[cbs'[d]])
               PROVE  \E s \in Requests : pc'[s] = "delete" /\ cb'[s] = cbs'[d]
    BY DEF Doomed, Clean
  <2>1. d # dst[r] /\ cbs'[d] = cbs[d] /\ breaker'[cbs[d]] = breaker[cbs[d]]
    BY <1>3, <1>4, <1>5
  <2>2. PICK s \in Requests : pc[s] = "delete" /\ cb[s] = cbs[d]
    BY <2>1 DEF BreakerInv, Doomed
  <2> QED
    BY <1>1, <1>4, <2>1, <2>2
<1> QED
  BY <1>6, <1>7, <1>8 DEF BreakerInv
LEMMA ExecuteBreaker ==
    ASSUME TypeOK, BreakerInv, NEW r \in Requests,
           Execute(r) \/ ExecuteBadUrl(r) \/ ExecuteRejected(r)
    PROVE  BreakerInv'
<1>1. /\ cbs' = cbs /\ dst' = dst /\ try' = try /\ cb' = cb
      /\ \A s \in Requests : s # r => pc'[s] = pc[s]
      /\ pc[r] = "execute" /\ pc'[r] \in {"wait", "judge", "delete"}
  BY DEF Execute, ExecuteBadUrl, ExecuteRejected, Goto, TypeOK
<1>2. cb[r] \in Ids /\ breaker[cb[r]] \in Breakers
  BY <1>1 DEF BreakerInv, Named, Holding, TypeOK
<1>3. \/ breaker' = breaker
      \/ breaker' = [breaker EXCEPT ![cb[r]] = Admitted(breaker[cb[r]])]
  BY DEF Execute, ExecuteBadUrl, ExecuteRejected
<1>4. \A i \in Ids : /\ breaker'[i].dst = breaker[i].dst
                     /\ Clean(breaker[i]) => Clean(breaker'[i])
  <2>1. /\ Admitted(breaker[cb[r]]).dst = breaker[cb[r]].dst
        /\ Clean(breaker[cb[r]]) => Clean(Admitted(breaker[cb[r]]))
    BY <1>2, AdmittedFacts
  <2>2. CASE breaker' = breaker
    BY <2>2
  <2>3. CASE breaker' = [breaker EXCEPT ![cb[r]] = Admitted(breaker[cb[r]])]
    <3>1. /\ breaker'[cb[r]] = Admitted(breaker[cb[r]])
          /\ \A i \in Ids : i # cb[r] => breaker'[i] = breaker[i]
      BY <1>2, <2>3 DEF TypeOK
    <3> QED
      BY <2>1, <3>1
  <2> QED
    BY <1>3, <2>2, <2>3
<1>5. Named'
  BY <1>1, <1>4 DEF BreakerInv, Named, Holding
<1>6. Fresh'
  BY <1>1 DEF BreakerInv, Fresh, Unborn
<1>7. Doomed'
  BY <1>1, <1>4 DEF BreakerInv, Doomed, Clean
<1> QED
  BY <1>5, <1>6, <1>7 DEF BreakerInv

(* A failure makes the breaker dirty, and its request goes to delete.      *)
LEMMA JudgeBreaker ==
    ASSUME TypeOK, BreakerInv, NEW r \in Requests, Judge(r)
    PROVE  BreakerInv'
<1> DEFINE failed == ServerFailed(code[r])
           new == AfterRequest(breaker[cb[r]], gen[r], failed)
<1>1. /\ cbs' = cbs /\ dst' = dst /\ try' = try /\ cb' = cb
      /\ \A s \in Requests : s # r => pc'[s] = pc[s]
      /\ pc[r] = "judge" /\ pc'[r] = IF failed THEN "delete" ELSE "check"
      /\ breaker' = [breaker EXCEPT ![cb[r]] = new]
  BY DEF Judge, Goto, TypeOK
<1>2. cb[r] \in Ids /\ breaker[cb[r]] \in Breakers
  BY <1>1 DEF BreakerInv, Named, Holding, TypeOK
<1>3. failed \in BOOLEAN
  BY DEF ServerFailed
<1>4. new.dst = breaker[cb[r]].dst /\ (~failed /\ Clean(breaker[cb[r]]) => Clean(new))
  BY <1>2, <1>3, AfterRequestFacts
<1> HIDE DEF new, failed
<1>5. /\ breaker'[cb[r]] = new
      /\ \A i \in Ids : i # cb[r] => breaker'[i] = breaker[i]
  BY <1>1, <1>2 DEF TypeOK
<1>6. Named'
  BY <1>1, <1>2, <1>4, <1>5 DEF BreakerInv, Named, Holding
<1>7. Fresh'
  BY <1>1 DEF BreakerInv, Fresh, Unborn
<1>8. Doomed'
  <2> SUFFICES ASSUME NEW d \in Dests, cbs[d] \in Ids, ~Clean(breaker'[cbs[d]])
               PROVE  \E s \in Requests : pc'[s] = "delete" /\ cb[s] = cbs[d]
    BY <1>1 DEF Doomed, Clean
  <2>1. CASE ~Clean(breaker[cbs[d]])
    <3>1. PICK s \in Requests : pc[s] = "delete" /\ cb[s] = cbs[d]
      BY <2>1 DEF BreakerInv, Doomed
    <3> QED
      BY <1>1, <3>1
  <2>2. CASE Clean(breaker[cbs[d]])
    <3>1. cbs[d] = cb[r] /\ failed
      BY <1>4, <1>5, <2>2
    <3> QED
      BY <1>1, <3>1
  <2> QED
    BY <2>1, <2>2
<1> QED
  BY <1>6, <1>7, <1>8 DEF BreakerInv

LEMMA DeleteBreaker ==
    ASSUME TypeOK, BreakerInv, NEW r \in Requests, Delete(r)
    PROVE  BreakerInv'
<1>1. /\ breaker' = breaker /\ dst' = dst /\ try' = try /\ cb' = cb
      /\ \A s \in Requests : s # r => pc'[s] = pc[s]
      /\ pc[r] = "delete" /\ pc'[r] = "check"
      /\ cbs' = [cbs EXCEPT ![dst[r]] = NoBreaker]
  BY DEF Delete, Forgotten, Goto, TypeOK
<1>2. /\ dst[r] \in Dests
      /\ cb[r] \in Ids
      /\ breaker[cb[r]].dst = dst[r]
  BY <1>1 DEF BreakerInv, Named, Holding
<1>3. /\ cbs'[dst[r]] = NoBreaker
      /\ \A d \in Dests : d # dst[r] => cbs'[d] = cbs[d]
  BY <1>1, <1>2 DEF TypeOK
<1>4. NoBreaker \notin Ids /\ \A s, n : NoBreaker # <<s, n>>
  BY DEF NoBreaker, Ids
<1>5. Named'
  BY <1>1, <1>2, <1>3, <1>4 DEF BreakerInv, Named, Holding
<1>6. Fresh'
  <2>1. \A s \in Requests, n \in Attempts : Unborn(s, n)' => Unborn(s, n)
    BY <1>1 DEF Unborn
  <2> SUFFICES ASSUME NEW s \in Requests, NEW n \in Attempts, Unborn(s, n)'
               PROVE  /\ \A d \in Dests : cbs'[d] # <<s, n>>
                      /\ \A u \in Requests : cb'[u] # <<s, n>>
    BY DEF Fresh
  <2>2. /\ \A d \in Dests : cbs[d] # <<s, n>>
        /\ \A u \in Requests : cb[u] # <<s, n>>
    BY <2>1 DEF BreakerInv, Fresh
  <2>3. \A d \in Dests : cbs'[d] # <<s, n>>
    BY <1>3, <1>4, <2>2
  <2>4. cb' = cb
    BY <1>1
  <2> QED
    BY <2>2, <2>3, <2>4
<1>7. Doomed'
  <2> SUFFICES ASSUME NEW d \in Dests, cbs'[d] \in Ids, ~Clean(breaker[cbs'[d]])
               PROVE  \E s \in Requests : pc'[s] = "delete" /\ cb[s] = cbs'[d]
    BY <1>1 DEF Doomed, Clean
  <2>1. d # dst[r] /\ cbs'[d] = cbs[d]
    BY <1>3, <1>4
  <2>2. PICK s \in Requests : pc[s] = "delete" /\ cb[s] = cbs[d]
    BY <2>1 DEF BreakerInv, Doomed
  <2>3. breaker[cbs[d]].dst = d
    BY <2>1 DEF BreakerInv, Named
  <2>4. s # r
    BY <1>2, <2>1, <2>2, <2>3
  <2> QED
    BY <1>1, <2>1, <2>2, <2>4
<1> QED
  BY <1>5, <1>6, <1>7 DEF BreakerInv
(* Steps that leave the breakers, the map and the requests' use of them.   *)
LEMMA OtherBreaker ==
    ASSUME TypeOK, BreakerInv,
           UNCHANGED <<cbs, breaker, dst, cb>>,
           \/ UNCHANGED <<pc, try>>
           \/ \E r \in Requests :
                \/ Receive(r) \/ TimeOut(r)
                \/ RetryAgain(r) \/ RetryEnds(r) \/ CopyCode(r) \/ CopyOut(r)
    PROVE  BreakerInv'
<1>1. CASE UNCHANGED <<pc, try>>
  BY <1>1 DEF BreakerInv, Named, Fresh, Doomed, Unborn, Clean
<1>2. ASSUME NEW r \in Requests,
             \/ Receive(r) \/ TimeOut(r)
             \/ RetryEnds(r) \/ CopyCode(r) \/ CopyOut(r)
      PROVE  BreakerInv'
  <2>1. /\ try' = try
        /\ \A s \in Requests : s # r => pc'[s] = pc[s]
        /\ pc[r] \in {"wait", "retry", "copycode", "copybody"}
        /\ pc'[r] \in {"judge", "copycode", "copybody", "done"}
        /\ pc'[r] = "judge" => pc[r] = "wait"
    BY <1>2 DEF Receive, TimeOut, RetryEnds, CopyCode, CopyOut, Goto, TypeOK
  <2>2. Named'
    BY <2>1 DEF BreakerInv, Named, Holding
  <2>3. Fresh'
    BY <2>1 DEF BreakerInv, Fresh, Unborn
  <2>4. Doomed'
    BY <2>1 DEF BreakerInv, Doomed, Clean
  <2> QED
    BY <2>2, <2>3, <2>4 DEF BreakerInv
<1>3. ASSUME NEW r \in Requests, RetryAgain(r)
      PROVE  BreakerInv'
  <2>1. /\ \A s \in Requests : s # r => pc'[s] = pc[s] /\ try'[s] = try[s]
        /\ pc[r] = "retry" /\ pc'[r] = "balance" /\ try'[r] = try[r] + 1
    BY <1>3 DEF RetryAgain, Goto, TypeOK
  <2>2. Named'
    BY <2>1 DEF BreakerInv, Named, Holding
  <2>3. \A s \in Requests, n \in Attempts : Unborn(s, n)' => Unborn(s, n)
    <3> SUFFICES ASSUME NEW s \in Requests, NEW n \in Attempts, Unborn(s, n)'
                 PROVE  Unborn(s, n)
      OBVIOUS
    <3>1. CASE s # r
      BY <2>1, <3>1 DEF Unborn
    <3>2. CASE s = r
      BY <2>1, <3>2, TimesAssumption DEF Unborn, TypeOK, Attempts
    <3> QED
      BY <3>1, <3>2
  <2>4. Fresh'
    BY <2>3 DEF BreakerInv, Fresh
  <2>5. Doomed'
    BY <2>1 DEF BreakerInv, Doomed, Clean
  <2> QED
    BY <2>2, <2>4, <2>5 DEF BreakerInv
<1> QED
  BY <1>1, <1>2, <1>3

LEMMA HalfOpenBreaker ==
    ASSUME TypeOK, BreakerInv, NEW i \in Ids, HalfOpen(i)
    PROVE  BreakerInv'
<1>1. /\ UNCHANGED <<cbs, pc, try, dst, cb>>
      /\ breaker' = [breaker EXCEPT ![i] = InState(breaker[i], "half")]
      /\ breaker[i].state = "open"
  BY DEF HalfOpen, reqVars
<1>2. /\ InState(breaker[i], "half").dst = breaker[i].dst
      /\ ~Clean(breaker[i])
  BY <1>1, InStateFacts DEF TypeOK, Clean
<1>3. \A j \in Ids : /\ breaker'[j].dst = breaker[j].dst
                     /\ Clean(breaker[j]) => Clean(breaker'[j])
  <2>1. \A j \in Ids : j # i => breaker'[j] = breaker[j]
    BY <1>1 DEF TypeOK
  <2>2. breaker'[i] = InState(breaker[i], "half")
    BY <1>1 DEF TypeOK
  <2> QED
    BY <1>2, <2>1, <2>2
<1>4. Named'
  BY <1>1, <1>3 DEF BreakerInv, Named
<1>5. Fresh'
  BY <1>1 DEF BreakerInv, Fresh, Unborn
<1>6. Doomed'
  BY <1>1, <1>3 DEF BreakerInv, Doomed, Clean
<1> QED
  BY <1>4, <1>5, <1>6 DEF BreakerInv
-----------------------------------------------------------------------------
(* The exchanges *)

LateInv == OnlyTimeoutsLeak /\ RemovalNeedsLateAnswer

LEMMA InitLateInv == Init => LateInv
BY DEF Init, LateInv, OnlyTimeoutsLeak, RemovalNeedsLateAnswer, Quiet, NoCall, Ids

(* Steps of a request that leave its exchanges alone and do not end the    *)
(* wait; Judge and Delete are the two that lead to Balance's test.         *)
LEMMA RequestLate ==
    ASSUME TypeOK, LateInv, NEW r \in Requests,
           \/ BalanceNone(r) \/ BalanceNext(r) \/ BalanceCheck(r)
           \/ Lookup(r) \/ Install(r)
           \/ ExecuteBadUrl(r) \/ ExecuteRejected(r) \/ Judge(r) \/ Delete(r)
           \/ RetryAgain(r) \/ RetryEnds(r) \/ CopyCode(r) \/ CopyOut(r)
    PROVE  LateInv'
<1>1. /\ call' = call
      /\ pc[r] # "wait"
      /\ \A s \in Requests : s # r => /\ pc'[s] = pc[s]
                                      /\ try'[s] = try[s]
                                      /\ code'[s] = code[s]
  BY DEF BalanceNone, BalanceNext, BalanceCheck, Lookup, Install, ExecuteBadUrl,
         ExecuteRejected, Judge, Delete, RetryAgain, RetryEnds, CopyCode, CopyOut,
         ErrHandler, Goto, TypeOK
<1>2. OnlyTimeoutsLeak'
  BY <1>1 DEF LateInv, OnlyTimeoutsLeak, Quiet
<1>3. pc'[r] = "check" => ~ServerFailed(code'[r])
  <2>1. CASE Judge(r)
    BY <2>1 DEF Judge, Goto, TypeOK
  <2>2. CASE Delete(r)
    <3>1. code'[r] = 500
      BY <2>2 DEF Delete, ErrHandler, InternalServerError, TypeOK
    <3> QED
      BY <3>1 DEF ServerFailed
  <2>3. CASE ~Judge(r) /\ ~Delete(r)
    <3>1. pc'[r] # "check"
      BY <2>3 DEF BalanceNone, BalanceNext, BalanceCheck, Lookup, Install, ExecuteBadUrl,
         ExecuteRejected, RetryAgain, RetryEnds, CopyCode, CopyOut, Goto, TypeOK
    <3> QED
      BY <3>1
  <2> QED
    BY <2>1, <2>2, <2>3
<1>4. RemovalNeedsLateAnswer'
  BY <1>1, <1>3 DEF LateInv, RemovalNeedsLateAnswer, TimedOut, ServerFailed
<1> QED
  BY <1>2, <1>4 DEF LateInv

LEMMA WaitLate ==
    ASSUME TypeOK, LateInv, NEW r \in Requests,
           Execute(r) \/ Receive(r) \/ TimeOut(r)
    PROVE  LateInv'
<1> DEFINE i == <<r, try[r]>>
<1>1. i \in Ids
  BY DEF TypeOK, Ids
<1>2. /\ try' = try
      /\ \A s \in Requests : s # r => pc'[s] = pc[s] /\ code'[s] = code[s]
      /\ \A j \in Ids : j # i => call'[j] = call[j]
      /\ pc'[r] \in {"wait", "judge"}
  <2>1. CASE Execute(r)
    BY <1>1, <2>1 DEF Execute, Goto, TypeOK
  <2>2. CASE Receive(r)
    BY <1>1, <2>2 DEF Receive, Received, ErrHandler, Goto, TypeOK
  <2>3. CASE TimeOut(r)
    BY <1>1, <2>3 DEF TimeOut, ErrHandler, Goto, TypeOK
  <2> QED
    BY <2>1, <2>2, <2>3
<1>3. pc'[r] = "wait" \/ call'[i].stage = "ended" \/ call'[i].late
  <2>1. CASE Execute(r)
    BY <2>1 DEF Execute, Goto, TypeOK
  <2>2. CASE Receive(r)
    BY <1>1, <2>2 DEF Receive, Received, TypeOK, Calls
  <2>3. CASE TimeOut(r)
    BY <1>1, <2>3 DEF TimeOut, TypeOK, Calls
  <2> QED
    BY <2>1, <2>2, <2>3
<1>4. Execute(r) \/ pc[r] = "wait"
  BY DEF Receive, TimeOut
<1>5. pc[r] # "wait" => pc'[r] = "wait"
  BY <1>4 DEF Execute, Goto, TypeOK
<1>6. OnlyTimeoutsLeak'
  <2> SUFFICES ASSUME NEW s \in Requests, NEW n \in Attempts,
                      ~(call'[<<s, n>>].stage \in {"none", "ended"}),
                      ~(pc'[s] = "wait" /\ try'[s] = n)
               PROVE  call'[<<s, n>>].late
    BY DEF OnlyTimeoutsLeak, Quiet
  <2>1. CASE <<s, n>> = i
    BY <1>2, <1>3, <2>1
  <2>2. CASE <<s, n>> # i
    <3>1. <<s, n>> \in Ids
      BY DEF Ids
    <3>2. call'[<<s, n>>] = call[<<s, n>>]
      BY <1>2, <2>2, <3>1
    <3>3. ~(pc[s] = "wait" /\ try[s] = n)
      BY <1>2, <2>2
    <3> QED
      BY <3>2, <3>3 DEF LateInv, OnlyTimeoutsLeak, Quiet
  <2> QED
    BY <2>1, <2>2
<1>7. RemovalNeedsLateAnswer'
  <2> SUFFICES ASSUME NEW s \in Requests, pc'[s] = "check", ServerFailed(code'[s])
               PROVE  \E n \in Attempts : call'[<<s, n>>].late
    BY DEF RemovalNeedsLateAnswer, TimedOut, ServerFailed
  <2>1. s # r
    BY <1>2
  <2>2. PICK n \in Attempts : call[<<s, n>>].late
    BY <1>2, <2>1 DEF LateInv, RemovalNeedsLateAnswer, TimedOut
  <2>3. <<s, n>> \in Ids /\ <<s, n>> # i
    BY <2>1 DEF Ids
  <2> QED
    BY <1>2, <2>2, <2>3
<1> QED
  BY <1>6, <1>7 DEF LateInv

(* An exchange writes the header only when its request waits for it or has *)
(* timed out on it.                                                        *)
LEMMA ExchangeLate ==
    ASSUME TypeOK, LateInv, NEW i \in Ids, Exchange(i)
    PROVE  LateInv'
<1>1. PICK r \in Requests, n \in Attempts : i = <<r, n>>
  BY DEF Ids
<1> DEFINE Frame == /\ pc' = pc /\ try' = try
                    /\ \A j \in Ids : j # i => call'[j] = call[j]
                    /\ call'[i].late = call[i].late
                    /\ \A s \in Requests : s # r => code'[s] = code[s]
                    /\ ~Quiet(i)
<1>2. Frame
  <2>1. CASE DoFails(i)
    BY <2>1 DEF DoFails, reqVars, Quiet, TypeOK, Calls
  <2>2. ASSUME NEW c \in Answers, DoAnswers(i, c)
        PROVE  Frame
    BY <2>2 DEF DoAnswers, reqVars, Quiet, TypeOK, Calls
  <2>3. CASE WriteHeader(i)
    BY <1>1, <2>3 DEF WriteHeader, reqVars, Quiet, TypeOK, Calls
  <2>4. CASE CopyBody(i)
    BY <2>4 DEF CopyBody, reqVars, Quiet, TypeOK, Calls
  <2> QED
    BY <2>1, <2>2, <2>3, <2>4 DEF Exchange
<1>3. OnlyTimeoutsLeak'
  <2> SUFFICES ASSUME NEW s \in Requests, NEW m \in Attempts,
                      ~(call'[<<s, m>>].stage \in {"none", "ended"}),
                      ~(pc[s] = "wait" /\ try[s] = m)
               PROVE  call'[<<s, m>>].late
    BY <1>2 DEF OnlyTimeoutsLeak, Quiet
  <2>1. <<s, m>> \in Ids
    BY DEF Ids
  <2>2. CASE <<s, m>> = i
    BY <1>2, <2>2 DEF LateInv, OnlyTimeoutsLeak
  <2>3. CASE <<s, m>> # i
    BY <1>2, <2>1, <2>3 DEF LateInv, OnlyTimeoutsLeak, Quiet
  <2> QED
    BY <2>2, <2>3
<1>4. RemovalNeedsLateAnswer'
  <2> SUFFICES ASSUME NEW s \in Requests, pc[s] = "check", ServerFailed(code'[s])
               PROVE  \E m \in Attempts : call'[<<s, m>>].late
    BY <1>2 DEF RemovalNeedsLateAnswer, TimedOut, ServerFailed
  <2>1. CASE s = r
    <3>1. call[i].late
      BY <1>1, <1>2, <2>1 DEF LateInv, OnlyTimeoutsLeak
    <3> QED
      BY <1>1, <1>2, <2>1, <3>1
  <2>2. CASE s # r
    <3>1. PICK m \in Attempts : call[<<s, m>>].late
      BY <1>2, <2>2 DEF LateInv, RemovalNeedsLateAnswer, TimedOut
    <3>2. <<s, m>> \in Ids /\ <<s, m>> # i
      BY <1>1, <2>2 DEF Ids
    <3> QED
      BY <1>2, <3>1, <3>2
  <2> QED
    BY <2>1, <2>2
<1> QED
  BY <1>3, <1>4 DEF LateInv
-----------------------------------------------------------------------------
(* The answers                                                             *)

Before == {"balance", "lookup", "install", "execute"}

(* An exchange times out in the wait of its attempt, which comes once.     *)
LateAreOver(r) ==
    \A n \in Attempts :
        call[<<r, n>>].late =>
            n < try[r] \/ (n = try[r] /\ pc[r] \notin Before \cup {"wait"})

(* What an attempt that was not begun, or not answered, has not written.   *)
Unwritten(r) ==
    \/ pc[r] \in Before
    \/ pc[r] = "wait" /\ call[<<r, try[r]>>].stage \in {"do", "header", "copy"}

(* No attempt has a later Content-Length than the one Retry is at.         *)
LengthIsKnown(r) == length[r] <= try[r] /\ sent[r].length <= try[r]

(* Earlier attempts have left something in a body.                         *)
Leftover(b, n) == \E k \in DOMAIN b : b[k].attempt < n

(* An answer that is worth another attempt, or the one of attempt n.       *)
Delivered(r, c, b) ==
    WorthRetrying(c) \/ (c = call[<<r, try[r]>>].code /\ c # 0 /\ OnlyAnswer(b, try[r]))

(* What AnswerIsWhole says of a body and of how its Write ended.           *)
Right(b, end, n) ==
    /\ b = <<>> \/ OnlyAnswer(b, n)
    /\ n = 1 <=> end = "whole" /\ b = <<Answer(n)>>

(* A request that has not timed out: what it has been sent so far, while   *)
(* the exchange of its attempt is the only one that writes.                *)
Story(r) ==
    LET mine == call[<<r, try[r]>>]
        came == mine.stage \in {"header", "copy"} \/ (mine.stage = "signal" /\ ~mine.err) IN
    /\ \A k \in DOMAIN body[r] : body[r][k].attempt <= try[r]
    /\ Unwritten(r) => \A k \in DOMAIN body[r] : body[r][k].attempt # try[r]
    /\ pc[r] = "wait" /\ came => mine.code # 0
    /\ pc[r] = "wait" /\ came /\ mine.stage # "header" => code[r] = mine.code
    /\ pc[r] = "wait" /\ came /\ mine.stage = "signal" => OnlyAnswer(body[r], try[r])
    /\ pc[r] \in {"judge", "check", "retry", "copycode"} => Delivered(r, code[r], body[r])
    /\ pc[r] = "copybody" => Delivered(r, sent[r].code, body[r])
    /\ try[r] > 1 => Leftover(body[r], try[r])
    /\ pc[r] \in {"judge", "check", "retry"} => DOMAIN body[r] # {}
    /\ pc[r] = "done" =>
        \/ WorthRetrying(sent[r].code)
        \/ /\ sent[r].code = call[<<r, try[r]>>].code
           /\ Right(sent[r].body, sent[r].end, try[r])

AnswerInv ==
    \A r \in Requests : LateAreOver(r) /\ LengthIsKnown(r) /\ (TimedOut(r) \/ Story(r))

LEMMA InitAnswerInv == Init => AnswerInv
<1> SUFFICES ASSUME Init, NEW r \in Requests
             PROVE  LateAreOver(r) /\ LengthIsKnown(r) /\ Story(r)
  BY DEF AnswerInv
<1>1. \A n \in Attempts : call[<<r, n>>] = NoCall
  BY DEF Init, Ids
<1>2. pc[r] = "balance" /\ DOMAIN body[r] = {} /\ try[r] = 1
  BY DEF Init
<1>3. LengthIsKnown(r)
  BY DEF Init, LengthIsKnown, Unsent
<1> QED
  BY <1>1, <1>2, <1>3 DEF LateAreOver, Story, NoCall

(* What a part adds to a body.                                             *)
LEMMA AppendFacts ==
    ASSUME NEW b \in Seq(Parts), NEW x \in Parts, NEW n \in Nat
    PROVE  /\ (\A k \in DOMAIN b : b[k].attempt <= n) /\ x.attempt <= n =>
                  \A k \in DOMAIN Append(b, x) : Append(b, x)[k].attempt <= n
           /\ (\A k \in DOMAIN b : b[k].attempt # n) /\ x = Answer(n) =>
                  OnlyAnswer(Append(b, x), n)
           /\ Leftover(b, n) => Leftover(Append(b, x), n)
           /\ DOMAIN Append(b, x) # {}
<1> DEFINE c == Append(b, x)
<1>1. /\ DOMAIN b = 1 .. Len(b) /\ DOMAIN c = 1 .. Len(b) + 1 /\ Len(b) \in Nat
      /\ \A k \in 1 .. Len(b) : c[k] = b[k]
      /\ c[Len(b) + 1] = x
  OBVIOUS
<1> HIDE DEF c
<1>2. (\A k \in DOMAIN b : b[k].attempt <= n) /\ x.attempt <= n =>
          \A k \in DOMAIN c : c[k].attempt <= n
  BY <1>1
<1>3. ASSUME \A k \in DOMAIN b : b[k].attempt # n, x = Answer(n)
      PROVE  OnlyAnswer(c, n)
  <2>1. \A j \in DOMAIN c \ {Len(b) + 1} : j \in 1 .. Len(b)
    BY <1>1
  <2>2. Len(b) + 1 \in DOMAIN c
    BY <1>1
  <2> QED
    BY <1>1, <1>3, <2>1, <2>2 DEF OnlyAnswer
<1>4. (Leftover(b, n) => Leftover(c, n)) /\ DOMAIN c # {}
  BY <1>1 DEF Leftover
<1> QED
  BY <1>2, <1>3, <1>4 DEF c

(* A body and its Write: the answer of a first attempt is alone, so it     *)
(* fits its own length; a later one has company.                           *)
LEMMA OutcomeFacts ==
    ASSUME NEW b \in Seq(Parts), NEW n \in Attempts, NEW l \in Nat, l <= n, NEW c,
           NEW end \in Outcomes(b, l, c), NEW out,
           out = IF end = "refused" THEN <<>> ELSE b,
           OnlyAnswer(b, n), \A k \in DOMAIN b : b[k].attempt <= n,
           n > 1 => Leftover(b, n)
    PROVE  Right(out, end, n)
<1>1. n \in Nat /\ n >= 1 /\ Answer(n).attempt = n
  BY TimesAssumption DEF Attempts, Answer
<1>2. out = <<>> \/ OnlyAnswer(out, n)
  OBVIOUS
<1>3. CASE n = 1
  <2>1. \A k \in DOMAIN b : b[k] \in Parts
    OBVIOUS
  <2>2. \A k \in DOMAIN b : b[k].attempt = 1
    BY <1>3, <2>1, TimesAssumption DEF Parts, Attempts
  <2>3. PICK k \in DOMAIN b : b[k] = Answer(n) /\ DOMAIN b = {k}
    BY <1>3, <2>2 DEF OnlyAnswer
  <2>4. Len(b) = 1 /\ k = 1
    <3>1. DOMAIN b = 1 .. Len(b) /\ Len(b) \in Nat
      OBVIOUS
    <3>2. k \in 1 .. Len(b)
      BY <2>3, <3>1
    <3>3. 1 \in 1 .. Len(b) /\ Len(b) \in 1 .. Len(b)
      BY <3>1, <3>2
    <3>4. 1 \in {k} /\ Len(b) \in {k}
      BY <2>3, <3>1, <3>3, Zenon
    <3> QED
      BY <3>4
  <2>5. b = <<Answer(n)>>
    BY <2>3, <2>4
  <2>6. end = "whole"
    BY <1>3, <2>5 DEF Outcomes
  <2> QED
    BY <1>2, <1>3, <2>5, <2>6 DEF Right
<1>4. CASE n > 1
  <2>1. b # <<Answer(n)>>
    <3>1. PICK k \in DOMAIN b : b[k].attempt < n
      BY <1>4 DEF Leftover
    <3> QED
      BY <1>1, <3>1
  <2>2. ~ (end = "whole" /\ out = <<Answer(n)>>)
    BY <2>1
  <2> QED
    BY <1>1, <1>2, <1>4, <2>2 DEF Right
<1> QED
  BY <1>1, <1>3, <1>4

(* The story of a request that a step does not touch.                      *)
LEMMA SameStory ==
    ASSUME AnswerInv, TypeOK, NEW s \in Requests,
           pc'[s] = pc[s], try'[s] = try[s], code'[s] = code[s], body'[s] = body[s],
           length'[s] = length[s], sent'[s] = sent[s],
           \A n \in Attempts : call'[<<s, n>>] = call[<<s, n>>]
    PROVE  LateAreOver(s)' /\ LengthIsKnown(s)' /\ (TimedOut(s) \/ Story(s))'
<1>1. /\ LateAreOver(s) /\ LengthIsKnown(s) /\ (TimedOut(s) \/ Story(s))
      /\ try[s] \in Attempts
  BY DEF AnswerInv, TypeOK
<1>2. LateAreOver(s)' /\ LengthIsKnown(s)'
  BY <1>1 DEF LateAreOver, LengthIsKnown
<1>3. TimedOut(s) => TimedOut(s)'
  BY DEF TimedOut
<1>4. call'[<<s, try'[s]>>] = call[<<s, try[s]>>]
  BY <1>1
<1>5. Unwritten(s)' <=> Unwritten(s)
  BY <1>4 DEF Unwritten
<1>6. \A c, b : Delivered(s, c, b)' <=> Delivered(s, c, b)
  BY <1>4 DEF Delivered
<1>7. Story(s) => Story(s)'
  BY <1>4, <1>5, <1>6 DEF Story
<1> QED
  BY <1>1, <1>2, <1>3, <1>7

(* The answer of a request after ErrHandler.                               *)
LEMMA ErrStory ==
    ASSUME TypeOK, NEW r \in Requests, NEW c, ErrHandler(r, c),
           \A k \in DOMAIN body[r] : body[r][k].attempt <= try[r]
    PROVE  /\ code'[r] = c
           /\ \A k \in DOMAIN body'[r] : body'[r][k].attempt <= try[r]
           /\ Leftover(body[r], try[r]) => Leftover(body'[r], try[r])
           /\ DOMAIN body'[r] # {}
           /\ \A s \in Requests : s # r => code'[s] = code[s] /\ body'[s] = body[s]
<1>1. body[r] \in Seq(Parts) /\ try[r] \in Attempts /\ try[r] \in Nat
  BY DEF TypeOK, Attempts
<1>2. Error(try[r]) \in Parts /\ Error(try[r]).attempt = try[r]
  BY <1>1 DEF Error, Parts
<1>3. body'[r] = Append(body[r], Error(try[r]))
  BY DEF ErrHandler, TypeOK
<1>4. /\ \A k \in DOMAIN body'[r] : body'[r][k].attempt <= try[r]
      /\ Leftover(body[r], try[r]) => Leftover(body'[r], try[r])
      /\ DOMAIN body'[r] # {}
  BY <1>1, <1>2, <1>3, AppendFacts
<1> QED
  BY <1>4 DEF ErrHandler, TypeOK

LEMMA Errors500 == WorthRetrying(InternalServerError)
BY DEF WorthRetrying, InternalServerError

(* Steps of a request that leave its exchanges alone.                      *)
LEMMA RequestAnswer ==
    ASSUME TypeOK, AnswerInv, NEW r \in Requests,
           \/ BalanceNone(r) \/ BalanceNext(r) \/ BalanceCheck(r)
           \/ Lookup(r) \/ Install(r)
           \/ ExecuteBadUrl(r) \/ ExecuteRejected(r) \/ Judge(r) \/ Delete(r)
           \/ RetryAgain(r) \/ RetryEnds(r) \/ CopyCode(r) \/ CopyOut(r)
    PROVE  AnswerInv'
<1> DEFINE Fits == \A k \in DOMAIN body[r] : body[r][k].attempt <= try[r]
<1>1. /\ LateAreOver(r) /\ LengthIsKnown(r) /\ (TimedOut(r) \/ Story(r))
      /\ try[r] \in Attempts /\ try[r] \in Nat
  BY DEF AnswerInv, TypeOK, Attempts
<1>2. call' = call /\ length' = length
  BY DEF BalanceNone, BalanceNext, BalanceCheck, Lookup, Install, ExecuteBadUrl,
         ExecuteRejected, Judge, Delete, RetryAgain, RetryEnds, CopyCode, CopyOut,
         ErrHandler
<1>3. \A s \in Requests : s # r =>
        /\ pc'[s] = pc[s] /\ try'[s] = try[s] /\ code'[s] = code[s]
        /\ body'[s] = body[s] /\ sent'[s] = sent[s]
  <2>1. CASE CopyCode(r) \/ CopyOut(r)
    BY <2>1 DEF CopyCode, CopyOut, Goto, TypeOK
  <2>2. CASE ~CopyCode(r) /\ ~CopyOut(r)
    BY <2>2 DEF BalanceNone, BalanceNext, BalanceCheck, Lookup, Install, ExecuteBadUrl,
       ExecuteRejected, Judge, Delete, RetryAgain, RetryEnds, ErrHandler, Goto, TypeOK
  <2> QED
    BY <2>1, <2>2
<1>7. LengthIsKnown(r)'
  <2>1. try'[r] = try[r] \/ try'[r] = try[r] + 1
    BY DEF BalanceNone, BalanceNext, BalanceCheck, Lookup, Install, ExecuteBadUrl,
           ExecuteRejected, Judge, Delete, RetryAgain, RetryEnds, CopyCode, CopyOut, TypeOK
  <2>2. sent'[r].length = sent[r].length \/ sent'[r].length = length[r]
    <3>1. CASE CopyCode(r)
      BY <3>1 DEF CopyCode, TypeOK, Sent
    <3>2. CASE CopyOut(r)
      <4>1. sent[r] \in Sent /\ r \in DOMAIN sent
        BY DEF TypeOK
      <4>2. PICK b, end :
                sent' = [sent EXCEPT ![r].body = b, ![r].end = end]
        BY <3>2 DEF CopyOut
      <4>3. sent'[r] = [[sent[r] EXCEPT !.body = b] EXCEPT !.end = end]
        BY <4>1, <4>2
      <4> QED
        BY <4>1, <4>3 DEF Sent
    <3>3. ~CopyCode(r) /\ ~CopyOut(r) => sent' = sent
      BY DEF BalanceNone, BalanceNext, BalanceCheck, Lookup, Install, ExecuteBadUrl,
         ExecuteRejected, Judge, Delete, RetryAgain, RetryEnds
    <3> QED
      BY <3>1, <3>2, <3>3
  <2>3. length[r] \in Nat /\ sent[r].length \in Nat
    BY TimesAssumption DEF TypeOK, Sent
  <2> QED
    BY <1>1, <1>2, <2>1, <2>2, <2>3 DEF LengthIsKnown
<1>4. LateAreOver(r)'
  <2>1. \/ try'[r] = try[r] /\ (pc'[r] \in Before \cup {"wait"} => pc[r] \in Before)
        \/ try'[r] = try[r] + 1
    BY DEF BalanceNone, BalanceNext, BalanceCheck, Lookup, Install, ExecuteBadUrl,
           ExecuteRejected, Judge, Delete, RetryAgain, RetryEnds, CopyCode, CopyOut,
           Goto, TypeOK, Before
  <2> QED
    BY <1>1, <1>2, <2>1 DEF LateAreOver, Attempts
<1>5. TimedOut(r) => TimedOut(r)'
  BY <1>2 DEF TimedOut
<1>6. ASSUME Story(r) PROVE Story(r)'
  <2>1. Fits
    BY <1>6 DEF Story
  <2>2. CASE BalanceNone(r) \/ ExecuteBadUrl(r) \/ Delete(r)
    <3>1. ErrHandler(r, InternalServerError)
      BY <2>2 DEF BalanceNone, ExecuteBadUrl, Delete
    <3>2. /\ try' = try /\ pc'[r] \in {"retry", "judge", "check"}
      BY <2>2 DEF BalanceNone, ExecuteBadUrl, Delete, Goto, TypeOK
    <3>3. /\ code'[r] = InternalServerError
          /\ \A k \in DOMAIN body'[r] : body'[r][k].attempt <= try[r]
          /\ Leftover(body[r], try[r]) => Leftover(body'[r], try[r])
          /\ DOMAIN body'[r] # {}
      BY <2>1, <3>1, ErrStory
    <3>4. Delivered(r, code[r], body[r])'
      BY <3>3, Errors500 DEF Delivered
    <3>5. try[r] > 1 => Leftover(body[r], try[r])
      BY <1>6 DEF Story
    <3> QED
      BY <3>2, <3>3, <3>4, <3>5 DEF Story, Unwritten, Before
  <2>3. CASE BalanceNext(r) \/ Lookup(r) \/ Install(r)
    <3>1. /\ UNCHANGED <<try, code, body, sent>>
          /\ pc[r] \in Before /\ pc'[r] \in Before
      BY <2>3 DEF BalanceNext, Lookup, Install, Goto, TypeOK, Before
    <3> QED
      BY <1>6, <3>1 DEF Story, Unwritten, Before
  <2>4. CASE BalanceCheck(r) \/ Judge(r) \/ ExecuteRejected(r) \/ RetryEnds(r)
    <3>1. /\ UNCHANGED <<try, code, body, sent>>
          /\ \/ pc'[r] = "delete"
             \/ pc'[r] \in {"check", "retry", "copycode"} /\ pc[r] \in {"check", "judge", "retry"}
      BY <2>4 DEF BalanceCheck, Judge, ExecuteRejected, RetryEnds, Goto, TypeOK
    <3> QED
      BY <1>2, <1>6, <3>1 DEF Story, Unwritten, Before, Delivered, OnlyAnswer, WorthRetrying
  <2>5. CASE RetryAgain(r)
    <3>1. UNCHANGED <<code, body, sent>> /\ try'[r] = try[r] + 1 /\ pc'[r] = "balance"
      BY <2>5 DEF RetryAgain, Goto, TypeOK
    <3>2. \A k \in DOMAIN body[r] : body[r][k].attempt \in Nat
      <4>1. body[r] \in Seq(Parts)
        BY DEF TypeOK
      <4>2. \A k \in DOMAIN body[r] : body[r][k] \in Parts
        BY <4>1
      <4> QED
        BY <4>2 DEF Parts, Attempts
    <3>3. \A k \in DOMAIN body[r] :
            body[r][k].attempt <= try[r] + 1 /\ body[r][k].attempt # try[r] + 1
      BY <1>1, <2>1, <3>2
    <3>4. DOMAIN body[r] # {}
      BY <1>6, <2>5 DEF RetryAgain, Story
    <3>5. Leftover(body[r], try[r] + 1)
      BY <1>1, <2>1, <3>2, <3>4 DEF Leftover
    <3> QED
      BY <3>1, <3>3, <3>5 DEF Story
  <2>6. CASE CopyCode(r)
    <3>1. /\ UNCHANGED <<try, code, body>> /\ pc[r] = "copycode" /\ pc'[r] = "copybody"
          /\ sent'[r].code = IF code[r] = 0 THEN Ok ELSE code[r]
      BY <2>6 DEF CopyCode, Goto, TypeOK, Sent
    <3>2. Delivered(r, code[r], body[r]) /\ code[r] # 0
      BY <1>6, <3>1 DEF Story, Delivered, WorthRetrying
    <3>3. Delivered(r, sent[r].code, body[r])'
      BY <1>2, <3>1, <3>2 DEF Delivered, OnlyAnswer, WorthRetrying
    <3>4. try[r] > 1 => Leftover(body[r], try[r])
      BY <1>6 DEF Story
    <3> QED
      BY <2>1, <3>1, <3>3, <3>4 DEF Story, Unwritten, Before
  <2>7. CASE CopyOut(r)
    <3>1. /\ UNCHANGED <<try, code, body>> /\ pc[r] = "copybody" /\ pc'[r] = "done"
      BY <2>7 DEF CopyOut, Goto, TypeOK
    <3>2. PICK end \in Outcomes(body[r], sent[r].length, sent[r].code) :
              sent' = [sent EXCEPT ![r].body = IF end = "refused" THEN <<>> ELSE body[r],
                                   ![r].end = end]
      BY <2>7 DEF CopyOut
    <3>3. /\ sent'[r].code = sent[r].code /\ sent'[r].end = end
          /\ sent'[r].body = IF end = "refused" THEN <<>> ELSE body[r]
      BY <3>2 DEF TypeOK, Sent
    <3>4. Delivered(r, sent[r].code, body[r]) /\ (try[r] > 1 => Leftover(body[r], try[r]))
      BY <1>6, <3>1 DEF Story
    <3>5. /\ body[r] \in Seq(Parts)
          /\ sent[r].length \in Nat /\ sent[r].length <= try[r]
      BY <1>1, TimesAssumption DEF TypeOK, Sent, LengthIsKnown
    <3>6. OnlyAnswer(body[r], try[r]) => Right(sent'[r].body, sent'[r].end, try[r])
      BY <1>1, <2>1, <3>2, <3>3, <3>4, <3>5, OutcomeFacts
    <3>7. \/ WorthRetrying(sent'[r].code)
          \/ /\ sent'[r].code = call[<<r, try[r]>>].code
             /\ Right(sent'[r].body, sent'[r].end, try[r])
      BY <3>3, <3>4, <3>6 DEF Delivered
    <3> QED
      BY <1>2, <1>6, <2>1, <3>1, <3>4, <3>7 DEF Story, Unwritten, Before
  <2> QED
    BY <2>2, <2>3, <2>4, <2>5, <2>6, <2>7
<1> QED
  BY <1>1, <1>2, <1>3, <1>4, <1>5, <1>6, <1>7, SameStory DEF AnswerInv

LEMMA WaitAnswer ==
    ASSUME TypeOK, LateInv, AnswerInv, NEW r \in Requests,
           Execute(r) \/ Receive(r) \/ TimeOut(r)
    PROVE  AnswerInv'
<1> DEFINE i == <<r, try[r]>>
<1>1. /\ LateAreOver(r) /\ LengthIsKnown(r) /\ (TimedOut(r) \/ Story(r))
      /\ try[r] \in Attempts /\ try[r] \in Nat /\ i \in Ids
  BY DEF AnswerInv, TypeOK, Attempts, Ids
<1>2. /\ try' = try /\ sent' = sent /\ length' = length
      /\ \A s \in Requests : s # r =>
            pc'[s] = pc[s] /\ code'[s] = code[s] /\ body'[s] = body[s]
      /\ \A j \in Ids : j # i => call'[j] = call[j]
  <2>1. CASE Execute(r)
    BY <1>1, <2>1 DEF Execute, Goto, TypeOK
  <2>2. CASE Receive(r)
    BY <1>1, <2>2 DEF Receive, Received, ErrHandler, Goto, TypeOK
  <2>3. CASE TimeOut(r)
    BY <1>1, <2>3 DEF TimeOut, ErrHandler, Goto, TypeOK
  <2> QED
    BY <2>1, <2>2, <2>3
<1>3. /\ \A s \in Requests, n \in Attempts : s # r => call'[<<s, n>>] = call[<<s, n>>]
      /\ \A n \in Attempts : n # try[r] => call'[<<r, n>>] = call[<<r, n>>]
  BY <1>2 DEF Ids
<1>4. LateAreOver(r)' /\ (TimedOut(r) \/ Story(r))'
  <2>1. CASE Execute(r)
    <3>1. /\ UNCHANGED <<code, body>> /\ pc[r] = "execute" /\ pc'[r] = "wait"
          /\ call'[i] = Begun(dst[r])
      BY <1>1, <2>1 DEF Execute, Goto, TypeOK
    <3>2. ~call'[i].late /\ call'[i].stage = "do"
      BY <3>1 DEF Begun
    <3>3. \A n \in Attempts : call[<<r, n>>].late => n < try[r] /\ n # try[r]
      BY <1>1, <3>1 DEF LateAreOver, Before, Attempts
    <3>4. LateAreOver(r)'
      BY <1>2, <1>3, <3>2, <3>3 DEF LateAreOver
    <3>5. TimedOut(r) => TimedOut(r)'
      BY <1>3, <3>3 DEF TimedOut
    <3>6. Story(r) => Story(r)'
      BY <1>2, <3>1, <3>2 DEF Story, Unwritten, Before
    <3> QED
      BY <1>1, <3>4, <3>5, <3>6
  <2>2. CASE Receive(r)
    <3>1. /\ pc[r] = "wait" /\ pc'[r] = "judge" /\ call[i].stage = "signal"
          /\ call'[i].late = call[i].late /\ call'[i].code = call[i].code
          /\ IF call[i].err THEN ErrHandler(r, InternalServerError)
             ELSE UNCHANGED <<code, body>>
      BY <1>1, <2>2 DEF Receive, Received, Signals, Goto, TypeOK, Calls
    <3>2. LateAreOver(r)'
      BY <1>1, <1>2, <1>3, <3>1 DEF LateAreOver
    <3>3. TimedOut(r) => TimedOut(r)'
      BY <1>3, <3>1 DEF TimedOut
    <3>4. ASSUME Story(r) PROVE Story(r)'
      <4>1. /\ \A k \in DOMAIN body[r] : body[r][k].attempt <= try[r]
            /\ try[r] > 1 => Leftover(body[r], try[r])
        BY <3>4 DEF Story
      <4>2. CASE call[i].err
        <5>1. /\ code'[r] = InternalServerError
              /\ \A k \in DOMAIN body'[r] : body'[r][k].attempt <= try[r]
              /\ Leftover(body[r], try[r]) => Leftover(body'[r], try[r])
              /\ DOMAIN body'[r] # {}
          BY <3>1, <4>1, <4>2, ErrStory
        <5>2. Delivered(r, code[r], body[r])'
          BY <5>1, Errors500 DEF Delivered
        <5> QED
          BY <1>2, <3>1, <4>1, <5>1, <5>2 DEF Story, Unwritten, Before
      <4>3. CASE ~call[i].err
        <5>1. /\ code[r] = call[i].code /\ call[i].code # 0 /\ OnlyAnswer(body[r], try[r])
              /\ body' = body /\ code' = code
          BY <3>1, <3>4, <4>3 DEF Story
        <5>2. Delivered(r, code[r], body[r])'
          BY <1>2, <3>1, <5>1 DEF Delivered, OnlyAnswer
        <5>3. DOMAIN body[r] # {}
          BY <5>1 DEF OnlyAnswer
        <5> QED
          BY <1>2, <3>1, <4>1, <5>1, <5>2, <5>3 DEF Story, Unwritten, Before
      <4> QED
        BY <4>2, <4>3
    <3> QED
      BY <1>1, <3>2, <3>3, <3>4
  <2>3. CASE TimeOut(r)
    <3>1. pc'[r] = "judge" /\ call'[i].late
      BY <1>1, <2>3 DEF TimeOut, Goto, TypeOK, Calls
    <3>2. LateAreOver(r)'
      BY <1>1, <1>2, <1>3, <3>1 DEF LateAreOver, Before
    <3>3. TimedOut(r)'
      BY <1>1, <3>1 DEF TimedOut
    <3> QED
      BY <3>2, <3>3
  <2> QED
    BY <2>1, <2>2, <2>3
<1>5. LengthIsKnown(r)'
  BY <1>1, <1>2 DEF LengthIsKnown
<1> QED
  BY <1>2, <1>3, <1>4, <1>5, SameStory DEF AnswerInv

(* Of the exchanges of a request that has not timed out only the one it    *)
(* waits for writes.                                                       *)
LEMMA ExchangeAnswer ==
    ASSUME TypeOK, LateInv, AnswerInv, NEW i \in Ids, Exchange(i)
    PROVE  AnswerInv'
<1>1. PICK r \in Requests, n \in Attempts : i = <<r, n>>
  BY DEF Ids
<1>2. /\ LateAreOver(r) /\ LengthIsKnown(r) /\ (TimedOut(r) \/ Story(r))
      /\ try[r] \in Attempts /\ try[r] \in Nat /\ n \in Nat
  BY DEF AnswerInv, TypeOK, Attempts
<1> DEFINE Frame == /\ pc' = pc /\ try' = try /\ sent' = sent
                    /\ \A j \in Ids : j # i => call'[j] = call[j]
                    /\ call'[i].late = call[i].late
                    /\ \A s \in Requests : s # r =>
                        code'[s] = code[s] /\ body'[s] = body[s] /\ length'[s] = length[s]
                    /\ ~Quiet(i)
<1>3. Frame
  <2>1. CASE DoFails(i)
    BY <2>1 DEF DoFails, reqVars, Quiet, TypeOK, Calls
  <2>2. ASSUME NEW c \in Answers, DoAnswers(i, c)
        PROVE  Frame
    BY <2>2 DEF DoAnswers, reqVars, Quiet, TypeOK, Calls
  <2>3. CASE WriteHeader(i)
    BY <1>1, <2>3 DEF WriteHeader, reqVars, Quiet, TypeOK, Calls
  <2>4. CASE CopyBody(i)
    BY <1>1, <2>4 DEF CopyBody, reqVars, Quiet, TypeOK, Calls
  <2> QED
    BY <2>1, <2>2, <2>3, <2>4 DEF Exchange
<1>4. /\ \A s \in Requests, m \in Attempts : s # r => call'[<<s, m>>] = call[<<s, m>>]
      /\ \A m \in Attempts : call'[<<r, m>>].late = call[<<r, m>>].late
  BY <1>1, <1>3 DEF Ids
<1>5. LateAreOver(r)' /\ (TimedOut(r) => TimedOut(r)')
  BY <1>2, <1>3, <1>4 DEF LateAreOver, TimedOut
<1>7. LengthIsKnown(r)'
  <2>1. n <= try[r]
    BY <1>1, <1>2, <1>3 DEF LateInv, OnlyTimeoutsLeak, LateAreOver
  <2>2. length'[r] = length[r] \/ length'[r] = n
    BY <1>1 DEF Exchange, DoFails, DoAnswers, WriteHeader, CopyBody, TypeOK
  <2> QED
    BY <1>2, <1>3, <2>1, <2>2 DEF LengthIsKnown
<1>6. ASSUME ~TimedOut(r), Story(r) PROVE Story(r)'
  <2>1. pc[r] = "wait" /\ try[r] = n
    BY <1>1, <1>3, <1>6 DEF LateInv, OnlyTimeoutsLeak, TimedOut
  <2>2. \A k \in DOMAIN body[r] : body[r][k].attempt <= n
    BY <1>6, <2>1 DEF Story
  <2>3. CASE DoFails(i)
    <3>1. UNCHANGED <<code, body>> /\ call'[i].stage = "signal" /\ call'[i].err
      BY <2>3 DEF DoFails, TypeOK, Calls
    <3>2. try[r] > 1 => Leftover(body[r], try[r])
      BY <1>6 DEF Story
    <3> QED
      BY <1>1, <1>3, <2>1, <2>2, <3>1, <3>2 DEF Story, Unwritten, Before
  <2>4. ASSUME NEW c \in Answers, DoAnswers(i, c)
        PROVE  Story(r)'
    <3>1. /\ UNCHANGED <<code, body>> /\ call[i].stage = "do"
          /\ call'[i].stage = "header" /\ call'[i].code = c /\ c # 0
      <4>1. c # 0
        BY AnswersAssumption
      <4> QED
        BY <2>4, <4>1 DEF DoAnswers, TypeOK, Calls
    <3>2. Unwritten(r)
      BY <1>1, <2>1, <3>1 DEF Unwritten
    <3> QED
      BY <1>1, <1>3, <1>6, <2>1, <2>2, <3>1, <3>2 DEF Story
  <2>5. CASE WriteHeader(i)
    <3>1. /\ UNCHANGED body /\ call[i].stage = "header" /\ call'[i].stage = "copy"
          /\ call'[i].code = call[i].code /\ code'[r] = call[i].code
      BY <1>1, <2>5 DEF WriteHeader, TypeOK, Calls
    <3>2. Unwritten(r)
      BY <1>1, <2>1, <3>1 DEF Unwritten
    <3> QED
      BY <1>1, <1>3, <1>6, <2>1, <2>2, <3>1, <3>2 DEF Story
  <2>6. CASE CopyBody(i)
    <3>1. PICK e \in BOOLEAN :
              /\ body' = [body EXCEPT ![i[1]] =
                              Append(@, IF e THEN Cut(i[2]) ELSE Answer(i[2]))]
              /\ call' = [call EXCEPT ![i].stage = "signal", ![i].err = e]
      BY <2>6 DEF CopyBody
    <3> DEFINE part == IF e THEN Cut(n) ELSE Answer(n)
    <3>8. /\ UNCHANGED code /\ call[i].stage = "copy"
          /\ call'[i].stage = "signal" /\ call'[i].err = e /\ call'[i].code = call[i].code
      BY <2>6, <3>1 DEF CopyBody, TypeOK, Calls
    <3>9. body'[r] = Append(body[r], part)
      BY <1>1, <3>1 DEF TypeOK
    <3>2. /\ UNCHANGED code /\ call[i].stage = "copy"
          /\ call'[i].stage = "signal" /\ call'[i].err = e /\ call'[i].code = call[i].code
          /\ body'[r] = Append(body[r], part)
      BY <3>8, <3>9
    <3>3. Unwritten(r)
      BY <1>1, <2>1, <3>2 DEF Unwritten
    <3>4. /\ \A k \in DOMAIN body[r] : body[r][k].attempt # n
          /\ code[r] = call[i].code /\ call[i].code # 0
          /\ try[r] > 1 => Leftover(body[r], n)
      BY <1>1, <1>6, <2>1, <3>2, <3>3 DEF Story
    <3>5. body[r] \in Seq(Parts) /\ part \in Parts /\ part.attempt = n
      BY DEF TypeOK, Answer, Cut, Parts
    <3>6. ~e => part = Answer(n)
      OBVIOUS
    <3> HIDE DEF part
    <3>7. /\ \A k \in DOMAIN body'[r] : body'[r][k].attempt <= n
          /\ ~e => OnlyAnswer(body'[r], n)
          /\ Leftover(body[r], n) => Leftover(body'[r], n)
      BY <1>2, <2>2, <3>2, <3>4, <3>5, <3>6, AppendFacts
    <3> QED
      BY <1>1, <1>3, <2>1, <3>2, <3>4, <3>7 DEF Story, Unwritten, Before
  <2> QED
    BY <2>3, <2>4, <2>5, <2>6 DEF Exchange
<1> QED
  BY <1>2, <1>3, <1>4, <1>5, <1>6, <1>7, SameStory DEF AnswerInv

LEMMA QuietAnswer ==
    ASSUME TypeOK, AnswerInv, UNCHANGED <<pc, try, writer, call, sent>>
    PROVE  AnswerInv'
BY SameStory DEF AnswerInv

-----------------------------------------------------------------------------
(* The inductive invariant.  The test of Balance needs to know which       *)
(* exchanges may still write; the map needs to know whose breaker is whose *)
(* and that a breaker that is about to be made is nobody's yet; and so do  *)
(* the answers, of which only the exchange waited for may write one.       *)
IInv == TypeOK /\ BreakerInv /\ LateInv /\ AnswerInv

LEMMA InitIInv == Init => IInv
BY InitTypeOK, InitBreakerInv, InitLateInv, InitAnswerInv DEF IInv

LEMMA RequestIInv ==
    ASSUME IInv, NEW r \in Requests, RequestRuns(r)
    PROVE  IInv'
<1>1. /\ TypeOK /\ BreakerInv /\ LateInv /\ AnswerInv /\ UNCHANGED alive
      /\ RequestStep(r)
  BY DEF IInv, RequestRuns
<1>2. pc[r] \in Holding => cb[r] \in Ids
  BY <1>1 DEF BreakerInv, Named
<1>3. pc[r] \in {"lookup", "install"} => dst[r] \in Dests
  BY <1>1 DEF BreakerInv, Named
<1>4. CASE BalanceNone(r) \/ BalanceNext(r) \/ BalanceCheck(r)
  BY <1>1, <1>4, BalanceType, BalanceBreaker, RequestLate, RequestAnswer DEF IInv
<1>5. CASE Lookup(r)
  <2>1. dst[r] \in Dests
    BY <1>3, <1>5 DEF Lookup
  <2> QED
    BY <1>1, <1>5, <2>1, LookupType, LookupBreaker, RequestLate, RequestAnswer DEF IInv
<1>6. CASE Install(r)
  <2>1. dst[r] \in Dests
    BY <1>3, <1>6 DEF Install
  <2> QED
    BY <1>1, <1>6, <2>1, LookupType, InstallBreaker, RequestLate, RequestAnswer DEF IInv
<1>7. CASE Execute(r)
  <2>1. cb[r] \in Ids
    BY <1>2, <1>7 DEF Execute, Holding
  <2> QED
    BY <1>1, <1>7, <2>1, ExecuteType, ExecuteBreaker, WaitLate, WaitAnswer DEF IInv
<1>8. CASE ExecuteBadUrl(r) \/ ExecuteRejected(r)
  <2>1. cb[r] \in Ids
    BY <1>2, <1>8 DEF ExecuteBadUrl, ExecuteRejected, Holding
  <2> QED
    BY <1>1, <1>8, <2>1, ExecuteType, ExecuteBreaker, RequestLate, RequestAnswer DEF IInv
<1>9. CASE Judge(r)
  <2>1. cb[r] \in Ids
    BY <1>2, <1>9 DEF Judge, Holding
  <2> QED
    BY <1>1, <1>9, <2>1, ExecuteType, JudgeBreaker, RequestLate, RequestAnswer DEF IInv
<1>10. CASE Delete(r)
  BY <1>1, <1>10, DeleteType, DeleteBreaker, RequestLate, RequestAnswer DEF IInv
<1>11. CASE Receive(r) \/ TimeOut(r)
  <2>1. UNCHANGED <<cbs, breaker, dst, cb>>
    BY <1>11 DEF Receive, TimeOut
  <2> QED
    BY <1>1, <1>11, <2>1, WaitType, OtherBreaker, WaitLate, WaitAnswer DEF IInv
<1>12. CASE RetryAgain(r) \/ RetryEnds(r) \/ CopyCode(r) \/ CopyOut(r)
  <2>1. UNCHANGED <<cbs, breaker, dst, cb>>
    BY <1>12 DEF RetryAgain, RetryEnds, CopyCode, CopyOut
  <2> QED
    BY <1>1, <1>12, <2>1, RetryType, OtherBreaker, RequestLate, RequestAnswer DEF IInv
<1> QED
  BY <1>1, <1>4, <1>5, <1>6, <1>7, <1>8, <1>9, <1>10, <1>11, <1>12 DEF RequestStep

LEMMA ExchangeIInv ==
    ASSUME IInv, NEW i \in Ids, ExchangeRuns(i)
    PROVE  IInv'
<1>1. TypeOK /\ BreakerInv /\ LateInv /\ AnswerInv /\ UNCHANGED alive /\ Exchange(i)
  BY DEF IInv, ExchangeRuns
<1>2. UNCHANGED <<cbs, breaker, dst, cb>> /\ UNCHANGED <<pc, try>>
  BY <1>1 DEF Exchange, DoFails, DoAnswers, WriteHeader, CopyBody, reqVars
<1> QED
  BY <1>1, <1>2, ExchangeType, OtherBreaker, ExchangeLate, ExchangeAnswer DEF IInv

LEMMA EnvironmentIInv ==
    ASSUME IInv,
           \/ \E i \in Ids : BreakerTimer(i)
           \/ \E d \in Dests : Registration(d)
    PROVE  IInv'
<1>1. TypeOK /\ BreakerInv /\ LateInv /\ AnswerInv
  BY DEF IInv
<1>2. UNCHANGED <<pc, try, writer, call, sent, alive>>
  BY DEF BreakerTimer, Registration, HalfOpen, AddAddrs, reqVars
<1>3. TypeOK'
  BY <1>1, <1>2, EnvironmentType DEF BreakerTimer, Registration
<1>4. BreakerInv'
  <2>1. ASSUME NEW i \in Ids, BreakerTimer(i)
        PROVE  BreakerInv'
    BY <1>1, <2>1, HalfOpenBreaker DEF BreakerTimer
  <2>2. ASSUME NEW d \in Dests, Registration(d)
        PROVE  BreakerInv'
    <3>1. UNCHANGED <<cbs, breaker, dst, cb>> /\ UNCHANGED <<pc, try>>
      BY <2>2 DEF Registration, AddAddrs, reqVars
    <3> QED
      BY <1>1, <3>1, OtherBreaker
  <2> QED
    BY <2>1, <2>2
<1>5. LateInv'
  BY <1>1, <1>2 DEF LateInv, OnlyTimeoutsLeak, RemovalNeedsLateAnswer, Quiet, TimedOut,
     ServerFailed
<1>6. AnswerInv'
  BY <1>1, <1>2, QuietAnswer
<1> QED
  BY <1>3, <1>4, <1>5, <1>6 DEF IInv

LEMMA IdleIInv ==
    ASSUME IInv, MapFault \/ Stopped \/ UNCHANGED vars
    PROVE  IInv'
<1>1. /\ UNCHANGED <<pool, cursor, cbs, breaker, reqVars, writer, call, sent>>
      /\ alive' = alive \/ alive' = FALSE
  BY DEF MapFault, Stopped, vars, reqVars
<1>2. TypeOK'
  BY <1>1 DEF IInv, TypeOK, reqVars
<1>3. BreakerInv'
  BY <1>1 DEF IInv, BreakerInv, Named, Fresh, Doomed, Unborn, Clean, reqVars
<1>4. LateInv'
  BY <1>1 DEF IInv, LateInv, OnlyTimeoutsLeak, RemovalNeedsLateAnswer, Quiet, TimedOut,
     ServerFailed, reqVars
<1>5. AnswerInv'
  BY <1>1, QuietAnswer DEF IInv, reqVars
<1> QED
  BY <1>2, <1>3, <1>4, <1>5 DEF IInv

LEMMA NextIInv == IInv /\ [Next]_vars => IInv'
BY RequestIInv, ExchangeIInv, EnvironmentIInv, IdleIInv DEF Next

(* TypeOK for every instance; in it, that the list of destinations never   *)
(* holds one twice.                                                        *)
THEOREM TypeCorrect == Spec => []TypeOK
<1>1. IInv => TypeOK
  BY DEF IInv
<1> QED
  BY InitIInv, NextIInv, <1>1, PTL DEF Spec

(* Balance removes a destination only for a request that timed out on some *)
(* exchange: whatever the destinations answer in time, the 500 of          *)
(* CircuitBrake (circuitbrake.go:45) keeps the test of loadbalance.go:192  *)
(* false.                                                                  *)
THEOREM RemovalOnlyAfterTimeout == Spec => []RemovalNeedsLateAnswer
<1>1. IInv => RemovalNeedsLateAnswer
  BY DEF IInv, LateInv
<1> QED
  BY InitIInv, NextIInv, <1>1, PTL DEF Spec

(* A goroutine of Proxy that nobody waits for is one that timed out        *)
(* (proxy.go:126-133).                                                     *)
THEOREM LeaksAreTimeouts == Spec => []OnlyTimeoutsLeak
<1>1. IInv => OnlyTimeoutsLeak
  BY DEF IInv, LateInv
<1> QED
  BY InitIInv, NextIInv, <1>1, PTL DEF Spec

(* A breaker with a failure on its record stays in the map only until the  *)
(* request that failed gets to delete it (circuitbrake.go:43-44), however  *)
(* many requests share it.                                                 *)
THEOREM BreakersForget == Spec => []DirtyBreakerIsDoomed
<1>1. IInv => DirtyBreakerIsDoomed
  BY DEF IInv, TypeOK, BreakerInv, Doomed, Clean, DirtyBreakerIsDoomed, Breakers
<1> QED
  BY InitIInv, NextIInv, <1>1, PTL DEF Spec

(* A client whose request did not time out gets, with a code that is no    *)
(* server error, the whole answer of the destination alone if it came at   *)
(* the first attempt, and never after a retry: all attempts write one      *)
(* ResponseWriter (retry.go:17, responsewriter.go:78).                     *)
THEOREM AnswersAreWhole == Spec => []AnswerIsWhole
<1>1. IInv => AnswerIsWhole
  BY DEF IInv, AnswerInv, Story, Right, AnswerIsWhole
<1> QED
  BY InitIInv, NextIInv, <1>1, PTL DEF Spec
=============================================================================
