------------------------ MODULE ServerLifecycleProofs ------------------------
(***************************************************************************)
(* Proofs about ServerLifecycle, for any requests, retries and times under *)
(* its assumptions: the type invariant, that a stop cuts no attempt short, *)
(* how long a call may take, and that calls implement OutboundCall.  What  *)
(* a call does to its own variables is taken from HttpClientProofs.        *)
(***************************************************************************)
EXTENDS ServerLifecycle, TLAPS

Call == INSTANCE HttpClientProofs

\* The phase the current call of r is in.
At(r) == phase[Current(r)]

\* No timer of r is overdue, and only a timed phase has an age.
Timely(r) == age[r] <= IF Ticking(r) THEN Limit(At(r)) ELSE 0

\* The age of the phase that r is in, and of the attempt before it.
AttemptAge(r) ==
    IF At(r) = "requesting" THEN age[r]
    ELSE IF At(r) = "backoff" THEN Timeout + age[r]
    ELSE Timeout

\* A request that did nothing new since the signal is still at the attempt it was
\* at then, or in the pause after it.
SameAttempt(r) ==
    server = "stopping" /\ since[r] = {} => stopAge <= AttemptAge(r)

\* What a call has spent so far is its retries, and the attempt and pause it is at.
Paced(r) ==
    waited[r] <= retryCount[Current(r)] * (Timeout + RetryDelay) + AttemptAge(r)

RequestInv(r) ==
    /\ Timely(r)
    /\ IF Pending(r) THEN SameAttempt(r) /\ Paced(r) ELSE waited[r] = 0

\* Before the start nothing is pending, before the signal no time has passed.
ServerInv ==
    /\ server = "starting" => Drained
    /\ server \in {"starting", "serving"} => stopAge = 0

\* The inductive invariant.  CutOffExplained needs SameAttempt, and both bounds
\* need that no timer is overdue.
IInv == /\ TypeOK /\ Call!IInv /\ ServerInv
        /\ \A r \in Requests : RequestInv(r)
        /\ CutOffExplained

-----------------------------------------------------------------------------
(* The calls *)

\* The two instances of HttpClient have the same steps.
LEMMA SameSteps ==
  ASSUME NEW c \in Calls
  PROVE  /\ Http!Start(c) => Call!Start(c)
         /\ Http!ResponseArrives(c) => Call!ResponseArrives(c)
         /\ Http!RequestFails(c) => Call!RequestFails(c)
         /\ Http!BodyRead(c) => Call!BodyRead(c)
         /\ Http!ReadFails(c) => Call!ReadFails(c)
         /\ Http!Retry(c) => Call!Retry(c)
         /\ Http!Backend(c) => Call!Backend(c)
<1>1. /\ Http!Start(c) => Call!Start(c)
      /\ Http!ResponseArrives(c) => Call!ResponseArrives(c)
      /\ Http!BodyRead(c) => Call!BodyRead(c)
      /\ Http!Retry(c) => Call!Retry(c)
  BY DEF Http!Start, Call!Start, Http!ResponseArrives, Call!ResponseArrives,
         Http!BodyRead, Call!BodyRead, Http!Retry, Call!Retry
<1>2. /\ Http!RequestFails(c) => Call!RequestFails(c)
      /\ Http!ReadFails(c) => Call!ReadFails(c)
  BY DEF Http!RequestFails, Call!RequestFails, Http!ReadFails, Call!ReadFails,
         Http!AfterFailure, Call!AfterFailure
<1>3. Http!Backend(c) => Call!Backend(c)
  BY DEF Http!Backend, Call!Backend, Http!Attempts, Call!Attempts,
         Http!TransmissionLost, Call!TransmissionLost,
         Http!BackendExecutes, Call!BackendExecutes,
         Http!BackendRefuses, Call!BackendRefuses
<1> QED
  BY <1>1, <1>2, <1>3

\* A step of a call preserves the invariant of HttpClient.
LEMMA CallPreserves ==
  ASSUME Call!IInv, NEW c \in Calls,
         \/ Http!Start(c) \/ Http!ResponseArrives(c) \/ Http!RequestFails(c)
         \/ Http!BodyRead(c) \/ Http!ReadFails(c) \/ Http!Retry(c)
         \/ Http!Backend(c)
  PROVE  Call!IInv' /\ Http!TypeOK'
<1>1. Call!Caller(c) \/ Call!Backend(c)
  BY SameSteps DEF Call!Caller
<1>2. Call!Next
  BY <1>1 DEF Call!Next
<1>3. Call!IInv'
  BY <1>2, BoundsAssumption, Call!NextIInv
<1> QED
  BY <1>3
     DEF Call!IInv, Call!TypeOK, Http!TypeOK, Call!Attempts, Http!Attempts,
         Call!Phases, Http!Phases, Call!InFlight, Http!InFlight, Call!Results,
         Http!Results

\* So does a step that leaves the calls alone.
LEMMA CallsUnchanged == Call!IInv /\ UNCHANGED http => Call!IInv'
<1>1. MaxRetries \in Nat
  BY BoundsAssumption
<1>2. UNCHANGED http => UNCHANGED Call!vars
  BY DEF http, Call!vars
<1> QED
  BY <1>1, <1>2, Call!NextIInv

\* What the invariant of HttpClient says of one call.
LEMMA CallFacts ==
  ASSUME Call!IInv, NEW c \in Calls
  PROVE  /\ Http!TypeOK
         /\ phase \in [Calls -> Http!Phases]
         /\ retryCount \in [Calls -> Nat]
         /\ retryCount[c] <= MaxRetries
         /\ phase[c] = "backoff" => retryCount[c] < MaxRetries
         /\ phase[c] = "idle" => retryCount[c] = 0
  BY BoundsAssumption
     DEF Call!IInv, Call!TypeOK, Http!TypeOK, Call!AttemptsConsistent,
         Call!Attempts, Http!Attempts, Call!Phases, Http!Phases,
         Call!InFlight, Http!InFlight, Call!Results, Http!Results

-----------------------------------------------------------------------------
(* The inductive invariant *)

\* At the start nothing is in progress.
LEMMA InitIInv == Init => IInv
<1> SUFFICES ASSUME Init PROVE IInv
  OBVIOUS
<1>1. Call!IInv
  <2>1. Call!Init
    BY DEF Init, Http!Init, Call!Init, Http!Attempts, Call!Attempts
  <2> QED
    BY <2>1, BoundsAssumption, Call!InitIInv
<1>2. Http!TypeOK
  BY <1>1 DEF Call!IInv, Call!TypeOK, Http!TypeOK, Call!Attempts, Http!Attempts,
              Call!Phases, Http!Phases, Call!InFlight, Http!InFlight,
              Call!Results, Http!Results
<1>3. ASSUME NEW r \in Requests
      PROVE  ~Pending(r) /\ age[r] = 0 /\ waited[r] = 0
  <2>1. progress[r] = 0 /\ age[r] = 0 /\ waited[r] = 0
    BY DEF Init
  <2> QED
    BY <2>1, BoundsAssumption DEF Pending
<1>4. TypeOK
  BY <1>2, BoundsAssumption, TimesAssumption DEF Init, TypeOK, Answered
<1> QED
  BY <1>1, <1>3, <1>4
     DEF IInv, Init, ServerInv, Drained, RequestInv, Timely, CutOffExplained, Ticking

\* Starting, failing to start and the signal: no request has done anything since.
LEMMA ProcessStep ==
  ASSUME IInv, StartSucceeds \/ StartFails \/ Signal
  PROVE  IInv'
<1>1. Call!IInv'
  BY CallsUnchanged DEF IInv, StartSucceeds, StartFails, Signal
<1>2. /\ UNCHANGED <<stopAge, progress, age, waited, since, http>>
      /\ server = "starting" => server' \in {"serving", "exited"}
      /\ server # "starting" => server = "serving" /\ server' = "stopping"
  BY DEF StartSucceeds, StartFails, Signal
<1>3. TypeOK'
  BY <1>2 DEF IInv, TypeOK, StartSucceeds, StartFails, Signal, http, Http!TypeOK
<1>4. ServerInv' /\ CutOffExplained'
  BY <1>2 DEF IInv, ServerInv, Drained, Pending, CutOffExplained, TypeOK
<1>5. ASSUME NEW r \in Requests
      PROVE  RequestInv(r)'
  <2>1. Timely(r)' /\ (IF Pending(r) THEN Paced(r)' ELSE waited[r]' = 0)
    BY <1>2 DEF IInv, RequestInv, Timely, Paced, Ticking, Pending, At, Current,
                AttemptAge, http
  <2>2. stopAge' = 0 /\ age[r]' \in Nat
    BY <1>2, <1>3 DEF IInv, ServerInv, TypeOK
  <2>3. SameAttempt(r)'
    BY <2>2, TimesAssumption DEF SameAttempt, AttemptAge
  <2> QED
    BY <1>2, <2>1, <2>3 DEF RequestInv, Pending
<1> QED
  BY <1>1, <1>3, <1>4, <1>5 DEF IInv

\* When the stop is over no request is still where it was at the signal: five
\* seconds and one are less than ten.
LEMMA ExitStep ==
  ASSUME IInv, Exit
  PROVE  IInv'
<1>1. Call!IInv'
  BY CallsUnchanged DEF IInv, Exit
<1>2. /\ UNCHANGED <<stopAge, progress, age, waited, since, http>>
      /\ server = "stopping" /\ server' = "exited"
  BY DEF Exit
<1>3. TypeOK' /\ ServerInv'
  BY <1>2 DEF IInv, TypeOK, ServerInv, http, Http!TypeOK
<1>4. \A r \in Requests : RequestInv(r)'
  BY <1>2 DEF IInv, RequestInv, Timely, Paced, SameAttempt, Pending, Current, At,
              AttemptAge, Ticking, http
<1>5. CutOffExplained'
  <2> SUFFICES ASSUME NEW r \in Requests, Pending(r), since[r] = {}
               PROVE  FALSE
    BY <1>2 DEF CutOffExplained, Pending
  <2>1. stopAge = StopTimeout
    BY DEF Exit, StopDue, Drained
  <2>2. Timely(r) /\ stopAge <= AttemptAge(r) /\ age[r] \in Nat
    BY <1>2 DEF IInv, RequestInv, SameAttempt, TypeOK
  <2> QED
    BY <2>1, <2>2, StopOutlastsAttempt, TimesAssumption
       DEF Timely, AttemptAge, Ticking, Timed, Limit, At
<1> QED
  BY <1>1, <1>3, <1>4, <1>5 DEF IInv

-----------------------------------------------------------------------------
(* Steps of one request *)

\* Such a step leaves the other requests, and their current calls, alone.
Only(r) ==
    /\ Running /\ UNCHANGED <<server, stopAge>>
    /\ \A q \in Requests \ {r} :
           /\ progress'[q] = progress[q] /\ age'[q] = age[q]
           /\ waited'[q] = waited[q] /\ since'[q] = since[q]
           /\ Pending(q) => /\ phase'[Current(q)] = phase[Current(q)]
                            /\ retryCount'[Current(q)] = retryCount[Current(q)]

\* It preserves the invariant if it does for r.
LEMMA OneRequest ==
  ASSUME IInv, NEW r \in Requests, Only(r), TypeOK', Call!IInv', RequestInv(r)'
  PROVE  IInv'
<1>1. ServerInv' /\ CutOffExplained'
  BY DEF IInv, ServerInv, CutOffExplained, Only, Running
<1>2. ASSUME NEW q \in Requests \ {r}
      PROVE  RequestInv(q)'
  <2>1. Current(q)' = Current(q) /\ Pending(q)' = Pending(q)
    BY DEF Only, Current, Pending
  <2>2. Pending(q) => At(q)' = At(q)
    BY <2>1 DEF Only, At
  <2>3. /\ Pending(q) => AttemptAge(q)' = AttemptAge(q)
        /\ Ticking(q)' = Ticking(q)
    BY <2>1, <2>2 DEF Only, AttemptAge, Ticking, At
  <2> QED
    BY <2>1, <2>2, <2>3
       DEF Only, IInv, RequestInv, Timely, SameAttempt, Paced, Ticking
<1> QED
  BY <1>1, <1>2 DEF IInv

\* A request that arrives begins its first call.
LEMMA ArriveStep ==
  ASSUME IInv, NEW r \in Requests, Arrive(r)
  PROVE  IInv'
<1> DEFINE c == <<r, 1>>
<1>1. c \in Calls
  BY BoundsAssumption DEF Calls
<1>2. Call!IInv' /\ Http!TypeOK'
  BY <1>1, CallPreserves DEF IInv, Arrive
<1>3. /\ UNCHANGED <<server, stopAge, age, waited, since, retryCount>>
      /\ server = "serving" /\ progress[r] = 0
      /\ progress' = [progress EXCEPT ![r] = 1]
      /\ phase' = [phase EXCEPT ![c] = "requesting"]
  BY DEF Arrive, Http!Start
<1>4. TypeOK'
  BY <1>2, <1>3, BoundsAssumption DEF IInv, TypeOK, Answered
<1>5. /\ progress \in [Requests -> 0 .. Answered]
      /\ phase \in [Calls -> Http!Phases] /\ retryCount \in [Calls -> Nat]
  BY <1>1, CallFacts DEF IInv, TypeOK
<1>6. Only(r)
  BY <1>3, <1>5 DEF Only, Running, Current
<1>7. Current(r)' = c /\ At(r)' = "requesting"
  BY <1>1, <1>3, <1>5 DEF Current, At
<1>8. ~Pending(r) /\ retryCount[c] = 0 /\ MaxRetries \in Nat
  BY <1>1, <1>3, CallFacts, BoundsAssumption DEF IInv, Pending, Arrive, Http!Start
<1>9. age[r] = 0 /\ waited[r] = 0
  BY <1>8 DEF IInv, RequestInv, Timely, Ticking, TypeOK
<1>10. RequestInv(r)'
  BY <1>3, <1>7, <1>8, <1>9, TimesAssumption
     DEF RequestInv, Timely, SameAttempt, Paced, AttemptAge, Ticking, Limit
<1> QED
  BY <1>2, <1>4, <1>6, <1>10, OneRequest

\* A further call begins with nothing spent; the stop takes note of its attempt.
LEMMA NextCallStep ==
  ASSUME IInv, NEW r \in Requests, NextCall(r)
  PROVE  IInv'
<1> DEFINE c == <<r, progress[r] + 1>>
<1>1. c \in Calls /\ Current(r) \in Calls
  BY BoundsAssumption DEF Calls, NextCall, Pending, Current
<1>2. Call!IInv' /\ Http!TypeOK'
  BY <1>1, CallPreserves DEF IInv, NextCall
<1>3. /\ UNCHANGED <<server, stopAge, age, retryCount>>
      /\ Running /\ Pending(r) /\ Http!Settled(Current(r))
      /\ progress[r] < CallsPerRequest
      /\ progress' = [progress EXCEPT ![r] = @ + 1]
      /\ phase' = [phase EXCEPT ![c] = "requesting"]
      /\ phase[c] = "idle"
      /\ waited' = [waited EXCEPT ![r] = 0]
      /\ Noting(r, "attempt")
  BY DEF NextCall, Http!Start
<1>4. TypeOK'
  BY <1>2, <1>3, BoundsAssumption DEF IInv, TypeOK, Answered, Pending, Noting
<1>5. /\ progress \in [Requests -> 0 .. Answered]
      /\ phase \in [Calls -> Http!Phases] /\ retryCount \in [Calls -> Nat]
      /\ since \in [Requests -> SUBSET {"attempt", "body"}]
      /\ waited \in [Requests -> Nat]
  BY <1>1, CallFacts DEF IInv, TypeOK
<1>6. Only(r)
  BY <1>3, <1>5 DEF Only, Current, Noting
<1>7. Current(r)' = c /\ At(r)' = "requesting"
  BY <1>1, <1>3, <1>5 DEF Current, At
<1>8. retryCount[c] = 0 /\ MaxRetries \in Nat
  BY <1>1, <1>3, CallFacts, BoundsAssumption DEF IInv
<1>9. age[r] = 0
  BY <1>3 DEF IInv, RequestInv, Timely, Ticking, Timed, TypeOK, Http!Settled,
              Http!Results
<1>10. waited'[r] = 0 /\ (server' = "stopping" => since'[r] # {})
  BY <1>3, <1>5 DEF Noting
<1>11. RequestInv(r)'
  BY <1>3, <1>7, <1>8, <1>9, <1>10, TimesAssumption
     DEF RequestInv, Timely, SameAttempt, Paced, AttemptAge, Ticking, Limit
<1> QED
  BY <1>2, <1>4, <1>6, <1>11, OneRequest

\* An answered request makes no more calls.
LEMMA AnswerStep ==
  ASSUME IInv, NEW r \in Requests, Answer(r)
  PROVE  IInv'
<1>1. Call!IInv' /\ (Http!TypeOK /\ UNCHANGED http => Http!TypeOK')
  BY CallsUnchanged DEF IInv, Answer, http, Http!TypeOK
<1>2. /\ UNCHANGED <<server, stopAge, age, since, http>>
      /\ Running /\ Http!Settled(Current(r))
      /\ progress' = [progress EXCEPT ![r] = Answered]
      /\ waited' = [waited EXCEPT ![r] = 0]
  BY DEF Answer
<1>3. TypeOK'
  BY <1>1, <1>2, BoundsAssumption DEF IInv, TypeOK, Answered
<1>4. Only(r)
  BY <1>2 DEF Only, Current, http, IInv, TypeOK
<1>5. age[r] = 0
  BY <1>2 DEF IInv, RequestInv, Timely, Ticking, Timed, TypeOK, Http!Settled,
              Http!Results, Current
<1>6. progress'[r] = Answered /\ waited'[r] = 0
  BY <1>2 DEF IInv, TypeOK
<1>7. ~Pending(r)'
  BY <1>6, BoundsAssumption DEF Pending, Answered
<1>8. RequestInv(r)'
  BY <1>2, <1>5, <1>6, <1>7 DEF RequestInv, Timely, Ticking
<1> QED
  BY <1>1, <1>3, <1>4, <1>8, OneRequest

\* What the steps of the current call of r have in common.
LEMMA CurrentCallMoves ==
  ASSUME IInv, NEW r \in Requests, Running, Pending(r),
         \/ Http!ResponseArrives(Current(r)) \/ Http!RequestFails(Current(r))
         \/ Http!BodyRead(Current(r)) \/ Http!ReadFails(Current(r))
         \/ Http!Retry(Current(r)),
         age' = [age EXCEPT ![r] = 0],
         UNCHANGED since \/ Noting(r, "attempt"),
         UNCHANGED <<server, stopAge, progress, waited>>
  PROVE  /\ TypeOK' /\ Call!IInv' /\ Only(r)
         /\ Current(r) \in Calls /\ Current(r)' = Current(r)
         /\ Pending(r)' /\ Ticking(r)' = (At(r)' \in Timed)
         /\ age'[r] = 0
<1> DEFINE c == Current(r)
<1>1. c \in Calls /\ Current(r)' = c /\ Pending(r)'
  BY BoundsAssumption DEF Calls, Pending, Current
<1>2. Call!IInv' /\ Http!TypeOK'
  BY <1>1, CallPreserves DEF IInv
<1>3. TypeOK'
  BY <1>2 DEF IInv, TypeOK, Noting
<1>4. \A d \in Calls \ {c} : phase'[d] = phase[d] /\ retryCount'[d] = retryCount[d]
  BY <1>1, CallFacts
     DEF IInv, Http!ResponseArrives, Http!RequestFails, Http!BodyRead,
         Http!ReadFails, Http!Retry
<1>5. \A q \in Requests \ {r} : Pending(q) => Current(q) \in Calls \ {c}
  BY DEF Current, Pending, Calls
<1>6. Only(r)
  BY <1>4, <1>5 DEF Only, Noting, IInv, TypeOK
<1>7. age'[r] = 0
  BY DEF IInv, TypeOK
<1> QED
  BY <1>1, <1>2, <1>3, <1>6, <1>7 DEF Ticking, At

\* One more retry is one more attempt and one more pause.
LEMMA OneMore ==
  ASSUME NEW n \in Nat, NEW k \in Nat
  PROVE  n * k \in Nat /\ (n + 1) * k = n * k + k
  OBVIOUS

\* An answer, a failure or the timeout ends an attempt or a body: what comes next
\* has lasted no time, and the attempt no longer than its timeout.
LEMMA AttemptEnds ==
  ASSUME IInv, NEW r \in Requests, Running, Pending(r),
         \/ Http!ResponseArrives(Current(r)) \/ Http!RequestFails(Current(r))
         \/ Http!BodyRead(Current(r)) \/ Http!ReadFails(Current(r)),
         age' = [age EXCEPT ![r] = 0],
         UNCHANGED <<server, stopAge, progress, waited, since>>
  PROVE  IInv'
<1> DEFINE c == Current(r)
<1>1. /\ TypeOK' /\ Call!IInv' /\ Only(r) /\ c \in Calls /\ Current(r)' = c
      /\ Pending(r)' /\ Ticking(r)' = (At(r)' \in Timed) /\ age'[r] = 0
  BY CurrentCallMoves
<1>2. /\ phase[c] \in {"requesting", "reading"}
      /\ retryCount' = retryCount
      /\ phase'[c] # "requesting"
  <2>1. Call!AttemptsConsistent /\ Call!TypeOK
    BY DEF IInv, Call!IInv
  <2> QED
    BY <1>1, <2>1, CallFacts
       DEF IInv, Http!ResponseArrives, Http!RequestFails, Http!BodyRead,
           Http!ReadFails, Http!AfterFailure, Call!TypeOK
<1>3. /\ age[r] \in Nat /\ stopAge \in Nat /\ waited[r] \in Nat
      /\ retryCount[c] \in Nat
  BY <1>1, CallFacts DEF IInv, TypeOK
<1>4. AttemptAge(r) <= Timeout /\ AttemptAge(r)' = Timeout
  BY <1>1, <1>2, <1>3, TimesAssumption
     DEF IInv, RequestInv, Timely, AttemptAge, At, Ticking, Timed, Limit
<1>5. Timely(r)'
  BY <1>1, TimesAssumption DEF Timely, Limit
<1>6. SameAttempt(r)'
  BY <1>3, <1>4, TimesAssumption
     DEF IInv, RequestInv, SameAttempt, AttemptAge
<1>7. Paced(r)'
  <2>1. retryCount[c] * (Timeout + RetryDelay) \in Nat
    BY <1>3, OneMore, TimesAssumption
  <2>2. waited[r] <= retryCount[c] * (Timeout + RetryDelay) + AttemptAge(r)
    BY DEF IInv, RequestInv, Paced
  <2>3. AttemptAge(r) \in Nat
    BY <1>3, TimesAssumption DEF AttemptAge
  <2> QED
    BY <1>1, <1>2, <1>3, <1>4, <2>1, <2>2, <2>3, TimesAssumption DEF Paced
<1> QED
  BY <1>1, <1>5, <1>6, <1>7, OneRequest DEF RequestInv

\* The pause is over: the next attempt begins, and the stop takes note of it.
LEMMA PauseEnds ==
  ASSUME IInv, NEW r \in Requests, Running, Pending(r),
         Http!Retry(Current(r)), age[r] = RetryDelay,
         age' = [age EXCEPT ![r] = 0],
         Noting(r, "attempt"),
         UNCHANGED <<server, stopAge, progress, waited>>
  PROVE  IInv'
<1> DEFINE c == Current(r)
           k == Timeout + RetryDelay
<1>1. /\ TypeOK' /\ Call!IInv' /\ Only(r) /\ c \in Calls /\ Current(r)' = c
      /\ Pending(r)' /\ Ticking(r)' = (At(r)' \in Timed) /\ age'[r] = 0
  BY CurrentCallMoves
<1>2. /\ phase[c] = "backoff" /\ phase'[c] = "requesting"
      /\ retryCount[c] \in Nat /\ retryCount'[c] = retryCount[c] + 1
  BY <1>1, CallFacts DEF IInv, Http!Retry
<1>3. Timely(r)'
  BY <1>1, TimesAssumption DEF Timely, Limit
<1>4. SameAttempt(r)'
  BY DEF SameAttempt, Noting, IInv, TypeOK
<1>5. Paced(r)'
  <2>1. waited[r] <= retryCount[c] * k + (Timeout + RetryDelay)
    BY <1>2 DEF IInv, RequestInv, Paced, AttemptAge, At
  <2>2. k \in Nat
    BY TimesAssumption
  <2>3. (retryCount[c] + 1) * k = retryCount[c] * k + k /\ retryCount[c] * k \in Nat
    BY <1>2, <2>2, OneMore
  <2>4. waited'[r] <= retryCount'[c] * k + 0
    BY <1>2, <2>1, <2>3, TimesAssumption DEF IInv, TypeOK
  <2>5. AttemptAge(r)' = 0
    BY <1>1, <1>2 DEF AttemptAge, At
  <2> QED
    BY <1>1, <2>4, <2>5 DEF Paced
<1> QED
  BY <1>1, <1>3, <1>4, <1>5, OneRequest DEF RequestInv

\* The steps that the network or a timer brings about.
LEMMA CallStep ==
  ASSUME IInv, NEW r \in Requests, Network(r) \/ TimerFires(r)
  PROVE  IInv'
<1>1. CASE Network(r)
  BY <1>1, AttemptEnds DEF Network
<1>2. CASE TimerFires(r) /\ Http!RequestFails(Current(r))
  BY <1>2, AttemptEnds DEF TimerFires, Http!RequestFails, Http!Retry
<1>3. CASE TimerFires(r) /\ Http!Retry(Current(r))
  BY <1>3, PauseEnds DEF TimerFires, Http!RequestFails, Http!Retry, Limit
<1> QED
  BY <1>1, <1>2, <1>3 DEF TimerFires

-----------------------------------------------------------------------------
(* The backend and the clock *)

\* What the backend does changes no phase of a call.
LEMMA BackendStep ==
  ASSUME IInv, NEW c \in Calls, Backend(c)
  PROVE  IInv'
<1>1. Call!IInv' /\ Http!TypeOK'
  BY CallPreserves DEF IInv, Backend
<1>2. UNCHANGED <<server, stopAge, progress, age, waited, since, phase, retryCount>>
  BY DEF Backend, Http!Backend, Http!TransmissionLost, Http!BackendExecutes,
         Http!BackendRefuses
<1>3. TypeOK' /\ ServerInv' /\ CutOffExplained'
  BY <1>1, <1>2 DEF IInv, TypeOK, ServerInv, Drained, Pending, CutOffExplained
<1>4. \A r \in Requests : RequestInv(r)'
  BY <1>2 DEF IInv, RequestInv, Timely, Paced, SameAttempt, Pending, Current, At,
              AttemptAge, Ticking
<1> QED
  BY <1>1, <1>3, <1>4 DEF IInv

\* A second passes for the stop and for every timer alike, and a body that is
\* waited for is noted.
LEMMA TickStep ==
  ASSUME IInv, Tick
  PROVE  IInv'
<1>1. /\ UNCHANGED <<server, progress, http>> /\ Running /\ NothingToRun
      /\ TimersPending
      /\ stopAge' = IF server = "stopping" THEN stopAge + 1 ELSE stopAge
  BY DEF Tick
<1>2. Call!IInv' /\ Http!TypeOK'
  BY <1>1, CallsUnchanged DEF IInv, TypeOK, http, Http!TypeOK
<1>3. TypeOK'
  <2>1. stopAge' \in 0 .. StopTimeout
    BY <1>1, TimesAssumption DEF IInv, TypeOK, TimersPending, StopDue
  <2>2. /\ age' \in [Requests -> Nat] /\ waited' \in [Requests -> Nat]
        /\ since' \in [Requests -> SUBSET {"attempt", "body"}]
    BY DEF Tick, IInv, TypeOK
  <2> QED
    BY <1>1, <1>2, <2>1, <2>2 DEF IInv, TypeOK
<1>4. ServerInv' /\ CutOffExplained'
  BY <1>1 DEF IInv, ServerInv, CutOffExplained, Running
<1>5. ASSUME NEW r \in Requests
      PROVE  RequestInv(r)'
  <2>1. /\ age'[r] = (IF Ticking(r) THEN age[r] + 1 ELSE age[r])
        /\ waited'[r] = (IF Ticking(r) THEN waited[r] + 1 ELSE waited[r])
        /\ since'[r] = (IF /\ server = "stopping" /\ Pending(r)
                           /\ phase[Current(r)] = "reading"
                        THEN since[r] \cup {"body"} ELSE since[r])
    BY DEF Tick
  <2>2. /\ Pending(r)' = Pending(r) /\ Current(r)' = Current(r)
        /\ At(r)' = At(r) /\ Ticking(r)' = Ticking(r)
    BY <1>1 DEF Pending, Current, At, Ticking, http
  <2>3. age[r] \in Nat /\ waited[r] \in Nat /\ stopAge \in Nat
    BY TimesAssumption DEF IInv, TypeOK
  <2>4. Timely(r)'
    BY <2>1, <2>2, <2>3, <1>1, TimesAssumption
       DEF IInv, RequestInv, Timely, TimersPending, At, Limit
  <2>5. ~Pending(r) => waited'[r] = 0
    BY <2>1 DEF IInv, RequestInv, Ticking
  <2>6. CASE Ticking(r)
    <3>1. AttemptAge(r)' = AttemptAge(r) + 1 /\ AttemptAge(r) \in Nat /\ Pending(r)
      BY <2>1, <2>2, <2>3, <2>6, TimesAssumption DEF AttemptAge, Ticking, Timed, At
    <3>2. SameAttempt(r)'
      BY <1>1, <2>1, <2>3, <3>1 DEF IInv, RequestInv, SameAttempt
    <3>3. Paced(r)'
      <4>1. Current(r) \in Calls
        BY <3>1, BoundsAssumption DEF Current, Pending, Calls
      <4>2. retryCount[Current(r)] * (Timeout + RetryDelay) \in Nat
        BY <4>1, CallFacts, TimesAssumption, OneMore DEF IInv
      <4>3. retryCount' = retryCount
        BY <1>1 DEF http
      <4> QED
        BY <2>1, <2>2, <2>3, <2>6, <3>1, <4>2, <4>3 DEF IInv, RequestInv, Paced
    <3> QED
      BY <2>2, <2>4, <3>1, <3>2, <3>3 DEF RequestInv
  <2>7. CASE Pending(r) /\ ~Ticking(r)
    <3>1. At(r) = "reading"
      BY <1>1, <2>7 DEF NothingToRun, Ticking, Timed, At, Http!InFlight
    <3>2. SameAttempt(r)'
      BY <1>1, <2>1, <2>7, <3>1 DEF SameAttempt, At
    <3>3. Paced(r)'
      BY <1>1, <2>1, <2>2, <2>7, <3>1 DEF IInv, RequestInv, Paced, AttemptAge, http
    <3> QED
      BY <2>2, <2>4, <2>7, <3>2, <3>3 DEF RequestInv
  <2> QED
    BY <2>2, <2>4, <2>5, <2>6, <2>7 DEF RequestInv
<1> QED
  BY <1>2, <1>3, <1>4, <1>5 DEF IInv

\* Every step preserves the inductive invariant.
LEMMA NextIInv == IInv /\ [Next]_vars => IInv'
<1> SUFFICES ASSUME IInv, [Next]_vars
             PROVE  IInv'
  OBVIOUS
<1>1. CASE StartSucceeds \/ StartFails \/ Signal
  BY <1>1, ProcessStep
<1>2. CASE Exit
  BY <1>2, ExitStep
<1>3. CASE Tick
  BY <1>3, TickStep
<1>4. ASSUME NEW r \in Requests, Arrive(r) \/ Step(r)
      PROVE  IInv'
  BY <1>4, ArriveStep, NextCallStep, AnswerStep, CallStep DEF Step
<1>5. ASSUME NEW c \in Calls, Backend(c)
      PROVE  IInv'
  BY <1>5, BackendStep
<1>6. CASE UNCHANGED vars
  <2>1. UNCHANGED <<server, stopAge, progress, age, waited, since, http>>
    BY <1>6 DEF vars
  <2>2. Call!IInv'
    BY <2>1, CallsUnchanged DEF IInv
  <2>3. TypeOK' /\ ServerInv' /\ CutOffExplained'
    BY <2>1 DEF IInv, TypeOK, ServerInv, Drained, Pending, CutOffExplained, http,
                Http!TypeOK
  <2>4. \A r \in Requests : RequestInv(r)'
    BY <2>1 DEF IInv, RequestInv, Timely, Paced, SameAttempt, Pending, Current, At,
                AttemptAge, Ticking, http
  <2> QED
    BY <2>2, <2>3, <2>4 DEF IInv
<1> QED
  BY <1>1, <1>2, <1>3, <1>4, <1>5, <1>6 DEF Next

\* The inductive invariant holds in every state.
LEMMA SpecIInv == Spec => []IInv
  BY InitIInv, NextIInv, PTL DEF Spec

-----------------------------------------------------------------------------
(* The invariants of the run *)

\* Every variable keeps its type for any requests, retries and times.
THEOREM TypeCorrect == Spec => []TypeOK
  BY SpecIInv, PTL DEF IInv

\* A stop cuts no request off in the attempt it was at, as long as it outlasts an
\* attempt and a pause.
THEOREM StopCutsNoAttempt == Spec => []CutOffExplained
  BY SpecIInv, PTL DEF IInv

\* A product grows with its first factor.
LEMMA MoreIsMore ==
  ASSUME NEW m \in Nat, NEW n \in Nat, NEW k \in Nat, n <= m
  PROVE  n * k <= m * k
<1>1. m - n \in Nat /\ m = n + (m - n)
  OBVIOUS
<1>2. (m - n) * k \in Nat /\ n * k \in Nat
  BY <1>1, OneMore
<1>3. (n + (m - n)) * k = n * k + (m - n) * k
  BY <1>1
<1> QED
  BY <1>1, <1>2, <1>3

\* However its attempts fail, a call spends at most MaxWait on them and on the
\* pauses between them.
THEOREM CallsArePaced == Spec => []CallBounded
<1>1. ASSUME IInv, NEW r \in Requests, Pending(r)
      PROVE  LET c == Current(r)
             IN  /\ waited[r] <= MaxWait
                 /\ waited[r] <= retryCount[c] * (Timeout + RetryDelay) + Timeout
                                    + (IF phase[c] = "backoff" THEN RetryDelay ELSE 0)
  <2> DEFINE c == Current(r)
             k == Timeout + RetryDelay
             n == retryCount[c]
  <2>1. c \in Calls
    BY <1>1, BoundsAssumption DEF Current, Pending, Calls
  <2>2. /\ n \in Nat /\ MaxRetries \in Nat /\ n <= MaxRetries /\ k \in Nat
        /\ phase[c] = "backoff" => n + 1 <= MaxRetries
    BY <1>1, <2>1, CallFacts, BoundsAssumption, TimesAssumption DEF IInv
  <2>3. /\ waited[r] \in Nat /\ age[r] \in Nat
        /\ waited[r] <= n * k + AttemptAge(r)
        /\ age[r] <= IF Ticking(r) THEN Limit(At(r)) ELSE 0
    BY <1>1 DEF IInv, TypeOK, RequestInv, Paced, Timely
  <2>4. AttemptAge(r) <= Timeout + (IF phase[c] = "backoff" THEN RetryDelay ELSE 0)
        /\ AttemptAge(r) \in Nat
    BY <1>1, <2>3, TimesAssumption DEF AttemptAge, At, Ticking, Timed, Limit
  <2>5. /\ n * k \in Nat /\ MaxRetries * k \in Nat /\ n * k <= MaxRetries * k
        /\ (n + 1) * k = n * k + k
        /\ phase[c] = "backoff" => (n + 1) * k <= MaxRetries * k
    BY <2>2, OneMore, MoreIsMore
  <2>6. MaxWait = MaxRetries * k + Timeout
    <3>1. /\ Timeout \in Nat /\ RetryDelay \in Nat /\ MaxRetries \in Nat
      BY TimesAssumption, BoundsAssumption
    <3>2. MaxRetries * k = MaxRetries * Timeout + MaxRetries * RetryDelay
      BY <3>1
    <3>3. (MaxRetries + 1) * Timeout = MaxRetries * Timeout + Timeout
      BY <3>1
    <3>4. MaxRetries * Timeout \in Nat /\ MaxRetries * RetryDelay \in Nat
      BY <3>1, OneMore
    <3> QED
      BY <3>1, <3>2, <3>3, <3>4 DEF MaxWait
  <2>7. waited[r] <= n * k + Timeout
                        + (IF phase[c] = "backoff" THEN RetryDelay ELSE 0)
    BY <2>3, <2>4, <2>5, TimesAssumption
  <2>8. waited[r] <= MaxWait
    BY <2>2, <2>3, <2>5, <2>6, <2>7, TimesAssumption
  <2> QED
    BY <2>7, <2>8
<1>2. IInv => CallBounded
  BY <1>1 DEF CallBounded
<1> QED
  BY <1>2, SpecIInv, PTL

-----------------------------------------------------------------------------
(* Composition: the calls are those of HttpClient *)

\* The requests make their calls from the start and step by step as HttpClient.
LEMMA SpecCalls == Spec => Call!Spec
<1>1. Init => Call!Init
  BY DEF Init, Http!Init, Call!Init, Http!Attempts, Call!Attempts
<1>2. ASSUME NEW c \in Calls,
             \/ Http!Start(c) \/ Http!ResponseArrives(c) \/ Http!RequestFails(c)
             \/ Http!BodyRead(c) \/ Http!ReadFails(c) \/ Http!Retry(c)
             \/ Http!Backend(c)
      PROVE  Call!Next
  BY <1>2, SameSteps DEF Call!Next, Call!Caller
<1>3. [Next]_vars => [Call!Next]_(Call!vars)
  <2> SUFFICES ASSUME [Next]_vars
               PROVE  [Call!Next]_(Call!vars)
    OBVIOUS
  <2>1. CASE \/ StartSucceeds \/ StartFails \/ Signal \/ Exit \/ Tick
             \/ \E r \in Requests : Answer(r)
    BY <2>1 DEF StartSucceeds, StartFails, Signal, Exit, Tick, Answer, http, Call!vars
  <2>2. ASSUME NEW r \in Requests, Arrive(r)
        PROVE  Call!Next
    <3>1. <<r, 1>> \in Calls /\ Http!Start(<<r, 1>>)
      BY <2>2, BoundsAssumption DEF Arrive, Calls
    <3> QED
      BY <1>2, <3>1
  <2>3. ASSUME NEW r \in Requests, NextCall(r)
        PROVE  Call!Next
    <3>1. <<r, progress[r] + 1>> \in Calls /\ Http!Start(<<r, progress[r] + 1>>)
      BY <2>3, BoundsAssumption DEF NextCall, Pending, Calls
    <3> QED
      BY <1>2, <3>1
  <2>4. ASSUME NEW r \in Requests, Network(r) \/ TimerFires(r)
        PROVE  Call!Next
    <3>1. Current(r) \in Calls
      BY <2>4 DEF Network, TimerFires, Pending, Current, Calls
    <3> QED
      BY <1>2, <2>4, <3>1 DEF Network, TimerFires
  <2>5. ASSUME NEW c \in Calls, Backend(c)
        PROVE  Call!Next
    BY <1>2, <2>5 DEF Backend
  <2>6. CASE UNCHANGED vars
    BY <2>6 DEF vars, http, Call!vars
  <2> QED
    BY <2>1, <2>2, <2>3, <2>4, <2>5, <2>6 DEF Next, Step
<1> QED
  BY <1>1, <1>3, PTL DEF Spec, Call!Spec

\* The two instances of HttpClient count the same.
LEMMA SameCardinality == \A S : Http!Cardinality(S) = Call!Cardinality(S)
  BY DEF Http!Cardinality, Call!Cardinality

\* Under its timers, and with a stop or an exit at any time, every call is one
\* operation of the request that makes it.
THEOREM CallsImplement == Spec => Http!ImplementsOutboundCall
<1>1. Call!Spec => Call!ImplementsOutboundCall
  BY BoundsAssumption, Call!Refinement
<1>2. Call!Abstract!Init => Http!Abstract!Init
  BY SameCardinality
     DEF Call!Abstract!Init, Http!Abstract!Init, Call!InFlight, Http!InFlight
<1>3. [Call!Abstract!Next]_(Call!Abstract!vars) => [Http!Abstract!Next]_(Http!Abstract!vars)
  BY SameCardinality
     DEF Call!Abstract!Next, Http!Abstract!Next, Call!Abstract!vars, Http!Abstract!vars,
         Call!Abstract!Begin, Http!Abstract!Begin, Call!Abstract!TakeEffect,
         Http!Abstract!TakeEffect, Call!Abstract!Settle, Http!Abstract!Settle,
         Call!InFlight, Http!InFlight
<1> QED
  BY <1>1, <1>2, <1>3, SpecCalls, PTL
     DEF Http!ImplementsOutboundCall, Http!Abstract!Spec,
         Call!ImplementsOutboundCall, Call!Abstract!Spec
=============================================================================
