--------------------------- MODULE ServerLifecycle ---------------------------
(***************************************************************************)
(* The process around the requests: startServer (start-server.js), the     *)
(* plugin pulse (pulse.js) that stops the server on a signal, and the      *)
(* clock that both share with the outbound calls of the requests in        *)
(* progress.  A call is one of HttpClient; here its timers are due at      *)
(* their time and not merely some day.                                     *)
(*                                                                         *)
(* External, as the code uses them: hapi-pulse answers SIGTERM and SIGINT  *)
(* with server.stop({ timeout }) and process.exit; server.stop refuses new *)
(* connections and waits for the requests in progress, at most timeout.    *)
(*                                                                         *)
(* A request makes its calls one after the other; which calls these are,   *)
(* and whether it goes on after one of them, RequestLifecycle says: here   *)
(* that is a free choice.                                                  *)
(***************************************************************************)
EXTENDS Naturals

CONSTANTS
    Requests,         \* requests that may arrive
    CallsPerRequest,  \* bound on the outbound calls of one request
    MaxRetries,       \* defaultConfig.maxRetries
    Timeout,          \* defaultConfig.timeout, in seconds
    RetryDelay,       \* defaultConfig.retryDelay
    StopTimeout       \* tenSeconds of pulse.js

ASSUME BoundsAssumption == MaxRetries \in Nat /\ CallsPerRequest \in Nat \ {0}
ASSUME TimesAssumption == {Timeout, RetryDelay, StopTimeout} \subseteq Nat \ {0}

\* 5 + 1 < 10: a stop outlasts an attempt and the pause after it.
ASSUME StopOutlastsAttempt == Timeout + RetryDelay < StopTimeout

Calls == Requests \X (1 .. CallsPerRequest)

VARIABLES
    server,      \* "starting", "serving", "stopping" or "exited"
    stopAge,     \* seconds since the signal
    progress,    \* progress[r]: 0 before r arrives, then the number of its
                 \* current call, CallsPerRequest + 1 once it is answered
    age,         \* age[r]: seconds since its current call began its attempt or pause
    waited,      \* waited[r]: seconds that call has spent on attempts and pauses
    since,       \* since[r]: what r did since the signal: it sent an "attempt",
                 \* it waited for a "body"
    phase, retryCount, wire, applied, answered  \* the calls, see HttpClient

Http == INSTANCE HttpClient

http == <<phase, retryCount, wire, applied, answered>>
vars == <<server, stopAge, progress, age, waited, since, http>>

Answered   == CallsPerRequest + 1
Pending(r) == progress[r] \in 1 .. CallsPerRequest
Current(r) == <<r, progress[r]>>

\* Mutant of Limit: a request may take as long as the stop.
LimitOfStop(p) == IF p = "requesting" THEN StopTimeout ELSE RetryDelay

\* How long a phase may last.
Limit(p) == IF p = "requesting" THEN Timeout ELSE RetryDelay

\* The phases that a timer ends.
Timed == {"requesting", "backoff"}

MaxWait == (MaxRetries + 1) * Timeout + MaxRetries * RetryDelay

TypeOK ==
    /\ Http!TypeOK
    /\ server \in {"starting", "serving", "stopping", "exited"}
    /\ stopAge \in 0 .. StopTimeout
    /\ progress \in [Requests -> 0 .. Answered]
    /\ age \in [Requests -> Nat]
    /\ waited \in [Requests -> Nat]
    /\ since \in [Requests -> SUBSET {"attempt", "body"}]

Init ==
    /\ Http!Init
    /\ server = "starting"
    /\ stopAge = 0
    /\ progress = [r \in Requests |-> 0]
    /\ age = [r \in Requests |-> 0]
    /\ waited = [r \in Requests |-> 0]
    /\ since = [r \in Requests |-> {}]

-----------------------------------------------------------------------------
(* The process *)

\* createServer and server.start resolve.
StartSucceeds ==
    /\ server = "starting"
    /\ server' = "serving"
    /\ UNCHANGED <<stopAge, progress, age, waited, since, http>>

\* One of them throws: the error is logged and not thrown on, and the process,
\* with nothing left to wait for, ends.
StartFails ==
    /\ server = "starting"
    /\ server' = "exited"
    /\ UNCHANGED <<stopAge, progress, age, waited, since, http>>

\* No promise of a request has settled whose continuation is still to run: only
\* then does the runtime turn to a timer or a signal.
NothingToRun == \A r \in Requests : Pending(r) => phase[Current(r)] \in Http!InFlight

Signal ==
    /\ server = "serving" /\ NothingToRun
    /\ server' = "stopping"
    /\ UNCHANGED <<stopAge, progress, age, waited, since, http>>

Drained == \A r \in Requests : ~Pending(r)

\* Mutants of StopDue: the process exits on the signal itself, and the stop has no
\* timeout.
StopDueAtOnce == server = "stopping"
StopDueDrained == Drained

\* server.stop resolves: nothing is in progress, or its timeout is over.
StopDue == Drained \/ stopAge = StopTimeout

\* Mutant of Exit: the process ends only with its last request.
ExitDrained ==
    /\ server = "stopping" /\ NothingToRun /\ Drained
    /\ server' = "exited"
    /\ UNCHANGED <<stopAge, progress, age, waited, since, http>>

\* hapi-pulse calls process.exit.
Exit ==
    /\ server = "stopping" /\ NothingToRun /\ StopDue
    /\ server' = "exited"
    /\ UNCHANGED <<stopAge, progress, age, waited, since, http>>

-----------------------------------------------------------------------------
(* The requests in progress *)

Running == server \in {"serving", "stopping"}

\* What r did, if the signal has come.
Noting(r, what) ==
    since' = [since EXCEPT ![r] = IF server = "stopping" THEN @ \cup {what} ELSE @]

\* A request arrives and makes its first call.
Arrive(r) ==
    /\ server = "serving" /\ progress[r] = 0
    /\ progress' = [progress EXCEPT ![r] = 1]
    /\ Http!Start(<<r, 1>>)
    /\ UNCHANGED <<server, stopAge, age, waited, since>>

\* The current call of r has settled, and r makes another one.
NextCall(r) ==
    /\ Running /\ Pending(r) /\ Http!Settled(Current(r))
    /\ progress[r] < CallsPerRequest
    /\ progress' = [progress EXCEPT ![r] = @ + 1]
    /\ Http!Start(<<r, progress[r] + 1>>)
    /\ Noting(r, "attempt")
    /\ waited' = [waited EXCEPT ![r] = 0]
    /\ UNCHANGED <<server, stopAge, age>>

\* Mutant of Answer: what a call throws is not caught, and r never answered.
AnswerUncaught(r) ==
    /\ Running /\ Pending(r) /\ phase[Current(r)] \in {"ok", "refused"}
    /\ progress' = [progress EXCEPT ![r] = Answered]
    /\ waited' = [waited EXCEPT ![r] = 0]
    /\ UNCHANGED <<server, stopAge, age, since, http>>

\* The current call of r has settled, and r is answered.
Answer(r) ==
    /\ Running /\ Pending(r) /\ Http!Settled(Current(r))
    /\ progress' = [progress EXCEPT ![r] = Answered]
    /\ waited' = [waited EXCEPT ![r] = 0]
    /\ UNCHANGED <<server, stopAge, age, since, http>>

\* What the network brings about, at any time: an answer, a broken connection, a
\* body or the end of one.  A pause begins with a failure.
Network(r) ==
    LET c == Current(r)
    IN  /\ Running /\ Pending(r)
        /\ \/ Http!ResponseArrives(c) \/ Http!RequestFails(c)
           \/ Http!BodyRead(c) \/ Http!ReadFails(c)
        /\ age' = [age EXCEPT ![r] = 0]
        /\ UNCHANGED <<server, stopAge, progress, waited, since>>

\* The client's timeout gives up a request, or retryDelay is over and the next
\* attempt is made.
TimerFires(r) ==
    LET c == Current(r)
    IN  /\ Running /\ Pending(r) /\ phase[c] \in Timed
        /\ age[r] = Limit(phase[c])
        /\ \/ Http!RequestFails(c) /\ UNCHANGED since
           \/ Http!Retry(c) /\ Noting(r, "attempt")
        /\ age' = [age EXCEPT ![r] = 0]
        /\ UNCHANGED <<server, stopAge, progress, waited>>

\* The backend goes on after this process has ended.
Backend(c) ==
    /\ Http!Backend(c)
    /\ UNCHANGED <<server, stopAge, progress, age, waited, since>>

-----------------------------------------------------------------------------
(* The clock *)

\* A timer of the current call of r runs.
Ticking(r) == Pending(r) /\ phase[Current(r)] \in Timed

\* The timers of the calls, and the one of the stop, are not due.
TimersPending ==
    /\ \A r \in Requests : Ticking(r) =>
           age[r] < Limit(phase[Current(r)])
    /\ server = "stopping" => ~StopDue

\* A second passes.
Tick ==
    /\ Running /\ NothingToRun /\ TimersPending
    /\ stopAge' = IF server = "stopping" THEN stopAge + 1 ELSE stopAge
    /\ age' = [r \in Requests |-> IF Ticking(r) THEN age[r] + 1 ELSE age[r]]
    /\ waited' = [r \in Requests |-> IF Ticking(r) THEN waited[r] + 1 ELSE waited[r]]
    /\ since' = [r \in Requests |->
                    IF server = "stopping" /\ Pending(r) /\ phase[Current(r)] = "reading"
                    THEN since[r] \cup {"body"} ELSE since[r]]
    /\ UNCHANGED <<server, progress, http>>

Step(r) == NextCall(r) \/ Answer(r) \/ Network(r) \/ TimerFires(r)

Next ==
    \/ StartSucceeds \/ StartFails \/ Signal \/ Exit \/ Tick
    \/ \E r \in Requests : Arrive(r) \/ Step(r)
    \/ \E c \in Calls : Backend(c)

Spec == Init /\ [][Next]_vars

\* The runtime runs what is due: continuations, timers, the clock itself.  Nothing
\* is assumed of the network or of the backend.
Runtime ==
    \/ Exit \/ Tick
    \/ \E r \in Requests : NextCall(r) \/ Answer(r) \/ TimerFires(r)

FairSpec == Spec /\ WF_vars(Runtime)

-----------------------------------------------------------------------------
(* Properties *)

\* A stop cuts no request off in the attempt it was at: a request that the exit
\* leaves unanswered has sent another one since the signal, or waited for a body,
\* which has no timeout.
CutOffExplained ==
    server = "exited" => \A r \in Requests : Pending(r) => since[r] # {}

\* The pace of the retries: after n retries a call has spent at most n + 1 times
\* five seconds on its attempts and, pausing or not, one on each pause; 23 in all,
\* more than a stop waits.
CallBounded ==
    \A r \in Requests : Pending(r) =>
        LET c == Current(r)
        IN  /\ waited[r] <= MaxWait
            /\ waited[r] <= retryCount[c] * (Timeout + RetryDelay) + Timeout
                                + (IF phase[c] = "backoff" THEN RetryDelay ELSE 0)

\* A signal ends the process, whatever its requests wait for.
StopEnds == server = "stopping" ~> server = "exited"

\* As long as the process runs every request is answered, whichever of its calls
\* fail, unless one of them waits for a body for ever.
AnsweredUnlessBodyStalls ==
    \A r \in Requests :
        Pending(r) ~> \/ ~Pending(r) \/ server = "exited"
                      \/ [](phase[Current(r)] = "reading")
=============================================================================
