----------------------------- MODULE HttpClient -----------------------------
(***************************************************************************)
(* makeRequest of src/common/helpers/http-client.js and the network and    *)
(* backend on the other side of it.  A call makes up to MaxRetries + 1     *)
(* attempts, numbered by retryCount.  One attempt awaits the response      *)
(* headers (client.request, under the client's timeout), then the body     *)
(* (Wreck.read, called on the base Wreck and so under no timeout); a       *)
(* throw of either waits retryDelay and tries again, or, after the last    *)
(* attempt, rejects.  Any HTTP status resolves the call.                   *)
(*                                                                         *)
(* An attempt its sender has given up is not recalled: its request stays   *)
(* on the wire and the backend may still execute it.                       *)
(***************************************************************************)
EXTENDS Naturals, FiniteSets

CONSTANTS
    Calls,       \* calls of httpClients.<service>.get / post / put
    MaxRetries   \* defaultConfig.maxRetries

ASSUME MaxRetriesAssumption == MaxRetries \in Nat

Attempts == 0 .. MaxRetries

\* Where a call is.  "requesting" awaits client.request, "reading" awaits
\* Wreck.read, "backoff" awaits the setTimeout of the catch block.
InFlight == {"requesting", "reading", "backoff"}
Results  == {"ok", "refused", "error"}
Phases   == {"idle"} \cup InFlight \cup Results

VARIABLES
    phase,       \* phase[c] \in Phases
    retryCount,  \* retryCount[c]: the attempt call c is at
    wire,        \* wire[c]: attempts whose request is on its way to the backend
    applied,     \* applied[c]: attempts the backend has executed
    answered     \* answered[c][a]: the backend's answer to attempt a, if any

vars == <<phase, retryCount, wire, applied, answered>>

TypeOK ==
    /\ phase \in [Calls -> Phases]
    /\ retryCount \in [Calls -> Attempts]
    /\ wire \in [Calls -> SUBSET Attempts]
    /\ applied \in [Calls -> SUBSET Attempts]
    /\ answered \in [Calls -> [Attempts -> {"none", "ok", "refused"}]]

Init ==
    /\ phase = [c \in Calls |-> "idle"]
    /\ retryCount = [c \in Calls |-> 0]
    /\ wire = [c \in Calls |-> {}]
    /\ applied = [c \in Calls |-> {}]
    /\ answered = [c \in Calls |-> [a \in Attempts |-> "none"]]

-----------------------------------------------------------------------------
(* The caller: makeRequest *)

\* Mutants of AfterFailure: one retry too many, and one too few.
RetriesOnceMore(c) ==
    IF retryCount[c] <= MaxRetries THEN "backoff" ELSE "error"
RetriesOnceLess(c) ==
    IF retryCount[c] + 1 < MaxRetries THEN "backoff" ELSE "error"

\* What the catch block does next: another attempt is left, or rethrow.
AfterFailure(c) ==
    IF retryCount[c] < MaxRetries THEN "backoff" ELSE "error"

\* createServiceClient's get, post or put calls makeRequest with retryCount 0.
Start(c) ==
    /\ phase[c] = "idle"
    /\ phase' = [phase EXCEPT ![c] = "requesting"]
    /\ wire' = [wire EXCEPT ![c] = @ \cup {retryCount[c]}]
    /\ UNCHANGED <<retryCount, applied, answered>>

\* client.request resolves: the headers of the answer to this attempt are here.
\* The answer to an earlier attempt finds its connection closed.
ResponseArrives(c) ==
    /\ phase[c] = "requesting"
    /\ answered[c][retryCount[c]] # "none"
    /\ phase' = [phase EXCEPT ![c] = "reading"]
    /\ UNCHANGED <<retryCount, wire, applied, answered>>

\* Mutant of RequestFails: the timeout is not cleared when the answer is there.
TimeoutNotCleared(c) ==
    /\ phase[c] # "idle" /\ phase[c] # "backoff"
    /\ phase' = [phase EXCEPT ![c] = AfterFailure(c)]
    /\ UNCHANGED <<retryCount, wire, applied, answered>>

\* client.request throws: the timeout, no or a broken connection, or more redirects
\* than the three that Wreck follows within an attempt.
RequestFails(c) ==
    /\ phase[c] = "requesting"
    /\ phase' = [phase EXCEPT ![c] = AfterFailure(c)]
    /\ UNCHANGED <<retryCount, wire, applied, answered>>

\* Mutants of BodyRead: the answer to any attempt is returned, and any answer
\* counts as success.
ReadsAnyAnswer(c) ==
    /\ phase[c] = "reading"
    /\ \E a \in Attempts : /\ answered[c][a] # "none"
                          /\ phase' = [phase EXCEPT ![c] = answered[c][a]]
    /\ UNCHANGED <<retryCount, wire, applied, answered>>
ReadsSuccess(c) ==
    /\ phase[c] = "reading"
    /\ phase' = [phase EXCEPT ![c] = "ok"]
    /\ UNCHANGED <<retryCount, wire, applied, answered>>

\* Wreck.read resolves and the call returns { statusCode, headers, payload }.
BodyRead(c) ==
    /\ phase[c] = "reading"
    /\ phase' = [phase EXCEPT ![c] = answered[c][retryCount[c]]]
    /\ UNCHANGED <<retryCount, wire, applied, answered>>

\* Wreck.read throws: the connection broke, or the body is not JSON.
ReadFails(c) ==
    /\ phase[c] = "reading"
    /\ phase' = [phase EXCEPT ![c] = AfterFailure(c)]
    /\ UNCHANGED <<retryCount, wire, applied, answered>>

\* Mutant of Retry: retryCount is not passed on increased.
RetriesSameAttempt(c) ==
    /\ phase[c] = "backoff"
    /\ phase' = [phase EXCEPT ![c] = "requesting"]
    /\ wire' = [wire EXCEPT ![c] = @ \cup {retryCount[c]}]
    /\ UNCHANGED <<retryCount, applied, answered>>

\* retryDelay is over: makeRequest calls itself with retryCount + 1.
Retry(c) ==
    /\ phase[c] = "backoff"
    /\ retryCount' = [retryCount EXCEPT ![c] = @ + 1]
    /\ phase' = [phase EXCEPT ![c] = "requesting"]
    /\ wire' = [wire EXCEPT ![c] = @ \cup {retryCount[c] + 1}]
    /\ UNCHANGED <<applied, answered>>

-----------------------------------------------------------------------------
(* The network and the backend *)

TransmissionLost(c, a) ==
    /\ a \in wire[c]
    /\ wire' = [wire EXCEPT ![c] = @ \ {a}]
    /\ UNCHANGED <<phase, retryCount, applied, answered>>

\* The backend executes a request, at any time after it was sent, and answers;
\* it may also fail after the operation took effect and answer an error.
BackendExecutes(c, a, answer) ==
    /\ a \in wire[c]
    /\ wire' = [wire EXCEPT ![c] = @ \ {a}]
    /\ applied' = [applied EXCEPT ![c] = @ \cup {a}]
    /\ answered' = [answered EXCEPT ![c][a] = answer]
    /\ UNCHANGED <<phase, retryCount>>

\* The backend rejects a request without any effect.
BackendRefuses(c, a) ==
    /\ a \in wire[c]
    /\ wire' = [wire EXCEPT ![c] = @ \ {a}]
    /\ answered' = [answered EXCEPT ![c][a] = "refused"]
    /\ UNCHANGED <<phase, retryCount, applied>>

Caller(c) ==
    \/ Start(c)
    \/ ResponseArrives(c)
    \/ RequestFails(c)
    \/ BodyRead(c)
    \/ ReadFails(c)
    \/ Retry(c)

Backend(c) ==
    \E a \in Attempts :
        \/ TransmissionLost(c, a)
        \/ \E answer \in {"ok", "refused"} : BackendExecutes(c, a, answer)
        \/ BackendRefuses(c, a)

Next == \E c \in Calls : Caller(c) \/ Backend(c)

Spec == Init /\ [][Next]_vars

\* Both timers of the code are the runtime's: the client's timeout ends a wait
\* for headers, setTimeout ends a backoff.  Nothing ends a wait for a body, so
\* no fairness is assumed of BodyRead or ReadFails.
Timers ==
    \A c \in Calls : WF_vars(ResponseArrives(c) \/ RequestFails(c))
                     /\ WF_vars(Retry(c))

FairSpec == Spec /\ Timers

-----------------------------------------------------------------------------
(* Properties *)

Settled(c) == phase[c] \in Results

\* A call that resolves with a good answer resolves with the answer to its own
\* last attempt, and the backend executed exactly that attempt: the result is
\* never that of an attempt which had timed out before.
ReturnMeansExecuted ==
    \A c \in Calls : phase[c] = "ok" => retryCount[c] \in applied[c]

\* The backend executes only attempts that were made and each at most once,
\* however late: a call leaves at most retryCount + 1 effects behind, and a
\* request still on the wire has not been executed.
ExecutionsBounded ==
    \A c \in Calls :
        /\ applied[c] \cup wire[c] \subseteq 0 .. retryCount[c]
        /\ applied[c] \cap wire[c] = {}
        /\ phase[c] = "idle" => wire[c] = {}

\* What makes the two properties above inductive: an answer belongs to an
\* attempt that was made and is off the wire, an answer of success to one that
\* was executed; a call reads only an answer it has, and backs off only when an
\* attempt is left.
AttemptsConsistent ==
    \A c \in Calls :
        /\ \A a \in Attempts : answered[c][a] # "none" =>
                /\ a \in (0 .. retryCount[c]) \ wire[c]
                /\ answered[c][a] = "ok" => a \in applied[c]
        /\ phase[c] \in {"reading", "ok", "refused"} =>
                answered[c][retryCount[c]] # "none"
        /\ phase[c] = "ok" => answered[c][retryCount[c]] = "ok"
        /\ phase[c] = "backoff" => retryCount[c] < MaxRetries
        /\ phase[c] = "idle" =>
                /\ retryCount[c] = 0
                /\ applied[c] = {}
                /\ \A a \in Attempts : answered[c][a] = "none"

\* The call rejects only after all attempts have been used up.
ErrorMeansExhausted ==
    \A c \in Calls : phase[c] = "error" => retryCount[c] = MaxRetries

\* After it has settled a call sends no more requests and changes its result no
\* more, though requests it left on the wire may still be executed.
SettledIsFinal ==
    [][\A c \in Calls : Settled(c) =>
            /\ phase'[c] = phase[c]
            /\ retryCount'[c] = retryCount[c]
            /\ wire'[c] \subseteq wire[c]]_vars

\* How many steps call c has left at most.
Remaining(c) ==
    IF Settled(c) THEN 0
    ELSE 3 * (MaxRetries - retryCount[c]) +
            CASE phase[c] = "idle"       -> 4
              [] phase[c] = "requesting" -> 3
              [] phase[c] = "reading"    -> 2
              [] phase[c] = "backoff"    -> 1

\* No way through timeouts, broken bodies and retries goes round in a circle: what a
\* call does brings it nearer to its end, and what the backend does, however late,
\* does not take it further away.
CallsProgress ==
    [][\A c \in Calls : /\ Remaining(c)' <= Remaining(c)
                        /\ phase'[c] # phase[c] => Remaining(c)' < Remaining(c)]_vars

\* The promise the callers see, with attempts hidden.
Abstract ==
    INSTANCE OutboundCall WITH
        MaxEffects <- MaxRetries + 1,
        outcome <- [c \in Calls |->
                       IF phase[c] \in InFlight THEN "pending" ELSE phase[c]],
        effects <- [c \in Calls |-> Cardinality(applied[c])]

ImplementsOutboundCall == Abstract!Spec

\* With the two timers a call settles, unless it waits for a body for ever.
SettlesUnlessBodyStalls ==
    \A c \in Calls :
        phase[c] = "requesting" ~> (Settled(c) \/ [](phase[c] = "reading"))

\* http-client.js:10 comments the timeout of 5000 ms "5 seconds timeout": no
\* attempt lasts longer, so every call that is made settles.
EveryCallSettles ==
    \A c \in Calls : phase[c] = "requesting" ~> Settled(c)
=============================================================================
