-------------------------- MODULE ReceiptMovements --------------------------
(***************************************************************************)
(* The receipt endpoints together with the services behind them: POST      *)
(* /movements/receive (handlers/create-receipt-movement.js) draws an id    *)
(* from the waste tracking service and posts the movement under it, PUT    *)
(* /movements/{id}/receive (handlers/update-receipt-movement.js) replaces  *)
(* a movement.  Each outbound call is a call of HttpClient, instantiated   *)
(* here: it retries, and what it gave up may still be executed.            *)
(*                                                                         *)
(* External: the waste tracking service gives a new id every time it       *)
(* executes GET /next, so an id is named by the attempt that drew it; the  *)
(* waste movement backend stores what it executes and otherwise refuses.   *)
(* Whether it accepts a second POST for one id is left open.               *)
(***************************************************************************)
EXTENDS Naturals, FiniteSets

CONSTANTS
    Creates,     \* requests POST /movements/receive
    Updates,     \* requests PUT /movements/{wasteTrackingId}/receive
    Existing,    \* the id of a movement stored before
    MaxRetries   \* defaultConfig.maxRetries

ASSUME MaxRetriesAssumption == MaxRetries \in Nat
ASSUME RequestsAssumption == Creates \cap Updates = {}

Requests == Creates \cup Updates
NextCall(r) == <<r, "next">>
MovementCall(r) == <<r, "movement">>
Calls == {NextCall(r) : r \in Creates} \cup {MovementCall(r) : r \in Requests}

VARIABLES
    phase, retryCount, wire, applied, answered,  \* of the calls, see HttpClient
    target,  \* target[r]: the wasteTrackingId in the path of r's movement call
    reply,   \* reply[r]: what the handler answered, "none" before it has
    stored,  \* stored[id]: the request whose movement the backend holds, or Empty
    writes,  \* all <<r, id>> the backend executed (history)
    before   \* all <<p, r>> where p was replied to before r began (history)

http == <<phase, retryCount, wire, applied, answered>>
vars == <<phase, retryCount, wire, applied, answered,
          target, reply, stored, writes, before>>

Http == INSTANCE HttpClient

\* The id "undefined", and nothing: neither is a request or an id that was drawn.
Undefined == <<"undefined">>
Empty == <<"empty">>

Drawn == Creates \X Http!Attempts
Ids == Drawn \cup {Undefined, Existing}

ASSUME ExistingAssumption == Existing \notin Drawn \cup {Undefined, Empty}

TypeOK ==
    /\ Http!TypeOK
    /\ target \in [Requests -> Ids \cup {Empty}]
    /\ reply \in [Requests -> {"none", "success", "refused", "error"}]
    /\ stored \in [Ids -> Requests \cup {Empty, Existing}]
    /\ writes \subseteq Requests \X Ids
    /\ before \subseteq Requests \X Requests

Init ==
    /\ Http!Init
    /\ target = [r \in Requests |-> Empty]
    /\ reply = [r \in Requests |-> "none"]
    /\ stored = [i \in Ids |-> IF i = Existing THEN Existing ELSE Empty]
    /\ writes = {}
    /\ before = {}

-----------------------------------------------------------------------------
(* The handlers *)

Replied(r) == reply[r] # "none"

Begins(r) == before' = before \cup {<<p, r>> : p \in {q \in Requests : Replied(q)}}

\* The client knows the id of a movement from a reply 201, or from before.
KnownIds == {Existing} \cup {target[r] : r \in {q \in Creates : reply[q] = "success"}}

\* handleCreateReceiptMovement awaits GET /next.
BeginCreate(r) ==
    /\ Http!Start(NextCall(r))
    /\ Begins(r)
    /\ UNCHANGED <<target, reply, stored, writes>>

\* wasteTrackingId of the payload: the status of the answer is not looked at, and
\* the payload of a refusal has none.
AnsweredId(r) ==
    IF phase[NextCall(r)] = "ok" THEN <<r, retryCount[NextCall(r)]>> ELSE Undefined

\* It posts to /movements/${wasteTrackingId}/receive.
PostMovement(r) ==
    /\ phase[NextCall(r)] \in {"ok", "refused"}
    /\ ~Replied(r)
    /\ target' = [target EXCEPT ![r] = AnsweredId(r)]
    /\ Http!Start(MovementCall(r))
    /\ UNCHANGED <<reply, stored, writes, before>>

\* GET /next rejected, or was answered without a body: 500.
NoTrackingId(r) ==
    /\ phase[NextCall(r)] \in {"error", "refused"}
    /\ phase[MovementCall(r)] = "idle"
    /\ ~Replied(r)
    /\ reply' = [reply EXCEPT ![r] = "error"]
    /\ UNCHANGED <<http, target, stored, writes, before>>

\* handleUpdateReceiptMovement puts to the id of the request's path.
BeginUpdate(r, id) ==
    /\ id \in KnownIds
    /\ target' = [target EXCEPT ![r] = id]
    /\ Http!Start(MovementCall(r))
    /\ Begins(r)
    /\ UNCHANGED <<reply, stored, writes>>

\* Mutants of Reply: the call is not awaited, and its status is passed on as it is.
RepliesAtOnce(r) ==
    /\ phase[MovementCall(r)] # "idle"
    /\ ~Replied(r)
    /\ reply' = [reply EXCEPT ![r] = "success"]
    /\ UNCHANGED <<http, target, stored, writes, before>>
RepliesWithResult(r) ==
    /\ Http!Settled(MovementCall(r))
    /\ ~Replied(r)
    /\ reply' = [reply EXCEPT ![r] = phase[MovementCall(r)]]
    /\ UNCHANGED <<http, target, stored, writes, before>>

\* handleBackendResponse, or the catch: the reply follows the call's result.
Reply(r) ==
    /\ Http!Settled(MovementCall(r))
    /\ ~Replied(r)
    /\ reply' = [reply EXCEPT ![r] =
           IF phase[MovementCall(r)] = "ok" THEN "success" ELSE phase[MovementCall(r)]]
    /\ UNCHANGED <<http, target, stored, writes, before>>

-----------------------------------------------------------------------------
(* The calls, and the services *)

\* Mutant of Transport: the URL is built for each attempt, and a retry has lost
\* the id.
TransportRedraws(c) ==
    /\ \/ Http!RequestFails(c) \/ Http!ResponseArrives(c) \/ Http!BodyRead(c)
       \/ Http!Retry(c)
    /\ target' = [r \in Requests |->
           IF c = MovementCall(r) /\ retryCount'[c] # retryCount[c]
           THEN Undefined ELSE target[r]]
    /\ UNCHANGED <<reply, stored, writes, before>>

Transport(c) ==
    /\ \/ Http!ResponseArrives(c)
       \/ Http!RequestFails(c)
       \/ Http!BodyRead(c)
       \/ Http!ReadFails(c)
       \/ Http!Retry(c)
       \/ \E a \in Http!Attempts : Http!TransmissionLost(c, a) \/ Http!BackendRefuses(c, a)
    /\ UNCHANGED <<target, reply, stored, writes, before>>

DrawId(r, a) ==
    /\ Http!BackendExecutes(NextCall(r), a, "ok")
    /\ UNCHANGED <<target, reply, stored, writes, before>>

StoreMovement(r, a, answer) ==
    /\ Http!BackendExecutes(MovementCall(r), a, answer)
    /\ stored' = [stored EXCEPT ![target[r]] = r]
    /\ writes' = writes \cup {<<r, target[r]>>}
    /\ UNCHANGED <<target, reply, before>>

Next ==
    \/ \E r \in Creates : BeginCreate(r) \/ PostMovement(r) \/ NoTrackingId(r)
    \/ \E r \in Updates, id \in Ids : BeginUpdate(r, id)
    \/ \E r \in Requests : Reply(r)
    \/ \E c \in Calls : Transport(c)
    \/ \E r \in Creates, a \in Http!Attempts : DrawId(r, a)
    \/ \E r \in Requests, a \in Http!Attempts, answer \in {"ok", "refused"} :
           StoreMovement(r, a, answer)

Spec == Init /\ [][Next]_vars

-----------------------------------------------------------------------------
(* Properties *)

\* What a success reports is stored: the backend executed this request, under the
\* id the client is told.
SuccessIsStored ==
    \A r \in Requests : reply[r] = "success" => <<r, target[r]>> \in writes

\* However often its calls are retried, a create leaves at most one movement
\* behind: the id is drawn before, and outside, the retries of the POST.
OneMovementPerCreate ==
    \A r \in Creates, i \in Ids, j \in Ids :
        <<r, i>> \in writes /\ <<r, j>> \in writes => i = j

\* When one request succeeded before another began on the same movement and that
\* one succeeded as well, the movement is not left with the content of the first,
\* unless the first had to be retried: only an attempt that was given up can
\* overwrite an acknowledged later update.
LaterUpdateLasts ==
    \A p \in Requests, r \in Requests :
        /\ <<p, r>> \in before
        /\ target[p] = target[r]
        /\ reply[p] = "success" /\ reply[r] = "success"
        /\ stored[target[r]] = p
        => retryCount[MovementCall(p)] > 0

\* What a client sees of the movements, with the calls hidden.
Register ==
    INSTANCE MovementRegister WITH
        MaxEffects <- MaxRetries + 1,
        effects <- [r \in Requests |-> Cardinality(applied[MovementCall(r)])]

\* The two endpoints are a register of movements: ids are never mixed up, and a
\* success is a write, for any order in which calls, retries and late executions
\* of several requests meet.
ImplementsRegister == Register!Spec
=============================================================================
