------------------------ MODULE ReceiptMovementsProofs ------------------------
(***************************************************************************)
(* Proofs about ReceiptMovements, for any creates, updates and number of   *)
(* retries: the invariants its runs check, that its calls implement        *)
(* OutboundCall, and that the endpoints implement MovementRegister.  What  *)
(* a call does to its own variables is taken from HttpClientProofs.        *)
(***************************************************************************)
EXTENDS ReceiptMovements, FiniteSetTheorems, TLAPS

Call == INSTANCE HttpClientProofs

\* A request has a target once its movement call has begun; that of a create is
\* an id which it drew itself, or undefined, and comes after the answer to GET /next.
Targeted ==
    \A r \in Requests :
        /\ target[r] = Empty <=> phase[MovementCall(r)] = "idle"
        /\ r \in Creates =>
              /\ target[r] \in {Empty, Undefined} \cup {<<r, a>> : a \in Http!Attempts}
              /\ phase[NextCall(r)] = "idle" => phase[MovementCall(r)] = "idle"

\* What was written was written under the target, and whatever the backend
\* executed was written.
Written ==
    /\ \A r \in Requests, i \in Ids : <<r, i>> \in writes => i = target[r]
    /\ \A r \in Requests : applied[MovementCall(r)] # {} => <<r, target[r]>> \in writes
    /\ \A r \in Requests, i \in Ids :
           <<r, i>> \in writes => phase[MovementCall(r)] # "idle"

\* A reply comes after the calls it depends on.
RepliesFollow ==
    \A r \in Requests :
        /\ reply[r] = "success" => phase[MovementCall(r)] = "ok"
        /\ Replied(r) => IF r \in Creates THEN phase[NextCall(r)] # "idle"
                                          ELSE phase[MovementCall(r)] # "idle"

\* Only a request that was replied to is before another one.
BeforeReplied ==
    \A p \in Requests, r \in Requests : <<p, r>> \in before => Replied(p) /\ p # r

\* Once the backend has executed a later request, an earlier one that needed no
\* retry is not what it holds.
Overwritten ==
    \A p \in Requests, r \in Requests :
        /\ <<p, r>> \in before
        /\ target[p] = target[r]
        /\ reply[p] = "success"
        /\ retryCount[MovementCall(p)] = 0
        /\ applied[MovementCall(r)] # {}
        => stored[target[r]] # p

\* An update goes to a movement that is known.
UpdatesKnown == \A r \in Updates : target[r] \in {Empty} \cup KnownIds

\* The inductive invariant.
IInv == /\ TypeOK /\ Call!IInv
        /\ Targeted /\ Written /\ RepliesFollow /\ BeforeReplied /\ Overwritten
        /\ UpdatesKnown

-----------------------------------------------------------------------------
(* The calls *)

\* Two calls are the same only for the same request and service.
LEMMA CallsDiffer ==
  /\ \A r \in Requests : MovementCall(r) \in Calls
  /\ \A r \in Creates : r \in Requests /\ NextCall(r) \in Calls
  /\ \A p, r : NextCall(p) # MovementCall(r)
  /\ \A p, r : MovementCall(p) = MovementCall(r) => p = r
  /\ \A p, r : NextCall(p) = NextCall(r) => p = r
  BY DEF Calls, Requests, MovementCall, NextCall

\* What the invariant of HttpClient says of a call.
LEMMA CallFacts ==
  ASSUME Call!IInv, NEW c \in Calls
  PROVE  /\ Http!TypeOK /\ Http!Attempts = Call!Attempts
         /\ phase[c] = "idle" => applied[c] = {} /\ wire[c] = {}
         /\ phase[c] = "ok" => applied[c] # {}
         /\ phase[c] = "ok" /\ retryCount[c] = 0 => wire[c] = {}
<1>1. Http!TypeOK /\ Http!Attempts = Call!Attempts
  BY DEF Call!IInv, Call!TypeOK, Http!TypeOK, Call!Attempts, Http!Attempts,
         Call!Phases, Http!Phases, Call!InFlight, Http!InFlight,
         Call!Results, Http!Results
<1>2. phase[c] = "idle" => applied[c] = {} /\ wire[c] = {}
  BY DEF Call!IInv, Call!AttemptsConsistent, Call!ExecutionsBounded
<1>3. phase[c] = "ok" => retryCount[c] \in applied[c]
  BY DEF Call!IInv, Call!AttemptsConsistent, Call!TypeOK
<1>4. phase[c] = "ok" /\ retryCount[c] = 0 => wire[c] = {}
  <2> SUFFICES ASSUME phase[c] = "ok", retryCount[c] = 0, NEW a \in wire[c]
               PROVE  FALSE
    OBVIOUS
  <2>1. a \in 0 .. 0 /\ 0 \in applied[c] /\ a \notin applied[c]
    BY <1>3 DEF Call!IInv, Call!ExecutionsBounded
  <2> QED
    BY <2>1
<1> QED
  BY <1>1, <1>2, <1>3, <1>4

\* A step of one of the calls is a step of HttpClient.
LEMMA CallStep ==
  ASSUME NEW c \in Calls,
         \/ Http!Start(c) \/ Http!ResponseArrives(c) \/ Http!RequestFails(c)
         \/ Http!BodyRead(c) \/ Http!ReadFails(c) \/ Http!Retry(c)
         \/ \E a \in Http!Attempts :
               \/ Http!TransmissionLost(c, a) \/ Http!BackendRefuses(c, a)
               \/ \E answer \in {"ok", "refused"} : Http!BackendExecutes(c, a, answer)
  PROVE  Call!Next
<1>1. CASE Http!Start(c) \/ Http!ResponseArrives(c) \/ Http!BodyRead(c) \/ Http!Retry(c)
  BY <1>1 DEF Call!Next, Call!Caller, Http!Start, Call!Start, Http!ResponseArrives,
              Call!ResponseArrives, Http!BodyRead, Call!BodyRead, Http!Retry,
              Call!Retry
<1>2. CASE Http!RequestFails(c) \/ Http!ReadFails(c)
  BY <1>2 DEF Call!Next, Call!Caller, Http!RequestFails, Call!RequestFails,
              Http!ReadFails, Call!ReadFails, Http!AfterFailure, Call!AfterFailure
<1>3. ASSUME NEW a \in Http!Attempts,
             \/ Http!TransmissionLost(c, a) \/ Http!BackendRefuses(c, a)
             \/ \E answer \in {"ok", "refused"} : Http!BackendExecutes(c, a, answer)
      PROVE  Call!Next
  <2>1. Call!Backend(c)
    BY <1>3 DEF Call!Backend, Http!Attempts, Call!Attempts, Http!TransmissionLost,
                Call!TransmissionLost, Http!BackendExecutes, Call!BackendExecutes,
                Http!BackendRefuses, Call!BackendRefuses
  <2> QED
    BY <2>1 DEF Call!Next
<1> QED
  BY <1>1, <1>2, <1>3

\* It preserves the invariant of HttpClient.
LEMMA CallPreserves ==
  ASSUME Call!IInv, NEW c \in Calls,
         \/ Http!Start(c) \/ Http!ResponseArrives(c) \/ Http!RequestFails(c)
         \/ Http!BodyRead(c) \/ Http!ReadFails(c) \/ Http!Retry(c)
         \/ \E a \in Http!Attempts :
               \/ Http!TransmissionLost(c, a) \/ Http!BackendRefuses(c, a)
               \/ \E answer \in {"ok", "refused"} : Http!BackendExecutes(c, a, answer)
  PROVE  Call!IInv' /\ Http!TypeOK'
<1>1. Call!IInv'
  BY CallStep, MaxRetriesAssumption, Call!NextIInv
<1> QED
  BY <1>1
     DEF Call!IInv, Call!TypeOK, Http!TypeOK, Call!Attempts, Http!Attempts,
         Call!Phases, Http!Phases, Call!InFlight, Http!InFlight, Call!Results,
         Http!Results

\* So does a step that leaves the calls alone.
LEMMA CallsUnchanged == Call!IInv /\ UNCHANGED http => Call!IInv'
<1>1. UNCHANGED http => UNCHANGED Call!vars
  BY DEF http, Call!vars
<1> QED
  BY <1>1, MaxRetriesAssumption, Call!NextIInv

\* What a step of a call does to the phases: one call begins, and no other goes
\* back to idle or gives up a good answer.
LEMMA CallStarts ==
  ASSUME Call!IInv, NEW c \in Calls, Http!Start(c)
  PROVE  /\ phase[c] = "idle" /\ phase'[c] = "requesting"
         /\ \A d \in Calls \ {c} : phase'[d] = phase[d]
         /\ UNCHANGED <<retryCount, applied>>
  BY DEF Http!Start, Call!IInv, Call!TypeOK

-----------------------------------------------------------------------------
(* The inductive invariant *)

\* At the start nothing is in progress and only Existing is stored.
LEMMA InitIInv == Init => IInv
<1> SUFFICES ASSUME Init PROVE IInv
  OBVIOUS
<1>1. Call!IInv
  <2>1. Call!Init
    BY DEF Init, Http!Init, Call!Init, Http!Attempts, Call!Attempts
  <2> QED
    BY <2>1, MaxRetriesAssumption, Call!InitIInv
<1>2. Http!TypeOK
  BY <1>1 DEF Call!IInv, Call!TypeOK, Http!TypeOK, Call!Attempts, Http!Attempts,
              Call!Phases, Http!Phases, Call!InFlight, Http!InFlight,
              Call!Results, Http!Results
<1>3. TypeOK
  BY <1>2 DEF Init, TypeOK, Ids
<1>4. \A c \in Calls : phase[c] = "idle" /\ applied[c] = {}
  BY DEF Init, Http!Init
<1>5. Targeted /\ Written /\ RepliesFollow /\ BeforeReplied /\ Overwritten
  BY <1>4, CallsDiffer
     DEF Init, Targeted, Written, RepliesFollow, Replied, BeforeReplied, Overwritten
<1>6. UpdatesKnown
  BY DEF Init, UpdatesKnown, Requests
<1> QED
  BY <1>1, <1>3, <1>5, <1>6 DEF IInv

\* GET /next begins: nothing has been done for this request, and those that were
\* replied to are before it.
LEMMA BeginCreateStep ==
  ASSUME IInv, NEW r \in Creates, BeginCreate(r)
  PROVE  IInv'
<1> DEFINE c == NextCall(r)
<1>1. /\ c \in Calls /\ r \in Requests /\ Http!Start(c)
      /\ UNCHANGED <<target, reply, stored, writes>> /\ Begins(r)
  BY CallsDiffer DEF BeginCreate
<1>2. Call!IInv' /\ Http!TypeOK'
  BY <1>1, CallPreserves DEF IInv
<1>3. /\ phase[c] = "idle" /\ phase'[c] = "requesting"
      /\ \A d \in Calls \ {c} : phase'[d] = phase[d]
      /\ UNCHANGED <<retryCount, applied>>
  BY <1>1, CallStarts DEF IInv
<1>4. TypeOK'
  BY <1>1, <1>2 DEF IInv, TypeOK, Begins
<1>5. ~Replied(r)
  BY <1>1, <1>3 DEF IInv, RepliesFollow
<1>6. /\ \A q \in Requests : phase'[MovementCall(q)] = phase[MovementCall(q)]
      /\ \A q \in Creates : phase'[NextCall(q)] = "idle" => phase[NextCall(q)] = "idle"
  BY <1>3, CallsDiffer
<1>7. Targeted' /\ Written'
  <2>1. Targeted'
    BY <1>1, <1>6 DEF IInv, Targeted
  <2>2. Written'
    BY <1>1, <1>3, <1>6 DEF IInv, Written
  <2> QED
    BY <2>1, <2>2
<1>8. RepliesFollow'
  BY <1>1, <1>3, <1>6, CallsDiffer DEF IInv, RepliesFollow, Replied
<1>9. BeforeReplied'
  BY <1>1, <1>5 DEF IInv, BeforeReplied, Begins, Replied
<1>10. Overwritten'
  <2> SUFFICES ASSUME NEW p \in Requests, NEW q \in Requests,
                      <<p, q>> \in before', target[p] = target[q],
                      reply[p] = "success", retryCount[MovementCall(p)] = 0,
                      applied[MovementCall(q)] # {}
               PROVE  stored[target[q]] # p
    BY <1>1, <1>3 DEF Overwritten
  <2>1. CASE <<p, q>> \in before
    BY <2>1 DEF IInv, Overwritten
  <2>2. CASE q = r
    <3>1. phase[MovementCall(r)] = "idle"
      BY <1>3, <1>1 DEF IInv, Targeted
    <3> QED
      BY <2>2, <3>1, CallsDiffer, CallFacts DEF IInv
  <2> QED
    BY <1>1, <2>1, <2>2 DEF Begins
<1>11. UpdatesKnown'
  BY <1>1 DEF IInv, UpdatesKnown, KnownIds
<1> QED
  BY <1>2, <1>4, <1>7, <1>8, <1>9, <1>10, <1>11 DEF IInv

\* A create posts under the id it drew, or under undefined.
LEMMA PostMovementStep ==
  ASSUME IInv, NEW r \in Creates, PostMovement(r)
  PROVE  IInv'
<1> DEFINE c == MovementCall(r)
<1>1. /\ c \in Calls /\ NextCall(r) \in Calls /\ r \in Requests /\ Http!Start(c)
      /\ UNCHANGED <<reply, stored, writes, before>> /\ ~Replied(r)
      /\ phase[NextCall(r)] # "idle"
      /\ target' = [target EXCEPT ![r] = AnsweredId(r)]
  BY CallsDiffer DEF PostMovement
<1>2. Call!IInv' /\ Http!TypeOK'
  BY <1>1, CallPreserves DEF IInv
<1>3. /\ phase[c] = "idle" /\ phase'[c] = "requesting"
      /\ \A d \in Calls \ {c} : phase'[d] = phase[d]
      /\ UNCHANGED <<retryCount, applied>>
  BY <1>1, CallStarts DEF IInv
<1>4. AnsweredId(r) \in {Undefined} \cup {<<r, a>> : a \in Http!Attempts}
  BY <1>1 DEF AnsweredId, IInv, TypeOK, Http!TypeOK
<1>5. AnsweredId(r) \in Ids /\ AnsweredId(r) # Empty
  <2>1. Undefined # Empty
    BY DEF Undefined, Empty
  <2>2. \A a : <<r, a>> # Empty
    BY DEF Empty
  <2> QED
    BY <1>4, <2>1, <2>2 DEF Ids, Drawn
<1>6. TypeOK'
  BY <1>1, <1>2, <1>5 DEF IInv, TypeOK
<1>7. /\ target'[r] = AnsweredId(r)
      /\ \A q \in Requests \ {r} : /\ target'[q] = target[q]
                                   /\ phase'[MovementCall(q)] = phase[MovementCall(q)]
      /\ \A q \in Creates : phase'[NextCall(q)] = phase[NextCall(q)]
  BY <1>1, <1>3, CallsDiffer DEF IInv, TypeOK
<1>8. applied[c] = {} /\ \A i \in Ids : <<r, i>> \notin writes
  BY <1>1, <1>3, CallFacts DEF IInv, Written
<1>9. Targeted'
  BY <1>1, <1>3, <1>4, <1>5, <1>7 DEF IInv, Targeted
<1>10. Written'
  BY <1>1, <1>3, <1>7, <1>8 DEF IInv, Written
<1>11. RepliesFollow'
  BY <1>1, <1>3, <1>7 DEF IInv, RepliesFollow, Replied
<1>12. BeforeReplied' /\ Overwritten'
  <2>1. BeforeReplied'
    BY <1>1 DEF IInv, BeforeReplied, Replied
  <2> SUFFICES ASSUME NEW p \in Requests, NEW q \in Requests,
                      <<p, q>> \in before, target'[p] = target'[q],
                      reply[p] = "success", retryCount[MovementCall(p)] = 0,
                      applied[MovementCall(q)] # {}
               PROVE  stored[target'[q]] # p
    BY <1>1, <1>3, <2>1 DEF Overwritten
  <2>2. p # r /\ q # r
    BY <1>1, <1>8 DEF IInv, BeforeReplied, Replied
  <2> QED
    BY <1>7, <2>2 DEF IInv, Overwritten
<1>13. UpdatesKnown'
  <2>1. \A q \in Creates : reply[q] = "success" => target'[q] = target[q]
    BY <1>1, <1>7 DEF Requests, Replied
  <2>2. \A q \in Updates : target'[q] = target[q]
    BY <1>7, RequestsAssumption DEF Requests
  <2> QED
    BY <1>1, <2>1, <2>2 DEF IInv, UpdatesKnown, KnownIds
<1> QED
  BY <1>2, <1>6, <1>9, <1>10, <1>11, <1>12, <1>13 DEF IInv

\* A movement call that settled with success was begun, and its reply comes first.
LEMMA ReplyStep ==
  ASSUME IInv, NEW r \in Requests,
         (r \in Creates /\ NoTrackingId(r)) \/ Reply(r)
  PROVE  IInv'
<1>1. /\ UNCHANGED <<http, target, stored, writes, before>> /\ ~Replied(r)
      /\ \E answer \in {"success", "refused", "error"} :
            /\ reply' = [reply EXCEPT ![r] = answer]
            /\ answer = "success" => phase[MovementCall(r)] = "ok"
      /\ IF r \in Creates THEN phase[NextCall(r)] # "idle"
                          ELSE phase[MovementCall(r)] # "idle"
  <2>1. CASE r \in Creates /\ NoTrackingId(r)
    BY <2>1 DEF NoTrackingId
  <2>2. CASE Reply(r)
    <3>1. phase[MovementCall(r)] \in {"ok", "refused", "error"}
      BY <2>2 DEF Reply, Http!Settled, Http!Results
    <3>2. r \in Creates => phase[NextCall(r)] # "idle"
      BY <3>1 DEF IInv, Targeted
    <3> QED
      BY <2>2, <3>1, <3>2 DEF Reply
  <2> QED
    BY <2>1, <2>2
<1>2. Call!IInv'
  BY <1>1, CallsUnchanged DEF IInv
<1>3. TypeOK'
  BY <1>1 DEF IInv, TypeOK, http, Http!TypeOK
<1>4. Targeted' /\ Written'
  BY <1>1 DEF IInv, Targeted, Written, http
<1>5. RepliesFollow'
  BY <1>1 DEF IInv, TypeOK, RepliesFollow, Replied, http
<1>6. BeforeReplied'
  BY <1>1 DEF IInv, TypeOK, BeforeReplied, Replied
<1>7. Overwritten'
  BY <1>1 DEF IInv, TypeOK, Overwritten, BeforeReplied, Replied, http
<1>8. UpdatesKnown'
  <2>1. \A q \in Creates : reply[q] = "success" => reply'[q] = "success"
    BY <1>1 DEF IInv, TypeOK, Requests, Replied
  <2> QED
    BY <1>1, <2>1 DEF IInv, UpdatesKnown, KnownIds
<1> QED
  BY <1>2, <1>3, <1>4, <1>5, <1>6, <1>7, <1>8 DEF IInv

\* An update goes to an id that is known, and comes after all replies so far.
LEMMA BeginUpdateStep ==
  ASSUME IInv, NEW r \in Updates, NEW id \in Ids, BeginUpdate(r, id)
  PROVE  IInv'
<1> DEFINE c == MovementCall(r)
<1>1. /\ c \in Calls /\ r \in Requests /\ r \notin Creates /\ Http!Start(c)
      /\ UNCHANGED <<reply, stored, writes>> /\ Begins(r) /\ id # Empty
      /\ target' = [target EXCEPT ![r] = id]
  <2>1. Undefined # Empty /\ \A e \in Drawn : e # Empty
    BY DEF Undefined, Empty, Drawn
  <2> QED
    BY <2>1, CallsDiffer, RequestsAssumption, ExistingAssumption
       DEF BeginUpdate, Requests, Ids
<1>2. Call!IInv' /\ Http!TypeOK'
  BY <1>1, CallPreserves DEF IInv
<1>3. /\ phase[c] = "idle" /\ phase'[c] = "requesting"
      /\ \A d \in Calls \ {c} : phase'[d] = phase[d]
      /\ UNCHANGED <<retryCount, applied>>
  BY <1>1, CallStarts DEF IInv
<1>4. TypeOK'
  BY <1>1, <1>2 DEF IInv, TypeOK, Begins
<1>5. ~Replied(r)
  BY <1>1, <1>3 DEF IInv, RepliesFollow
<1>6. /\ target'[r] = id
      /\ \A q \in Requests \ {r} : /\ target'[q] = target[q]
                                   /\ phase'[MovementCall(q)] = phase[MovementCall(q)]
      /\ \A q \in Creates : phase'[NextCall(q)] = phase[NextCall(q)]
  BY <1>1, <1>3, CallsDiffer DEF IInv, TypeOK
<1>7. applied[c] = {} /\ \A i \in Ids : <<r, i>> \notin writes
  BY <1>1, <1>3, CallFacts DEF IInv, Written
<1>8. Targeted'
  BY <1>1, <1>3, <1>6 DEF IInv, Targeted
<1>9. Written'
  BY <1>1, <1>3, <1>6, <1>7 DEF IInv, Written
<1>10. RepliesFollow'
  BY <1>1, <1>3, <1>6 DEF IInv, RepliesFollow, Replied
<1>11. BeforeReplied'
  BY <1>1, <1>5 DEF IInv, BeforeReplied, Begins, Replied
<1>12. Overwritten'
  <2> SUFFICES ASSUME NEW p \in Requests, NEW q \in Requests,
                      <<p, q>> \in before', target'[p] = target'[q],
                      reply[p] = "success", retryCount[MovementCall(p)] = 0,
                      applied[MovementCall(q)] # {}
               PROVE  stored[target'[q]] # p
    BY <1>1, <1>3 DEF Overwritten
  <2>1. q # r /\ p # r
    BY <1>5, <1>7 DEF Replied
  <2>2. <<p, q>> \in before
    BY <1>1, <2>1 DEF Begins
  <2> QED
    BY <1>6, <2>1, <2>2 DEF IInv, Overwritten
<1>13. UpdatesKnown'
  <2>1. id \in KnownIds /\ UNCHANGED reply
    BY <1>1 DEF BeginUpdate
  <2>2. \A q \in Creates : target'[q] = target[q]
    BY <1>1, <1>6 DEF Requests
  <2>3. \A q \in Updates \ {r} : target'[q] = target[q]
    BY <1>6 DEF Requests
  <2> QED
    BY <1>6, <2>1, <2>2, <2>3 DEF IInv, UpdatesKnown, KnownIds
<1> QED
  BY <1>2, <1>4, <1>8, <1>9, <1>10, <1>11, <1>12, <1>13 DEF IInv

\* Steps of a call in flight: none begins, none gives up a good answer, and the
\* backend executes nothing for a request.
LEMMA InFlightStep ==
  ASSUME IInv, Call!IInv', Http!TypeOK',
         UNCHANGED <<target, reply, stored, writes, before>>,
         \A d \in Calls : /\ phase'[d] = "idle" <=> phase[d] = "idle"
                          /\ phase[d] = "ok" =>
                                phase'[d] = "ok" /\ retryCount'[d] = retryCount[d],
         \A r \in Requests : applied'[MovementCall(r)] = applied[MovementCall(r)]
  PROVE  IInv'
<1>1. TypeOK'
  BY DEF IInv, TypeOK
<1>2. Targeted'
  BY CallsDiffer DEF IInv, Targeted
<1>3. Written'
  BY CallsDiffer DEF IInv, Written
<1>4. RepliesFollow'
  BY CallsDiffer DEF IInv, RepliesFollow, Replied
<1>5. BeforeReplied'
  BY DEF IInv, BeforeReplied, Replied
<1>6. Overwritten'
  <2> SUFFICES ASSUME NEW p \in Requests, NEW q \in Requests,
                      <<p, q>> \in before, target[p] = target[q],
                      reply[p] = "success", retryCount'[MovementCall(p)] = 0,
                      applied'[MovementCall(q)] # {}
               PROVE  stored[target[q]] # p
    BY DEF Overwritten
  <2>1. retryCount[MovementCall(p)] = 0
    BY CallsDiffer DEF IInv, RepliesFollow
  <2> QED
    BY <2>1 DEF IInv, Overwritten
<1>7. UpdatesKnown'
  BY DEF IInv, UpdatesKnown, KnownIds
<1> QED
  BY <1>1, <1>2, <1>3, <1>4, <1>5, <1>6, <1>7 DEF IInv

\* The caller's own steps, and a request that is lost or refused.
LEMMA TransportStep ==
  ASSUME IInv, NEW c \in Calls, Transport(c)
  PROVE  IInv'
<1>1. Call!IInv' /\ Http!TypeOK'
  BY CallPreserves DEF IInv, Transport
<1>2. /\ UNCHANGED <<target, reply, stored, writes, before>>
      /\ UNCHANGED applied
  BY DEF Transport, Http!ResponseArrives, Http!RequestFails, Http!BodyRead,
         Http!ReadFails, Http!Retry, Http!TransmissionLost, Http!BackendRefuses
<1>3. ASSUME NEW d \in Calls
      PROVE  /\ phase'[d] = "idle" <=> phase[d] = "idle"
             /\ phase[d] = "ok" => phase'[d] = "ok" /\ retryCount'[d] = retryCount[d]
  <2>1. /\ phase \in [Calls -> Call!Phases] /\ retryCount \in [Calls -> Call!Attempts]
        /\ answered \in [Calls -> [Call!Attempts -> {"none", "ok", "refused"}]]
        /\ phase[c] = "reading" => answered[c][retryCount[c]] # "none"
    BY DEF IInv, Call!IInv, Call!TypeOK, Call!AttemptsConsistent
  <2>2. CASE Http!BodyRead(c)
    BY <2>1, <2>2 DEF Http!BodyRead
  <2>3. CASE ~Http!BodyRead(c)
    BY <2>1, <2>3
       DEF Transport, Http!ResponseArrives, Http!RequestFails, Http!AfterFailure,
           Http!ReadFails, Http!Retry, Http!TransmissionLost, Http!BackendRefuses
  <2> QED
    BY <2>2, <2>3
<1> QED
  BY <1>1, <1>2, <1>3, InFlightStep

\* The waste tracking service executes GET /next: no movement is touched.
LEMMA DrawIdStep ==
  ASSUME IInv, NEW r \in Creates, NEW a \in Http!Attempts, DrawId(r, a)
  PROVE  IInv'
<1>1. NextCall(r) \in Calls /\ Http!BackendExecutes(NextCall(r), a, "ok")
  BY CallsDiffer DEF DrawId
<1>2. Call!IInv' /\ Http!TypeOK'
  BY <1>1, CallPreserves DEF IInv
<1>3. /\ UNCHANGED <<target, reply, stored, writes, before, phase, retryCount>>
      /\ applied' = [applied EXCEPT ![NextCall(r)] = @ \cup {a}]
  BY DEF DrawId, Http!BackendExecutes
<1>4. \A q \in Requests : applied'[MovementCall(q)] = applied[MovementCall(q)]
  BY <1>3, CallsDiffer DEF IInv, TypeOK, Http!TypeOK
<1> QED
  BY <1>2, <1>3, <1>4, InFlightStep

\* The waste movement backend stores a movement under its target; one that was
\* acknowledged without a retry has no attempt left that could be stored again.
LEMMA StoreMovementStep ==
  ASSUME IInv, NEW r \in Requests, NEW a \in Http!Attempts,
         NEW answer \in {"ok", "refused"}, StoreMovement(r, a, answer)
  PROVE  IInv'
<1> DEFINE c == MovementCall(r)
<1>1. /\ c \in Calls /\ Http!BackendExecutes(c, a, answer)
      /\ a \in wire[c]
      /\ UNCHANGED <<target, reply, before, phase, retryCount>>
      /\ applied' = [applied EXCEPT ![c] = @ \cup {a}]
      /\ stored' = [stored EXCEPT ![target[r]] = r]
      /\ writes' = writes \cup {<<r, target[r]>>}
  BY CallsDiffer DEF StoreMovement, Http!BackendExecutes
<1>2. Call!IInv' /\ Http!TypeOK'
  BY <1>1, CallPreserves DEF IInv
<1>3. phase[c] # "idle" /\ target[r] \in Ids
  BY <1>1, CallFacts DEF IInv, TypeOK, Targeted
<1>4. TypeOK'
  BY <1>1, <1>2, <1>3 DEF IInv, TypeOK
<1>5. \A q \in Requests \ {r} : applied'[MovementCall(q)] = applied[MovementCall(q)]
  BY <1>1, CallsDiffer DEF IInv, TypeOK, Http!TypeOK
<1>6. Targeted' /\ RepliesFollow' /\ BeforeReplied'
  BY <1>1 DEF IInv, Targeted, RepliesFollow, BeforeReplied, Replied
<1>7. Written'
  BY <1>1, <1>3, <1>5 DEF IInv, Written
<1>8. Overwritten'
  <2> SUFFICES ASSUME NEW p \in Requests, NEW q \in Requests,
                      <<p, q>> \in before, target[p] = target[q],
                      reply[p] = "success", retryCount[MovementCall(p)] = 0,
                      applied'[MovementCall(q)] # {}
               PROVE  stored'[target[q]] # p
    BY <1>1 DEF Overwritten
  <2>1. p # r
    BY <1>1, CallsDiffer, CallFacts DEF IInv, RepliesFollow
  <2>2. CASE target[q] = target[r]
    BY <1>1, <1>3, <2>1, <2>2 DEF IInv, TypeOK
  <2>3. CASE target[q] # target[r]
    <3>1. q # r /\ applied[MovementCall(q)] # {}
      BY <1>5, <2>3
    <3>2. phase[MovementCall(q)] # "idle"
      BY <3>1, CallsDiffer, CallFacts DEF IInv
    <3>3. target[q] \in Ids
      BY <3>2 DEF IInv, TypeOK, Targeted
    <3>4. stored'[target[q]] = stored[target[q]]
      BY <1>1, <2>3, <3>3 DEF IInv, TypeOK
    <3> QED
      BY <3>1, <3>4 DEF IInv, Overwritten
  <2> QED
    BY <2>2, <2>3
<1>9. UpdatesKnown'
  BY <1>1 DEF IInv, UpdatesKnown, KnownIds
<1> QED
  BY <1>2, <1>4, <1>6, <1>7, <1>8, <1>9 DEF IInv

\* Every step preserves the inductive invariant.
LEMMA NextIInv == IInv /\ [Next]_vars => IInv'
<1> SUFFICES ASSUME IInv, [Next]_vars
             PROVE  IInv'
  OBVIOUS
<1>1. ASSUME NEW r \in Creates, BeginCreate(r) \/ PostMovement(r)
      PROVE  IInv'
  BY <1>1, BeginCreateStep, PostMovementStep
<1>2. ASSUME NEW r \in Creates, NoTrackingId(r)
      PROVE  IInv'
  BY <1>2, ReplyStep DEF Requests
<1>3. ASSUME NEW r \in Updates, NEW id \in Ids, BeginUpdate(r, id)
      PROVE  IInv'
  BY <1>3, BeginUpdateStep
<1>4. ASSUME NEW r \in Requests, Reply(r)
      PROVE  IInv'
  BY <1>4, ReplyStep
<1>5. ASSUME NEW c \in Calls, Transport(c)
      PROVE  IInv'
  BY <1>5, TransportStep
<1>6. ASSUME NEW r \in Creates, NEW a \in Http!Attempts, DrawId(r, a)
      PROVE  IInv'
  BY <1>6, DrawIdStep
<1>7. ASSUME NEW r \in Requests, NEW a \in Http!Attempts,
             NEW answer \in {"ok", "refused"}, StoreMovement(r, a, answer)
      PROVE  IInv'
  BY <1>7, StoreMovementStep
<1>8. CASE UNCHANGED vars
  <2>1. Call!IInv'
    BY <1>8, CallsUnchanged DEF IInv, vars, http
  <2>2. TypeOK'
    BY <1>8 DEF IInv, TypeOK, vars, Http!TypeOK
  <2> QED
    BY <1>8, <2>1, <2>2
       DEF IInv, vars, Targeted, Written, RepliesFollow, Replied, BeforeReplied,
           Overwritten, UpdatesKnown, KnownIds
<1> QED
  BY <1>1, <1>2, <1>3, <1>4, <1>5, <1>6, <1>7, <1>8 DEF Next

\* The inductive invariant holds in every state.
LEMMA SpecIInv == Spec => []IInv
  BY InitIInv, NextIInv, PTL DEF Spec

-----------------------------------------------------------------------------
(* The invariants of the runs *)

\* Every variable keeps its type for any requests and retries.
THEOREM TypeCorrect == Spec => []TypeOK
  BY SpecIInv, PTL DEF IInv

\* What a success reports is stored, for any requests and retries: the reply is
\* given only after a call that the backend executed, under the request's own id.
THEOREM SuccessStored == Spec => []SuccessIsStored
<1>1. IInv => SuccessIsStored
  <2> SUFFICES ASSUME IInv, NEW r \in Requests, reply[r] = "success"
               PROVE  <<r, target[r]>> \in writes
    BY DEF SuccessIsStored
  <2>1. applied[MovementCall(r)] # {}
    BY CallsDiffer, CallFacts DEF IInv, RepliesFollow
  <2> QED
    BY <2>1 DEF IInv, Written
<1> QED
  BY <1>1, SpecIInv, PTL

\* A create leaves one movement at most, whatever is retried.
THEOREM OneMovement == Spec => []OneMovementPerCreate
<1>1. IInv => OneMovementPerCreate
  BY DEF IInv, Written, OneMovementPerCreate, Requests
<1> QED
  BY <1>1, SpecIInv, PTL

\* An acknowledged update is overwritten by an earlier one only if that one was
\* retried.
THEOREM LaterLasts == Spec => []LaterUpdateLasts
<1>1. IInv => LaterUpdateLasts
  <2> SUFFICES ASSUME IInv, NEW p \in Requests, NEW r \in Requests,
                      <<p, r>> \in before, target[p] = target[r],
                      reply[p] = "success", reply[r] = "success",
                      stored[target[r]] = p
               PROVE  retryCount[MovementCall(p)] > 0
    BY DEF LaterUpdateLasts
  <2>1. applied[MovementCall(r)] # {}
    BY CallsDiffer, CallFacts DEF IInv, RepliesFollow
  <2>2. retryCount[MovementCall(p)] # 0
    BY <2>1 DEF IInv, Overwritten
  <2>3. retryCount[MovementCall(p)] \in Nat
    BY CallsDiffer, MaxRetriesAssumption DEF IInv, TypeOK, Http!TypeOK, Http!Attempts
  <2> QED
    BY <2>2, <2>3
<1> QED
  BY <1>1, SpecIInv, PTL

-----------------------------------------------------------------------------
(* Composition: the calls are those of HttpClient *)

\* The handlers make their calls from the start and step by step as HttpClient.
LEMMA SpecCalls == Spec => Call!Spec
<1>1. Init => Call!Init
  BY DEF Init, Http!Init, Call!Init, Http!Attempts, Call!Attempts
<1>2. [Next]_vars => [Call!Next]_(Call!vars)
  <2> SUFFICES ASSUME [Next]_vars
               PROVE  [Call!Next]_(Call!vars)
    OBVIOUS
  <2>1. ASSUME NEW r \in Creates, BeginCreate(r) \/ PostMovement(r)
        PROVE  Call!Next
    BY <2>1, CallsDiffer, CallStep DEF BeginCreate, PostMovement
  <2>2. ASSUME NEW r \in Updates, NEW id \in Ids, BeginUpdate(r, id)
        PROVE  Call!Next
    BY <2>2, CallsDiffer, CallStep DEF BeginUpdate, Requests
  <2>3. ASSUME NEW c \in Calls, Transport(c)
        PROVE  Call!Next
    BY <2>3, CallStep DEF Transport
  <2>4. ASSUME NEW r \in Creates, NEW a \in Http!Attempts, DrawId(r, a)
        PROVE  Call!Next
    BY <2>4, CallsDiffer, CallStep DEF DrawId
  <2>5. ASSUME NEW r \in Requests, NEW a \in Http!Attempts,
               NEW answer \in {"ok", "refused"}, StoreMovement(r, a, answer)
        PROVE  Call!Next
    BY <2>5, CallsDiffer, CallStep DEF StoreMovement
  <2>6. ASSUME NEW r \in Requests, (r \in Creates /\ NoTrackingId(r)) \/ Reply(r)
        PROVE  UNCHANGED Call!vars
    BY <2>6 DEF NoTrackingId, Reply, http, Call!vars
  <2>7. CASE UNCHANGED vars
    BY <2>7 DEF vars, Call!vars
  <2> QED
    BY <2>1, <2>2, <2>3, <2>4, <2>5, <2>6, <2>7 DEF Next, Requests
<1> QED
  BY <1>1, <1>2, PTL DEF Spec, Call!Spec

\* The two instances of HttpClient count the same.
LEMMA SameCardinality == \A S : Http!Cardinality(S) = Call!Cardinality(S)
  BY DEF Http!Cardinality, Call!Cardinality

\* Every call of the receipt handlers is one operation to them: it settles once,
\* its success has taken effect, and the retries leave a bounded number of effects.
THEOREM CallsImplement == Spec => Http!ImplementsOutboundCall
<1>1. Call!Spec => Call!ImplementsOutboundCall
  BY MaxRetriesAssumption, Call!Refinement
<1>2. Call!Abstract!Init => Http!Abstract!Init
  BY SameCardinality DEF Call!Abstract!Init, Http!Abstract!Init, Call!InFlight, Http!InFlight
<1>3. [Call!Abstract!Next]_(Call!Abstract!vars) => [Http!Abstract!Next]_(Http!Abstract!vars)
  BY SameCardinality DEF Call!Abstract!Next, Http!Abstract!Next, Call!Abstract!vars, Http!Abstract!vars,
         Call!Abstract!Begin, Http!Abstract!Begin, Call!Abstract!TakeEffect,
         Http!Abstract!TakeEffect, Call!Abstract!Settle, Http!Abstract!Settle,
         Call!InFlight, Http!InFlight
<1> QED
  BY <1>1, <1>2, <1>3, SpecCalls, PTL
     DEF Http!ImplementsOutboundCall, Http!Abstract!Spec,
         Call!ImplementsOutboundCall, Call!Abstract!Spec

-----------------------------------------------------------------------------
(* Refinement: the endpoints are a register of movements *)

\* A set of attempts has at most MaxRetries + 1 elements.
LEMMA AttemptsCounted ==
  ASSUME NEW S \in SUBSET Http!Attempts
  PROVE  /\ IsFiniteSet(S)
         /\ Cardinality(S) \in 0 .. MaxRetries + 1
         /\ S # {} => Cardinality(S) > 0
<1>1. IsFiniteSet(0 .. MaxRetries) /\ Cardinality(0 .. MaxRetries) = MaxRetries + 1
  BY FS_Interval, MaxRetriesAssumption
<1>2. IsFiniteSet(S) /\ Cardinality(S) <= MaxRetries + 1
  BY <1>1, FS_Subset DEF Http!Attempts
<1>3. Cardinality(S) \in Nat
  BY <1>2, FS_CardinalityType
<1>4. S # {} => Cardinality(S) # 0
  BY <1>2, FS_EmptySet
<1> QED
  BY <1>2, <1>3, <1>4, MaxRetriesAssumption

\* At the start nothing was written.
LEMMA InitRegister == Init => Register!Init
<1>1. Cardinality({}) = 0
  BY FS_EmptySet
<1> QED
  BY <1>1, CallsDiffer DEF Init, Http!Init, Register!Init, Requests, Register!Requests

\* A step that executes nothing for a request, and touches no id, reply or
\* movement, is hidden.
LEMMA CallsHidden ==
  ASSUME UNCHANGED <<target, reply, stored>>,
         \A r \in Requests : applied'[MovementCall(r)] = applied[MovementCall(r)]
  PROVE  UNCHANGED Register!vars
<1>1. [r \in Requests |-> Cardinality(applied'[MovementCall(r)])] =
        [r \in Requests |-> Cardinality(applied[MovementCall(r)])]
  OBVIOUS
<1> QED
  BY <1>1 DEF Register!vars

\* The id that a create was given is one that no other request has.
LEMMA PostMovementBegins ==
  ASSUME IInv, NEW r \in Creates, PostMovement(r)
  PROVE  Register!Begin(r, AnsweredId(r)) /\ AnsweredId(r) \in Ids
<1> DEFINE id == AnsweredId(r)
<1>1. /\ r \in Requests /\ ~Replied(r) /\ phase[NextCall(r)] \in {"ok", "refused"}
      /\ Http!Start(MovementCall(r)) /\ MovementCall(r) \in Calls
      /\ target' = [target EXCEPT ![r] = id] /\ UNCHANGED <<reply, stored>>
  BY CallsDiffer DEF PostMovement
<1>2. phase[MovementCall(r)] = "idle" /\ UNCHANGED applied
  BY <1>1, CallStarts DEF IInv
<1>3. target[r] = Empty /\ reply[r] = "none"
  BY <1>1, <1>2 DEF IInv, Targeted, Replied
<1>4. id = Undefined \/ \E a \in Http!Attempts : id = <<r, a>>
  BY <1>1 DEF AnsweredId, IInv, TypeOK, Http!TypeOK, Requests, Calls
<1>5. id \in Ids
  BY <1>4 DEF Ids, Drawn
<1>6. ASSUME NEW a \in Http!Attempts, id = <<r, a>>
      PROVE  Register!Unused(id)
  <2>1. id # Existing /\ id # Empty /\ id # Undefined
    BY <1>6, ExistingAssumption DEF Drawn, Empty, Undefined
  <2>2. \A q \in Creates : q # r => target[q] # id
    BY <1>6, <2>1 DEF IInv, Targeted, Requests
  <2>3. \A q \in Creates : reply[q] = "success" => target[q] # id
    BY <1>3, <2>2
  <2>4. \A q \in Updates : target[q] # id
    BY <2>1, <2>3 DEF IInv, UpdatesKnown, KnownIds
  <2> QED
    BY <1>3, <2>1, <2>2, <2>4 DEF Register!Unused, Register!Requests
<1>7. id = Undefined \/ Register!Unused(id)
  BY <1>4, <1>6
<1>8. UNCHANGED [q \in Requests |-> Cardinality(applied[MovementCall(q)])]
  BY <1>2
<1> QED
  BY <1>1, <1>3, <1>5, <1>7, <1>8 DEF Register!Begin

\* An update begins on a movement that is known.
LEMMA BeginUpdateBegins ==
  ASSUME IInv, NEW r \in Updates, NEW id \in Ids, BeginUpdate(r, id)
  PROVE  Register!Begin(r, id)
<1>1. /\ r \in Requests /\ r \notin Creates /\ id \in KnownIds
      /\ Http!Start(MovementCall(r)) /\ MovementCall(r) \in Calls
      /\ target' = [target EXCEPT ![r] = id] /\ UNCHANGED <<reply, stored>>
  BY CallsDiffer, RequestsAssumption DEF BeginUpdate, Requests
<1>2. phase[MovementCall(r)] = "idle" /\ UNCHANGED applied
  BY <1>1, CallStarts DEF IInv
<1>3. target[r] = Empty /\ reply[r] = "none"
  BY <1>1, <1>2 DEF IInv, Targeted, RepliesFollow, Replied
<1>4. Register!Known(id)
  BY <1>1 DEF KnownIds, Register!Known
<1>5. UNCHANGED [q \in Requests |-> Cardinality(applied[MovementCall(q)])]
  BY <1>2
<1> QED
  BY <1>1, <1>3, <1>4, <1>5 DEF Register!Begin

\* What the backend stores is one more write of the request.
LEMMA StoreMovementWrites ==
  ASSUME IInv, NEW r \in Requests, NEW a \in Http!Attempts,
         NEW answer \in {"ok", "refused"}, StoreMovement(r, a, answer)
  PROVE  Register!Write(r)
<1> DEFINE c == MovementCall(r)
<1>1. /\ c \in Calls /\ a \in wire[c]
      /\ applied' = [applied EXCEPT ![c] = @ \cup {a}]
      /\ stored' = [stored EXCEPT ![target[r]] = r]
      /\ UNCHANGED <<target, reply>>
  BY CallsDiffer DEF StoreMovement, Http!BackendExecutes
<1>2. a \notin applied[c] /\ phase[c] # "idle"
  BY <1>1, CallFacts DEF IInv, Call!IInv, Call!ExecutionsBounded
<1>3. target[r] # Empty
  BY <1>2 DEF IInv, Targeted
<1>4. /\ applied[c] \in SUBSET Http!Attempts
      /\ applied'[c] = applied[c] \cup {a}
      /\ \A q \in Requests \ {r} : applied'[MovementCall(q)] = applied[MovementCall(q)]
  BY <1>1, CallsDiffer DEF IInv, TypeOK, Http!TypeOK
<1>5. Cardinality(applied'[c]) = Cardinality(applied[c]) + 1
  BY <1>2, <1>4, AttemptsCounted, FS_AddElement
<1>6. Cardinality(applied[c]) < MaxRetries + 1
  <2>1. /\ Cardinality(applied[c]) \in Nat
        /\ Cardinality(applied'[c]) <= MaxRetries + 1
    BY <1>4, AttemptsCounted, MaxRetriesAssumption
  <2> QED
    BY <1>5, <2>1, MaxRetriesAssumption
<1>7. [q \in Requests |-> Cardinality(applied'[MovementCall(q)])] =
        [[q \in Requests |-> Cardinality(applied[MovementCall(q)])] EXCEPT ![r] = @ + 1]
  BY <1>4, <1>5
<1> QED
  BY <1>1, <1>3, <1>6, <1>7 DEF Register!Write

\* A reply of success follows a write, and one without a target is the 500 of a
\* create that was given no id.
LEMMA RepliesReply ==
  ASSUME IInv, NEW r \in Requests,
         (r \in Creates /\ NoTrackingId(r)) \/ Reply(r)
  PROVE  \E answer \in {"success", "refused", "error"} : Register!Reply(r, answer)
<1>1. /\ reply[r] = "none" /\ UNCHANGED <<target, stored, applied>>
      /\ \E answer \in {"success", "refused", "error"} :
            /\ reply' = [reply EXCEPT ![r] = answer]
            /\ answer = "success" => phase[MovementCall(r)] = "ok"
            /\ phase[MovementCall(r)] = "idle" => r \in Creates /\ answer = "error"
  <2>1. CASE r \in Creates /\ NoTrackingId(r)
    BY <2>1 DEF NoTrackingId, Replied, http
  <2>2. CASE Reply(r)
    <3>1. phase[MovementCall(r)] \in {"ok", "refused", "error"}
      BY <2>2 DEF Reply, Http!Settled, Http!Results
    <3> QED
      BY <2>2, <3>1 DEF Reply, Replied, http
  <2> QED
    BY <2>1, <2>2
<1>2. phase[MovementCall(r)] = "ok" => Cardinality(applied[MovementCall(r)]) > 0
  <2>1. /\ MovementCall(r) \in Calls
        /\ applied[MovementCall(r)] \in SUBSET Http!Attempts
    BY CallsDiffer DEF IInv, TypeOK, Http!TypeOK
  <2> QED
    BY <2>1, AttemptsCounted, CallFacts DEF IInv
<1>3. target[r] = Empty => phase[MovementCall(r)] = "idle"
  BY DEF IInv, Targeted
<1>4. UNCHANGED [q \in Requests |-> Cardinality(applied[MovementCall(q)])]
  BY <1>1
<1> QED
  BY <1>1, <1>2, <1>3, <1>4 DEF Register!Reply

\* Every step is one of the register, or hidden.
LEMMA NextRegister == IInv /\ [Next]_vars => [Register!Next]_(Register!vars)
<1> SUFFICES ASSUME IInv, [Next]_vars
             PROVE  [Register!Next]_(Register!vars)
  OBVIOUS
<1>1. ASSUME NEW r \in Creates, BeginCreate(r)
      PROVE  UNCHANGED Register!vars
  BY <1>1, CallsHidden DEF BeginCreate, Http!Start
<1>2. ASSUME NEW r \in Creates, PostMovement(r)
      PROVE  Register!Next
  BY <1>2, PostMovementBegins DEF Register!Next, Register!Requests
<1>3. ASSUME NEW r \in Requests, (r \in Creates /\ NoTrackingId(r)) \/ Reply(r)
      PROVE  Register!Next
  BY <1>3, RepliesReply DEF Register!Next, Register!Requests, Requests
<1>4. ASSUME NEW r \in Updates, NEW id \in Ids, BeginUpdate(r, id)
      PROVE  Register!Next
  BY <1>4, BeginUpdateBegins DEF Register!Next, Register!Requests
<1>5. ASSUME NEW c \in Calls, Transport(c)
      PROVE  UNCHANGED Register!vars
  BY <1>5, CallsHidden
     DEF Transport, Http!ResponseArrives, Http!RequestFails, Http!BodyRead,
         Http!ReadFails, Http!Retry, Http!TransmissionLost, Http!BackendRefuses
<1>6. ASSUME NEW r \in Creates, NEW a \in Http!Attempts, DrawId(r, a)
      PROVE  UNCHANGED Register!vars
  <2>1. /\ applied' = [applied EXCEPT ![NextCall(r)] = @ \cup {a}]
        /\ UNCHANGED <<target, reply, stored>>
    BY <1>6 DEF DrawId, Http!BackendExecutes
  <2>2. \A q \in Requests : applied'[MovementCall(q)] = applied[MovementCall(q)]
    BY <2>1, CallsDiffer DEF IInv, TypeOK, Http!TypeOK
  <2> QED
    BY <2>1, <2>2, CallsHidden
<1>7. ASSUME NEW r \in Requests, NEW a \in Http!Attempts,
             NEW answer \in {"ok", "refused"}, StoreMovement(r, a, answer)
      PROVE  Register!Next
  BY <1>7, StoreMovementWrites DEF Register!Next, Register!Requests, Requests
<1>8. CASE UNCHANGED vars
  BY <1>8, CallsHidden DEF vars
<1> QED
  BY <1>1, <1>2, <1>3, <1>4, <1>5, <1>6, <1>7, <1>8 DEF Next, Requests

\* The two endpoints implement the register of movements, for any requests that
\* run at the same time and any retries of their calls.
THEOREM RegisterRefinement == Spec => ImplementsRegister
  BY InitRegister, NextRegister, SpecIInv, PTL
     DEF Spec, ImplementsRegister, Register!Spec
=============================================================================
