------------------------ MODULE RequestLifecycleProofs ------------------------
(***************************************************************************)
(* Proofs about RequestLifecycle, for any environments, enabled versions,  *)
(* backend statuses and numbers of validation errors or warnings: the      *)
(* invariants its run checks.                                              *)
(***************************************************************************)
EXTENDS RequestLifecycle, TLAPS

\* The stages, by what has happened before them.
BeforeCredentials == {"authenticate", "parse", "credentials"}
BeforeMetrics == {"authenticate", "parse", "credentials", "organisation", "metrics"}
AfterMetrics == {"clientName", "validate", "handler", "post", "backend"}
Early == BeforeMetrics \cup AfterMetrics
Late == {"preResponse", "finalize", "done"}

\* What lets a request go on after the organisation lookup.
Passed ==
    /\ lookup.answer \notin {"paymentRequired", "noBody"}
    /\ isBetaRoute => lookup.answer \in {"none", "organisation", "notFound"}
    /\ usesApiCodeHeader => lookup.answer = "organisation"
    /\ apiCode => lookup.answer # "none"

\* What the way to the handler establishes, and leaves on the request.
Passage ==
    /\ stage \in Early => route \in Served
    /\ stage \in Early \ {"authenticate"} => clientId \/ route = "health"
    /\ clientId => route \in Served
    /\ stage \in {"authenticate", "parse", "credentials", "organisation"} =>
          lookup = NoLookup
    /\ stage \in {"metrics"} \cup AfterMetrics => Passed
    /\ stage \in {"handler", "post", "backend"} /\ isReceiptMovementEndpoint => apiCode
    /\ stage = "post" => route = "createReceipt"
    /\ request.organisation <=> lookup.answer = "organisation"
    /\ request.logOrganisation <=> lookup.named
    /\ ~isBetaRoute =>
          (request.expiry <=> lookup.disableAfter /\ lookup.answer # "paymentRequired")

\* The message is the one this request asks for, and the last thing it does.
Forwarding ==
    /\ stage \in Early => (forwarded # Nothing <=> stage = "backend")
    /\ forwarded # Nothing =>
          /\ Passed /\ clientId /\ route \in Posting
          /\ isReceiptMovementEndpoint => apiCode
          /\ forwarded = Message

\* Which response the request has, before and after the onPreResponse chain.
Answering ==
    /\ stage \in Early => backend = Nothing /\ response.kind = "none"
    /\ backend # Nothing => forwarded # Nothing
    /\ stage \in Late =>
        /\ response.kind \in {"own", "backend", "boom", "formatted"}
        /\ response.kind = "own" =>
              /\ response.status \in {200, 201}
              /\ isReceiptMovementEndpoint => backend # Nothing
        /\ response.kind = "backend" => backend # Nothing
        /\ response.kind \in {"boom", "formatted"} =>
              /\ response.status >= 400 /\ backend = Nothing
              /\ response.kind = "formatted" <=>
                    stage # "preResponse" /\ (isBetaRoute \/ response.status = 400)
        /\ backend # Nothing =>
              IF isBetaRoute \/ backend.status >= 400
              THEN /\ response.status = backend.status
                   /\ response.kind = "backend"
                   /\ response.requestId <=> isBetaRoute /\ backend.requestId
              ELSE response.kind = "own"
        /\ stage # "preResponse" => response.expiry = ExpiryHeader

\* What a receipt has been counted as so far; other routes are never active.
Counting ==
    LET once(condition) == IF condition THEN 1 ELSE 0
        accepted == response.kind = "own"
        formatted == response.kind = "formatted"
    IN  IF isReceiptMovementEndpoint
        THEN /\ stage \in BeforeMetrics => metrics["attempted"] = 0
             /\ stage \in AfterMetrics \/ forwarded # Nothing => metrics["attempted"] = 1
             /\ metrics["withoutErrors"] = once(backend # Nothing)
             /\ metrics["received"] = once(accepted)
             /\ metrics["active"] = once(accepted)
             /\ metrics["withWarnings"] = once(accepted /\ response.items > 0)
             /\ metrics["withoutWarnings"] = once(accepted /\ response.items = 0)
             /\ metrics["warningReason"] = (IF accepted THEN response.items ELSE 0)
             /\ metrics["errorStatus"] =
                   once(/\ stage \in {"finalize", "done"}
                        /\ response.kind \in {"boom", "formatted"})
             /\ metrics["withErrors"] = once(formatted)
             /\ metrics["errorReason"] = (IF formatted THEN response.items ELSE 0)
        ELSE metrics["active"] = 0

\* The store has the client's id from onCredentials on.  A beta request that gets
\* no further than authentication or its body ends without it.
Credentialed ==
    /\ stage \in BeforeCredentials => ~request.clientId
    /\ stage \in Early \ BeforeCredentials => (request.clientId <=> clientId)
    /\ forwarded # Nothing => request.clientId
    /\ stage \in Late /\ isBetaRoute =>
          (request.clientId <=>
              /\ clientId
              /\ ~(/\ response.kind \in {"boom", "formatted"}
                   /\ response.status \in {400, 415}))

\* The line of a request that is done is about its final state.
Logged == stage = "done" => log.completed = CompletedLine

\* The inductive invariant.  Each part needs the ones before it: what is counted
\* and logged follows the response, the response what was sent and answered, and
\* that what the request passed on its way.
IInv == TypeOK /\ Passage /\ Forwarding /\ Answering /\ Counting /\ Logged

-----------------------------------------------------------------------------
(* Records and counts *)

\* What the fields of a response are.
LEMMA ResponseFields ==
  ASSUME NEW r \in Responses
  PROVE  r.status \in {0} \cup 200 .. 599 /\ r.items \in Nat /\ r.requestId \in BOOLEAN
<1>1. r.status \in {0} \cup 200 .. 599
  BY DEF Responses
<1>2. r.items \in 0 .. MaxItems
  BY DEF Responses
<1>3. r.requestId \in BOOLEAN
  BY DEF Responses
<1> QED
  BY <1>1, <1>2, <1>3

\* What the onPreResponse chain changes of a response leaves the rest of it alone.
LEMMA ResponseUpdated ==
  ASSUME NEW r \in Responses
  PROVE  /\ \A e \in {"date", "not available"} :
               LET h == [r EXCEPT !.expiry = e]
               IN  /\ h \in Responses /\ h.kind = r.kind
                   /\ h.status = r.status /\ h.items = r.items
                   /\ h.requestId = r.requestId /\ h.expiry = e
         /\ LET f == [r EXCEPT !.kind = "formatted"]
            IN  /\ f \in Responses /\ f.kind = "formatted"
                /\ f.status = r.status /\ f.items = r.items
                /\ f.requestId = r.requestId /\ f.expiry = r.expiry
<1> DEFINE Statuses == {0} \cup 200 .. 599
           Kinds == {"none", "own", "backend", "boom", "formatted"}
           Expiries == {"unset", "date", "not available"}
           Items == 0 .. MaxItems
<1>1. Responses = [status : Statuses, kind : Kinds, expiry : Expiries, items : Items,
                   requestId : BOOLEAN]
  BY DEF Responses
<1>2. "formatted" \in Kinds /\ \A e \in {"date", "not available"} : e \in Expiries
  OBVIOUS
<1> HIDE DEF Statuses, Kinds, Expiries, Items
<1>3. ASSUME NEW e \in Expiries
      PROVE  LET h == [r EXCEPT !.expiry = e]
             IN  /\ h \in Responses /\ h.kind = r.kind
                 /\ h.status = r.status /\ h.items = r.items
                 /\ h.requestId = r.requestId /\ h.expiry = e
  BY <1>1
<1>4. LET f == [r EXCEPT !.kind = "formatted"]
      IN  /\ f \in Responses /\ f.kind = "formatted"
          /\ f.status = r.status /\ f.items = r.items
          /\ f.requestId = r.requestId /\ f.expiry = r.expiry
  BY <1>1, <1>2
<1> QED
  BY <1>2, <1>3, <1>4

\* No message is Nothing.
LEMMA MessageIsSomething ==
  ASSUME NEW m \in Messages
  PROVE  m # Nothing
  BY DEF Messages, Nothing

\* No answer of the backend is Nothing.
LEMMA AnswerIsSomething ==
  ASSUME NEW m \in [status : 200 .. 599, requestId : BOOLEAN]
  PROVE  m # Nothing
  BY DEF Nothing

\* A message is a message.
LEMMA MessageTyped == TypeOK => Message \in Messages
  BY DEF TypeOK, Message, Messages, RequestStores, TrackingIds

\* Lines that are not logged are not counted.
LEMMA NothingCounted ==
  ASSUME TypeOK, Count(NoLines)
  PROVE  metrics' = metrics
  BY DEF TypeOK, Count, NoLines

\* What a receipt handler logs after its call.
LEMMA ReceiptCounted ==
  ASSUME TypeOK, NEW status, NEW warnings \in Nat, Count(ReceiptLines(status, warnings))
  PROVE  LET received == IF isSuccessStatusCode(status) THEN 1 ELSE 0
         IN  /\ metrics' \in [MetricNames -> Nat]
             /\ metrics'["withoutErrors"] = metrics["withoutErrors"] + 1
             /\ metrics'["received"] = metrics["received"] + received
             /\ metrics'["active"] =
                   metrics["active"] + (IF clientId THEN received ELSE 0)
             /\ metrics'["withWarnings"] =
                   metrics["withWarnings"] + (IF warnings > 0 THEN received ELSE 0)
             /\ metrics'["withoutWarnings"] =
                   metrics["withoutWarnings"] + (IF warnings = 0 THEN received ELSE 0)
             /\ metrics'["warningReason"] =
                   metrics["warningReason"] + received * warnings
             /\ \A m \in {"attempted", "errorStatus", "withErrors", "errorReason"} :
                   metrics'[m] = metrics[m]
<1> DEFINE lines == ReceiptLines(status, warnings)
<1>1. DOMAIN lines = {"withoutErrors", "received", "active", "withWarnings",
                      "withoutWarnings", "warningReason"}
  BY DEF ReceiptLines
<1>2. metrics' = [m \in MetricNames |->
                     IF m \in DOMAIN lines THEN metrics[m] + lines[m] ELSE metrics[m]]
  BY DEF Count
<1> QED
  BY <1>1, <1>2 DEF ReceiptLines, MetricNames, TypeOK

\* The attempt is counted once.
LEMMA AttemptCounted ==
  ASSUME TypeOK, Count([attempted |-> 1])
  PROVE  /\ metrics' \in [MetricNames -> Nat]
         /\ metrics'["attempted"] = metrics["attempted"] + 1
         /\ \A m \in MetricNames \ {"attempted"} : metrics'[m] = metrics[m]
  BY DEF Count, TypeOK, MetricNames

\* What handleErrors counts of a 400, and of another error.
LEMMA ErrorCounted ==
  ASSUME TypeOK, NEW items \in Nat
  PROVE  /\ Count([withErrors |-> 1, errorReason |-> items, errorStatus |-> 1]) =>
               /\ metrics' \in [MetricNames -> Nat]
               /\ metrics'["withErrors"] = metrics["withErrors"] + 1
               /\ metrics'["errorReason"] = metrics["errorReason"] + items
               /\ metrics'["errorStatus"] = metrics["errorStatus"] + 1
               /\ \A m \in MetricNames \ {"withErrors", "errorReason", "errorStatus"} :
                     metrics'[m] = metrics[m]
         /\ Count([errorStatus |-> 1]) =>
               /\ metrics' \in [MetricNames -> Nat]
               /\ metrics'["errorStatus"] = metrics["errorStatus"] + 1
               /\ \A m \in MetricNames \ {"errorStatus"} : metrics'[m] = metrics[m]
  BY DEF Count, TypeOK, MetricNames

-----------------------------------------------------------------------------
(* Ways a step of the request can end *)

\* A request that is refused on its way keeps what it is and was counted as.
LEMMA Refused ==
  ASSUME IInv, stage \in Early, stage' = "preResponse",
         \E status \in 400 .. 599, items \in 0 .. MaxItems :
            response' = Response(status, "boom", items),
         UNCHANGED <<fixed, forwarded, backend, metrics>>
  PROVE  response' \in Responses /\ Answering' /\ Counting' /\ Logged'
<1>1. PICK status \in 400 .. 599, items \in 0 .. MaxItems :
         response' = Response(status, "boom", items)
  OBVIOUS
<1>2. /\ response' \in Responses /\ response'.kind = "boom" /\ response'.status = status
      /\ response'.items = items /\ status >= 400
  <2>1. status \in {0} \cup 200 .. 599 /\ status >= 400
    OBVIOUS
  <2> QED
    BY <1>1, <2>1 DEF Response, Responses
<1>3. backend = Nothing /\ response.kind = "none"
  BY DEF IInv, Answering
<1>4. Answering'
  BY <1>2, <1>3 DEF Answering, Early, BeforeMetrics, AfterMetrics, Late, fixed,
                    isReceiptMovementEndpoint, isBetaRoute
<1>5. forwarded # Nothing => stage = "backend"
  BY DEF IInv, Forwarding
<1>6. Counting'
  BY <1>2, <1>3, <1>5
     DEF IInv, Counting, Early, BeforeMetrics, AfterMetrics, fixed,
         isReceiptMovementEndpoint
<1> QED
  BY <1>2, <1>4, <1>6 DEF Logged

\* A request that goes on has no response yet.
LEMMA GoesOn ==
  ASSUME IInv, stage \in Early, stage' \in Early,
         stage \in BeforeMetrics <=> stage' \in BeforeMetrics,
         forwarded' = forwarded \/ stage' = "backend",
         UNCHANGED <<fixed, backend, metrics, response>>
  PROVE  Answering' /\ Counting' /\ Logged'
<1>1. backend = Nothing /\ response.kind = "none"
  BY DEF IInv, Answering
<1>2. Answering'
  BY <1>1 DEF Answering, Early, BeforeMetrics, AfterMetrics, Late
<1>3. forwarded # Nothing => stage = "backend"
  BY DEF IInv, Forwarding
<1>4. Counting'
  BY <1>1, <1>3
     DEF IInv, Counting, Early, BeforeMetrics, AfterMetrics, fixed,
         isReceiptMovementEndpoint
<1> QED
  BY <1>2, <1>4 DEF Logged, Early, BeforeMetrics, AfterMetrics

\* A reply changes nothing that the message was built from.
LEMMA SameMessage ==
  ASSUME IInv, stage' \in Late,
         UNCHANGED <<fixed, clientId, lookup, request, trackingId, forwarded>>
  PROVE  Forwarding'
<1>1. Message' = Message /\ (Passed' <=> Passed)
  BY DEF Message, Passed, fixed, isBetaRoute, usesApiCodeHeader, isReceiptMovementEndpoint
<1>2. stage' \notin Early
  BY DEF Early, BeforeMetrics, AfterMetrics, Late
<1> QED
  BY <1>1, <1>2 DEF IInv, Forwarding, fixed, isReceiptMovementEndpoint

\* Before the message is sent whatever it is built from may change.
LEMMA NoMessage ==
  ASSUME IInv, stage \in Early \ {"backend"}, stage' # "backend", forwarded' = forwarded
  PROVE  Forwarding'
  BY DEF IInv, Forwarding

-----------------------------------------------------------------------------
(* Before the handler *)

\* The initial states.
LEMMA InitIInv == Init => IInv
<1> SUFFICES ASSUME Init PROVE IInv
  OBVIOUS
<1>1. /\ response \in Responses
      /\ \/ stage = "authenticate" /\ route \in Served /\ response.kind = "none"
         \/ stage = "preResponse" /\ response.kind = "boom" /\ response.status = 404
  <2>1. 0 \in 0 .. MaxItems
    BY MaxItemsAssumption
  <2>2. CASE route \in Served
    <3>1. response = Response(0, "none", 0) /\ stage = "authenticate"
      BY <2>2 DEF Init
    <3> QED
      BY <2>1, <2>2, <3>1 DEF Response, Responses
  <2>3. CASE route \notin Served
    <3>1. response = Response(404, "boom", 0) /\ stage = "preResponse"
      BY <2>3 DEF Init
    <3>2. 404 \in {0} \cup 200 .. 599
      OBVIOUS
    <3> QED
      BY <2>1, <3>1, <3>2 DEF Response, Responses
  <2> QED
    BY <2>2, <2>3
<1>2. request \in RequestStores /\ ~request.organisation /\ ~request.logOrganisation
      /\ ~request.expiry
  BY DEF Init, RequestStores
<1>3. log \in Logs
  BY DEF Init, Logs
<1>4. apiCode \in BOOLEAN
  BY DEF Init
<1>5. TypeOK
  BY <1>1, <1>2, <1>3, <1>4 DEF Init, TypeOK, Stages, TrackingIds
<1>6. Passage
  BY <1>1, <1>2 DEF Init, Passage, NoLookup, Early, BeforeMetrics, AfterMetrics
<1>7. Forwarding /\ Logged
  BY <1>1 DEF Init, Forwarding, Logged, Early, BeforeMetrics, AfterMetrics
<1>8. Answering
  BY <1>1 DEF Init, Answering, Early, BeforeMetrics, AfterMetrics, Late
<1>9. Counting
  BY <1>1 DEF Init, Counting, MetricNames, BeforeMetrics, AfterMetrics
<1> QED
  BY <1>5, <1>6, <1>7, <1>8, <1>9 DEF IInv

\* A request that is not refused here has a client, or needs none.
LEMMA AuthenticateStep ==
  ASSUME IInv, \/ SkipAuthentication
               \/ \E token \in SUBSET {"verified", "client_id", "access", "scope"} :
                     Authenticate(token)
  PROVE  IInv'
<1> DEFINE goesOn == stage' = "parse" /\ response' = response
           refused == stage' = "preResponse" /\ response' = Response(401, "boom", 0)
<1>1. /\ stage = "authenticate" /\ clientId' \in BOOLEAN
      /\ UNCHANGED <<fixed, lookup, request, trackingId, forwarded, backend, metrics, log>>
      /\ \/ goesOn /\ (clientId' \/ route = "health")
         \/ refused
  <2>1. CASE SkipAuthentication
    <3>1. clientId \in BOOLEAN
      BY DEF IInv, TypeOK
    <3> QED
      BY <2>1, <3>1 DEF SkipAuthentication, GoTo
  <2>2. CASE ~SkipAuthentication
    <3>1. PICK token \in SUBSET {"verified", "client_id", "access", "scope"} :
             Authenticate(token)
      BY <2>2
    <3>2. clientId' = (token = {"verified", "client_id", "access", "scope"})
      BY <3>1 DEF Authenticate
    <3>3. IF clientId' THEN goesOn ELSE refused
      BY <3>1 DEF Authenticate, GoTo, Throw, Respond
    <3>4. /\ stage = "authenticate"
          /\ UNCHANGED <<fixed, lookup, request, trackingId, forwarded, backend, metrics, log>>
      BY <3>1 DEF Authenticate
    <3>5. clientId' \in BOOLEAN
      BY <3>2
    <3> HIDE DEF goesOn, refused
    <3> QED
      BY <3>3, <3>4, <3>5
  <2> QED
    BY <2>1, <2>2
<1>2. stage \in Early \ {"backend"} /\ route \in Served
  BY <1>1 DEF IInv, Passage, Early, BeforeMetrics
<1>3. Forwarding'
  BY <1>1, <1>2, NoMessage
<1>4. Passage'
  BY <1>1, <1>2 DEF IInv, Passage, Early, BeforeMetrics, AfterMetrics, fixed, Served,
                    isReceiptMovementEndpoint, isBetaRoute
<1>5. response' \in Responses /\ Answering' /\ Counting' /\ Logged'
  <2>1. CASE stage' = "parse"
    BY <1>1, <1>2, <2>1, GoesOn DEF IInv, TypeOK, Early, BeforeMetrics
  <2>2. CASE stage' = "preResponse"
    BY <1>1, <1>2, <2>2, Refused, MaxItemsAssumption
  <2> QED
    BY <1>1, <2>1, <2>2
<1>6. TypeOK'
  BY <1>1, <1>5 DEF IInv, TypeOK, fixed, Stages
<1> QED
  BY <1>3, <1>4, <1>5, <1>6 DEF IInv

\* A request that is refused by what reads only the request goes no further, and
\* one that is not goes on with what it had.
LEMMA ChecksStep ==
  ASSUME IInv, ParsePayload \/ WithoutApiCode \/ LookupThrows \/ Validate
  PROVE  IInv'
<1> DEFINE refused ==
      /\ stage' = "preResponse"
      /\ \E status \in 400 .. 599, items \in 0 .. MaxItems :
            response' = Response(status, "boom", items)
<1>1. /\ stage \in {"parse", "organisation", "validate"}
      /\ UNCHANGED <<fixed, clientId, lookup, request, trackingId, forwarded, backend,
                     metrics, log>>
      /\ \/ refused
         \/ /\ response' = response
            /\ \/ stage = "parse" /\ stage' = "credentials"
               \/ /\ stage = "organisation" /\ stage' = "metrics"
                  /\ ~apiCode /\ ~usesApiCodeHeader
               \/ /\ stage = "validate" /\ stage' = "handler"
                  /\ isReceiptMovementEndpoint => apiCode
  <2>1. CASE ParsePayload
    BY <2>1, MaxItemsAssumption DEF ParsePayload, GoTo, Throw, Respond
  <2>2. CASE WithoutApiCode
    BY <2>2, MaxItemsAssumption DEF WithoutApiCode, GoTo, Throw, Respond
  <2>3. CASE LookupThrows
    BY <2>3, MaxItemsAssumption DEF LookupThrows, Throw, Respond, Errors
  <2>4. CASE Validate
    BY <2>4, MaxItemsAssumption DEF Validate, failAction, GoTo, Respond
  <2> QED
    BY <2>1, <2>2, <2>3, <2>4
<1>2. stage \in Early \ {"backend"}
  BY <1>1 DEF Early, BeforeMetrics, AfterMetrics
<1>3. Forwarding'
  BY <1>1, <1>2, NoMessage
<1>4. Passage'
  BY <1>1, <1>2
     DEF IInv, Passage, Passed, Early, BeforeMetrics, AfterMetrics, fixed, Served, NoLookup,
         isReceiptMovementEndpoint, isBetaRoute, usesApiCodeHeader, BetaRoutes
<1>5. response' \in Responses /\ Answering' /\ Counting' /\ Logged'
  <2>1. CASE refused
    BY <1>1, <1>2, <2>1, Refused
  <2>2. CASE ~refused
    BY <1>1, <1>2, <2>2, GoesOn DEF IInv, TypeOK, Early, BeforeMetrics, AfterMetrics
  <2> QED
    BY <2>1, <2>2
<1>6. TypeOK'
  BY <1>1, <1>5 DEF IInv, TypeOK, fixed, Stages
<1> QED
  BY <1>3, <1>4, <1>5, <1>6 DEF IInv

\* An answered lookup leaves its organisation on the request, and lets it pass
\* only when that is allowed.
LEMMA LookupStep ==
  ASSUME IInv, NEW l \in Lookups, LookupAnswers(l)
  PROVE  IInv'
<1> DEFINE refused ==
      /\ stage' = "preResponse"
      /\ \E status \in 400 .. 599, items \in 0 .. MaxItems :
            response' = Response(status, "boom", items)
<1>1. /\ stage = "organisation" /\ apiCode /\ lookup' = l
      /\ UNCHANGED <<fixed, clientId, trackingId, forwarded, backend, metrics, log>>
  BY DEF LookupAnswers
<1>2. /\ l \in [answer : Answers, named : BOOLEAN, disableAfter : BOOLEAN]
      /\ l.answer = "noBody" => ~l.disableAfter
  BY DEF Lookups
<1>3. \/ refused
      \/ /\ stage' = "metrics" /\ response' = response
         /\ l.answer \notin {"paymentRequired", "noBody", "none"}
         /\ isBetaRoute => l.answer \in {"organisation", "notFound"}
         /\ usesApiCodeHeader => l.answer = "organisation"
  BY <1>2, MaxItemsAssumption
     DEF LookupAnswers, AfterLookup, GoTo, Throw, Respond, Answers, isBetaRoute,
         usesApiCodeHeader, BetaRoutes
<1>4. /\ request' \in RequestStores
      /\ request'.organisation <=> l.answer = "organisation"
      /\ request'.logOrganisation <=> l.named
      /\ request'.expiry <=> stage' = "metrics" /\ l.disableAfter
  <2>1. request' = [request EXCEPT
           !.organisation = l.answer = "organisation",
           !.logOrganisation = l.named,
           !.expiry = stage' = "metrics" /\ l.disableAfter]
    BY DEF LookupAnswers
  <2>2. request \in RequestStores /\ l.named \in BOOLEAN /\ l.disableAfter \in BOOLEAN
    BY <1>2 DEF IInv, TypeOK
  <2> QED
    BY <2>1, <2>2 DEF RequestStores
<1>5. stage' # "metrics" /\ ~isBetaRoute => l.answer \in {"paymentRequired", "noBody"}
  BY <1>2
     DEF LookupAnswers, AfterLookup, GoTo, isBetaRoute, usesApiCodeHeader, BetaRoutes
<1>6. stage \in Early \ {"backend"}
  BY <1>1 DEF Early, BeforeMetrics
<1>7. Forwarding'
  BY <1>1, <1>3, <1>6, NoMessage
<1>8. Passage'
  <2>1. /\ route' = route /\ clientId' = clientId /\ Served' = Served
        /\ isBetaRoute' = isBetaRoute /\ usesApiCodeHeader' = usesApiCodeHeader
        /\ apiCode' = apiCode
    BY <1>1 DEF fixed, Served, isBetaRoute, usesApiCodeHeader
  <2>2. (route \in Served /\ clientId) \/ (route \in Served /\ route = "health")
    BY <1>1, <1>6 DEF IInv, Passage
  <2>3. stage' = "metrics" => Passed'
    BY <1>1, <1>3, <2>1 DEF Passed
  <2>4. ~isBetaRoute =>
          (request'.expiry <=> l.disableAfter /\ l.answer # "paymentRequired")
    BY <1>2, <1>3, <1>4, <1>5
  <2>5. stage' \in {"metrics", "preResponse"}
    BY <1>3
  <2> QED
    BY <1>1, <1>4, <2>1, <2>2, <2>3, <2>4, <2>5
       DEF Passage, Early, BeforeMetrics, AfterMetrics
<1>9. response' \in Responses /\ Answering' /\ Counting' /\ Logged'
  <2>1. CASE refused
    BY <1>1, <1>6, <2>1, Refused
  <2>2. CASE ~refused
    BY <1>1, <1>3, <1>6, <2>2, GoesOn DEF IInv, TypeOK, Early, BeforeMetrics, AfterMetrics
  <2> QED
    BY <2>1, <2>2
<1>10. TypeOK'
  <2>1. stage' \in Stages
    BY <1>3 DEF Stages
  <2> QED
    BY <1>1, <1>4, <1>9, <2>1 DEF IInv, TypeOK, fixed
<1> QED
  BY <1>7, <1>8, <1>9, <1>10 DEF IInv

\* The attempt of a receipt is counted, which has a client by now.
LEMMA MetricsStep ==
  ASSUME IInv, RequestMetrics
  PROVE  IInv'
<1>1. /\ stage = "metrics" /\ stage' = "clientName"
      /\ UNCHANGED <<fixed, clientId, lookup, request, trackingId, forwarded, backend, log,
                     response>>
      /\ Count(IF isReceiptMovementEndpoint /\ clientId THEN [attempted |-> 1] ELSE NoLines)
  BY DEF RequestMetrics, GoTo
<1>2. /\ stage \in Early \ {"backend"} /\ forwarded = Nothing
      /\ backend = Nothing /\ response.kind = "none"
  BY <1>1 DEF IInv, Forwarding, Answering, Early, BeforeMetrics
<1>3. isReceiptMovementEndpoint => clientId
  BY <1>1 DEF IInv, Passage, isReceiptMovementEndpoint, Receipts, Early, BeforeMetrics
<1>4. Forwarding'
  BY <1>1, <1>2, NoMessage
<1>5. Passage'
  BY <1>1
     DEF IInv, Passage, Passed, Early, BeforeMetrics, AfterMetrics, fixed, Served,
         isReceiptMovementEndpoint, isBetaRoute, usesApiCodeHeader
<1>6. Answering' /\ Logged'
  BY <1>1, <1>2 DEF Answering, Logged, Early, AfterMetrics, Late
<1>7. metrics' \in [MetricNames -> Nat] /\ Counting'
  <2>1. CASE isReceiptMovementEndpoint
    <3>1. Count([attempted |-> 1])
      BY <1>1, <1>3, <2>1
    <3>2. metrics["attempted"] = 0
      BY <1>1, <2>1 DEF IInv, Counting, BeforeMetrics
    <3> QED
      BY <1>1, <1>2, <2>1, <3>1, <3>2, AttemptCounted
         DEF IInv, Counting, MetricNames, BeforeMetrics, AfterMetrics, fixed,
             isReceiptMovementEndpoint
  <2>2. CASE ~isReceiptMovementEndpoint
    <3>1. metrics' = metrics
      BY <1>1, <2>2, NothingCounted DEF IInv
    <3> QED
      BY <1>1, <2>2, <3>1 DEF IInv, TypeOK, Counting, fixed, isReceiptMovementEndpoint
  <2> QED
    BY <2>1, <2>2
<1>8. TypeOK'
  BY <1>1, <1>7 DEF IInv, TypeOK, fixed, Stages
<1> QED
  BY <1>4, <1>5, <1>6, <1>7, <1>8 DEF IInv

\* That the store knows the client decides nothing but what is told of it.
LEMMA CredentialsStep ==
  ASSUME IInv, OnCredentials
  PROVE  IInv'
<1>1. /\ stage = "credentials" /\ stage' = "organisation"
      /\ request' = [request EXCEPT !.clientId = clientId]
      /\ UNCHANGED <<fixed, clientId, lookup, trackingId, forwarded, backend, metrics, log,
                     response>>
  BY DEF OnCredentials, GoTo
<1>2. /\ request' \in RequestStores
      /\ request'.organisation = request.organisation
      /\ request'.logOrganisation = request.logOrganisation
      /\ request'.expiry = request.expiry
  BY <1>1 DEF RequestStores, IInv, TypeOK
<1>3. stage \in Early \ {"backend"}
  BY <1>1 DEF Early, BeforeMetrics
<1>4. Forwarding'
  BY <1>1, <1>3, NoMessage
<1>5. Passage'
  BY <1>1, <1>2
     DEF IInv, Passage, Passed, Early, BeforeMetrics, AfterMetrics, fixed, Served,
         isReceiptMovementEndpoint, isBetaRoute, usesApiCodeHeader
<1>6. Answering' /\ Counting' /\ Logged'
  BY <1>1, <1>3, GoesOn DEF Early, BeforeMetrics, AfterMetrics
<1>7. TypeOK'
  BY <1>1, <1>2 DEF IInv, TypeOK, fixed, Stages
<1> QED
  BY <1>4, <1>5, <1>6, <1>7 DEF IInv

\* The client name decides nothing.
LEMMA ClientNameStep ==
  ASSUME IInv, NEW found \in BOOLEAN, LookUpClientName(found)
  PROVE  IInv'
<1>1. /\ stage = "clientName" /\ stage' = "validate"
      /\ request' = [request EXCEPT !.clientName = clientId /\ found]
      /\ UNCHANGED <<fixed, clientId, lookup, trackingId, forwarded, backend, metrics, log,
                     response>>
  BY DEF LookUpClientName, GoTo
<1>2. /\ request' \in RequestStores
      /\ request'.organisation = request.organisation
      /\ request'.logOrganisation = request.logOrganisation
      /\ request'.expiry = request.expiry
  BY <1>1 DEF RequestStores, IInv, TypeOK
<1>3. stage \in Early \ {"backend"}
  BY <1>1 DEF Early, AfterMetrics
<1>4. Forwarding'
  BY <1>1, <1>3, NoMessage
<1>5. Passage'
  BY <1>1, <1>2
     DEF IInv, Passage, Passed, Early, BeforeMetrics, AfterMetrics, fixed, Served,
         isReceiptMovementEndpoint, isBetaRoute, usesApiCodeHeader
<1>6. Answering' /\ Counting' /\ Logged'
  BY <1>1, <1>3, GoesOn DEF Early, BeforeMetrics, AfterMetrics
<1>7. TypeOK'
  BY <1>1, <1>2 DEF IInv, TypeOK, fixed, Stages
<1> QED
  BY <1>4, <1>5, <1>6, <1>7 DEF IInv

-----------------------------------------------------------------------------
(* Handlers *)

\* A route that is served here sends nothing and answers 200.
LEMMA LocalStep ==
  ASSUME IInv, ServeLocally
  PROVE  IInv'
<1>1. /\ stage = "handler" /\ stage' = "preResponse" /\ route \notin Posting
      /\ response' = Response(200, "own", 0)
      /\ UNCHANGED <<fixed, clientId, lookup, request, trackingId, forwarded, backend,
                     metrics, log>>
  BY DEF ServeLocally, Respond
<1>2. /\ stage \in Early \ {"backend"} /\ backend = Nothing
      /\ ~isReceiptMovementEndpoint /\ ~isBetaRoute
  BY <1>1
     DEF IInv, Answering, Early, AfterMetrics, isReceiptMovementEndpoint, isBetaRoute, Posting
<1>3. response' \in Responses /\ response'.kind = "own" /\ response'.status = 200
  BY <1>1, MaxItemsAssumption DEF Response, Responses
<1>4. Forwarding'
  BY <1>1, <1>2, NoMessage
<1>5. Passage'
  BY <1>1 DEF IInv, Passage, Early, BeforeMetrics, AfterMetrics, fixed, Served, isBetaRoute
<1>6. Answering' /\ Logged'
  BY <1>1, <1>2, <1>3
     DEF Answering, Logged, Early, BeforeMetrics, AfterMetrics, Late, fixed,
         isReceiptMovementEndpoint
<1>7. Counting'
  BY <1>1, <1>2 DEF IInv, Counting, fixed, isReceiptMovementEndpoint
<1>8. TypeOK'
  BY <1>1, <1>3 DEF IInv, TypeOK, fixed, Stages
<1> QED
  BY <1>4, <1>5, <1>6, <1>7, <1>8 DEF IInv

\* The tracking id is there before the message is built.
LEMMA TrackingIdStep ==
  ASSUME IInv, GetNextTrackingId
  PROVE  IInv'
<1>1. /\ stage = "handler" /\ route = "createReceipt"
      /\ UNCHANGED <<fixed, clientId, lookup, request, forwarded, backend, metrics, log>>
      /\ trackingId' \in TrackingIds
      /\ \/ stage' = "post" /\ response' = response
         \/ stage' = "preResponse" /\ response' = Response(500, "boom", 0)
  BY DEF GetNextTrackingId, TrackingIds, GoTo, Throw, Respond
<1>2. stage \in Early \ {"backend"}
  BY <1>1 DEF Early, AfterMetrics
<1>3. Forwarding'
  BY <1>1, <1>2, NoMessage
<1>4. Passage'
  BY <1>1
     DEF IInv, Passage, Passed, Early, BeforeMetrics, AfterMetrics, fixed, Served,
         isReceiptMovementEndpoint, isBetaRoute, usesApiCodeHeader
<1>5. response' \in Responses /\ Answering' /\ Counting' /\ Logged'
  <2>1. CASE stage' = "post"
    BY <1>1, <1>2, <2>1, GoesOn DEF IInv, TypeOK, Early, BeforeMetrics, AfterMetrics
  <2>2. CASE stage' = "preResponse"
    BY <1>1, <1>2, <2>2, Refused, MaxItemsAssumption
  <2> QED
    BY <1>1, <2>1, <2>2
<1>6. TypeOK'
  BY <1>1, <1>5 DEF IInv, TypeOK, fixed, Stages
<1> QED
  BY <1>3, <1>4, <1>5, <1>6 DEF IInv

\* What is sent is the message of a request that has passed everything before.
LEMMA ForwardStep ==
  ASSUME IInv, Forward
  PROVE  IInv'
<1>1. /\ stage \in {"handler", "post"} /\ stage' = "backend" /\ route \in Posting
      /\ forwarded' = Message
      /\ UNCHANGED <<fixed, clientId, lookup, request, trackingId, backend, metrics, log,
                     response>>
  BY DEF Forward, GoTo, IInv, Passage, Posting, Receipts
<1>2. stage \in Early
  BY <1>1 DEF Early, AfterMetrics
<1>3. Message \in Messages /\ Message # Nothing
  BY MessageTyped, MessageIsSomething DEF IInv
<1>4. /\ Passed /\ clientId
      /\ isReceiptMovementEndpoint => apiCode
  BY <1>1 DEF IInv, Passage, Early, AfterMetrics, Posting, Receipts, BetaRoutes
<1>5. Message' = Message /\ (Passed' <=> Passed)
  BY <1>1
     DEF Message, Passed, fixed, isBetaRoute, usesApiCodeHeader, isReceiptMovementEndpoint
<1>6. Forwarding'
  BY <1>1, <1>3, <1>4, <1>5
     DEF Forwarding, Early, AfterMetrics, fixed, isReceiptMovementEndpoint
<1>7. Passage'
  BY <1>1, <1>4, <1>5
     DEF IInv, Passage, Early, BeforeMetrics, AfterMetrics, fixed, Served,
         isReceiptMovementEndpoint, isBetaRoute
<1>8. Answering' /\ Counting' /\ Logged'
  BY <1>1, <1>2, GoesOn DEF Early, BeforeMetrics, AfterMetrics
<1>9. TypeOK'
  BY <1>1, <1>3 DEF IInv, TypeOK, fixed, Stages
<1> QED
  BY <1>6, <1>7, <1>8, <1>9 DEF IInv

\* The response to an answer of the backend is made of that answer, and what is
\* counted of it agrees with the response.
LEMMA BackendAnswersStep ==
  ASSUME IInv, NEW status \in BackendStatuses, NEW warnings \in 0 .. MaxItems,
         NEW requestId \in BOOLEAN, BackendAnswers(status, warnings, requestId)
  PROVE  IInv'
<1>1. /\ stage = "backend" /\ stage' = "preResponse"
      /\ warnings > 0 => isReceiptMovementEndpoint
      /\ backend' = [status |-> status, requestId |-> requestId]
      /\ Count(IF isReceiptMovementEndpoint THEN ReceiptLines(status, warnings) ELSE NoLines)
      /\ UNCHANGED <<fixed, clientId, lookup, request, trackingId, forwarded>>
  BY DEF BackendAnswers, PassOn, HandleBackendResponse, Respond
<1>2. status \in 200 .. 599 /\ warnings \in Nat
  BY BackendStatusesAssumption, MaxItemsAssumption
<1>3. /\ backend' \in [status : 200 .. 599, requestId : BOOLEAN] /\ backend' # Nothing
      /\ backend'.status = status /\ backend'.requestId = requestId
  BY <1>1, <1>2, AnswerIsSomething
<1>4. stage \in Early
  BY <1>1 DEF Early, AfterMetrics
<1>5. forwarded # Nothing /\ backend = Nothing /\ response.kind = "none"
  BY <1>1, <1>4 DEF IInv, Forwarding, Answering
<1>6. /\ isReceiptMovementEndpoint => ~isBetaRoute
      /\ forwarded # Nothing => clientId
  BY DEF isReceiptMovementEndpoint, isBetaRoute, Receipts, BetaRoutes, IInv, Forwarding
<1>7. isSuccessStatusCode(status) <=> status < 400
  BY <1>2 DEF isSuccessStatusCode
<1>8. /\ response' \in Responses
      /\ IF isBetaRoute \/ status >= 400
         THEN /\ response'.status = status /\ response'.kind = "backend"
              /\ response'.requestId <=> isBetaRoute /\ requestId
         ELSE /\ response'.kind = "own" /\ response'.status \in {200, 201}
              /\ response'.items = warnings
  <2>1. CASE isBetaRoute
    <3>1. response' = [Response(status, "backend", 0) EXCEPT !.requestId = requestId]
      BY <2>1 DEF BackendAnswers, PassOn
    <3>2. response' = [status |-> status, kind |-> "backend", expiry |-> "unset",
                       items |-> 0, requestId |-> requestId]
      BY <3>1 DEF Response
    <3>3. 0 \in 0 .. MaxItems
      BY MaxItemsAssumption
    <3> QED
      BY <1>2, <2>1, <3>2, <3>3 DEF Responses
  <2>2. CASE ~isBetaRoute /\ status >= 400
    <3>1. response' = Response(status, "backend", 0)
      BY <1>2, <1>7, <2>2 DEF BackendAnswers, HandleBackendResponse, Respond
    <3> QED
      BY <1>2, <2>2, <3>1, MaxItemsAssumption DEF Response, Responses
  <2>3. CASE ~isBetaRoute /\ ~(status >= 400)
    <3>1. \E code \in {200, 201} : response' = Response(code, "own", warnings)
      BY <1>2, <1>7, <2>3 DEF BackendAnswers, HandleBackendResponse, Respond
    <3> QED
      BY <2>3, <3>1 DEF Response, Responses
  <2> QED
    BY <2>1, <2>2, <2>3
<1>9. Forwarding'
  BY <1>1, SameMessage DEF Late
<1>10. Passage'
  BY <1>1 DEF IInv, Passage, Early, BeforeMetrics, AfterMetrics, fixed, Served, isBetaRoute
<1>11. Answering'
  BY <1>1, <1>2, <1>3, <1>5, <1>8
     DEF Answering, Early, BeforeMetrics, AfterMetrics, Late, fixed, isBetaRoute
<1>12. metrics' \in [MetricNames -> Nat] /\ Counting'
  <2>1. CASE isReceiptMovementEndpoint
    <3>1. Count(ReceiptLines(status, warnings))
      BY <1>1, <2>1
    <3>2. /\ metrics["attempted"] = 1
          /\ \A m \in {"withoutErrors", "received", "active", "withWarnings",
                       "withoutWarnings", "warningReason", "errorStatus", "withErrors",
                       "errorReason"} : metrics[m] = 0
      BY <1>1, <1>5, <2>1 DEF IInv, Counting, AfterMetrics
    <3> DEFINE received == IF isSuccessStatusCode(status) THEN 1 ELSE 0
    <3>3. received \in {0, 1} /\ (received = 1 <=> status < 400)
      BY <1>7
    <3>4. /\ metrics' \in [MetricNames -> Nat]
          /\ metrics'["attempted"] = 1 /\ metrics'["withoutErrors"] = 1
          /\ metrics'["received"] = received /\ metrics'["active"] = received
          /\ metrics'["withWarnings"] = (IF warnings > 0 THEN received ELSE 0)
          /\ metrics'["withoutWarnings"] = (IF warnings = 0 THEN received ELSE 0)
          /\ metrics'["warningReason"] = received * warnings
          /\ metrics'["errorStatus"] = 0 /\ metrics'["withErrors"] = 0
          /\ metrics'["errorReason"] = 0
      BY <1>2, <1>5, <1>6, <3>1, <3>2, <3>3, ReceiptCounted DEF IInv
    <3>5. /\ response'.kind = "own" <=> received = 1
          /\ response'.kind # "formatted"
          /\ response'.kind = "own" => response'.items = warnings
      BY <1>2, <1>6, <1>8, <2>1, <3>3
    <3>6. received * warnings = IF received = 1 THEN warnings ELSE 0
      BY <1>2, <3>3
    <3>7. isReceiptMovementEndpoint'
      BY <1>1, <2>1 DEF fixed, isReceiptMovementEndpoint
    <3> HIDE DEF received
    <3> QED
      BY <1>1, <1>2, <1>3, <3>3, <3>4, <3>5, <3>6, <3>7 DEF Counting, BeforeMetrics
  <2>2. CASE ~isReceiptMovementEndpoint
    <3>1. metrics' = metrics
      BY <1>1, <2>2, NothingCounted DEF IInv
    <3> QED
      BY <1>1, <2>2, <3>1 DEF IInv, TypeOK, Counting, fixed, isReceiptMovementEndpoint
  <2> QED
    BY <2>1, <2>2
<1>13. log' \in Logs
  <2>1. CASE isBetaRoute
    <3>1. log' = [log EXCEPT !.proxied =
                     [status |-> status, organisation |-> request.organisation]]
      BY <2>1 DEF BackendAnswers, PassOn, LogBetaRequest
    <3> QED
      BY <1>2, <3>1 DEF IInv, TypeOK, Logs, RequestStores
  <2>2. CASE ~isBetaRoute
    BY <2>2 DEF BackendAnswers, IInv, TypeOK
  <2> QED
    BY <2>1, <2>2
<1>14. TypeOK'
  BY <1>1, <1>3, <1>8, <1>12, <1>13 DEF IInv, TypeOK, fixed, Stages
<1>15. Logged'
  BY <1>1 DEF Logged
<1> QED
  BY <1>9, <1>10, <1>11, <1>12, <1>14, <1>15 DEF IInv

\* A call that throws is answered by an error of this service.
LEMMA BackendThrowsStep ==
  ASSUME IInv, NEW error \in Errors, BackendThrows(error)
  PROVE  IInv'
<1>1. /\ stage = "backend" /\ stage' = "preResponse"
      /\ \E status \in 400 .. 599, items \in 0 .. MaxItems :
            response' = Response(status, "boom", items)
      /\ UNCHANGED <<fixed, clientId, lookup, request, trackingId, forwarded, backend,
                     metrics>>
  BY MaxItemsAssumption
     DEF BackendThrows, ProxyFails, HandlerFails, Throw, Respond, Errors
<1>2. stage \in Early
  BY <1>1 DEF Early, AfterMetrics
<1>3. Forwarding'
  BY <1>1, SameMessage DEF Late
<1>4. Passage'
  BY <1>1 DEF IInv, Passage, Early, BeforeMetrics, AfterMetrics, fixed, Served, isBetaRoute
<1>5. response' \in Responses /\ Answering' /\ Counting' /\ Logged'
  BY <1>1, <1>2, Refused
<1>6. log' \in Logs
  <2>1. CASE isBetaRoute
    <3>1. log' = [log EXCEPT !.proxied =
                     [status |-> 500, organisation |-> request.organisation]]
      BY <2>1 DEF BackendThrows, ProxyFails, LogBetaRequest
    <3> QED
      BY <3>1 DEF IInv, TypeOK, Logs, RequestStores
  <2>2. CASE ~isBetaRoute
    BY <2>2 DEF BackendThrows, HandlerFails, IInv, TypeOK
  <2> QED
    BY <2>1, <2>2
<1>7. TypeOK'
  BY <1>1, <1>5, <1>6 DEF IInv, TypeOK, fixed, Stages
<1> QED
  BY <1>3, <1>4, <1>5, <1>7 DEF IInv

-----------------------------------------------------------------------------
(* After the handler *)

\* What the onPreResponse chain makes of a response: it adds the expiry header and
\* may replace an error's body.
LEMMA Rewriting ==
  ASSUME IInv, PreResponse
  PROVE  LET formatted == response.kind = "boom" /\ (isBetaRoute \/ response.status = 400)
         IN  /\ response' \in Responses
             /\ response'.kind = (IF formatted THEN "formatted" ELSE response.kind)
             /\ response'.status = response.status /\ response'.items = response.items
             /\ response'.requestId = response.requestId
             /\ response'.expiry = ExpiryHeader
<1> DEFINE formatted == response.kind = "boom" /\ (isBetaRoute \/ response.status = 400)
           headed == [response EXCEPT !.expiry = ExpiryHeader]
<1>1. response \in Responses /\ ExpiryHeader \in {"date", "not available"}
  BY DEF IInv, TypeOK, ExpiryHeader
<1>2. /\ headed \in Responses /\ headed.kind = response.kind
      /\ headed.status = response.status /\ headed.items = response.items
      /\ headed.requestId = response.requestId /\ headed.expiry = ExpiryHeader
  BY <1>1, ResponseUpdated
<1>3. response' = Rewritten(headed)
  BY DEF PreResponse
<1> HIDE DEF headed
<1>4. CASE formatted
  <2>1. response' = [headed EXCEPT !.kind = "formatted"]
    BY <1>2, <1>3, <1>4 DEF Rewritten
  <2>2. /\ response' \in Responses /\ response'.kind = "formatted"
        /\ response'.status = headed.status /\ response'.items = headed.items
        /\ response'.requestId = headed.requestId /\ response'.expiry = headed.expiry
    BY <1>2, <2>1, ResponseUpdated
  <2> QED
    BY <1>2, <1>4, <2>2
<1>5. CASE ~formatted
  BY <1>2, <1>3, <1>5 DEF Rewritten
<1> QED
  BY <1>4, <1>5

\* The onPreResponse chain keeps the status and what is counted per error.
LEMMA PreResponseStep ==
  ASSUME IInv, PreResponse
  PROVE  IInv'
<1>1. /\ stage = "preResponse" /\ stage' = "finalize"
      /\ Count(ErrorMetrics(response))
      /\ UNCHANGED <<fixed, clientId, lookup, request, trackingId, forwarded, backend, log>>
  BY DEF PreResponse
<1>2. ExpiryHeader' = ExpiryHeader
  BY <1>1 DEF ExpiryHeader
<1>3. response \in Responses /\ response.kind \in {"own", "backend", "boom"}
  BY <1>1 DEF IInv, TypeOK, Answering, Late
<1> DEFINE formatted == response.kind = "boom" /\ (isBetaRoute \/ response.status = 400)
<1>4. /\ response' \in Responses
      /\ response'.kind = (IF formatted THEN "formatted" ELSE response.kind)
      /\ response'.status = response.status /\ response'.items = response.items
      /\ response'.requestId = response.requestId /\ response'.expiry = ExpiryHeader
  BY Rewriting
<1>5. Forwarding'
  BY <1>1, SameMessage DEF Late
<1>6. Passage'
  BY <1>1 DEF IInv, Passage, Early, BeforeMetrics, AfterMetrics, fixed, Served, isBetaRoute
<1>7. Answering'
  <2>1. /\ backend # Nothing => forwarded # Nothing
        /\ response.kind = "own" =>
              /\ response.status \in {200, 201}
              /\ isReceiptMovementEndpoint => backend # Nothing
        /\ response.kind = "backend" => backend # Nothing
        /\ response.kind = "boom" => response.status >= 400 /\ backend = Nothing
        /\ backend # Nothing =>
              IF isBetaRoute \/ backend.status >= 400
              THEN /\ response.status = backend.status
                   /\ response.kind = "backend"
                   /\ response.requestId <=> isBetaRoute /\ backend.requestId
              ELSE response.kind = "own"
    BY <1>1 DEF IInv, Answering, Late
  <2>2. /\ isBetaRoute' = isBetaRoute /\ backend' = backend /\ forwarded' = forwarded
        /\ isReceiptMovementEndpoint' = isReceiptMovementEndpoint
        /\ stage' = "finalize" /\ stage' \in Late /\ stage' \notin Early
    BY <1>1 DEF fixed, isBetaRoute, isReceiptMovementEndpoint, Late, Early, BeforeMetrics,
                AfterMetrics
  <2> DEFINE kind == response'.kind
             status == response'.status
             told == response'.requestId
  <2>3. /\ kind \in {"own", "backend", "boom", "formatted"}
        /\ kind = "own" =>
              /\ status \in {200, 201}
              /\ isReceiptMovementEndpoint => backend # Nothing
        /\ kind = "backend" => backend # Nothing
        /\ kind \in {"boom", "formatted"} =>
              /\ status >= 400 /\ backend = Nothing
              /\ kind = "formatted" <=> isBetaRoute \/ status = 400
    BY <1>3, <1>4, <2>1
  <2>4. backend # Nothing =>
              IF isBetaRoute \/ backend.status >= 400
              THEN status = backend.status /\ kind = "backend"
                   /\ (told <=> isBetaRoute /\ backend.requestId)
              ELSE kind = "own"
    BY <1>3, <1>4, <2>1
  <2> HIDE DEF kind, status, told
  <2>5. /\ response'.kind = kind /\ response'.status = status
        /\ response'.requestId = told /\ response'.expiry = ExpiryHeader'
    BY <1>2, <1>4 DEF kind, status, told
  <2> QED
    BY <2>1, <2>2, <2>3, <2>4, <2>5 DEF Answering
<1>8. metrics' \in [MetricNames -> Nat] /\ Counting'
  <2>1. CASE isReceiptMovementEndpoint
    <3>1. ~isBetaRoute
      BY <2>1 DEF isReceiptMovementEndpoint, isBetaRoute, Receipts, BetaRoutes
    <3>2. response.items \in Nat
      BY <1>3, ResponseFields
    <3>3. CASE response.kind = "boom" /\ response.status = 400
      <4>1. Count([withErrors |-> 1, errorReason |-> response.items, errorStatus |-> 1])
        BY <1>1, <2>1, <3>3 DEF ErrorMetrics
      <4> QED
        BY <1>1, <1>3, <1>4, <2>1, <3>1, <3>2, <3>3, <4>1, ErrorCounted
           DEF IInv, Counting, MetricNames, BeforeMetrics, AfterMetrics, fixed,
               isReceiptMovementEndpoint
    <3>4. CASE response.kind = "boom" /\ response.status # 400
      <4>1. Count([errorStatus |-> 1])
        BY <1>1, <2>1, <3>4 DEF ErrorMetrics
      <4>2. /\ metrics' \in [MetricNames -> Nat]
            /\ metrics'["errorStatus"] = metrics["errorStatus"] + 1
            /\ \A m \in MetricNames \ {"errorStatus"} : metrics'[m] = metrics[m]
        BY <3>2, <4>1, ErrorCounted DEF IInv
      <4>3. response'.kind = "boom"
        BY <1>4, <3>1, <3>4
      <4> QED
        BY <1>1, <1>3, <1>4, <2>1, <3>4, <4>2, <4>3
           DEF IInv, Counting, MetricNames, BeforeMetrics, AfterMetrics, fixed,
               isReceiptMovementEndpoint
    <3>5. CASE response.kind # "boom"
      <4>1. metrics' = metrics
        BY <1>1, <3>5, NothingCounted DEF ErrorMetrics, IInv
      <4> QED
        BY <1>1, <1>3, <1>4, <2>1, <3>5, <4>1
           DEF IInv, TypeOK, Counting, BeforeMetrics, AfterMetrics, fixed,
               isReceiptMovementEndpoint
    <3> QED
      BY <3>3, <3>4, <3>5
  <2>2. CASE ~isReceiptMovementEndpoint
    <3>1. metrics' = metrics
      BY <1>1, <2>2, NothingCounted DEF ErrorMetrics, IInv
    <3> QED
      BY <1>1, <2>2, <3>1 DEF IInv, TypeOK, Counting, fixed, isReceiptMovementEndpoint
  <2> QED
    BY <2>1, <2>2
<1>9. TypeOK'
  BY <1>1, <1>4, <1>8 DEF IInv, TypeOK, fixed, Stages
<1>10. Logged'
  BY <1>1 DEF Logged
<1> QED
  BY <1>5, <1>6, <1>7, <1>8, <1>9, <1>10 DEF IInv

\* The line of the request is written from its final state.
LEMMA FinalizeStep ==
  ASSUME IInv, Finalize
  PROVE  IInv'
<1>1. /\ stage = "finalize" /\ stage' = "done"
      /\ log' = [log EXCEPT !.completed = CompletedLine]
      /\ UNCHANGED <<fixed, clientId, lookup, request, trackingId, forwarded, backend,
                     metrics, response>>
  BY DEF Finalize, GoTo
<1>2. /\ response.status \in 200 .. 599 /\ clientId \in BOOLEAN
      /\ request \in RequestStores /\ log \in Logs
  <2>1. /\ response \in Responses /\ clientId \in BOOLEAN
        /\ request \in RequestStores /\ log \in Logs
        /\ backend \in {Nothing} \cup [status : 200 .. 599, requestId : BOOLEAN]
    BY DEF IInv, TypeOK
  <2>2. response.status # 0
    BY <1>1, <2>1 DEF IInv, Answering, Late
  <2> QED
    BY <2>1, <2>2, ResponseFields
<1>3. CompletedLine \in {Nothing} \cup [status : 200 .. 599, clientId : BOOLEAN,
                                        clientName : BOOLEAN, organisation : BOOLEAN]
  BY <1>2 DEF CompletedLine, RequestStores
<1>4. log' \in Logs /\ log'.completed = CompletedLine
  BY <1>1, <1>2, <1>3 DEF Logs
<1>5. Logged'
  BY <1>1, <1>4 DEF Logged, CompletedLine, fixed, isBetaRoute
<1>6. Forwarding'
  BY <1>1, SameMessage DEF Late
<1>7. Passage'
  BY <1>1 DEF IInv, Passage, Early, BeforeMetrics, AfterMetrics, fixed, Served, isBetaRoute
<1>8. Answering'
  <2>1. /\ stage \in Late /\ stage' \in Late /\ stage' \notin Early
        /\ stage # "preResponse" /\ stage' # "preResponse"
    BY <1>1 DEF Early, BeforeMetrics, AfterMetrics, Late
  <2>2. /\ isBetaRoute' = isBetaRoute /\ ExpiryHeader' = ExpiryHeader
        /\ isReceiptMovementEndpoint' = isReceiptMovementEndpoint
    BY <1>1 DEF fixed, isBetaRoute, isReceiptMovementEndpoint, ExpiryHeader
  <2>3. UNCHANGED <<forwarded, backend, response>>
    BY <1>1
  <2> QED
    BY <2>1, <2>2, <2>3 DEF IInv, Answering
<1>9. Counting'
  BY <1>1
     DEF IInv, Counting, BeforeMetrics, AfterMetrics, fixed, isReceiptMovementEndpoint
<1>10. TypeOK'
  BY <1>1, <1>4 DEF IInv, TypeOK, fixed, Stages
<1> QED
  BY <1>5, <1>6, <1>7, <1>8, <1>9, <1>10 DEF IInv

-----------------------------------------------------------------------------
(* The theorems *)

\* Every step keeps the inductive invariant.
LEMMA NextIInv == IInv /\ [Next]_vars => IInv'
<1> SUFFICES ASSUME IInv, [Next]_vars PROVE IInv'
  OBVIOUS
<1>1. CASE Next
  BY <1>1, AuthenticateStep, ChecksStep, CredentialsStep, LookupStep, MetricsStep,
     ClientNameStep, LocalStep, TrackingIdStep, ForwardStep, BackendAnswersStep, BackendThrowsStep, PreResponseStep,
     FinalizeStep
     DEF Next
<1>2. CASE UNCHANGED vars
  <2>1. UNCHANGED <<deployment, route, apiCode, stage, clientId, lookup, request,
                    trackingId, forwarded, backend, metrics, log, response>>
    BY <1>2 DEF vars
  <2>2. TypeOK' /\ Passage'
    BY <2>1 DEF IInv, TypeOK, Passage, Passed, Served, isBetaRoute, usesApiCodeHeader,
                isReceiptMovementEndpoint
  <2>3. /\ Message' = Message /\ CompletedLine' = CompletedLine
        /\ (Passed' <=> Passed)
        /\ (isReceiptMovementEndpoint' <=> isReceiptMovementEndpoint)
    BY <2>1 DEF Passed, Message, CompletedLine, isBetaRoute, usesApiCodeHeader,
                isReceiptMovementEndpoint
  <2>4. Forwarding'
    BY <2>1, <2>3 DEF IInv, Forwarding
  <2>5. Logged'
    BY <2>1, <2>3 DEF IInv, Logged
  <2>6. Answering'
    <3>1. ExpiryHeader' = ExpiryHeader /\ isBetaRoute' = isBetaRoute
      BY <2>1 DEF ExpiryHeader, isBetaRoute
    <3> QED
      BY <2>1, <2>3, <3>1 DEF IInv, Answering
  <2>7. Counting'
    BY <2>1, <2>3 DEF IInv, Counting
  <2> QED
    BY <2>2, <2>4, <2>5, <2>6, <2>7 DEF IInv
<1> QED
  BY <1>1, <1>2

\* It holds in every reachable state.
LEMMA SpecIInv == Spec => []IInv
  BY InitIInv, NextIInv, PTL DEF Spec

\* A request that goes on before its reply keeps what its store has of the client.
LEMMA StoreKept ==
  ASSUME IInv, Credentialed, stage \in Early \ BeforeCredentials,
         stage' \in Early \ BeforeCredentials, clientId' = clientId,
         request'.clientId = request.clientId, forwarded' = forwarded
  PROVE  Credentialed'
<1>1. stage' \notin BeforeCredentials /\ stage' \notin Late
  BY DEF Early, Late, BeforeMetrics, AfterMetrics, BeforeCredentials
<1> QED
  BY <1>1 DEF Credentialed

\* A request that is refused once its store has the client, or without a client, is
\* not refused like a body.
LEMMA StoreKeptRefused ==
  ASSUME IInv, Credentialed, stage \in Early \ BeforeCredentials, stage' \in Late,
         clientId' = clientId, request'.clientId = request.clientId, UNCHANGED <<fixed, forwarded>>,
         isBetaRoute => \/ response'.kind = "backend"
                        \/ response'.status \notin {400, 415}
  PROVE  Credentialed'
<1>1. stage' \notin Early /\ stage' \notin BeforeCredentials
  BY DEF Early, Late, BeforeMetrics, AfterMetrics, BeforeCredentials
<1>2. isBetaRoute' = isBetaRoute
  BY DEF fixed, isBetaRoute
<1> QED
  BY <1>1, <1>2 DEF Credentialed

\* Every step keeps what the store has of the client.
LEMMA NextCredentialed == IInv /\ Credentialed /\ [Next]_vars => Credentialed'
<1> SUFFICES ASSUME IInv, Credentialed, [Next]_vars
             PROVE  Credentialed'
  OBVIOUS
<1> USE DEF Early, BeforeMetrics, AfterMetrics, BeforeCredentials, Late
<1>1. CASE SkipAuthentication
  BY <1>1 DEF SkipAuthentication, GoTo, Credentialed, IInv, Forwarding
<1>2. ASSUME NEW token, Authenticate(token)
      PROVE  Credentialed'
  <2>1. /\ stage = "authenticate" /\ UNCHANGED <<fixed, request, forwarded>>
        /\ \/ stage' = "parse"
           \/ stage' = "preResponse" /\ ~clientId'
    BY <1>2 DEF Authenticate, GoTo, Throw, Respond
  <2> QED
    BY <2>1 DEF Credentialed
<1>3. CASE ParsePayload
  <2>1. /\ stage = "parse" /\ UNCHANGED <<fixed, clientId, request, forwarded>>
        /\ \/ stage' = "credentials"
           \/ /\ stage' = "preResponse" /\ response'.kind = "boom"
              /\ response'.status \in {400, 415}
    BY <1>3 DEF ParsePayload, GoTo, Throw, Respond, Response
  <2> QED
    BY <2>1 DEF Credentialed
<1>4. CASE OnCredentials
  <2>1. /\ stage = "credentials" /\ stage' = "organisation"
        /\ request'.clientId = clientId /\ UNCHANGED <<clientId, forwarded>>
    BY <1>4 DEF OnCredentials, GoTo, IInv, TypeOK, RequestStores
  <2>2. forwarded = Nothing
    BY <2>1 DEF IInv, Forwarding
  <2> QED
    BY <2>1, <2>2 DEF Credentialed
<1>5. CASE WithoutApiCode \/ LookupThrows
  <2>1. /\ stage = "organisation" /\ UNCHANGED <<fixed, clientId, request, forwarded>>
        /\ \/ stage' = "metrics"
           \/ stage' = "preResponse" /\ response'.status \in {401} \cup Errors
    BY <1>5 DEF WithoutApiCode, LookupThrows, GoTo, Throw, Respond, Response
  <2> QED
    BY <2>1, StoreKept, StoreKeptRefused DEF Errors
<1>6. ASSUME NEW l \in Lookups, LookupAnswers(l)
      PROVE  Credentialed'
  <2>1. /\ stage = "organisation" /\ UNCHANGED <<fixed, clientId, forwarded>>
        /\ request'.clientId = request.clientId
    BY <1>6 DEF LookupAnswers, IInv, TypeOK, RequestStores
  <2>2. \/ stage' = "metrics"
        \/ stage' = "preResponse" /\ response'.status \in {500, 402, 401, 502}
    BY <1>6 DEF LookupAnswers, AfterLookup, GoTo, Throw, Respond, Response
  <2> QED
    BY <2>1, <2>2, StoreKept, StoreKeptRefused
<1>7. CASE RequestMetrics \/ \E found \in BOOLEAN : LookUpClientName(found)
  <2>1. /\ stage \in {"metrics", "clientName"} /\ stage' \in {"clientName", "validate"}
        /\ request'.clientId = request.clientId /\ UNCHANGED <<clientId, forwarded>>
    BY <1>7 DEF RequestMetrics, LookUpClientName, GoTo, IInv, TypeOK, RequestStores
  <2> QED
    BY <2>1, StoreKept
<1>8. CASE Validate \/ ServeLocally \/ GetNextTrackingId
  <2>1. /\ stage \in {"validate", "handler"}
        /\ UNCHANGED <<fixed, clientId, request, forwarded>>
        /\ \/ stage' \in {"handler", "post"}
           \/ stage' = "preResponse" /\ ~isBetaRoute
    BY <1>8 DEF Validate, failAction, ServeLocally, GetNextTrackingId, GoTo, Throw,
                Respond, isBetaRoute, Posting, Receipts, BetaRoutes
  <2> QED
    BY <2>1, StoreKept, StoreKeptRefused
<1>9. CASE Forward
  <2>1. /\ stage \in {"handler", "post"} /\ stage' = "backend" /\ route \in Posting
        /\ UNCHANGED <<clientId, request>>
    BY <1>9 DEF Forward, GoTo, IInv, Passage, Posting, Receipts
  <2>2. clientId
    BY <2>1 DEF IInv, Passage, Posting, Receipts, BetaRoutes
  <2> QED
    BY <2>1, <2>2 DEF Credentialed
<1>10. ASSUME NEW status \in BackendStatuses, NEW warnings \in 0 .. MaxItems,
              NEW requestId \in BOOLEAN, BackendAnswers(status, warnings, requestId)
       PROVE  Credentialed'
  <2>1. /\ stage = "backend" /\ stage' = "preResponse"
        /\ UNCHANGED <<fixed, clientId, request, forwarded>>
    BY <1>10 DEF BackendAnswers, PassOn, HandleBackendResponse, Respond
  <2>2. isBetaRoute => response'.kind = "backend"
    <3> SUFFICES ASSUME isBetaRoute PROVE response'.kind = "backend"
      OBVIOUS
    <3>1. response' = [Response(status, "backend", 0) EXCEPT !.requestId = requestId]
      BY <1>10 DEF BackendAnswers, PassOn
    <3> QED
      BY <3>1 DEF Response
  <2> QED
    BY <2>1, <2>2, StoreKeptRefused
<1>11. ASSUME NEW error \in Errors, BackendThrows(error)
       PROVE  Credentialed'
  <2>1. /\ stage = "backend" /\ stage' = "preResponse"
        /\ UNCHANGED <<fixed, clientId, request, forwarded>>
        /\ response'.status \in Errors
    BY <1>11 DEF BackendThrows, ProxyFails, HandlerFails, Throw, Respond, Response, Errors
  <2> QED
    BY <2>1, StoreKeptRefused DEF Errors
<1>12. CASE PreResponse
  <2>1. /\ stage = "preResponse" /\ stage' = "finalize"
        /\ UNCHANGED <<fixed, clientId, request, forwarded>>
    BY <1>12 DEF PreResponse
  <2>2. /\ response'.status = response.status
        /\ response'.kind \in {"boom", "formatted"} <=>
              response.kind \in {"boom", "formatted"}
    BY <1>12, Rewriting
  <2>3. isBetaRoute' = isBetaRoute
    BY <2>1 DEF fixed, isBetaRoute
  <2> QED
    BY <2>1, <2>2, <2>3 DEF Credentialed
<1>13. CASE Finalize \/ UNCHANGED vars
  <2>1. /\ UNCHANGED <<fixed, clientId, request, forwarded, response>>
        /\ \/ stage' = stage
           \/ stage = "finalize" /\ stage' = "done"
    BY <1>13 DEF Finalize, GoTo, vars, fixed
  <2>2. isBetaRoute' = isBetaRoute
    BY <2>1 DEF fixed, isBetaRoute
  <2> QED
    BY <2>1, <2>2 DEF Credentialed
<1> HIDE DEF Early, BeforeMetrics, AfterMetrics, BeforeCredentials, Late
<1> QED
  BY <1>1, <1>2, <1>3, <1>4, <1>5, <1>6, <1>7, <1>8, <1>9, <1>10, <1>11, <1>12, <1>13
     DEF Next

\* A store is empty at first, and so is that of a request for no route.
LEMMA InitCredentialed == Init => Credentialed
  BY DEF Init, Credentialed, Early, BeforeMetrics, AfterMetrics, BeforeCredentials, Nothing

\* It holds in every reachable state.
LEMMA SpecCredentialed == Spec => []Credentialed
  BY InitCredentialed, NextCredentialed, SpecIInv, PTL DEF Spec

\* Every variable has its type, the counters and the lines logged included.
THEOREM TypeCorrect == Spec => []TypeOK
<1>1. IInv => TypeOK
  BY DEF IInv
<1> QED
  BY <1>1, SpecIInv, PTL

\* Nothing reaches the backend for a request that was refused on the way, and the
\* backend is told the client.
THEOREM RefusedNotForwarded == Spec => []ForwardedOnlyWhenAllowed
<1>1. IInv /\ Credentialed => ForwardedOnlyWhenAllowed
  <2> SUFFICES ASSUME IInv, Credentialed, forwarded # Nothing
               PROVE  ForwardedOnlyWhenAllowed
    BY DEF ForwardedOnlyWhenAllowed
  <2>1. forwarded.clientId
    BY DEF IInv, Credentialed, Forwarding, Message
  <2> QED
    BY <2>1 DEF IInv, ForwardedOnlyWhenAllowed, Forwarding, Passage, Passed, NoLookup
<1> QED
  BY <1>1, SpecIInv, SpecCredentialed, PTL

\* A receipt is forwarded with exactly one of apiCode and submittingOrganisation.
THEOREM OneOwner == Spec => []ForwardedReceiptHasOneOwner
<1>1. IInv => ForwardedReceiptHasOneOwner
  <2> SUFFICES ASSUME IInv, forwarded # Nothing, isReceiptMovementEndpoint
               PROVE  /\ forwarded.apiCode # forwarded.organisation
                      /\ forwarded.organisation = (lookup.answer = "organisation")
    BY DEF ForwardedReceiptHasOneOwner
  <2>1. forwarded = Message /\ apiCode
    BY DEF IInv, Forwarding
  <2>2. /\ route # "productionApprovalTests" /\ ~usesApiCodeHeader
        /\ request.organisation \in BOOLEAN
        /\ request.organisation <=> lookup.answer = "organisation"
    BY DEF IInv, TypeOK, RequestStores, Passage, isReceiptMovementEndpoint, Receipts,
           usesApiCodeHeader
  <2>3. /\ forwarded.apiCode = ~request.organisation
        /\ forwarded.organisation = request.organisation
    BY <2>1, <2>2 DEF Message
  <2> QED
    BY <2>2, <2>3
<1> QED
  BY <1>1, SpecIInv, PTL

\* Only an attempt that the backend accepted is logged as active.
THEOREM ActiveAttempts == Spec => []ActiveIsAttempted
<1>1. IInv => ActiveIsAttempted
  <2> SUFFICES ASSUME IInv, metrics["active"] > 0
               PROVE  /\ metrics["attempted"] = 1
                      /\ forwarded # Nothing
                      /\ response.status \in {200, 201} /\ response.kind = "own"
    BY DEF ActiveIsAttempted
  <2>1. isReceiptMovementEndpoint /\ response.kind = "own"
    BY DEF IInv, Counting
  <2>2. backend # Nothing /\ response.status \in {200, 201} /\ forwarded # Nothing
    BY <2>1 DEF IInv, TypeOK, Stages, Answering, Early, Late, BeforeMetrics, AfterMetrics
  <2> QED
    BY <2>1, <2>2 DEF IInv, Counting
<1> QED
  BY <1>1, SpecIInv, PTL

\* Errors are counted just when they are this service's own.
THEOREM OwnErrors == Spec => []OwnErrorsCounted
<1>1. IInv => OwnErrorsCounted
  <2> SUFFICES ASSUME IInv, stage = "done", isReceiptMovementEndpoint PROVE OwnErrorsCounted
    BY DEF OwnErrorsCounted
  <2>1. ~isBetaRoute
    BY DEF isReceiptMovementEndpoint, isBetaRoute, Receipts, BetaRoutes
  <2>2. /\ response.kind \in {"own", "backend", "boom", "formatted"}
        /\ response.kind = "own" => response.status \in {200, 201}
        /\ response.kind \in {"boom", "formatted"} =>
              response.status >= 400 /\ backend = Nothing
        /\ response.kind \in {"boom", "formatted"} =>
              (response.kind = "formatted" <=> response.status = 400)
    BY <2>1 DEF IInv, Answering, Late
  <2> QED
    BY <2>2 DEF IInv, Counting, OwnErrorsCounted
<1> QED
  BY <1>1, SpecIInv, PTL

\* The expiry header survives the whole onPreResponse chain.
THEOREM HeaderKept == Spec => []ExpiryHeaderKept
<1>1. IInv => ExpiryHeaderKept
  <2> SUFFICES ASSUME IInv, stage = "done", ~isBetaRoute PROVE ExpiryHeaderKept
    BY DEF ExpiryHeaderKept
  <2>1. response.expiry = ExpiryHeader
    BY DEF IInv, Answering, Late
  <2>2. request.expiry <=> lookup.disableAfter /\ lookup.answer # "paymentRequired"
    BY DEF IInv, Passage
  <2> QED
    BY <2>1, <2>2 DEF ExpiryHeaderKept, ExpiryHeader
<1> QED
  BY <1>1, SpecIInv, PTL

\* The "request completed" line names the caller, unless Hapi refused the body.
THEOREM CallerNamed == Spec => []CompletionNamesCaller
<1>1. IInv /\ Credentialed => CompletionNamesCaller
  <2> DEFINE bodyRefused == response.kind = "formatted" /\ response.status \in {400, 415}
  <2> SUFFICES ASSUME IInv, Credentialed, stage = "done", isBetaRoute
               PROVE  /\ log.completed.status = response.status
                      /\ log.completed.clientId = (clientId /\ ~bodyRefused)
                      /\ forwarded # Nothing =>
                            log.completed.clientName = forwarded.clientName
                      /\ log.completed.organisation = lookup.named
    BY DEF CompletionNamesCaller
  <2>1. route # "health" /\ route # "productionApprovalTests"
    BY DEF isBetaRoute, BetaRoutes
  <2>2. /\ clientId \in BOOLEAN /\ lookup.named \in BOOLEAN
        /\ request.clientName \in BOOLEAN /\ request.logOrganisation \in BOOLEAN
        /\ request.clientId \in BOOLEAN
    <3>1. /\ clientId \in BOOLEAN /\ lookup \in Lookups \cup {NoLookup}
          /\ request \in RequestStores
      BY DEF IInv, TypeOK
    <3>2. lookup.named \in BOOLEAN
      <4>1. CASE lookup = NoLookup
        BY <4>1 DEF NoLookup
      <4>2. CASE lookup \in Lookups
        BY <4>2 DEF Lookups
      <4> QED
        BY <3>1, <4>1, <4>2
    <3> QED
      BY <3>1, <3>2 DEF RequestStores
  <2>3. log.completed = [status |-> response.status, clientId |-> request.clientId,
                         clientName |-> request.clientName,
                         organisation |-> request.logOrganisation]
    BY <2>1, <2>2 DEF IInv, Logged, CompletedLine
  <2>4. request.logOrganisation = lookup.named
    BY <2>2 DEF IInv, Passage
  <2>5. forwarded # Nothing => forwarded.clientName = request.clientName
    BY <2>1, <2>2 DEF IInv, Forwarding, Message
  <2>6. request.clientId = (clientId /\ ~bodyRefused)
    <3>1. response.kind \in {"own", "backend", "formatted"}
      BY DEF IInv, Answering, Late
    <3>2. request.clientId <=> clientId /\ ~bodyRefused
      BY <3>1 DEF Credentialed, Late
    <3> QED
      BY <2>2, <3>2
  <2> QED
    BY <2>3, <2>4, <2>5, <2>6
<1> QED
  BY <1>1, SpecIInv, SpecCredentialed, PTL

\* What the backend answered is what the caller is told.
THEOREM AnswerPassedOn == Spec => []BackendAnswerPassedOn
<1>1. IInv => BackendAnswerPassedOn
  <2> SUFFICES ASSUME IInv, stage = "done" PROVE BackendAnswerPassedOn
    BY DEF BackendAnswerPassedOn
  <2>1. response.requestId \in BOOLEAN
    BY ResponseFields DEF IInv, TypeOK
  <2>2. backend # Nothing => backend.requestId \in BOOLEAN
    BY DEF IInv, TypeOK
  <2> QED
    BY <2>1, <2>2 DEF IInv, Answering, BackendAnswerPassedOn, Late
<1> QED
  BY <1>1, SpecIInv, PTL

\* What is counted per reason is what the client is told.
THEOREM ReasonsTold == Spec => []ReasonsMatchReply
<1>1. IInv => ReasonsMatchReply
  <2> SUFFICES ASSUME IInv, stage = "done", isReceiptMovementEndpoint PROVE ReasonsMatchReply
    BY DEF ReasonsMatchReply
  <2>1. response.items \in Nat
    BY ResponseFields DEF IInv, TypeOK
  <2> QED
    BY <2>1 DEF IInv, Counting, ReasonsMatchReply
<1> QED
  BY <1>1, SpecIInv, PTL

=============================================================================
