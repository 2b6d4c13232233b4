-------------------------- MODULE RequestLifecycle --------------------------
(***************************************************************************)
(* One request on its way through the gateway: authentication              *)
(* (plugins/jwt-auth.js), the onPostAuth extensions in the order server.js *)
(* registers them (organisation lookup, request metrics, client name), the *)
(* route's validation and handler, the onPreResponse extensions, and the   *)
(* "request completed" log line.  Requests share nothing but the client    *)
(* name cache, whose result is a free choice here (ClientContext models    *)
(* it); the outcome of an outbound call, too, is a free choice (HttpClient *)
(* models the call): the answer's status, or a throw of one of Errors.     *)
(*                                                                         *)
(* Every stage names what the request waits for next; a throw goes         *)
(* straight to "preResponse" with a Boom error as the response.            *)
(***************************************************************************)
EXTENDS Naturals

CONSTANTS
    Environments,    \* values of cdpEnvironment to consider
    VersionFlags,    \* values of featureFlags.apiVersionsEnabled, as sets
    BackendStatuses, \* statuses the waste movement backend answers with
    MaxItems         \* bound on the validation errors or warnings of a request

ASSUME BackendStatusesAssumption == BackendStatuses \subseteq 200 .. 599
ASSUME MaxItemsAssumption == MaxItems \in Nat \ {0}

VARIABLES
    deployment,  \* environment and enabled API versions, fixed
    route,       \* what the request's method and path ask for, fixed
    apiCode,     \* whether getApiCode(request) finds one, fixed
    stage,       \* what the request does next
    clientId,    \* request.auth.credentials.clientId is set
    lookup,      \* answer to GET /organisation/{apiCode}, or NoLookup
    request,     \* what the extensions left on it: submittingOrganisation,
                 \* serviceChargeExpiryDate, the organisation id of its log
                 \* store, the client's id and name in its clientDetailsStore
    trackingId,  \* answer to GET /next: "none", "id" or "undefined"
    forwarded,   \* the message sent to the waste movement backend, or Nothing
    backend,     \* its answer: the status, and whether it has an x-request-id
                 \* header; or Nothing
    metrics,     \* how often each metric line was logged
    log,         \* status and organisation of the lines "Beta request proxied"
                 \* and "request completed", or Nothing
    response     \* request.response: status, kind, expiry header, the number of
                 \* validation errors or warnings in it, x-request-id header

vars == <<deployment, route, apiCode, stage, clientId, lookup, request,
          trackingId, forwarded, backend, metrics, log, response>>

-----------------------------------------------------------------------------
(* Routes and helpers *)

Receipts   == {"createReceipt", "updateReceipt"}
BetaRoutes == {"beta-1", "beta-2"}
Posting    == Receipts \cup BetaRoutes \cup {"productionApprovalTests"}
Routes     == Posting \cup {"health", "referenceData", "authTest", "unknown"}

\* What the router plugin and jwt-auth register in this deployment.
Served ==
    {"health", "referenceData"} \cup Receipts
    \cup (deployment.versions \cap BetaRoutes)
    \cup {r \in {"productionApprovalTests"} : deployment.environment \in
             {"local", "dev", "test", "ext-test", "perf-test"}}
    \cup {r \in {"authTest"} : deployment.environment # "prod"}

isBetaRoute == route \in BetaRoutes
isReceiptMovementEndpoint == route \in Receipts
usesApiCodeHeader == route = "beta-2"

\* Mutant of isSuccessStatusCode: 400 counts as success.
SuccessUpTo400(status) == 200 <= status /\ status <= 400
isSuccessStatusCode(status) == 200 <= status /\ status < 400

\* The answer of waste-organisation-backend, read from the payload: an
\* organisation, an error with a statusCode, an object without either, or no
\* body at all (null).  A 402 may name the organisation, and metaData.disableAfter
\* may come with any object.
Answers == {"organisation", "paymentRequired", "notFound", "otherError",
            "noOrganisation", "noBody"}
NoLookup == [answer |-> "none", named |-> FALSE, disableAfter |-> FALSE]
Lookups  == {l \in [answer : Answers, named : BOOLEAN, disableAfter : BOOLEAN] :
                /\ l.answer = "organisation" => l.named
                /\ l.named => l.answer \in {"organisation", "paymentRequired"}
                /\ l.answer = "noBody" => ~l.disableAfter}

\* Statuses of what an outbound call throws: a transport error and a timeout are
\* Boom errors of Wreck, anything else becomes a 500.
Errors == {502, 504, 500}

Nothing == [status |-> 0]

\* The counted log lines.  "attempted" is developers.attempted and the line
\* "Receipt movement attempted", logged in one go; the reasons are logged once per
\* validation error (as its reason and its category) or warning.
MetricNames == {"attempted", "active", "received", "withErrors", "withoutErrors",
                "errorReason", "withWarnings", "withoutWarnings", "warningReason",
                "errorStatus"}

\* lines is a record that says how often each metric line is logged, 0 if absent.
Count(lines) ==
    metrics' = [m \in MetricNames |->
                   IF m \in DOMAIN lines THEN metrics[m] + lines[m] ELSE metrics[m]]
NoLines == [attempted |-> 0]

\* A response: the handler's own, the backend's passed on, a Boom error, or the
\* answer errorHandler or the problem formatter put in the place of a Boom error.
Response(status, kind, items) ==
    [status |-> status, kind |-> kind, expiry |-> "unset", items |-> items,
     requestId |-> FALSE]

GoTo(next) == stage' = next /\ UNCHANGED response
Respond(status, kind, items) ==
    stage' = "preResponse" /\ response' = Response(status, kind, items)
Throw(status) == Respond(status, "boom", 0)

fixed == <<deployment, route, apiCode>>

Deployments == [environment : Environments, versions : VersionFlags]
Stages ==
    {"authenticate", "parse", "credentials", "organisation", "metrics", "clientName",
     "validate", "handler", "post", "backend", "preResponse", "finalize", "done"}
RequestStores ==
    [organisation : BOOLEAN, expiry : BOOLEAN, logOrganisation : BOOLEAN,
     clientId : BOOLEAN, clientName : BOOLEAN]
TrackingIds == {"none", "id", "undefined"}
Messages ==
    [organisation : BOOLEAN, apiCode : BOOLEAN, clientId : BOOLEAN,
     clientName : BOOLEAN, trackingId : TrackingIds]
Logs ==
    [proxied : {Nothing} \cup [status : 200 .. 599, organisation : BOOLEAN],
     completed : {Nothing} \cup [status : 200 .. 599, clientId : BOOLEAN,
                                 clientName : BOOLEAN, organisation : BOOLEAN]]
Responses ==
    [status : {0} \cup 200 .. 599,
     kind : {"none", "own", "backend", "boom", "formatted"},
     expiry : {"unset", "date", "not available"},
     items : 0 .. MaxItems,
     requestId : BOOLEAN]

TypeOK ==
    /\ deployment \in Deployments
    /\ route \in Routes
    /\ apiCode \in BOOLEAN
    /\ stage \in Stages
    /\ clientId \in BOOLEAN
    /\ lookup \in Lookups \cup {NoLookup}
    /\ request \in RequestStores
    /\ trackingId \in TrackingIds
    /\ forwarded \in {Nothing} \cup Messages
    /\ backend \in {Nothing} \cup [status : 200 .. 599, requestId : BOOLEAN]
    /\ metrics \in [MetricNames -> Nat]
    /\ log \in Logs
    /\ response \in Responses

Init ==
    /\ deployment \in Deployments
    /\ route \in Routes
    /\ apiCode \in (IF route \in Posting THEN BOOLEAN ELSE {FALSE})
    /\ stage = IF route \in Served THEN "authenticate" ELSE "preResponse"
    /\ clientId = FALSE
    /\ lookup = NoLookup
    /\ request = [organisation |-> FALSE, expiry |-> FALSE, logOrganisation |-> FALSE,
                  clientId |-> FALSE, clientName |-> FALSE]
    /\ trackingId = "none"
    /\ forwarded = Nothing
    /\ backend = Nothing
    /\ metrics = [m \in MetricNames |-> 0]
    /\ log = [proxied |-> Nothing, completed |-> Nothing]
    /\ response = IF route \in Served THEN Response(0, "none", 0) ELSE Response(404, "boom", 0)

-----------------------------------------------------------------------------
(* Before the handler *)

\* /health is registered with auth: false.
SkipAuthentication ==
    /\ stage = "authenticate" /\ route = "health"
    /\ GoTo("parse")
    /\ UNCHANGED <<fixed, clientId, lookup, request, trackingId, forwarded, backend, metrics, log>>

\* The JWT strategy verifies the token, validateJwt its claims: a client_id, the
\* use "access", and the scope of this API.
Authenticate(token) ==
    /\ stage = "authenticate" /\ route # "health"
    /\ clientId' = (token = {"verified", "client_id", "access", "scope"})
    /\ IF clientId' THEN GoTo("parse") ELSE Throw(401)
    /\ UNCHANGED <<fixed, lookup, request, trackingId, forwarded, backend, metrics, log>>

\* Hapi parses the body of a request that can have one: it may be malformed
\* (400, answered as one validation error), or of a type that is refused (415).
ParsePayload ==
    /\ stage = "parse"
    /\ \/ GoTo("credentials")
       \/ route \in Posting /\ (Respond(400, "boom", 1) \/ Throw(415))
    /\ UNCHANGED <<fixed, clientId, lookup, request, trackingId, forwarded, backend, metrics, log>>

\* clientContext puts the id of the client into the request's store, from where the
\* calls of services and the log lines take it.  Hapi runs onCredentials after the
\* payload was parsed; /health has no credentials, and its store stays empty.
OnCredentials ==
    /\ stage = "credentials"
    /\ request' = [request EXCEPT !.clientId = clientId]
    /\ GoTo("organisation")
    /\ UNCHANGED <<fixed, clientId, lookup, trackingId, forwarded, backend, metrics, log>>

\* Mutant of WithoutApiCode: the extension returns without h.continue.
WithoutApiCodeHangs ==
    /\ stage = "organisation" /\ ~apiCode
    /\ usesApiCodeHeader /\ Throw(401)
    /\ UNCHANGED <<fixed, clientId, lookup, request, trackingId, forwarded, backend, metrics, log>>

\* addSubmittingOrganisationToRequest, without an apiCode to look up.
WithoutApiCode ==
    /\ stage = "organisation" /\ ~apiCode
    /\ IF usesApiCodeHeader THEN Throw(401) ELSE GoTo("metrics")
    /\ UNCHANGED <<fixed, clientId, lookup, request, trackingId, forwarded, backend, metrics, log>>

\* The call to waste-organisation-backend throws, and so does the extension.
LookupThrows ==
    /\ stage = "organisation" /\ apiCode
    /\ \E status \in Errors : Throw(status)
    /\ UNCHANGED <<fixed, clientId, lookup, request, trackingId, forwarded, backend, metrics, log>>

\* Mutant of AfterLookup: the 402 of the lookup is not looked at on RoW routes.
AfterLookupUnpaid(l) ==
    IF l.answer = "noBody"                            THEN Throw(500)
    ELSE IF usesApiCodeHeader /\ l.answer = "notFound" THEN Throw(401)
    ELSE IF isBetaRoute /\ l.answer \notin {"organisation", "notFound"} THEN Throw(502)
    ELSE GoTo("metrics")

\* What follows a lookup that was answered.  The guards are those of the code, in
\* its order: the payload's statusCode is read without ?. first, so that no body
\* at all is a TypeError, which Hapi turns into a 500.
AfterLookup(l) ==
    IF l.answer = "noBody"                            THEN Throw(500)
    ELSE IF l.answer = "paymentRequired"              THEN Throw(402)
    ELSE IF usesApiCodeHeader /\ l.answer = "notFound" THEN Throw(401)
    ELSE IF isBetaRoute /\ l.answer \notin {"organisation", "notFound"} THEN Throw(502)
    ELSE GoTo("metrics")

LookupAnswers(l) ==
    /\ stage = "organisation" /\ apiCode
    /\ lookup' = l
    /\ AfterLookup(l)
    /\ request' = [request EXCEPT
           !.organisation = l.answer = "organisation",
           !.logOrganisation = l.named,
           !.expiry = stage' = "metrics" /\ l.disableAfter]
    /\ UNCHANGED <<fixed, clientId, trackingId, forwarded, backend, metrics, log>>

\* The two extensions of requestMetrics, both behind the organisation lookup.
RequestMetrics ==
    /\ stage = "metrics"
    /\ Count(IF isReceiptMovementEndpoint /\ clientId THEN [attempted |-> 1] ELSE NoLines)
    /\ GoTo("clientName")
    /\ UNCHANGED <<fixed, clientId, lookup, request, trackingId, forwarded, backend, log>>

\* clientContext: a name from the cache or the service, or none.
LookUpClientName(found) ==
    /\ stage = "clientName"
    /\ request' = [request EXCEPT !.clientName = clientId /\ found]
    /\ GoTo("validate")
    /\ UNCHANGED <<fixed, clientId, lookup, trackingId, forwarded, backend, metrics, log>>

\* abortEarly is off, so that a validation error reports all that is wrong, and
\* failAction throws it.
failAction(errors) == Respond(400, "boom", errors)

\* The route's Joi schema: that of the receipts requires apiCode and forbids
\* submittingOrganisation.  Beta bodies are validated by the backend.
Validate ==
    /\ stage = "validate"
    /\ \/ /\ isReceiptMovementEndpoint => apiCode
          /\ GoTo("handler")
       \/ /\ route \in Receipts \cup {"productionApprovalTests"}
          /\ \E errors \in 1 .. MaxItems : failAction(errors)
    /\ UNCHANGED <<fixed, clientId, lookup, request, trackingId, forwarded, backend, metrics, log>>

-----------------------------------------------------------------------------
(* Handlers *)

\* Health, reference data and /auth/test answer by themselves.
ServeLocally ==
    /\ stage = "handler" /\ route \notin Posting
    /\ Respond(200, "own", 0)
    /\ UNCHANGED <<fixed, clientId, lookup, request, trackingId, forwarded, backend, metrics, log>>

\* A new receipt movement needs an id first.  The status of the answer is not
\* looked at: an answer without wasteTrackingId gives the id undefined, one
\* without body a TypeError.
GetNextTrackingId ==
    /\ stage = "handler" /\ route = "createReceipt"
    /\ \/ trackingId' \in {"id", "undefined"} /\ GoTo("post")
       \/ trackingId' = "none" /\ Throw(500)
    /\ UNCHANGED <<fixed, clientId, lookup, request, forwarded, backend, metrics, log>>

\* Mutant of Message: the apiCode stays in the body beside the organisation.
MessageKeepsApiCode ==
    [organisation |-> request.organisation /\ route # "productionApprovalTests",
     apiCode |-> apiCode /\ ~usesApiCodeHeader,
     clientId |-> request.clientId,
     clientName |-> request.clientName /\ route # "productionApprovalTests",
     trackingId |-> IF route = "updateReceipt" THEN "id" ELSE trackingId]

\* The message to the waste movement backend.  For a receipt the resolved
\* organisation takes the place of the apiCode in the body; a beta body goes
\* unchanged, the organisation in a header, the x-api-code header not at all.  The
\* id of the client goes with every call, in a header (withClientId).
Message ==
    [organisation |-> request.organisation /\ route # "productionApprovalTests",
     apiCode |-> /\ apiCode /\ ~usesApiCodeHeader
                 /\ ~(isReceiptMovementEndpoint /\ request.organisation),
     clientId |-> request.clientId,
     clientName |-> request.clientName /\ route # "productionApprovalTests",
     trackingId |-> IF route = "updateReceipt" THEN "id" ELSE trackingId]

Forward ==
    /\ \/ stage = "handler" /\ route \in Posting \ {"createReceipt"}
       \/ stage = "post"
    /\ forwarded' = Message
    /\ GoTo("backend")
    /\ UNCHANGED <<fixed, clientId, lookup, request, trackingId, backend, metrics, log>>

\* logBetaRequest
LogBetaRequest(status) ==
    log' = [log EXCEPT !.proxied =
               [status |-> status, organisation |-> request.organisation]]

\* The proxy passes on the status and, of the headers, Content-Type and
\* x-request-id.
PassOn(status, requestId) ==
    /\ stage' = "preResponse"
    /\ response' = [Response(status, "backend", 0) EXCEPT !.requestId = requestId]
    /\ LogBetaRequest(status)

\* handleBackendResponse, and createReceiptMovement's 201 for every success.  Only
\* the response to a receipt that was accepted has the warnings in it.
HandleBackendResponse(status, warnings) ==
    IF isSuccessStatusCode(status)
    THEN Respond(IF route = "createReceipt" \/ status = 201 THEN 201 ELSE 200, "own", warnings)
    ELSE Respond(status, "backend", 0)

\* Mutants of ReceiptLines: developers.active, and the warnings, are logged before
\* the status is looked at.
ReceiptLinesActive(status, warnings) ==
    [withoutErrors |-> 1, active |-> IF clientId THEN 1 ELSE 0]
ReceiptLinesWarned(status, warnings) ==
    LET received == IF isSuccessStatusCode(status) THEN 1 ELSE 0
    IN  [withoutErrors |-> 1, received |-> received,
         active |-> IF clientId THEN received ELSE 0,
         withWarnings |-> IF warnings > 0 THEN received ELSE 0,
         withoutWarnings |-> IF warnings = 0 THEN received ELSE 0,
         warningReason |-> warnings]

\* What a receipt handler logs after the call: that the request was valid, and of
\* a receipt that was accepted also the warnings and the client's activity.
ReceiptLines(status, warnings) ==
    LET received == IF isSuccessStatusCode(status) THEN 1 ELSE 0
    IN  [withoutErrors |-> 1, received |-> received,
         active |-> IF clientId THEN received ELSE 0,
         withWarnings |-> IF warnings > 0 THEN received ELSE 0,
         withoutWarnings |-> IF warnings = 0 THEN received ELSE 0,
         warningReason |-> received * warnings]

BackendAnswers(status, warnings, requestId) ==
    /\ stage = "backend"
    /\ warnings > 0 => isReceiptMovementEndpoint
    /\ backend' = [status |-> status, requestId |-> requestId]
    /\ IF isBetaRoute
       THEN PassOn(status, requestId)
       ELSE HandleBackendResponse(status, warnings) /\ UNCHANGED log
    /\ Count(IF isReceiptMovementEndpoint THEN ReceiptLines(status, warnings) ELSE NoLines)
    /\ UNCHANGED <<fixed, clientId, lookup, request, trackingId, forwarded>>

\* Mutant of ProxyFails: error.statusCode is logged as it is, undefined.
ProxyFailsUndefined(error) == LogBetaRequest(0) /\ Throw(error)

\* The proxy's catch: it logs error.statusCode, which a Boom error has not, and
\* boomify with override: false keeps the status of a Boom error.
ProxyFails(error) == LogBetaRequest(500) /\ Throw(error)

\* The catch of the other handlers: handleErrorResponse turns all that
\* http-client.js can throw into a 500.
HandlerFails == Throw(500) /\ UNCHANGED log

BackendThrows(error) ==
    /\ stage = "backend"
    /\ IF isBetaRoute THEN ProxyFails(error) ELSE HandlerFails
    /\ UNCHANGED <<fixed, clientId, lookup, request, trackingId, forwarded, backend, metrics>>

-----------------------------------------------------------------------------
(* After the handler *)

\* setCustomResponseHeaders
ExpiryHeader == IF request.expiry THEN "date" ELSE "not available"

\* Mutant of Rewritten: the headers are not copied to the new response.
RewrittenWithoutHeaders(r) ==
    IF r.kind = "boom" /\ (isBetaRoute \/ r.status = 400)
    THEN [r EXCEPT !.kind = "formatted", !.expiry = "unset"]
    ELSE r

\* errorHandler: a Boom 400 is answered by a response of its own, which takes
\* over the headers collected so far.  External, before it: on beta routes the
\* problem formatter of waste-movement-utils has replaced a Boom error already.
Rewritten(r) ==
    IF r.kind = "boom" /\ (isBetaRoute \/ r.status = 400)
    THEN [r EXCEPT !.kind = "formatted"]
    ELSE r

\* Mutant of ErrorMetrics: response.isBoom is not looked at.
ErrorMetricsAlways(r) ==
    IF r.status >= 400 /\ isReceiptMovementEndpoint
    THEN IF r.status = 400
         THEN [withErrors |-> 1, errorReason |-> r.items, errorStatus |-> 1]
         ELSE [errorStatus |-> 1]
    ELSE NoLines

\* handleErrors counts what arose in this service: a 400 with each of its errors.
ErrorMetrics(r) ==
    IF r.kind = "boom" /\ isReceiptMovementEndpoint
    THEN IF r.status = 400
         THEN [withErrors |-> 1, errorReason |-> r.items, errorStatus |-> 1]
         ELSE [errorStatus |-> 1]
    ELSE NoLines

PreResponse ==
    /\ stage = "preResponse"
    /\ response' = Rewritten([response EXCEPT !.expiry = ExpiryHeader])
    /\ Count(ErrorMetrics(response))
    /\ stage' = "finalize"
    /\ UNCHANGED <<fixed, clientId, lookup, request, trackingId, forwarded, backend, log>>

\* Mutant of CompletedLine: the line takes the organisation that the handler sees.
CompletedLineOfHandler ==
    IF route = "health" THEN Nothing
    ELSE [status |-> response.status,
          clientId |-> isBetaRoute /\ request.clientId,
          clientName |-> isBetaRoute /\ request.clientName,
          organisation |-> isBetaRoute /\ request.organisation]

\* hapi-pino's "request completed".  It reads the plugins' stores, not request.auth,
\* and they reach it on beta routes only, where _finalize is wrapped; /health is not
\* logged.
CompletedLine ==
    IF route = "health" THEN Nothing
    ELSE [status |-> response.status,
          clientId |-> isBetaRoute /\ request.clientId,
          clientName |-> isBetaRoute /\ request.clientName,
          organisation |-> isBetaRoute /\ request.logOrganisation]

Finalize ==
    /\ stage = "finalize"
    /\ log' = [log EXCEPT !.completed = CompletedLine]
    /\ GoTo("done")
    /\ UNCHANGED <<fixed, clientId, lookup, request, trackingId, forwarded, backend, metrics>>

Next ==
    \/ SkipAuthentication
    \/ \E token \in SUBSET {"verified", "client_id", "access", "scope"} : Authenticate(token)
    \/ ParsePayload
    \/ OnCredentials
    \/ WithoutApiCode
    \/ LookupThrows
    \/ \E l \in Lookups : LookupAnswers(l)
    \/ RequestMetrics
    \/ \E found \in BOOLEAN : LookUpClientName(found)
    \/ Validate
    \/ ServeLocally
    \/ GetNextTrackingId
    \/ Forward
    \/ \E status \in BackendStatuses, warnings \in 0 .. MaxItems, requestId \in BOOLEAN :
           BackendAnswers(status, warnings, requestId)
    \/ \E error \in Errors : BackendThrows(error)
    \/ PreResponse
    \/ Finalize

Spec == Init /\ [][Next]_vars

\* Outbound calls settle (HttpClient) and Hapi runs every continuation.
FairSpec == Spec /\ WF_vars(Next)

-----------------------------------------------------------------------------
(* Properties *)

\* Nothing reaches the waste movement backend for a request that was refused on
\* the way: its client was verified and is named in the message, its organisation
\* has paid, and a lookup that was due was answered.  An answer with another error
\* or without an organisation lets a request pass, without an organisation, outside
\* the beta routes; there only a 404 does, and on beta-2 not even that.
ForwardedOnlyWhenAllowed ==
    forwarded # Nothing =>
        /\ clientId /\ forwarded.clientId /\ route \in Served
        /\ lookup.answer \notin {"paymentRequired", "noBody"}
        /\ isBetaRoute => lookup.answer \in {"none", "organisation", "notFound"}
        /\ usesApiCodeHeader => lookup.answer = "organisation"
        /\ apiCode => lookup # NoLookup

\* A receipt movement is forwarded with exactly one of apiCode and
\* submittingOrganisation, as the xor of the shared schema demands that the
\* public one drops (receive-movement-input.js): with the organisation just when
\* the lookup gave one.
ForwardedReceiptHasOneOwner ==
    forwarded # Nothing /\ isReceiptMovementEndpoint =>
        /\ forwarded.apiCode # forwarded.organisation
        /\ forwarded.organisation = (lookup.answer = "organisation")

\* developers.active is only ever logged for a request that was logged as an
\* attempt, was sent to the backend, and is answered with success.
ActiveIsAttempted ==
    metrics["active"] > 0 =>
        /\ metrics["attempted"] = 1
        /\ forwarded # Nothing
        /\ response.status \in {200, 201} /\ response.kind = "own"

\* An error of a receipt endpoint is counted under its status exactly when it
\* comes from this service and not from the backend, wherever it arose; as a
\* validation error exactly when it is a 400; and no request counts both as valid
\* and as invalid.
OwnErrorsCounted ==
    stage = "done" /\ isReceiptMovementEndpoint =>
        LET ownError == response.status >= 400 /\ response.kind # "backend"
        IN  /\ metrics["errorStatus"] = (IF ownError THEN 1 ELSE 0)
            /\ metrics["withErrors"] = (IF ownError /\ response.status = 400 THEN 1 ELSE 0)
            /\ metrics["withErrors"] + metrics["withoutErrors"] <= 1

\* Every reply outside the beta routes has the expiry header, with the date when
\* the lookup of a request that went on gave one; a validation error, whose
\* response is rebuilt, loses it no more than a success.
ExpiryHeaderKept ==
    stage = "done" /\ ~isBetaRoute =>
        response.expiry =
            IF lookup.disableAfter /\ lookup.answer # "paymentRequired"
            THEN "date" ELSE "not available"

\* On beta routes the "request completed" line names the caller of every request
\* that was authenticated, except one whose body Hapi refused (400, 415), which ends
\* before the store has the client's id; the client name is the one the backend was
\* told, and the organisation the one the lookup identified, also when the request
\* was refused for payment.
CompletionNamesCaller ==
    stage = "done" /\ isBetaRoute =>
        /\ log.completed.status = response.status
        /\ log.completed.clientId =
              (clientId /\ ~(response.kind = "formatted" /\ response.status \in {400, 415}))
        /\ forwarded # Nothing => log.completed.clientName = forwarded.clientName
        /\ log.completed.organisation = lookup.named

\* What the backend answered is what the caller is told, through the whole
\* onPreResponse chain: beta routes pass on its status and request id, the others
\* a refusal as it is and a success as 200 or 201; a reply of this service's own
\* making never looks like the backend's.
BackendAnswerPassedOn ==
    stage = "done" =>
        /\ response.kind = "backend" => backend # Nothing
        /\ backend # Nothing =>
              IF isBetaRoute \/ backend.status >= 400
              THEN /\ response.status = backend.status
                   /\ response.kind = "backend"
                   /\ response.requestId = (isBetaRoute /\ backend.requestId)
              ELSE response.status \in {200, 201} /\ response.kind = "own"

\* What is counted per reason is what the client is told: a receipt is counted as
\* received just when the client is told so, with or without warnings, one line
\* for each warning, and a rejected one with one line for each error in the reply.
ReasonsMatchReply ==
    stage = "done" /\ isReceiptMovementEndpoint =>
        LET accepted == response.kind = "own"
            told(whether) == IF whether THEN response.items ELSE 0
        IN  /\ metrics["received"] = (IF accepted THEN 1 ELSE 0)
            /\ metrics["withWarnings"] + metrics["withoutWarnings"] = metrics["received"]
            /\ metrics["withWarnings"] = 1 <=> told(accepted) > 0
            /\ metrics["warningReason"] = told(accepted)
            /\ metrics["errorReason"] = told(response.kind = "formatted")

\* Every request is replied to, once the outbound calls it makes settle.
Replied == <>(stage = "done")

-----------------------------------------------------------------------------
(* What comments and tests of the repository say, and the code does not do *)

\* request-metrics.js:8-9: "Emit developers.attempted once per authenticated
\* receipt-movement request, regardless of validation outcome or backend
\* response."
AttemptedOncePerAuthenticated ==
    stage = "done" /\ isReceiptMovementEndpoint /\ clientId => metrics["attempted"] = 1

\* proxyWasteMovementBackend.test.js:641: "logs one line with the error status
\* when the backend call fails": the status the caller gets.
ProxiedLineHasErrorStatus ==
    stage = "done" /\ log.proxied # Nothing => log.proxied.status = response.status

\* add-submitting-organisation-to-request.js:125-127: "RoW routes still fall back
\* to ORG_API_CODES in the backend, so they keep the old behaviour."
RowFallsBack ==
    [][lookup' # lookup /\ ~isBetaRoute
           /\ lookup'.answer \notin {"organisation", "paymentRequired"}
       => stage' = "metrics"]_vars

\* README.md:34: "This service integrates with DEFRA's waste tracking
\* infrastructure to generate unique tracking IDs": a movement that is created
\* has a tracking id.
CreatedUnderTrackingId ==
    forwarded # Nothing /\ route = "createReceipt" => forwarded.trackingId = "id"
=============================================================================
