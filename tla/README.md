# Formal model of the waste movement external API

This directory holds TLA+ modules that model the gateway in `src/`, the TLC
configurations that check them on small instances, and theorems about them that
the TLA+ proof system (TLAPS) checks for every value of the constants. Paths
below are relative to `src/src/` of the repository unless they say otherwise.

Contents: 1 the system; 2 modules and the code; 3 what the runs check; 4 what is
proved; 5 where code and comments disagree; 6 abstractions and what is left out;
7 plan; 8 how to run.

## 1. The system

A stateless Hapi service between software providers and four internal services.
A request is authenticated by a JWT, its organisation is looked up by API code,
its client's name is looked up, its body is validated, and it is then turned into
one or two calls of internal services. Nothing is persisted; what outlives a
request is one process-wide map of client names. All difficulty lies in the
outbound calls (retried blindly, also `POST` and `PUT`), in the order of the
extensions around the handler, and in the concurrent requests that share the map.

| Component | State it keeps | Operations | Correct when |
|---|---|---|---|
| Outbound HTTP client, `common/helpers/http-client.js` | per call: `retryCount`, where it waits | `get`, `post`, `put` through `makeRequest` | a result is that of the call's own last attempt; at most `maxRetries` + 1 effects; a call settles once, and at all |
| Client context, `common/helpers/client-context.js` | `clientNameCache`; a store per request | the extensions `onRequest`, `onCredentials`, `onPostAuth` | a name served is the caller's own and not older than the cache promises; failing lookups block nobody |
| Organisation lookup, `plugins/add-submitting-organisation-to-request.js` | a store per request, fields on the request | `onPostAuth` | a request goes on only where the comments allow it; 402, 401 and 502 as stated |
| JWT authentication, `plugins/jwt-auth.js` | none | strategy, `validateJwt`, `/auth/test` | nothing unauthenticated reaches a handler |
| Request metrics, `plugins/request-metrics.js`, `common/helpers/metrics.js` | none (log lines) | two `onPostAuth` extensions, counters in handlers | each line once per event it names, none contradicting another |
| Router and flags, `plugins/router.js` | none after start | registers the routes of an environment | only the routes of the deployment answer |
| Receipt handlers, `handlers/create-receipt-movement.js`, `update-receipt-movement.js`, `handle-backend-response.js` | none | `POST` and `PUT` of receipts | the backend gets exactly one of apiCode and organisation; a reply of success is true |
| Beta proxy, `handlers/proxyWasteMovementBackend.js` | none | forwards beta routes, logs a line | forwards only allowed requests; the line says what happened |
| Production approval tests, `handlers/production-approval-tests.js` | none | forwards to the backend | as above |
| Error handler, response headers, `plugins/error-handler.js`, `set-custom-response-headers.js` | none | `onPreResponse` chain | a rebuilt response keeps its headers; own errors counted once |
| Request schemas, `schemas/` | none | Joi validation | apiCode required, organisation not accepted from outside |
| Logging and tracing, `common/helpers/logging/`, `request-tracing.js` | per-request stores | "request completed" | names the caller and organisation on beta routes |
| Reference data, `handlers/reference-data/` | constant tables | local replies | lists as tabulated |
| Server lifecycle, `server.js`, `common/helpers/start-server.js`, `pulse.js`, `index.js` | the server | register, start, graceful stop | plugins in the intended order; a stop waits for requests in flight |
| Configuration and secure context | values read at start | none later | - |

How they interact: the extensions run in the order in which `server.js` registers
their plugins; they hand each other data by fields of the request object and by
`AsyncLocalStorage` stores wrapped around `_lifecycle`, `_postCycle` and, on beta
routes only, `_finalize`. All lookups and handlers call the services through the
one HTTP client. Requests meet each other in two places only: in `clientNameCache`
and at the services behind.

Hard behaviours, each listed with its line under "hazards" in `PROJECT.json`: a
timed-out attempt that is executed later (also after the call has settled and
after another request has changed the movement); a body that never arrives;
overlapping fetches of a client name that answer out of order; throws that skip
later extensions; a response rebuilt after its headers were set, and counted in
another plugin than the one that made it; lookups answered without a body or
without the expected field; a stop that waits less long than a call may take.

The repository's README also describes MongoDB locks (`server.locker`,
src/README.md:198-214). There is no code for them in the repository, so there is
nothing to model.

## 2. Modules and the code

| Module | Role |
|---|---|
| `OutboundCall` | abstract: what a service client's call promises, retries hidden |
| `HttpClient` | `makeRequest` with the network and the service; implements `OutboundCall` |
| `HttpClientProofs` | theorems about `HttpClient` |
| `ClientContext` | the client-name lookup and its cache, concurrent requests, time |
| `ClientContextProofs` | theorems about `ClientContext` |
| `RequestLifecycle`, `MCRequestLifecycle` | one request through all plugins and handlers |
| `RequestLifecycleProofs` | theorems about `RequestLifecycle` |
| `MovementRegister` | abstract: what the receipt endpoints promise their clients, calls and the drawing of ids hidden |
| `ReceiptMovements`, `MCReceiptMovements` | concurrent receipt requests, composed with `HttpClient` and the stores behind; implements `MovementRegister` |
| `ReceiptMovementsProofs` | theorems about `ReceiptMovements`, from those about `HttpClient` |
| `ServerLifecycle` | the process: start, graceful stop, and the clock it shares with the timers of `HttpClient` |
| `ServerLifecycleProofs` | theorems about `ServerLifecycle`, from those about `HttpClient` |

### HttpClient

`phase[c]` is the place where call `c` waits: `requesting` at `await
client.request`, `reading` at `await Wreck.read`, `backoff` at the `setTimeout`
of the catch block, or its result. `retryCount[c]` is the option of that name, and
numbers the attempts. Three variables are the world outside: `wire` (attempts on
their way), `applied` (attempts the service executed), `answered`. The caller's
actions are the continuations of the code: `Start`, `ResponseArrives`,
`RequestFails` (timeout or connection error), `BodyRead`, `ReadFails`, `Retry`. The
network loses requests, and the service executes or refuses any attempt at any
later time, also one whose sender has given up: nothing in the code recalls it. A
service that fails after its operation took effect is `BackendExecutes(.., "refused")`.

`OutboundCall` hides attempts: a call is pending or has a result, and has had a
number of effects. Under the mapping `effects = Cardinality(applied)`, `outcome =
phase` with the three waiting phases collapsed, `HttpClient` implements it: a call
settles once, success has had an effect, there are at most `MaxRetries` + 1 effects,
and some may come after it has settled.

### ClientContext

`Requests` are slots of requests in flight, reused without bound. `cache[c]` is the
entry of `clientNameCache`. The one `await` of `onPostAuth` splits it into
`ServeFromCache` or `StartFetch` and, later, `NameArrives`, `NoNameArrives` or
`FetchFails` (which includes the catch). `NoClientId` is its early return. The
details service answers (`ServiceAnswers`) with the name it holds at that moment;
`Rename` changes it; `Tick` advances `Date.now()`. `givenUp` is a history variable:
when a client last had a name, by which freshness is stated. `req[r].since` is the
time of the request's last step; for an answer on its way it bounds the travel.

### RequestLifecycle

`stage` is what the request waits for next; the actions are its stages in the order
of `server.js`: `Authenticate` (or `SkipAuthentication` for `/health`),
`ParsePayload`, `OnCredentials`, the organisation lookup (`WithoutApiCode`, `LookupThrows`,
`LookupAnswers`), `RequestMetrics`, `LookUpClientName`, `Validate`, the handlers
(`ServeLocally`, `GetNextTrackingId`, `Forward`, `BackendAnswers`,
`BackendThrows`), `PreResponse` and `Finalize`. A throw anywhere goes to
`preResponse` with a Boom error. `deployment`, `route` and `apiCode` are chosen at
start and fixed. Every outbound call's outcome is a free choice, which is what
`OutboundCall` leaves its caller with.

`lookup` is what the payload of the organisation lookup holds, `backend` the status
of the backend's answer and whether it has an `x-request-id`, `response` the reply
with its kind (the handler's own, the backend's passed on, a Boom error, or what the
`onPreResponse` chain put in its place), its expiry header, and the number of
validation errors or warnings in it. `metrics` counts every metric line of the
request: `ReceiptLines` are those of a handler after its call, `ErrorMetrics` those
of `handleErrors`, with one line per warning and per validation error.

There are two records of the caller, and they are not the same. `clientId` is what
authentication left in `request.auth`, which the metrics read; `request.clientId` is the
id in the store of `client-context.js`, which the calls of services (`withClientId`) and
the "request completed" line read. `OnCredentials` fills the second from the first. Hapi
runs it after it has parsed the body (external: Hapi is not in the repository), so a
request whose body is refused has a caller in the first only.

### ReceiptMovements

The variables of `HttpClient` for two calls per request (`NextCall`,
`MovementCall`) and, on top, `target` (the id in the path), `reply`, and the
external stores: the waste tracking service, whose ids are named by the attempt
that drew them, and the movement backend's `stored`. `writes` and `before` are
history. Whatever the calls do is `Transport`; `PostMovement`, `Reply` and
`NoTrackingId` are the handler's continuations.

`MovementRegister` hides the calls and the drawing of ids: a request begins to write to
an id, writes up to `MaxRetries` + 1 times, and is replied to. An id is given to one
create and is known to others only by its reply of success; success is told only after
a write. What the code does not rule out is in it too: writes that are repeated or come
after the reply, and the shared id `undefined` (section 5). The mapping takes `target`,
`reply` and `stored` as they are, and `effects[r]` as the number of executed attempts
of the movement call.

### ServerLifecycle

`server` is the state of the process, `stopAge` the seconds since the signal. Each
request makes calls one after the other (`progress`), each a call of `HttpClient`,
whose variables and steps are used as they are; `age` is how long the current call's
timer has run. `Arrive`, `NextCall` and `Answer` are the continuations of a request,
`Network` what the world brings about at any time, `TimerFires` the client's timeout
and the pause before a retry, due exactly at their time, `Tick` a second.
`StartFails` is the swallowed error of `start-server.js`, after which the process has
nothing to wait for and ends. `Signal` and `Exit` are hapi-pulse: `server.stop`
refuses new connections, and resolves when nothing is in progress or its timeout is
over (`StopDue`). As in Node, a timer or signal waits until no continuation is to
run (`NothingToRun`). `waited` and `since` are history: the time a call has spent
on attempts and pauses, and what a request did since the signal.

## 3. What the runs check

| Run | Instance | What it shows |
|---|---|---|
| `http_client` | 1 call, 3 retries; 2,497 states | everything said of a call, its refinement, and that it settles unless a body stalls |
| `client_context` | 1 client, 2 names, 2 requests, cache 2 ticks, transit 1, clock 3; 176,716 states | overlapping fetches of a client whose name changes: how old a cached and a served name can be |
| `client_context_clients` | 2 clients, 1 name, 2 requests; 401,009 states | clients never see each other's names, nor touch each other's entries |
| `request_lifecycle` | 3 environments, every set of beta versions, 8 statuses, up to 2 warnings or errors; 74,794 states | one request of each kind with each outcome of each call |
| `creates` | 2 creates, 1 retry, symmetric; 1,909,464 states | what concurrent creates store, and how often |
| `updates` | 1 create, 1 update, 1 retry; 342,242 states | acknowledged updates against late attempts, and that the endpoints implement `MovementRegister` |
| `graceful_stop` | 1 request of up to 2 calls, 1 retry, times 2, 1 and 4; 378,562 states | a stop at any moment of a request and its calls |
| `body_timeout`, `attempted_metric`, `proxied_status`, `row_fallback`, `tracking_id` | as the run of the module | section 5 |

Why the bounds are enough.

- Calls of `HttpClient` share no variable entry, so one call has all the behaviour
  there is; 3 is the code's own `maxRetries`, no bound of ours.
- `ClientContext` needs two requests for an overlap, two names for a stale one, a
  clock that reaches the instant at which an entry expires (cached at 1, expired at
  3). The theorems lift all of these.
- A `RequestLifecycle` behaviour is finite (no loop), so TLC is exhaustive for the
  statuses given. These are one of each class the handlers tell apart. Two items
  tell none, one and several warnings apart.
- In `ReceiptMovements` one retry suffices for "an attempt given up is executed
  late"; more retries add more of the same. Two requests are the least that
  interact. Requests of one kind are interchangeable, and no liveness is checked
  with symmetry.
- `ServerLifecycle` keeps the order of the code's times: an attempt and a pause
  (2 + 1 for 5 + 1 seconds) are shorter than the stop (4 for 10), and that is shorter
  than a whole call (5 for 23). Requests meet at the stop only, which waits for all
  of them; one request with two calls shows every way of being cut off. The
  theorems are for any number of both.

The properties, in words:

- **HttpClient.** `ReturnMeansExecuted`: success is the answer to the last attempt,
  and that attempt was executed. `ExecutionsBounded`: only attempts that were made
  are executed, each once. `ErrorMeansExhausted`: no early rejection.
  `AttemptsConsistent`: the part that makes these inductive. `SettledIsFinal`: no
  request is sent and no result changes after a call has settled.
  `CallsProgress`: what a call does brings it nearer to its end, and what the network
  and the service do, however late, does not take it further away.
  `ImplementsOutboundCall`: refinement. `SettlesUnlessBodyStalls`: liveness.
- **ClientContext.** `CacheHoldsOwnNames`: an entry is the client's own name, at
  most a transit older than `fetchedAt` says. `ServedNamesAreFresh`: a request carries
  a name of its own client that was given up less than cache duration plus transit
  ago. `EntriesOnlyReplaced`: entries change only by an answer to their client; it is
  checked with two clients, one of which could write the other's. That a lookup ends
  is not assumed here and not claimed: it is a call of `HttpClient` like any other,
  which `SettlesUnlessBodyStalls` and `body_timeout` are about.
- **RequestLifecycle.** `ForwardedOnlyWhenAllowed`: no request reaches the backend that
  was refused on the way, and the message names its client. An organisation lookup that
  is answered with another error does let a request pass outside the beta routes, as in
  the code. `ForwardedReceiptHasOneOwner`: a receipt goes with exactly one of apiCode
  and organisation. `ActiveIsAttempted`, `OwnErrorsCounted`, `ReasonsMatchReply`: the
  counters against each other and against the reply. `ExpiryHeaderKept`: the header
  survives the rebuilding of a response. `CompletionNamesCaller`: on beta routes the
  "request completed" line names the caller of every authenticated request except one
  whose body Hapi refused. `BackendAnswerPassedOn`: what the backend answered is what
  the caller is told, after the whole `onPreResponse` chain. `Replied`: every request is
  answered.
- **ReceiptMovements.** `SuccessIsStored`: a success reported was executed, under
  the id that is reported. `OneMovementPerCreate`: the retried POST does not create
  two movements, for the id is drawn outside the retries; that a client which was
  told of a failure creates its movement again, under a new id, is not prevented by
  anything in the code and not part of the model. `LaterUpdateLasts`: an acknowledged
  later update is overwritten by an earlier one only if that one was retried. The
  condition is needed: without it TLC finds the late attempt. `ImplementsRegister`: the refinement above. It is checked
  with one create and one update; with two creates it holds too but takes TLC longer
  than a run should, and the theorem is for any number of both.
- **ServerLifecycle.** `CutOffExplained`: an exit leaves a request unanswered only
  if that has made another attempt since the signal, or waited for a body: ten
  seconds are enough for whatever attempt the signal met. `CallBounded`: the time a
  call spends on attempts and pauses, by its retries; with the code's numbers 23
  seconds, so that a stop does cut off calls. `StopEnds`: a signal ends the process.
  `AnsweredUnlessBodyStalls`: a request is answered whichever of its calls fail,
  unless the process ends or a body stalls.

Fairness. `HttpClient!FairSpec` has weak fairness of exactly the two timers the code
sets: Wreck's `timeout` ends the wait for headers, `setTimeout` ends the backoff.
Nothing is assumed of the body, of the network or of the service. `ClientContext` and
`ReceiptMovements` have no fairness and no liveness property. `request_lifecycle`
assumes that Hapi runs the next continuation and that the outbound calls settle, which
is `SettlesUnlessBodyStalls` and holds under its condition. `ServerLifecycle!FairSpec`
has weak fairness of `Runtime`: continuations, timers that are due and the passing of
time, which is what Node's event loop provides; nothing of the network or the
services. Deadlock checking is on for `ClientContext`, which never stops, and off
where requests, calls or the process come to an end.

Every property of a passing run has a mutant of the code in the module it is about
(operators marked "Mutant of"), which violates it.

## 4. What is proved

| Module | Theorem | Statement |
|---|---|---|
| `HttpClientProofs` | `TypeCorrect`, `Bounded`, `AnswersBelong`, `ReturnSound`, `ErrorSound` | the invariants of the run, any calls, any number of retries |
| | `SettledFinal`, `CallsEnd` | its action properties |
| | `Refinement` | `Spec => ImplementsOutboundCall` |
| `ClientContextProofs` | `TypeCorrect`, `CacheSound`, `ServedFresh` | the invariants, any requests, clients, names and durations |
| | `EntriesReplaced` | its action property |
| `RequestLifecycleProofs` | `TypeCorrect`, `RefusedNotForwarded`, `OneOwner`, `ActiveAttempts`, `OwnErrors`, `HeaderKept`, `CallerNamed`, `AnswerPassedOn`, `ReasonsTold` | the nine invariants of the run, any deployments, statuses and numbers of warnings or errors |
| `ReceiptMovementsProofs` | `TypeCorrect`, `SuccessStored`, `OneMovement`, `LaterLasts` | the invariants of both runs, any requests, any number of retries |
| | `CallsImplement`, `RegisterRefinement` | each outbound call implements `OutboundCall`, `Spec => ImplementsRegister` |
| `ServerLifecycleProofs` | `TypeCorrect`, `StopCutsNoAttempt`, `CallsArePaced` | the invariants of the run, any requests, calls, retries and times |
| | `CallsImplement` | each outbound call implements `OutboundCall` |

Every invariant, every action property and every refinement that a passing run checks
is proved. Assumptions on the constants:
`MaxRetries` is a natural number; `None` is neither a name nor a client; cache
duration, transit and clock bound are natural numbers; the backend's statuses are
from 200 to 599, and a body has a positive bound of errors (its bound exists only
for TLC: any will do); a request is not both a create and an update, and the id of
the movement that exists is not one that a create draws; the times of
`ServerLifecycle` are positive, and an attempt and a pause are shorter than the stop
(`StopOutlastsAttempt`, 5 + 1 < 10 in the code), which `CutOffExplained` needs. No
set is assumed to be finite.

*HttpClient.* The inductive invariant is `TypeOK /\ ExecutionsBounded /\
ErrorMeansExhausted /\ AttemptsConsistent`. `ReturnMeansExecuted` is not inductive:
when a body is read, the answer is known to be to the last attempt only because a
call that is `reading` has an answer to it, and the answer `ok` to mean execution
only because the service gave none otherwise; both are `AttemptsConsistent`. That
`retryCount` keeps its type across `Retry` needs its clause on `backoff`. The
refinement needs cardinalities: an execution adds one element to `applied` because
what is on the wire has not been executed, and `applied` is a subset of
`0 .. MaxRetries`, which bounds the effects. `CallsEnd` is the part of termination that
is safety: `Remaining`, at most three steps for each attempt left and those of the
current one, falls with each step of the call; that a retry does not raise it needs
`retryCount < MaxRetries` of a `backoff`, which is in the invariant.

*ClientContext.* The invariant is `TypeOK /\ CacheHoldsOwnNames /\
AnswersAreOwnNames /\ ServedNamesAreFresh`; the third, about answers on their way, is a
step of the proof only and stands in the proof module. The argument turns on `LastHeld`, the
last moment at which a client had a name, which never moves backwards (`HeldGrows`):
an answer is sent with a name held at that time (`AnswersAreOwnNames`), travels at
most `MaxTransit` (`TransitBounded`), so an entry is at most that much older than
`fetchedAt`, and `CachedRecently` adds less than the cache duration when it is
served. Nothing in it depends on the order in which answers arrive, which is why
an older answer may overwrite a newer one and freshness still holds.

*RequestLifecycle.* The invariant is `TypeOK /\ Passage /\ Forwarding /\ Answering /\
Counting /\ Logged`. `Passage` says what the stages before the current one have
established (a client, a lookup that lets the request pass, an apiCode) and what they
left on the request; `Forwarding`, that the message is the one this request asks for,
also after later steps; `Answering`, which kinds of response can be there before and
after the `onPreResponse` chain, and that each is made of the backend's answer or has
none; `Counting`, the exact value of every counter as a function of stage and
response. The properties are stated of requests that are done, or of what was sent;
none of them is inductive, for a step knows only the stage it starts from. What the
`onPreResponse` chain may change is the lemma `Rewriting`: the kind of a Boom error,
never the status of anything. The two properties that name the client rest on
`Credentialed`, proved with the invariant as its hypothesis: the store lacks the client's
id before `OnCredentials`, has that of `request.auth` after it, and at the end of a beta
request lacks it just when authentication failed or the response is the 400 or 415 of
the payload parser. That no other beta response has these statuses, unless it is the
backend's, is what makes the exception say no more than it should.

*ReceiptMovements.* The invariant adds to that of `HttpClient` (`Call!IInv`, kept by
the step lemma of `HttpClientProofs`, cited and not repeated): a target is drawn by
its own create, `writes` are under the target and contain what was executed
(`Targeted`, `Written`), and `Overwritten`: once the backend has executed a later
request, an earlier one whose call succeeded without a retry has nothing left on the
wire, so that it cannot be what is stored. The last is what `LaterUpdateLasts` needs
and does not say itself. `UpdatesKnown`, that updates go to known ids, is what the
register needs of them. Every other call of the composition stutters while one takes a
step (`CallStep`), so `Spec` implies the specification of the calls alone
(`SpecCalls`), and the refinement theorem of `HttpClientProofs` is used as it is. In
the refinement of `MovementRegister` `PostMovement` and `BeginUpdate` begin,
`StoreMovement` writes, and `Reply` and `NoTrackingId` reply; that a write is possible
only while fewer than `MaxRetries` + 1 were made is counting (`AttemptsCounted`), for
what is on the wire was not yet executed.

*ServerLifecycle.* No timer is overdue (`Timely`); a request with nothing noted since
the signal is at the attempt it was at then, or in the pause after it, so that the
stop is no older than these (`SameAttempt`); and a call has spent at most a timeout
and a pause per retry (`Paced`). With `StopOutlastsAttempt`, `SameAttempt` contradicts
an exit by timeout. Time, signals and the exit leave the variables of the calls alone,
which gives `SpecCalls` and `CallsImplement` as for the receipts.

Only model-checked: liveness (`SettlesUnlessBodyStalls`, `Replied`,
`StopEnds`, `AnsweredUnlessBodyStalls`), which is beyond this prover. Of the
first the safety half is proved: no call goes round in a circle (`CallsEnd`), so that
only waiting can keep it from its end. That waiting ends is fairness, and stays with TLC.
The two theorems `CallsImplement` have no run of their own: they follow from
`ImplementsOutboundCall`, which `http_client` checks, and from the composition.

## 5. Where code and comments disagree

Each is a run that TLC must find violated. The property is the statement of a
comment, a test or the README, quoted above its definition.

| Run | The code does | The text says |
|---|---|---|
| `body_timeout` | the body is read by the base Wreck and has no timeout | "5 seconds timeout", `http-client.js:10` |
| `attempted_metric` | a payload error, or a throw of the organisation lookup, skips the metric | "once per authenticated receipt-movement request", `request-metrics.js:8-9` |
| `proxied_status` | the line has 500 where the caller gets 502 or 504 | "logs one line with the error status", `proxyWasteMovementBackend.test.js:641` |
| `row_fallback` | a lookup answered without a body is a TypeError: 500 (on beta routes instead of 502) | "RoW routes still fall back", `add-submitting-organisation-to-request.js:125-127` |
| `tracking_id` | an error answer of `GET /next` posts to `/movements/undefined/receive` | "generate unique tracking IDs", src/README.md:34 |

One comment is loose rather than wrong: "Once authentication has completed, the
authenticated client id is stored" (`client-context.js:56-57`). It is stored by
`OnCredentials`, which Hapi runs after the payload parser, so a request whose body that
refuses ends without it; `CompletionNamesCaller` says so. The order is Hapi's, not that
of a line in the repository, and there is no run for it.

## 6. Abstractions, and what is left out

- **Data.** Bodies, names, codes and texts are model values or Booleans. What a
  property distinguishes is kept: whether an apiCode was found, what the lookup's
  payload contains, which statuses, whether a header has a date.
- **HTTP client.** Redirects are part of one attempt: Wreck follows up to three,
  and throws when that does not suffice, which is `RequestFails`. Any other status below
  400, such as 304, is an answer like a 200. Header construction and `maxBytes` are left
  out (the limit is not passed to the read of the body).
- **`MaxTransit` is an assumption.** No line bounds how long an answer travels; with
  a body that arrives after a day, a name a day older is served. The properties of
  `ClientContext` are relative to it, and `body_timeout` shows that nothing bounds it.
- **External.** The four services (from how `http-client.js`, the handlers and the
  plugins use them), the problem formatter and the validation warnings of
  `@defra/waste-movement-utils` (assumed not to throw), Hapi, Wreck, hapi-pino. That `onCredentials` runs after the
  parsing of the payload is Hapi's order.
- **Errors.** The branch of `handleErrorResponse` for a not-found error cannot be
  reached from what `http-client.js` throws, and is not an outcome of the model.
- **Time.** Only `ClientContext` and `ServerLifecycle` have a clock; seconds in the
  latter, in which continuations take no time.

Not modelled:

- `maskApiCode`, log formats and redaction, the texts of errors and metric reasons:
  formatting, and no property is about it.
- The rules of the shared Joi schema and the problem formatter: a library that is not
  in the repository. `Validate` chooses freely whether a body is valid.
- The tables of the reference data: constants, as are security headers and CORS.
- Configuration and secure context: values read once before the server starts.
- How the JWT strategy fetches the keys of the identity provider, and Hapi's own
  limits on reading a request: inside libraries, without code here that handles them.
- `index.js` sets the exit code on an unhandled rejection; no path in the code leaves
  a rejection unhandled, so there is no step to model.
- A client that was told of a failure and creates its movement again, under another id:
  there is no idempotency key in the code, so no promise to check.
- Beta movements at the backend's store. The proxy makes one call whose id the
  backend gives, so what can be said is what `HttpClient` says of any call: up to
  `maxRetries` + 1 effects (`ExecutionsBounded`, `OutboundCall`).

## 7. How the project grew, and what could follow

In order of weight: `HttpClient` with its abstract specification; `ClientContext`;
`RequestLifecycle`; `ReceiptMovements` composed with `HttpClient`; `ServerLifecycle`
composed with `HttpClient`; proofs of all invariants; the abstract specification of the
receipt endpoints, `MovementRegister`, with the proof that it is implemented.

What could follow:

1. `ServerLifecycle` composed with `ReceiptMovements`: a movement stored by a request
   that the stop cut off, and created again by its client under another id.
2. The derivation of the receipt schema from the shared one, once that library's
   source is beside this repository.
3. A bound on the time of a whole request, should the client get a timeout for the
   body: `CallBounded` and `AnsweredUnlessBodyStalls` together would give it.

## 8. Running

    tlc -config HttpClient.cfg HttpClient
    tlc -config ClientContext.cfg ClientContext
    tlc -config RequestLifecycle.cfg MCRequestLifecycle
    tlc -config ReceiptMovements_creates.cfg MCReceiptMovements
    tlc -config ReceiptMovements_updates.cfg MCReceiptMovements
    tlc -config ServerLifecycle.cfg ServerLifecycle
    tlapm HttpClientProofs.tla
    tlapm ClientContextProofs.tla
    tlapm RequestLifecycleProofs.tla
    tlapm ReceiptMovementsProofs.tla
    tlapm ServerLifecycleProofs.tla

`PROJECT.json` lists the runs, the mutants, the source lines each definition
translates, the hazards and the theorems.
