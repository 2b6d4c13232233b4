---------------------------- MODULE ClientContext ----------------------------
(***************************************************************************)
(* The client-name lookup of src/common/helpers/client-context.js: the     *)
(* onPostAuth extension that puts the caller's name in the request's own   *)
(* store, from a process-wide cache or from the software provider details  *)
(* service, and the cache it shares with every request in flight.          *)
(*                                                                         *)
(* A slot of Requests is one request being served; a slot that is done is  *)
(* reused, so any number of requests follow each other.  Between the check *)
(* of the cache and the store into it lies an await: requests of one       *)
(* client fetch at the same time, and their answers arrive in any order.   *)
(*                                                                         *)
(* Time is counted in ticks up to MaxTime.  MaxTransit bounds how long an  *)
(* answer travels, from the moment the service read the name to the moment *)
(* the await resumes.  The code does not bound it (Wreck.read, awaited in  *)
(* http-client.js, has no timeout): what is shown is relative to it.       *)
(***************************************************************************)
EXTENDS Integers

CONSTANTS
    Requests,       \* slots of requests in flight
    Clients,        \* client ids of access tokens
    Names,          \* client names
    None,           \* no client id, or no name
    CacheDuration,  \* clientNameCacheDuration
    MaxTransit,     \* bound on the time an answer travels
    MaxTime         \* bound on the clock

ASSUME NoneAssumption == None \notin Names \cup Clients
ASSUME TimeAssumption ==
    CacheDuration \in Nat /\ MaxTransit \in Nat /\ MaxTime \in Nat

Times == 0 .. MaxTime
Never == -1
MaybeName == Names \cup {None}

VARIABLES
    now,         \* Date.now()
    registered,  \* registered[c]: the name the service holds for client c
    givenUp,     \* givenUp[c][n]: when c last gave up name n, or Never (history)
    cache,       \* clientNameCache[c]: a name (None: no entry) and its fetchedAt
    req          \* req[r]: a request's stage, its client id, the answer on its
                 \* way to it, the clientName of its own store, and since when
                 \* it is at its stage

vars == <<now, registered, givenUp, cache, req>>

RequestStates == [stage : {"idle", "fetching", "answered", "done"},
                  client : Clients \cup {None},
                  answer : MaybeName,
                  clientName : MaybeName,
                  since : Times]

TypeOK ==
    /\ now \in Times
    /\ registered \in [Clients -> MaybeName]
    /\ givenUp \in [Clients -> [Names -> Times \cup {Never}]]
    /\ \A c \in Clients, n \in Names : givenUp[c][n] <= now
    /\ cache \in [Clients -> [name : MaybeName, fetchedAt : Times]]
    /\ req \in [Requests -> RequestStates]

Init ==
    /\ now = 0
    /\ registered \in [Clients -> MaybeName]
    /\ givenUp = [c \in Clients |-> [n \in Names |-> Never]]
    /\ cache = [c \in Clients |-> [name |-> None, fetchedAt |-> 0]]
    /\ req = [r \in Requests |-> [stage |-> "idle", client |-> None, answer |-> None,
                                 clientName |-> None, since |-> 0]]

-----------------------------------------------------------------------------
(* The onPostAuth extension *)

\* A request enters the extension in a free slot.
Free(r) == req[r].stage \in {"idle", "done"}

\* The request leaves the extension (h.continue) with name n in its store.
Continue(r, c, n) ==
    req' = [req EXCEPT ![r] = [stage |-> "done", client |-> c, answer |-> None,
                               clientName |-> n, since |-> now]]

\* Mutant of CachedRecently: an entry is used a moment too long.
CachedTooLong(c) ==
    /\ cache[c].name # None
    /\ now - cache[c].fetchedAt <= CacheDuration

\* cached && Date.now() - cached.fetchedAt < clientNameCacheDuration
CachedRecently(c) ==
    /\ cache[c].name # None
    /\ now - cache[c].fetchedAt < CacheDuration

\* A request without credentials (the health route) is not looked up.
NoClientId(r) ==
    /\ Free(r)
    /\ Continue(r, None, None)
    /\ UNCHANGED <<now, registered, givenUp, cache>>

ServeFromCache(r, c) ==
    /\ Free(r)
    /\ CachedRecently(c)
    /\ Continue(r, c, cache[c].name)
    /\ UNCHANGED <<now, registered, givenUp, cache>>

\* The request awaits GET /clients/{serviceName}/{clientId}.
StartFetch(r, c) ==
    /\ Free(r)
    /\ ~CachedRecently(c)
    /\ req' = [req EXCEPT ![r] = [stage |-> "fetching", client |-> c, answer |-> None,
                                  clientName |-> None, since |-> now]]
    /\ UNCHANGED <<now, registered, givenUp, cache>>

\* Mutants of CacheName: the entry is not kept per client, and the time kept is
\* that of the expiry.
CachesForAll(c, n) ==
    cache' = [d \in Clients |-> [name |-> n, fetchedAt |-> now]]
CachesWithExpiry(c, n) ==
    cache' = [cache EXCEPT ![c] = [name |-> n, fetchedAt |-> now + CacheDuration]]

\* clientNameCache.set(clientId, { clientName, fetchedAt: Date.now() }): the
\* time is that of the answer's arrival, and an entry is overwritten unseen.
CacheName(c, n) ==
    cache' = [cache EXCEPT ![c] = [name |-> n, fetchedAt |-> now]]

NameArrives(r) ==
    /\ req[r].stage = "answered"
    /\ req[r].answer # None
    /\ CacheName(req[r].client, req[r].answer)
    /\ Continue(r, req[r].client, req[r].answer)
    /\ UNCHANGED <<now, registered, givenUp>>

\* An answer without clientName is logged and not cached.
NoNameArrives(r) ==
    /\ req[r].stage = "answered"
    /\ req[r].answer = None
    /\ Continue(r, req[r].client, None)
    /\ UNCHANGED <<now, registered, givenUp, cache>>

\* The call throws: logged, not rethrown.  The request continues, and an
\* expired entry of the cache is not used in place of the answer.
FetchFails(r) ==
    /\ req[r].stage \in {"fetching", "answered"}
    /\ Continue(r, req[r].client, None)
    /\ UNCHANGED <<now, registered, givenUp, cache>>

-----------------------------------------------------------------------------
(* The software provider details service, and time *)

ServiceAnswers(r) ==
    /\ req[r].stage = "fetching"
    /\ req' = [req EXCEPT ![r] = [stage |-> "answered", client |-> req[r].client,
                                  answer |-> registered[req[r].client],
                                  clientName |-> None, since |-> now]]
    /\ UNCHANGED <<now, registered, givenUp, cache>>

\* A client gets, changes or loses its name.
Rename(c, n) ==
    /\ n # registered[c]
    /\ registered' = [registered EXCEPT ![c] = n]
    /\ givenUp' = IF registered[c] = None THEN givenUp
                  ELSE [givenUp EXCEPT ![c][registered[c]] = now]
    /\ UNCHANGED <<now, cache, req>>

Tick ==
    /\ now < MaxTime
    /\ \A r \in Requests :
           req[r].stage = "answered" => now - req[r].since < MaxTransit
    /\ now' = now + 1
    /\ UNCHANGED <<registered, givenUp, cache, req>>

Lookup(r) ==
    \/ NoClientId(r)
    \/ \E c \in Clients : ServeFromCache(r, c) \/ StartFetch(r, c)
    \/ NameArrives(r)
    \/ NoNameArrives(r)
    \/ FetchFails(r)

Next ==
    \/ \E r \in Requests : Lookup(r) \/ ServiceAnswers(r)
    \/ \E c \in Clients, n \in MaybeName : Rename(c, n)
    \/ Tick

Spec == Init /\ [][Next]_vars

-----------------------------------------------------------------------------
(* Properties *)

\* The last moment at which client c had name n, so far.
LastHeld(c, n) == IF registered[c] = n THEN now ELSE givenUp[c][n]

\* A name cached for a client is a name that client itself has had, and had no
\* more than MaxTransit before the fetchedAt it is cached under.  Overlapping
\* fetches may replace a newer name by an older one, but never by one older
\* than that.
CacheHoldsOwnNames ==
    \A c \in Clients :
        /\ cache[c].fetchedAt <= now
        /\ cache[c].name # None =>
            /\ LastHeld(c, cache[c].name) # Never
            /\ cache[c].fetchedAt <= LastHeld(c, cache[c].name) + MaxTransit

\* A request that continues with a name continues with one of its own client's,
\* given up no longer ago than an answer travels or, out of the cache, less than
\* the cache duration longer: a movement or log line that carries a client name
\* is out of date by less than that.
ServedNamesAreFresh ==
    \A r \in Requests : req[r].clientName # None =>
        LET held == LastHeld(req[r].client, req[r].clientName)
        IN  /\ req[r].client # None
            /\ held # Never
            /\ \/ req[r].since <= held + MaxTransit
               \/ req[r].since < held + MaxTransit + CacheDuration

\* The cache keeps what it has learnt: an entry is only ever replaced by an
\* answer that arrived no earlier, by a request of that client.
EntriesOnlyReplaced ==
    [][\A c \in Clients : cache'[c] # cache[c] =>
            /\ cache'[c].name # None
            /\ cache'[c].fetchedAt >= cache[c].fetchedAt
            /\ \E r \in Requests : req[r].stage = "answered" /\ req[r].client = c
                                    /\ req'[r].clientName = cache'[c].name]_vars
=============================================================================
