------------------------- MODULE ClientContextProofs -------------------------
(***************************************************************************)
(* Proofs about ClientContext, for any sets of requests, clients and       *)
(* names, any cache duration and any bound on the time an answer travels.  *)
(***************************************************************************)
EXTENDS ClientContext, TLAPS

\* What the answers under way carry: a name that its client had when it was sent.
AnswersAreOwnNames ==
    \A r \in Requests :
        /\ req[r].stage \in {"fetching", "answered"} => req[r].client \in Clients
        /\ req[r].stage = "answered" =>
            /\ now - req[r].since \in 0 .. MaxTransit
            /\ req[r].answer # None =>
                   /\ LastHeld(req[r].client, req[r].answer) # Never
                   /\ req[r].since <= LastHeld(req[r].client, req[r].answer)

\* The inductive invariant.  That served names are fresh rests on what the cache
\* holds, and that on what the answers under way carry.
IInv ==
    TypeOK /\ CacheHoldsOwnNames /\ AnswersAreOwnNames /\ ServedNamesAreFresh

\* At start no name is cached, no answer is under way and no name was served.
LEMMA InitIInv == Init => IInv
  BY NoneAssumption, TimeAssumption
     DEF Init, RequestStates, IInv, TypeOK, Times, Never, MaybeName, LastHeld,
         CacheHoldsOwnNames, AnswersAreOwnNames, ServedNamesAreFresh

\* The type invariant does not depend on the others, except that a request
\* which fetches does so for a client.
LEMMA NextTypeOK == TypeOK /\ AnswersAreOwnNames /\ [Next]_vars => TypeOK'
<1> SUFFICES ASSUME TypeOK, AnswersAreOwnNames, [Next]_vars
             PROVE  TypeOK'
  OBVIOUS
<1>1. ASSUME NEW r \in Requests, NEW s \in RequestStates, req' = [req EXCEPT ![r] = s]
      PROVE  req' \in [Requests -> RequestStates]
  BY <1>1 DEF TypeOK
<1>2. None \in MaybeName /\ None \in Clients \cup {None} /\ now \in Times
  BY DEF MaybeName, TypeOK
<1>3. ASSUME NEW r \in Requests, NEW c \in Clients \cup {None}, NEW n \in MaybeName,
             Continue(r, c, n)
      PROVE  req' \in [Requests -> RequestStates]
  BY <1>1, <1>2, <1>3 DEF Continue, RequestStates
<1>4. ASSUME NEW r \in Requests, NoClientId(r)
      PROVE  TypeOK'
  BY <1>2, <1>3, <1>4 DEF NoClientId, TypeOK
<1>5. ASSUME NEW r \in Requests, NEW c \in Clients, ServeFromCache(r, c)
      PROVE  TypeOK'
  BY <1>3, <1>5 DEF ServeFromCache, TypeOK
<1>6. ASSUME NEW r \in Requests, NEW c \in Clients, StartFetch(r, c)
      PROVE  TypeOK'
  BY <1>1, <1>2, <1>6 DEF StartFetch, TypeOK, RequestStates
<1>7. ASSUME NEW r \in Requests, req[r].stage \in {"fetching", "answered"}
      PROVE  req[r].client \in Clients /\ req[r].answer \in MaybeName
  BY <1>7 DEF AnswersAreOwnNames, TypeOK, RequestStates
<1>8. ASSUME NEW r \in Requests, NameArrives(r)
      PROVE  TypeOK'
  <2>1. cache' \in [Clients -> [name : MaybeName, fetchedAt : Times]]
    BY <1>2, <1>7, <1>8 DEF NameArrives, CacheName, TypeOK
  <2> QED
    BY <1>3, <1>7, <1>8, <2>1 DEF NameArrives, TypeOK
<1>9. ASSUME NEW r \in Requests, NoNameArrives(r) \/ FetchFails(r)
      PROVE  TypeOK'
  BY <1>2, <1>3, <1>7, <1>9 DEF NoNameArrives, FetchFails, TypeOK
<1>10. ASSUME NEW r \in Requests, ServiceAnswers(r)
       PROVE  TypeOK'
  <2>1. registered[req[r].client] \in MaybeName
    BY <1>7, <1>10 DEF ServiceAnswers, TypeOK
  <2> QED
    BY <1>1, <1>2, <1>7, <1>10, <2>1 DEF ServiceAnswers, TypeOK, RequestStates
<1>11. ASSUME NEW c \in Clients, NEW n \in MaybeName, Rename(c, n)
       PROVE  TypeOK'
  <2>1. /\ givenUp' \in [Clients -> [Names -> Times \cup {Never}]]
        /\ \A d \in Clients, m \in Names : givenUp'[d][m] \in {givenUp[d][m], now}
    <3>1. CASE registered[c] = None
      BY <1>11, <3>1 DEF Rename, TypeOK
    <3>2. CASE registered[c] # None
      <4>1. registered[c] \in Names /\ givenUp[c] \in [Names -> Times \cup {Never}]
        BY <3>2 DEF TypeOK, MaybeName
      <4>2. givenUp' = [givenUp EXCEPT ![c] = [givenUp[c] EXCEPT ![registered[c]] = now]]
        BY <1>11, <3>2 DEF Rename
      <4> QED
        BY <1>2, <4>1, <4>2 DEF TypeOK
    <3> QED
      BY <3>1, <3>2
  <2>2. ASSUME NEW d \in Clients, NEW m \in Names
        PROVE  givenUp'[d][m] <= now
    <3>1. givenUp[d][m] <= now /\ now <= now
      BY <1>2 DEF TypeOK, Times
    <3>2. givenUp'[d][m] \in {givenUp[d][m], now}
      BY <2>1
    <3> QED
      BY <3>1, <3>2
  <2> QED
    BY <1>11, <2>1, <2>2 DEF Rename, TypeOK
<1>12. CASE Tick
  <2>1. now' \in Times /\ \A c \in Clients, n \in Names : givenUp[c][n] <= now'
    BY <1>12, TimeAssumption DEF Tick, TypeOK, Times, Never
  <2> QED
    BY <1>12, <2>1 DEF Tick, TypeOK
<1>13. CASE UNCHANGED vars
  BY <1>13 DEF vars, TypeOK
<1> QED
  BY <1>4, <1>5, <1>6, <1>8, <1>9, <1>10, <1>11, <1>12, <1>13 DEF Next, Lookup

\* Only Rename changes what a client is called, only Tick the time.
LEMMA OthersKeepNames ==
  ASSUME TypeOK, [Next]_vars
  PROVE  /\ now \in Nat /\ now' \in Nat /\ now <= now'
         /\ \/ \E c \in Clients, n \in MaybeName : Rename(c, n)
            \/ registered' = registered /\ givenUp' = givenUp
<1>1. now \in Nat
  BY TimeAssumption DEF TypeOK, Times
<1>2. \/ now' = now
      \/ now' = now + 1
  BY DEF Next, Lookup, NoClientId, ServeFromCache, StartFetch, NameArrives,
         NoNameArrives, FetchFails, ServiceAnswers, Rename, Tick, vars
<1>3. \/ \E c \in Clients, n \in MaybeName : Rename(c, n)
      \/ registered' = registered /\ givenUp' = givenUp
  BY DEF Next, Lookup, NoClientId, ServeFromCache, StartFetch, NameArrives,
         NoNameArrives, FetchFails, ServiceAnswers, Tick, vars
<1> QED
  BY <1>1, <1>2, <1>3

\* The last moment at which a client had a name only moves forward.
LEMMA HeldGrows ==
  ASSUME TypeOK, [Next]_vars, NEW c \in Clients, NEW n \in Names,
         LastHeld(c, n) # Never
  PROVE  /\ LastHeld(c, n)' # Never
         /\ LastHeld(c, n) \in Nat /\ LastHeld(c, n)' \in Nat
         /\ LastHeld(c, n) <= LastHeld(c, n)'
<1>1. /\ now \in Nat /\ now' \in Nat /\ now <= now'
      /\ LastHeld(c, n) \in Nat /\ LastHeld(c, n) <= now
  BY OthersKeepNames, TimeAssumption DEF TypeOK, Times, Never, LastHeld
<1>2. LastHeld(c, n)' \in {LastHeld(c, n), now, now'}
  <2>1. CASE registered' = registered /\ givenUp' = givenUp
    BY <2>1 DEF LastHeld
  <2>2. ASSUME NEW d \in Clients, NEW m \in MaybeName, Rename(d, m)
        PROVE  LastHeld(c, n)' \in {LastHeld(c, n), now, now'}
    <3>1. CASE registered'[c] = n
      BY <3>1 DEF LastHeld
    <3>2. CASE registered'[c] # n /\ registered[c] = n
      <4>1. c = d /\ n # None
        BY <2>2, <3>2, NoneAssumption DEF Rename, TypeOK
      <4>2. givenUp'[c][n] = now
        BY <2>2, <3>2, <4>1 DEF Rename, TypeOK
      <4> QED
        BY <3>2, <4>2 DEF LastHeld
    <3>3. CASE registered'[c] # n /\ registered[c] # n
      <4>1. givenUp'[c][n] = givenUp[c][n]
        BY <2>2, <3>3 DEF Rename, TypeOK
      <4> QED
        BY <3>3, <4>1 DEF LastHeld
    <3> QED
      BY <3>1, <3>2, <3>3
  <2> QED
    BY <2>1, <2>2, OthersKeepNames
<1> QED
  BY <1>1, <1>2 DEF Never

\* The cache is written by an arriving name only.
LEMMA CacheWritten ==
  ASSUME [Next]_vars, cache' # cache
  PROVE  \E r \in Requests : NameArrives(r)
  BY DEF Next, Lookup, NoClientId, ServeFromCache, StartFetch, NoNameArrives,
         FetchFails, ServiceAnswers, Rename, Tick, vars

\* The one writer of the cache, an arriving name, stores an answer of its own
\* client that has travelled at most MaxTransit.
LEMMA NextCache == IInv /\ [Next]_vars => CacheHoldsOwnNames'
<1> SUFFICES ASSUME IInv, [Next]_vars
             PROVE  CacheHoldsOwnNames'
  OBVIOUS
<1>1. now \in Nat /\ now' \in Nat /\ now <= now'
  BY OthersKeepNames DEF IInv
<1>2. ASSUME NEW c \in Clients, NEW n \in Names, cache'[c].name = n
      PROVE  /\ LastHeld(c, n)' # Never
             /\ cache'[c].fetchedAt <= LastHeld(c, n)' + MaxTransit
  <2>1. CASE cache'[c] = cache[c]
    <3>1. /\ cache[c].name = n /\ cache[c].fetchedAt \in Nat
          /\ LastHeld(c, n) # Never
          /\ cache[c].fetchedAt <= LastHeld(c, n) + MaxTransit
      BY <1>2, <2>1, NoneAssumption, TimeAssumption
         DEF IInv, TypeOK, Times, CacheHoldsOwnNames
    <3> QED
      BY <1>1, <2>1, <3>1, HeldGrows, TimeAssumption DEF IInv
  <2>2. CASE cache'[c] # cache[c]
    <3>1. PICK r \in Requests : NameArrives(r)
      BY <2>2, CacheWritten
    <3>2. c = req[r].client /\ n = req[r].answer /\ cache'[c].fetchedAt = now
      BY <1>2, <2>2, <3>1 DEF NameArrives, CacheName, IInv, TypeOK
    <3>3. /\ LastHeld(c, n) # Never
          /\ now - req[r].since \in 0 .. MaxTransit
          /\ req[r].since <= LastHeld(c, n)
          /\ req[r].since \in Nat
      BY <3>1, <3>2, NoneAssumption, TimeAssumption
         DEF NameArrives, IInv, TypeOK, RequestStates, AnswersAreOwnNames, Times
    <3> QED
      BY <1>1, <3>2, <3>3, HeldGrows, TimeAssumption DEF IInv
  <2> QED
    BY <2>1, <2>2
<1>3. TypeOK'
  BY NextTypeOK DEF IInv
<1>4. ASSUME NEW c \in Clients
      PROVE  cache'[c].fetchedAt <= now'
  <2>1. cache[c].fetchedAt <= now /\ cache[c].fetchedAt \in Nat
    BY TimeAssumption DEF IInv, TypeOK, Times, CacheHoldsOwnNames
  <2>2. cache'[c].fetchedAt \in {cache[c].fetchedAt, now}
    <3>1. ASSUME NEW r \in Requests, NameArrives(r)
          PROVE  cache'[c].fetchedAt \in {cache[c].fetchedAt, now}
      BY <3>1 DEF NameArrives, CacheName, IInv, TypeOK
    <3> QED
      BY <3>1, CacheWritten
  <2> QED
    BY <1>1, <2>1, <2>2
<1> QED
  BY <1>2, <1>3, <1>4 DEF CacheHoldsOwnNames, TypeOK, MaybeName

\* What a step can do to a request: let it start a fetch or continue without a
\* name, answer it with its client's current name, or let it continue with a
\* cached name or with the name it was answered.
RequestStep(r) ==
    /\ registered' = registered /\ givenUp' = givenUp /\ now' = now
    /\ req'[r].since = now
    /\ \/ /\ req'[r].stage \in {"fetching", "done"}
          /\ req'[r].clientName = None
          /\ req'[r].stage = "fetching" => req'[r].client \in Clients
       \/ /\ req'[r].stage = "answered" /\ req'[r].client \in Clients
          /\ req'[r].answer = registered[req'[r].client]
          /\ req'[r].clientName = None
       \/ /\ req'[r].stage = "done" /\ req'[r].client \in Clients
          /\ req'[r].clientName = cache[req'[r].client].name
          /\ CachedRecently(req'[r].client)
       \/ /\ req'[r].stage = "done" /\ req[r].stage = "answered"
          /\ req'[r].client = req[r].client
          /\ req'[r].clientName = req[r].answer /\ req[r].answer # None

\* What a step does to a request: nothing, or one of the steps of a lookup.
LEMMA RequestSteps ==
  ASSUME TypeOK, AnswersAreOwnNames, [Next]_vars, NEW r \in Requests, req'[r] # req[r]
  PROVE  RequestStep(r)
<1>1. Lookup(r) \/ ServiceAnswers(r)
  BY DEF TypeOK, Next, Lookup, NoClientId, ServeFromCache, StartFetch, NameArrives,
         NoNameArrives, FetchFails, Continue, ServiceAnswers, Rename, Tick, vars
<1>2. CASE NoClientId(r) \/ NoNameArrives(r) \/ FetchFails(r)
  BY <1>2 DEF NoClientId, NoNameArrives, FetchFails, Continue, TypeOK, RequestStep
<1>3. ASSUME NEW c \in Clients, ServeFromCache(r, c)
      PROVE  RequestStep(r)
  BY <1>3 DEF ServeFromCache, Continue, TypeOK, RequestStep
<1>4. ASSUME NEW c \in Clients, StartFetch(r, c)
      PROVE  RequestStep(r)
  BY <1>4 DEF StartFetch, TypeOK, RequestStep
<1>5. CASE NameArrives(r)
  BY <1>5 DEF NameArrives, Continue, TypeOK, RequestStep
<1>6. CASE ServiceAnswers(r)
  BY <1>6 DEF ServiceAnswers, TypeOK, AnswersAreOwnNames, RequestStep
<1> QED
  BY <1>1, <1>2, <1>3, <1>4, <1>5, <1>6 DEF Lookup

\* An answer under way travels no longer than MaxTransit.
LEMMA TransitBounded ==
  ASSUME TypeOK, AnswersAreOwnNames, [Next]_vars, NEW r \in Requests,
         req'[r] = req[r], req[r].stage = "answered"
  PROVE  now' - req[r].since \in 0 .. MaxTransit
<1>1. now - req[r].since \in 0 .. MaxTransit /\ req[r].since \in Nat /\ now \in Nat
  BY TimeAssumption DEF TypeOK, AnswersAreOwnNames, RequestStates, Times
<1>2. CASE now' = now
  BY <1>1, <1>2
<1>3. CASE Tick
  BY <1>1, <1>3, TimeAssumption DEF Tick
<1> QED
  BY <1>2, <1>3 DEF Next, Lookup, NoClientId, ServeFromCache, StartFetch, NameArrives,
         NoNameArrives, FetchFails, ServiceAnswers, Rename, vars

\* An answer is sent with the name its client has, and its client has had it
\* for good: a later change of name only moves the end of it.
LEMMA NextAnswers == IInv /\ [Next]_vars => AnswersAreOwnNames'
<1> SUFFICES ASSUME IInv, [Next]_vars
             PROVE  AnswersAreOwnNames'
  OBVIOUS
<1>1. now \in Nat /\ now' \in Nat /\ now <= now'
  BY OthersKeepNames DEF IInv
<1>2. TypeOK'
  BY NextTypeOK DEF IInv
<1>3. ASSUME NEW r \in Requests, req'[r].stage \in {"fetching", "answered"}
      PROVE  req'[r].client \in Clients
  BY <1>3, RequestSteps DEF IInv, AnswersAreOwnNames, RequestStep
<1>4. ASSUME NEW r \in Requests, req'[r].stage = "answered"
      PROVE  now' - req'[r].since \in 0 .. MaxTransit
  <2>1. CASE req'[r] = req[r]
    BY <1>4, <2>1, TransitBounded DEF IInv
  <2>2. CASE req'[r] # req[r]
    BY <1>1, <2>2, RequestSteps, TimeAssumption DEF IInv, RequestStep
  <2> QED
    BY <2>1, <2>2
<1>5. ASSUME NEW r \in Requests, req'[r].stage = "answered",
             NEW c \in Clients, req'[r].client = c,
             NEW n \in Names, req'[r].answer = n
      PROVE  LastHeld(c, n)' # Never /\ req'[r].since <= LastHeld(c, n)'
  <2>1. CASE req'[r] = req[r]
    <3>1. /\ LastHeld(c, n) # Never /\ req[r].since <= LastHeld(c, n)
          /\ req[r].since \in Nat
      BY <1>5, <2>1, NoneAssumption, TimeAssumption
         DEF IInv, TypeOK, RequestStates, AnswersAreOwnNames, Times
    <3> QED
      BY <2>1, <3>1, HeldGrows DEF IInv
  <2>2. CASE req'[r] # req[r]
    <3>1. req'[r].since = now /\ registered'[c] = n /\ now' = now
      BY <1>5, <2>2, RequestSteps DEF IInv, RequestStep
    <3> QED
      BY <1>1, <3>1 DEF LastHeld, Never
  <2> QED
    BY <2>1, <2>2
<1>6. \A r \in Requests : req'[r].answer \in Names \cup {None}
  BY <1>2 DEF TypeOK, RequestStates, MaybeName
<1> QED
  BY <1>3, <1>4, <1>5, <1>6 DEF AnswersAreOwnNames

\* A name is served out of the cache or out of an answer; either says how old it
\* can be.
LEMMA NextServed == IInv /\ [Next]_vars => ServedNamesAreFresh'
<1> SUFFICES ASSUME IInv, [Next]_vars
             PROVE  ServedNamesAreFresh'
  OBVIOUS
<1>1. now \in Nat /\ now' \in Nat /\ now <= now'
  BY OthersKeepNames DEF IInv
<1>2. ASSUME NEW r \in Requests, NEW n \in Names, req'[r].clientName = n
      PROVE  req'[r].client \in Clients
  BY <1>2, NoneAssumption, RequestSteps
     DEF IInv, TypeOK, RequestStates, ServedNamesAreFresh, AnswersAreOwnNames, RequestStep
<1>3. ASSUME NEW r \in Requests, NEW c \in Clients, req'[r].client = c,
             NEW n \in Names, req'[r].clientName = n
      PROVE  /\ LastHeld(c, n)' # Never
             /\ \/ req'[r].since <= LastHeld(c, n)' + MaxTransit
                \/ req'[r].since < LastHeld(c, n)' + MaxTransit + CacheDuration
  <2>1. CASE req'[r] = req[r]
    <3>1. req[r].client = c /\ req[r].clientName = n /\ n # None
      BY <1>3, <2>1, NoneAssumption
    <3>2. req[r].since \in Nat
      BY DEF IInv, TypeOK, RequestStates, Times
    <3>3. /\ LastHeld(c, n) # Never
          /\ \/ req[r].since <= LastHeld(c, n) + MaxTransit
             \/ req[r].since < LastHeld(c, n) + MaxTransit + CacheDuration
      BY <3>1 DEF IInv, ServedNamesAreFresh
    <3> QED
      BY <2>1, <3>2, <3>3, HeldGrows, TimeAssumption DEF IInv
  <2>2. CASE /\ req'[r] # req[r]
             /\ req[r].stage = "answered" /\ req[r].client = c /\ req[r].answer = n
    <3>1. /\ LastHeld(c, n) # Never
          /\ now - req[r].since \in 0 .. MaxTransit
          /\ req[r].since <= LastHeld(c, n) /\ req[r].since \in Nat
      BY <2>2, NoneAssumption, TimeAssumption
         DEF IInv, TypeOK, RequestStates, AnswersAreOwnNames, Times
    <3>2. req'[r].since = now
      BY <2>2, RequestSteps DEF IInv, RequestStep
    <3> QED
      BY <1>1, <3>1, <3>2, HeldGrows, TimeAssumption DEF IInv
  <2>3. CASE req'[r] # req[r] /\ cache[c].name = n /\ CachedRecently(c)
    <3>1. /\ LastHeld(c, n) # Never
          /\ cache[c].fetchedAt <= LastHeld(c, n) + MaxTransit
          /\ cache[c].fetchedAt \in Nat
      BY <2>3, TimeAssumption DEF IInv, TypeOK, CacheHoldsOwnNames, CachedRecently, Times
    <3>2. now < cache[c].fetchedAt + CacheDuration
      BY <1>1, <2>3, <3>1, TimeAssumption DEF CachedRecently
    <3>3. req'[r].since = now
      BY <2>3, RequestSteps DEF IInv, RequestStep
    <3> QED
      BY <1>1, <3>1, <3>2, <3>3, HeldGrows, TimeAssumption DEF IInv
  <2> QED
    BY <1>3, <2>1, <2>2, <2>3, RequestSteps, NoneAssumption DEF IInv, RequestStep
<1>4. TypeOK'
  BY NextTypeOK DEF IInv
<1>5. \A r \in Requests : req'[r].clientName \in Names \cup {None}
  BY <1>4 DEF TypeOK, RequestStates, MaybeName
<1> QED
  BY <1>2, <1>3, <1>5, NoneAssumption DEF ServedNamesAreFresh

\* The inductive invariant holds in every state.
LEMMA SpecIInv == Spec => []IInv
<1>1. IInv /\ [Next]_vars => IInv'
  BY NextTypeOK, NextCache, NextAnswers, NextServed DEF IInv
<1> QED
  BY InitIInv, <1>1, PTL DEF Spec

-----------------------------------------------------------------------------
(* The theorems *)

\* Every variable keeps its type, and a name is given up only in the past.
THEOREM TypeCorrect == Spec => []TypeOK
  BY SpecIInv, PTL DEF IInv

\* What is cached for a client is its own name, and was current no more than
\* MaxTransit before fetchedAt, however fetches overlap.
THEOREM CacheSound == Spec => []CacheHoldsOwnNames
  BY SpecIInv, PTL DEF IInv

\* No request carries another client's name, or one that its client had given
\* up for as long as the cache duration and the travel of an answer together.
THEOREM ServedFresh == Spec => []ServedNamesAreFresh
  BY SpecIInv, PTL DEF IInv

\* An entry of the cache is only replaced by a later answer to its own client.
THEOREM EntriesReplaced == Spec => EntriesOnlyReplaced
<1>1. IInv /\ [Next]_vars =>
        [\A c \in Clients : cache'[c] # cache[c] =>
            /\ cache'[c].name # None
            /\ cache'[c].fetchedAt >= cache[c].fetchedAt
            /\ \E r \in Requests : req[r].stage = "answered" /\ req[r].client = c
                                    /\ req'[r].clientName = cache'[c].name]_vars
  <2> SUFFICES ASSUME IInv, [Next]_vars, NEW c \in Clients, cache'[c] # cache[c]
               PROVE  /\ cache'[c].name # None
                      /\ cache'[c].fetchedAt >= cache[c].fetchedAt
                      /\ \E r \in Requests :
                            /\ req[r].stage = "answered" /\ req[r].client = c
                            /\ req'[r].clientName = cache'[c].name
    OBVIOUS
  <2>1. PICK r \in Requests : NameArrives(r)
    BY CacheWritten
  <2>2. /\ c = req[r].client /\ req[r].stage = "answered" /\ req[r].answer # None
        /\ cache'[c] = [name |-> req[r].answer, fetchedAt |-> now]
        /\ req'[r].clientName = req[r].answer
    BY <2>1 DEF NameArrives, CacheName, Continue, IInv, TypeOK
  <2>3. now \in Nat /\ cache[c].fetchedAt \in Nat /\ now >= cache[c].fetchedAt
    <3>1. now \in Nat /\ cache[c].fetchedAt \in Nat
      BY TimeAssumption DEF IInv, TypeOK, Times
    <3> QED
      BY <3>1 DEF IInv, CacheHoldsOwnNames
  <2> QED
    BY <2>2, <2>3
<1> QED
  BY <1>1, SpecIInv, PTL DEF Spec, EntriesOnlyReplaced
=============================================================================
