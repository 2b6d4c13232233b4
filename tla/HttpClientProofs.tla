--------------------------- MODULE HttpClientProofs ---------------------------
(***************************************************************************)
(* Proofs about HttpClient, for any set of calls and any number of         *)
(* retries: the invariants its run checks, the two action properties, and  *)
(* that a call with its retries implements OutboundCall.                   *)
(***************************************************************************)
EXTENDS HttpClient, FiniteSetTheorems, TLAPS

\* The inductive invariant.  ExecutionsBounded is not inductive by itself: that
\* a retry is a new attempt needs that retryCount bounds what was sent, and that
\* it stays below MaxRetries needs what AttemptsConsistent says of "backoff".
IInv == TypeOK /\ ExecutionsBounded /\ ErrorMeansExhausted /\ AttemptsConsistent

\* At start no call has an attempt.
LEMMA InitIInv == Init => IInv
  BY MaxRetriesAssumption
     DEF Init, IInv, TypeOK, ExecutionsBounded, ErrorMeansExhausted,
         AttemptsConsistent, Attempts, Phases, InFlight, Results

\* Every step of the caller, the network and the backend preserves it.
LEMMA NextIInv == IInv /\ [Next]_vars => IInv'
<1> USE MaxRetriesAssumption
        DEF IInv, TypeOK, ExecutionsBounded, ErrorMeansExhausted,
            AttemptsConsistent, Attempts, Phases, InFlight, Results
<1> SUFFICES ASSUME IInv, [Next]_vars
             PROVE  IInv'
  OBVIOUS
<1>1. ASSUME NEW c \in Calls, Start(c)
      PROVE  IInv'
  BY <1>1 DEF Start
<1>2. ASSUME NEW c \in Calls, ResponseArrives(c)
      PROVE  IInv'
  BY <1>2 DEF ResponseArrives
<1>3. ASSUME NEW c \in Calls, RequestFails(c)
      PROVE  IInv'
  BY <1>3 DEF RequestFails, AfterFailure
<1>4. ASSUME NEW c \in Calls, BodyRead(c)
      PROVE  IInv'
  BY <1>4 DEF BodyRead
<1>5. ASSUME NEW c \in Calls, ReadFails(c)
      PROVE  IInv'
  BY <1>5 DEF ReadFails, AfterFailure
<1>6. ASSUME NEW c \in Calls, Retry(c)
      PROVE  IInv'
  BY <1>6 DEF Retry
<1>7. ASSUME NEW c \in Calls, NEW a \in Attempts, TransmissionLost(c, a)
      PROVE  IInv'
  BY <1>7 DEF TransmissionLost
<1>8. ASSUME NEW c \in Calls, NEW a \in Attempts,
             NEW answer \in {"ok", "refused"}, BackendExecutes(c, a, answer)
      PROVE  IInv'
  BY <1>8 DEF BackendExecutes
<1>9. ASSUME NEW c \in Calls, NEW a \in Attempts, BackendRefuses(c, a)
      PROVE  IInv'
  BY <1>9 DEF BackendRefuses
<1>10. CASE UNCHANGED vars
  BY <1>10 DEF vars
<1> HIDE DEF IInv
<1> QED
  BY <1>1, <1>2, <1>3, <1>4, <1>5, <1>6, <1>7, <1>8, <1>9, <1>10
     DEF Next, Caller, Backend

\* The inductive invariant holds in every state.
LEMMA SpecIInv == Spec => []IInv
  BY InitIInv, NextIInv, PTL DEF Spec

-----------------------------------------------------------------------------
(* The invariants and action properties of the run *)

\* Every variable keeps its type for any number of calls and retries.
THEOREM TypeCorrect == Spec => []TypeOK
  BY SpecIInv, PTL DEF IInv

\* The backend executes an attempt at most once and only after it was made.
THEOREM Bounded == Spec => []ExecutionsBounded
  BY SpecIInv, PTL DEF IInv

\* An answer belongs to an attempt that was made, one of success to one that was
\* executed; only a call with attempts left backs off.
THEOREM AnswersBelong == Spec => []AttemptsConsistent
  BY SpecIInv, PTL DEF IInv

\* A call that resolves with success was executed by its last attempt.
THEOREM ReturnSound == Spec => []ReturnMeansExecuted
<1>1. IInv => ReturnMeansExecuted
  BY DEF IInv, TypeOK, AttemptsConsistent, ReturnMeansExecuted
<1> QED
  BY <1>1, SpecIInv, PTL

\* A call that rejects has used all its attempts.
THEOREM ErrorSound == Spec => []ErrorMeansExhausted
  BY SpecIInv, PTL DEF IInv

\* Once settled, a call neither sends again nor changes its result.
THEOREM SettledFinal == Spec => SettledIsFinal
<1>1. IInv /\ [Next]_vars =>
        [\A c \in Calls : Settled(c) =>
            /\ phase'[c] = phase[c]
            /\ retryCount'[c] = retryCount[c]
            /\ wire'[c] \subseteq wire[c]]_vars
  BY DEF IInv, TypeOK, Settled, Results, Next, Caller, Backend, Start,
         ResponseArrives, RequestFails, BodyRead, ReadFails, Retry,
         TransmissionLost, BackendExecutes, BackendRefuses, vars
<1> QED
  BY <1>1, SpecIInv, PTL DEF Spec, SettledIsFinal

\* What a call has left shrinks with every step of its own.
LEMMA RemainingShrinks ==
  ASSUME IInv, [Next]_vars, NEW c \in Calls
  PROVE  /\ Remaining(c)' <= Remaining(c)
         /\ phase'[c] # phase[c] => Remaining(c)' < Remaining(c)
<1>1. /\ phase[c] \in Phases /\ phase'[c] \in Phases
      /\ retryCount[c] \in 0 .. MaxRetries /\ retryCount'[c] \in 0 .. MaxRetries
  <2>1. TypeOK /\ TypeOK'
    BY MaxRetriesAssumption, NextIInv DEF IInv
  <2> QED
    BY <2>1 DEF TypeOK, Attempts
<1>2. ASSUME phase'[c] = phase[c], retryCount'[c] = retryCount[c]
      PROVE  Remaining(c)' = Remaining(c)
  BY <1>2 DEF Remaining, Settled
<1>3. Remaining(c) \in Int
  BY <1>1, MaxRetriesAssumption
     DEF Remaining, Settled, Phases, InFlight, Results
<1>4. CASE Start(c)
  <2>1. phase[c] = "idle" /\ phase'[c] = "requesting" /\ retryCount'[c] = retryCount[c]
    BY <1>4 DEF Start, IInv, TypeOK
  <2> QED
    BY <1>1, <2>1, MaxRetriesAssumption DEF Remaining, Settled, Results
<1>5. CASE ResponseArrives(c)
  <2>1. phase[c] = "requesting" /\ phase'[c] = "reading" /\ retryCount'[c] = retryCount[c]
    BY <1>5 DEF ResponseArrives, IInv, TypeOK
  <2> QED
    BY <1>1, <2>1, MaxRetriesAssumption DEF Remaining, Settled, Results
<1>6. CASE RequestFails(c) \/ BodyRead(c) \/ ReadFails(c)
  <2>1. /\ phase[c] \in {"requesting", "reading"} /\ retryCount'[c] = retryCount[c]
        /\ phase'[c] \in {"backoff"} \cup Results
    BY <1>6 DEF RequestFails, BodyRead, ReadFails, AfterFailure, IInv, TypeOK,
                AttemptsConsistent, Results
  <2> QED
    BY <1>1, <2>1, MaxRetriesAssumption DEF Remaining, Settled, Results
<1>7. CASE Retry(c)
  <2>1. /\ phase[c] = "backoff" /\ phase'[c] = "requesting"
        /\ retryCount'[c] = retryCount[c] + 1
    BY <1>7 DEF Retry, IInv, TypeOK
  <2> QED
    BY <1>1, <2>1, MaxRetriesAssumption DEF Remaining, Settled, Results
<1>8. ASSUME NEW d \in Calls, d # c, Caller(d)
      PROVE  phase'[c] = phase[c] /\ retryCount'[c] = retryCount[c]
  BY <1>8 DEF Caller, Start, ResponseArrives, RequestFails, BodyRead, ReadFails, Retry,
              IInv, TypeOK
<1>9. ASSUME NEW d \in Calls, Backend(d)
      PROVE  phase'[c] = phase[c] /\ retryCount'[c] = retryCount[c]
  BY <1>9 DEF Backend, TransmissionLost, BackendExecutes, BackendRefuses
<1>10. CASE UNCHANGED vars
  BY <1>2, <1>3, <1>10 DEF vars
<1> QED
  BY <1>2, <1>3, <1>4, <1>5, <1>6, <1>7, <1>8, <1>9, <1>10 DEF Next, Caller

\* Every call ends after a bounded number of steps of its own: 3 for each of its
\* attempts, and the one that starts it.
THEOREM CallsEnd == Spec => CallsProgress
<1>1. IInv /\ [Next]_vars =>
        \A c \in Calls : /\ Remaining(c)' <= Remaining(c)
                         /\ phase'[c] # phase[c] => Remaining(c)' < Remaining(c)
  BY RemainingShrinks
<1> QED
  BY <1>1, SpecIInv, PTL DEF Spec, CallsProgress

-----------------------------------------------------------------------------
(* A call with its retries implements OutboundCall *)

\* A set of attempts has at most MaxRetries + 1 elements.
LEMMA AttemptsCounted ==
  ASSUME NEW S \in SUBSET Attempts
  PROVE  /\ IsFiniteSet(S)
         /\ Cardinality(S) \in 0 .. MaxRetries + 1
<1>1. IsFiniteSet(0 .. MaxRetries) /\ Cardinality(0 .. MaxRetries) = MaxRetries + 1
  BY FS_Interval, MaxRetriesAssumption
<1>2. IsFiniteSet(S) /\ Cardinality(S) <= MaxRetries + 1
  BY <1>1, FS_Subset DEF Attempts
<1>3. Cardinality(S) \in Nat
  BY <1>2, FS_CardinalityType
<1> QED
  BY <1>2, <1>3, MaxRetriesAssumption

\* The initial states map to initial states.
LEMMA InitRefines == Init => Abstract!Init
<1>1. Cardinality({}) = 0
  BY FS_EmptySet
<1> QED
  BY <1>1 DEF Init, Abstract!Init, InFlight

\* An attempt that the backend executes is one more effect.
LEMMA ExecutionIsEffect ==
  ASSUME IInv, NEW c \in Calls, NEW a \in Attempts,
         NEW answer \in {"ok", "refused"}, BackendExecutes(c, a, answer)
  PROVE  Abstract!TakeEffect(c)
<1>1. a \notin applied[c] /\ phase[c] # "idle"
  BY DEF IInv, ExecutionsBounded, BackendExecutes
<1>2. applied' = [applied EXCEPT ![c] = @ \cup {a}]
  BY DEF BackendExecutes
<1>3. applied[c] \in SUBSET Attempts /\ applied'[c] = applied[c] \cup {a}
  BY <1>2 DEF IInv, TypeOK
<1>4. Cardinality(applied'[c]) = Cardinality(applied[c]) + 1
  BY <1>1, <1>3, AttemptsCounted, FS_AddElement
<1>5. Cardinality(applied[c]) \in Nat /\ Cardinality(applied'[c]) <= MaxRetries + 1
  BY <1>3, AttemptsCounted, MaxRetriesAssumption
<1>6. Cardinality(applied[c]) < MaxRetries + 1
  BY <1>4, <1>5, MaxRetriesAssumption
<1>7. [d \in Calls |-> Cardinality(applied'[d])] =
        [[d \in Calls |-> Cardinality(applied[d])] EXCEPT ![c] = @ + 1]
  BY <1>2, <1>3, <1>4 DEF IInv, TypeOK
<1>8. phase' = phase /\ phase[c] \in Phases
  BY DEF BackendExecutes, IInv, TypeOK
<1> QED
  BY <1>1, <1>6, <1>7, <1>8 DEF Abstract!TakeEffect, Phases, InFlight, Results

\* A call that returns or throws settles with the result it hands its caller.
LEMMA SettlingSettles ==
  ASSUME IInv, NEW c \in Calls, NEW result \in Results,
         phase[c] \in InFlight,
         phase' = [phase EXCEPT ![c] = result],
         applied' = applied,
         result = "ok" => retryCount[c] \in applied[c]
  PROVE  Abstract!Settle(c, result)
<1>1. result = "ok" => Cardinality(applied[c]) > 0
  <2> SUFFICES ASSUME retryCount[c] \in applied[c]
               PROVE  Cardinality(applied[c]) > 0
    OBVIOUS
  <2>1. IsFiniteSet(applied[c]) /\ Cardinality(applied[c]) \in Nat
    BY AttemptsCounted, MaxRetriesAssumption DEF IInv, TypeOK
  <2>2. Cardinality(applied[c]) # 0
    BY <2>1, FS_EmptySet
  <2> QED
    BY <2>1, <2>2
<1>2. [d \in Calls |-> IF phase'[d] \in InFlight THEN "pending" ELSE phase'[d]] =
        [[d \in Calls |-> IF phase[d] \in InFlight THEN "pending" ELSE phase[d]]
            EXCEPT ![c] = result]
  BY DEF IInv, TypeOK, InFlight, Results
<1> QED
  BY <1>1, <1>2 DEF Abstract!Settle

\* Moving between the phases of a pending call is invisible to its caller.
LEMMA InFlightStutters ==
  ASSUME IInv, NEW c \in Calls, NEW p \in InFlight,
         phase[c] \in InFlight,
         phase' = [phase EXCEPT ![c] = p],
         applied' = applied
  PROVE  UNCHANGED Abstract!vars
  BY DEF IInv, TypeOK, Abstract!vars

\* Every step maps to a step of OutboundCall or to a stutter.
LEMMA NextRefines == IInv /\ [Next]_vars => [Abstract!Next]_(Abstract!vars)
<1> SUFFICES ASSUME IInv, [Next]_vars
             PROVE  [Abstract!Next]_(Abstract!vars)
  OBVIOUS
<1>1. ASSUME NEW c \in Calls, Start(c)
      PROVE  Abstract!Begin(c)
  BY <1>1 DEF Start, Abstract!Begin, IInv, TypeOK, InFlight
<1>2. ASSUME NEW c \in Calls, ResponseArrives(c) \/ Retry(c)
      PROVE  UNCHANGED Abstract!vars
  BY <1>2, InFlightStutters DEF ResponseArrives, Retry, InFlight
<1>3. ASSUME NEW c \in Calls, RequestFails(c) \/ ReadFails(c)
      PROVE  Abstract!Settle(c, "error") \/ UNCHANGED Abstract!vars
  <2>1. phase[c] \in InFlight /\ applied' = applied
    BY <1>3 DEF RequestFails, ReadFails, InFlight
  <2>2. \/ phase' = [phase EXCEPT ![c] = "backoff"]
        \/ phase' = [phase EXCEPT ![c] = "error"]
    BY <1>3 DEF RequestFails, ReadFails, AfterFailure
  <2> QED
    BY <2>1, <2>2, InFlightStutters, SettlingSettles DEF InFlight, Results
<1>4. ASSUME NEW c \in Calls, BodyRead(c)
      PROVE  \E result \in Results : Abstract!Settle(c, result)
  <2> DEFINE result == answered[c][retryCount[c]]
  <2>1. result \in Results /\ (result = "ok" => retryCount[c] \in applied[c])
    BY <1>4 DEF BodyRead, IInv, TypeOK, AttemptsConsistent, Results
  <2>2. /\ phase[c] \in InFlight
        /\ phase' = [phase EXCEPT ![c] = result]
        /\ applied' = applied
    BY <1>4 DEF BodyRead, InFlight
  <2> QED
    BY <2>1, <2>2, SettlingSettles
<1>5. ASSUME NEW c \in Calls, Backend(c)
      PROVE  Abstract!TakeEffect(c) \/ UNCHANGED Abstract!vars
  BY <1>5, ExecutionIsEffect
     DEF Backend, TransmissionLost, BackendRefuses, Abstract!vars
<1>6. CASE UNCHANGED vars
  BY <1>6 DEF vars, Abstract!vars
<1> QED
  BY <1>1, <1>2, <1>3, <1>4, <1>5, <1>6
     DEF Next, Caller, Abstract!Next, Results

\* makeRequest, with all its retries, is one OutboundCall: it settles once, a
\* success has taken effect, and at most MaxRetries + 1 effects are left behind.
THEOREM Refinement == Spec => ImplementsOutboundCall
  BY InitRefines, NextRefines, SpecIInv, PTL
     DEF Spec, ImplementsOutboundCall, Abstract!Spec
=============================================================================
