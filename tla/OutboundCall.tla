---------------------------- MODULE OutboundCall ----------------------------
(***************************************************************************)
(* What a call of one of the service clients (httpClients.*.get / post /   *)
(* put in src/common/helpers/http-client.js) promises its caller, with the *)
(* retries hidden.  A call settles once, with one of three results:        *)
(*   "ok"       the promise resolved with the answer of a backend that did *)
(*              what was asked;                                            *)
(*   "refused"  it resolved with an answer whose status is an error;       *)
(*   "error"    it rejected.                                               *)
(* The operation may take effect more than once, and it may take effect    *)
(* after the call has settled: that is the price of the retries, and it is *)
(* stated here because the callers rely on a POST or PUT being one         *)
(* operation.                                                              *)
(***************************************************************************)
EXTENDS Naturals

CONSTANTS
    Calls,      \* the calls the application makes
    MaxEffects  \* how often one call can at most take effect, a natural number

VARIABLES
    outcome,    \* outcome[c]: "idle", "pending" or the result of call c
    effects     \* effects[c]: how often call c took effect at the backend

vars == <<outcome, effects>>

Init ==
    /\ outcome = [c \in Calls |-> "idle"]
    /\ effects = [c \in Calls |-> 0]

Begin(c) ==
    /\ outcome[c] = "idle"
    /\ outcome' = [outcome EXCEPT ![c] = "pending"]
    /\ UNCHANGED effects

\* A request on the network takes effect, also after its sender gave up.
TakeEffect(c) ==
    /\ outcome[c] # "idle"
    /\ effects[c] < MaxEffects
    /\ effects' = [effects EXCEPT ![c] = @ + 1]
    /\ UNCHANGED outcome

Settle(c, result) ==
    /\ outcome[c] = "pending"
    /\ result = "ok" => effects[c] > 0
    /\ outcome' = [outcome EXCEPT ![c] = result]
    /\ UNCHANGED effects

Next ==
    \E c \in Calls :
        \/ Begin(c)
        \/ TakeEffect(c)
        \/ \E result \in {"ok", "refused", "error"} : Settle(c, result)

Spec == Init /\ [][Next]_vars
=============================================================================
