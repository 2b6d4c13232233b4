-------------------------- MODULE MovementRegister --------------------------
(***************************************************************************)
(* What the receipt endpoints promise their clients, with the outbound     *)
(* calls and the drawing of ids hidden: a register of movements.  A create *)
(* writes to one id that no other request has, an update to the id of a    *)
(* movement that is known; success is reported only after the write.       *)
(* As with OutboundCall the write may be repeated, and repeated after the  *)
(* reply; and a create that was given no id writes to Undefined, which     *)
(* others then share.                                                      *)
(***************************************************************************)
EXTENDS Naturals

CONSTANTS
    Creates, Updates,  \* the requests
    Existing,          \* the id of a movement stored before
    Undefined,         \* the id of a create that was given none
    Ids,               \* all ids, these two among them
    Empty,             \* no id, or no movement
    MaxEffects         \* how often one request can at most write

VARIABLES
    target,   \* target[r]: the id that request r writes to, Empty until it has one
    reply,    \* reply[r]: what r was answered, "none" before it was
    stored,   \* stored[id]: the request whose movement is under id, or Empty
    effects   \* effects[r]: how often r has written

vars == <<target, reply, stored, effects>>

Requests == Creates \cup Updates

Init ==
    /\ target = [r \in Requests |-> Empty]
    /\ reply = [r \in Requests |-> "none"]
    /\ stored = [i \in Ids |-> IF i = Existing THEN Existing ELSE Empty]
    /\ effects = [r \in Requests |-> 0]

Unused(id) == id # Existing /\ \A r \in Requests : target[r] # id
Known(id) == id = Existing \/ \E r \in Creates : target[r] = id /\ reply[r] = "success"

Begin(r, id) ==
    /\ target[r] = Empty /\ reply[r] = "none"
    /\ IF r \in Creates THEN id = Undefined \/ Unused(id) ELSE Known(id)
    /\ target' = [target EXCEPT ![r] = id]
    /\ UNCHANGED <<reply, stored, effects>>

Write(r) ==
    /\ target[r] # Empty
    /\ effects[r] < MaxEffects
    /\ stored' = [stored EXCEPT ![target[r]] = r]
    /\ effects' = [effects EXCEPT ![r] = @ + 1]
    /\ UNCHANGED <<target, reply>>

\* Only a create can fail before it has an id to write to.
Reply(r, answer) ==
    /\ reply[r] = "none"
    /\ target[r] = Empty => r \in Creates /\ answer = "error"
    /\ answer = "success" => effects[r] > 0
    /\ reply' = [reply EXCEPT ![r] = answer]
    /\ UNCHANGED <<target, stored, effects>>

Next ==
    \E r \in Requests :
        \/ \E id \in Ids : Begin(r, id)
        \/ Write(r)
        \/ \E answer \in {"success", "refused", "error"} : Reply(r, answer)

Spec == Init /\ [][Next]_vars
=============================================================================
