---------------------------- MODULE ApprovalGate ----------------------------
(* What MaintAI Studio promises about human approval, with the machinery    *)
(* left out: an action is asked for, a human grants or refuses it once, and *)
(* a granted action takes effect at most once.  The effect is that the      *)
(* subject of the request takes a seat: a registered model becomes the      *)
(* champion of its name, a prediction event gets its work order.            *)
CONSTANTS
    Requests,   \* approval requests
    Subjects,   \* what a request may be about
    Seats,
    SeatOf,     \* the seat a subject takes, for the subjects that take one
    Nobody

VARIABLES
    gate,       \* where each request stands
    subject,    \* what each request is about
    holder      \* who holds each seat

gateVars == <<gate, subject, holder>>

GateInit ==
    /\ gate = [r \in Requests |-> "closed"]
    /\ subject = [r \in Requests |-> Nobody]
    /\ holder = [s \in Seats |-> Nobody]

Ask(r, s) ==
    /\ gate[r] = "closed"
    /\ \A q \in Requests : gate[q] = "asked" => subject[q] # s
    /\ gate' = [gate EXCEPT ![r] = "asked"]
    /\ subject' = [subject EXCEPT ![r] = s]
    /\ UNCHANGED holder

Settle(r, verdict) ==
    /\ gate[r] = "asked"
    /\ gate' = [gate EXCEPT ![r] = verdict]
    /\ UNCHANGED <<subject, holder>>

Execute(r) ==
    /\ gate[r] = "granted"
    /\ subject[r] \in DOMAIN SeatOf
    /\ gate' = [gate EXCEPT ![r] = "executed"]
    /\ holder' = [holder EXCEPT ![SeatOf[subject[r]]] = subject[r]]
    /\ UNCHANGED subject

GateNext ==
    \E r \in Requests :
        \/ \E s \in Subjects : Ask(r, s)
        \/ \E verdict \in {"granted", "refused"} : Settle(r, verdict)
        \/ Execute(r)

GateSpec == GateInit /\ [][GateNext]_gateVars
=============================================================================
