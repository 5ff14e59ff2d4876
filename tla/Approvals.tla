----------------------------- MODULE Approvals -----------------------------
(* The human approval table of MaintAI Studio (approvals/service.py and     *)
(* db/approval_repository.py), as the API threads use it.                   *)
(*                                                                          *)
(* FastAPI serves every request on a thread of a pool, and every database   *)
(* session of a request commits on its own under READ COMMITTED.  A request *)
(* is therefore a worker that goes through the sessions of the service one  *)
(* at a time and carries in call[w] what it has read so far; the other      *)
(* workers run in between.  A request that is refused writes nothing and is *)
(* simply over.                                                             *)
EXTENDS Integers, Sequences

CONSTANTS
    Workers,    \* API threads, one request at a time each
    ApprovalIds,  \* the ids new_id() hands out; its size bounds the table
    Keys,       \* (action_type, entity_type, entity_id) triples
    Payloads,   \* non-empty payloads, told apart only by what they target
    NoPayload,  \* None or {}
    ClientVersions  \* the expected_version values clients send

ASSUME NoPayloadIsNone == NoPayload \notin Payloads

ASSUME ClientVersionsAreIntegers == ClientVersions \subseteq Nat

VARIABLES
    approval,   \* the approval_requests table
    audit,      \* the audit_events rows of each approval, in commit order
    call        \* what the request on each worker has read so far

approvalVars == <<approval, audit, call>>

Verbs == {"approve", "reject", "modify"}

(* _APPROVAL_DECISIONS: the terminal status each decision verb leads to.    *)
StatusOf == [approve |-> "approved", reject |-> "rejected", modify |-> "modified"]

Terminal == {"approved", "rejected", "modified"}

NoRow == [status |-> "absent"]

Row == [status: {"pending"} \cup Terminal, version: 1..2, key: Keys,
        proposed: Payloads \cup {NoPayload}, decision: Payloads \cup {NoPayload}]

Idle == [op |-> "idle"]

ProposeCall == [op: {"propose"}, key: Keys, payload: Payloads \cup {NoPayload}]

DecideCall == [op: {"decide", "decided"}, id: ApprovalIds, verb: Verbs, expected: ClientVersions,
               payload: Payloads \cup {NoPayload}]

ApprovalCall == {Idle} \cup ProposeCall \cup DecideCall

Exists(a) == approval[a].status # "absent"

(* find_pending, and the rows of the partial unique index over pending      *)
(* requests.                                                                *)
Pending(k) == {a \in ApprovalIds : approval[a].status = "pending" /\ approval[a].key = k}

-----------------------------------------------------------------------------
(* propose: find_pending runs in a session of its own ...                   *)
ProposeCheck(w, k, p) ==
    /\ call[w] = Idle
    /\ Pending(k) = {}
    /\ call' = [call EXCEPT ![w] = [op |-> "propose", key |-> k, payload |-> p]]
    /\ UNCHANGED <<approval, audit>>

(* Mistake: no unique index, only find_pending guards the key.              *)
UnindexedInsert(a, k, p) ==
    /\ ~Exists(a)
    /\ approval' = [approval EXCEPT ![a] = [status |-> "pending", version |-> 1, key |-> k,
                                            proposed |-> p, decision |-> NoPayload]]
    /\ audit' = [audit EXCEPT ![a] = Append(@, "propose")]

(* The insert and its audit event, as every proposer commits them; the      *)
(* partial unique index refuses a second pending row of the key.            *)
InsertPending(a, k, p) ==
    /\ ~Exists(a)
    /\ Pending(k) = {}
    /\ approval' = [approval EXCEPT ![a] = [status |-> "pending", version |-> 1, key |-> k,
                                            proposed |-> p, decision |-> NoPayload]]
    /\ audit' = [audit EXCEPT ![a] = Append(@, "propose")]

(* ... and the row and its audit event commit later, together.              *)
ProposeInsert(w, a) ==
    /\ call[w].op = "propose"
    /\ InsertPending(a, call[w].key, call[w].payload)
    /\ call' = [call EXCEPT ![w] = Idle]

(* IntegrityError of the index: answered as a conflict.                     *)
ProposeConflict(w) ==
    /\ call[w].op = "propose"
    /\ Pending(call[w].key) # {}
    /\ call' = [call EXCEPT ![w] = Idle]
    /\ UNCHANGED <<approval, audit>>

(* What decide() accepts: a modification needs a payload, the other verbs   *)
(* may carry one.                                                           *)
Decision(verb, p) == verb = "modify" => p # NoPayload

(* decide: the row is read, and must be pending, in a session of its own.   *)
(* The expected version is the client's, and may be wrong.                  *)
DecideRead(w, a, verb, v, p) ==
    /\ call[w] = Idle
    /\ Decision(verb, p)
    /\ approval[a].status = "pending"
    /\ call' = [call EXCEPT ![w] = [op |-> "decide", id |-> a, verb |-> verb,
                                    expected |-> v, payload |-> p]]
    /\ UNCHANGED <<approval, audit>>

(* Mistake: the UPDATE names the row only.                                  *)
ById(a, expected) == Exists(a)

(* Mistake: the UPDATE trusts the version the client sent.                  *)
ByVersion(a, expected) == approval[a].version = expected

(* The guard of the UPDATE in transition().                                 *)
TransitionGuard(a, expected) ==
    /\ approval[a].status = "pending"
    /\ approval[a].version = expected

(* The compare-and-swap and its audit event commit together.                *)
DecideCommit(w) ==
    LET c == call[w] IN
    /\ c.op = "decide"
    /\ TransitionGuard(c.id, c.expected)
    /\ approval' = [approval EXCEPT ![c.id].status = StatusOf[c.verb],
                                    ![c.id].decision = c.payload,
                                    ![c.id].version = @ + 1]
    /\ audit' = [audit EXCEPT ![c.id] = Append(@, c.verb)]
    /\ call' = [call EXCEPT ![w].op = "decided"]

(* Mistake: the event is recorded in a session of its own.                  *)
AuditedConflict(w) ==
    LET c == call[w] IN
    /\ c.op = "decide"
    /\ ~TransitionGuard(c.id, c.expected)
    /\ audit' = [audit EXCEPT ![c.id] = Append(@, c.verb)]
    /\ call' = [call EXCEPT ![w] = Idle]
    /\ UNCHANGED approval

(* rowcount 0: the transaction rolls back and the caller gets a conflict.   *)
DecideConflict(w) ==
    LET c == call[w] IN
    /\ c.op = "decide"
    /\ ~TransitionGuard(c.id, c.expected)
    /\ call' = [call EXCEPT ![w] = Idle]
    /\ UNCHANGED <<approval, audit>>

(* return self.get(approval_id): the answer is read back from the table.    *)
DecideAnswer(w) ==
    /\ call[w].op = "decided"
    /\ call' = [call EXCEPT ![w] = Idle]
    /\ UNCHANGED <<approval, audit>>

(* The database fails a session (which rolls back), or the process dies,    *)
(* anywhere between two steps of a request.                                 *)
RequestLost(w) ==
    /\ call[w].op \in {"propose", "decide", "decided"}
    /\ call' = [call EXCEPT ![w] = Idle]
    /\ UNCHANGED <<approval, audit>>

-----------------------------------------------------------------------------
ApprovalInit ==
    /\ approval = [a \in ApprovalIds |-> NoRow]
    /\ audit = [a \in ApprovalIds |-> <<>>]
    /\ call = [w \in Workers |-> Idle]

ApprovalStep(w) ==
    \/ \E k \in Keys, p \in Payloads \cup {NoPayload} : ProposeCheck(w, k, p)
    \/ \E a \in ApprovalIds : ProposeInsert(w, a)
    \/ ProposeConflict(w)
    \/ \E a \in ApprovalIds, verb \in Verbs, v \in ClientVersions, p \in Payloads \cup {NoPayload} :
          DecideRead(w, a, verb, v, p)
    \/ DecideCommit(w)
    \/ DecideConflict(w)
    \/ DecideAnswer(w)
    \/ RequestLost(w)

ApprovalNext == \E w \in Workers : ApprovalStep(w)

ApprovalSpec == ApprovalInit /\ [][ApprovalNext]_approvalVars

-----------------------------------------------------------------------------
(* Every variable has its type.                                             *)
ApprovalTypeOK ==
    /\ approval \in [ApprovalIds -> {NoRow} \cup Row]
    /\ audit \in [ApprovalIds -> Seq({"propose"} \cup Verbs)]
    /\ call \in [Workers -> ApprovalCall]

(* However many proposers pass find_pending at the same time, one key never *)
(* has two open requests (ApprovalService.propose answers the others with   *)
(* 409).                                                                    *)
OnePendingPerKey ==
    \A a, b \in ApprovalIds :
        /\ approval[a].status = "pending"
        /\ approval[b].status = "pending"
        /\ approval[a].key = approval[b].key
        => a = b

(* The audit trail tells the story of the row and nothing else: refused,    *)
(* conflicting and lost requests leave no event, and every status is        *)
(* preceded by exactly the events that lead to it (propose and decide write *)
(* the row and the event in one transaction).                               *)
Story == [absent   |-> <<>>,
          pending  |-> <<"propose">>,
          approved |-> <<"propose", "approve">>,
          rejected |-> <<"propose", "reject">>,
          modified |-> <<"propose", "modify">>]

AuditTellsTheRow == \A a \in ApprovalIds : audit[a] = Story[approval[a].status]

(* What decide() answers after its commit is the caller's own decision,     *)
(* whoever else was deciding the same request in between.                   *)
AnswerIsOwnDecision ==
    \A w \in Workers :
        call[w].op = "decided" =>
            /\ approval[call[w].id].status = StatusOf[call[w].verb]
            /\ approval[call[w].id].decision = call[w].payload

(* A decided request is never decided again, reopened, edited or deleted,   *)
(* and while it is pending nobody changes what was proposed.                *)
DecisionsStand ==
    [][\A a \in ApprovalIds :
          /\ approval[a].status \in Terminal => approval'[a] = approval[a]
          /\ approval[a].status = "pending" =>
                /\ approval'[a].status \in {"pending"} \cup Terminal
                /\ approval'[a].key = approval[a].key
                /\ approval'[a].proposed = approval[a].proposed]_approvalVars
=============================================================================
