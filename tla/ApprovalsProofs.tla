-------------------------- MODULE ApprovalsProofs --------------------------
(* The approval table is right for any number of workers, requests, keys    *)
(* and payloads, and whatever versions clients send.                        *)
(*                                                                          *)
(* TableOK is about the table alone, so that a module whose requests also   *)
(* do other things can use the lemmas about InsertPending and Transition;   *)
(* ApprovalInv adds what the requests of this module carry.  The last part  *)
(* is for the two services that execute approvals.                          *)
EXTENDS ApprovalExecutions, SequenceTheorems, TLAPS

(* The types of the table; a pending row is at version 1, so a decision     *)
(* takes it to version 2 and no further; and the index.                     *)
TableOK ==
    /\ approval \in [ApprovalIds -> {NoRow} \cup Row]
    /\ \A a \in ApprovalIds : approval[a].status = "pending" => approval[a].version = 1
    /\ OnePendingPerKey

(* The one write of decide(), as DecideCommit makes it.                     *)
Transition(a, expected, verb, p) ==
    /\ TransitionGuard(a, expected)
    /\ approval' = [approval EXCEPT ![a].status = StatusOf[verb],
                                    ![a].decision = p,
                                    ![a].version = @ + 1]

(* Inductive: the audit trail and the answers depend on the table, and the  *)
(* table on the types of what the requests carry.                           *)
ApprovalInv ==
    /\ TableOK
    /\ call \in [Workers -> ApprovalCall]
    /\ audit = [a \in ApprovalIds |-> Story[approval[a].status]]
    /\ AnswerIsOwnDecision

-----------------------------------------------------------------------------
(* A row that exists is a pending or a decided one with all its fields.     *)
LEMMA RowShape ==
    ASSUME TableOK, NEW a \in ApprovalIds, Exists(a)
    PROVE  approval[a] \in Row
BY DEF TableOK, Exists, NoRow

(* A decision verb leads to the terminal status whose story ends in it.     *)
LEMMA StatusOfVerb ==
    ASSUME NEW verb \in Verbs
    PROVE  /\ StatusOf[verb] \in Terminal
           /\ Story[StatusOf[verb]] = <<"propose", verb>>
BY DEF StatusOf, Verbs, Terminal, Story

(* Appending to a trail of one event.                                       *)
LEMMA AppendToOne ==
    ASSUME NEW S, NEW d \in S, NEW e \in S
    PROVE  Append(<<d>>, e) = <<d, e>>
<1>1. <<d>> \in Seq(S) /\ Len(<<d>>) = 1 /\ <<d>>[1] = d
    OBVIOUS
<1>2. Append(<<d>>, e) \in Seq(S) /\ Len(Append(<<d>>, e)) = 2
    BY <1>1
<1>3. Append(<<d>>, e)[1] = d /\ Append(<<d>>, e)[2] = e
    BY <1>1
<1>4. <<d, e>> \in Seq(S) /\ Len(<<d, e>>) = 2 /\ <<d, e>>[1] = d /\ <<d, e>>[2] = e
    OBVIOUS
<1>5. \A i \in 1..2 : Append(<<d>>, e)[i] = <<d, e>>[i]
    BY <1>3, <1>4
<1> QED BY <1>2, <1>4, <1>5, SeqEqual, Zenon

(* Inserting a pending request keeps the table right: the index refuses it  *)
(* when its key has an open request.                                        *)
LEMMA InsertKeepsTable ==
    ASSUME TableOK, NEW a \in ApprovalIds, NEW k \in Keys, NEW p \in Payloads \cup {NoPayload},
           InsertPending(a, k, p)
    PROVE  TableOK'
<1> DEFINE new == [status |-> "pending", version |-> 1, key |-> k,
                   proposed |-> p, decision |-> NoPayload]
<1>1. approval' = [approval EXCEPT ![a] = new] /\ Pending(k) = {}
    BY DEF InsertPending
<1>2. new \in Row
    BY DEF Row
<1>3. approval' \in [ApprovalIds -> {NoRow} \cup Row]
    BY <1>1, <1>2 DEF TableOK
<1>4. \A b \in ApprovalIds : approval'[b] = IF b = a THEN new ELSE approval[b]
    BY <1>1 DEF TableOK
<1>5. OnePendingPerKey'
  <2> SUFFICES ASSUME NEW b \in ApprovalIds, NEW c \in ApprovalIds,
                      approval'[b].status = "pending", approval'[c].status = "pending",
                      approval'[b].key = approval'[c].key
               PROVE  b = c
      BY DEF OnePendingPerKey
  <2>1. \A d \in ApprovalIds : approval[d].status = "pending" => approval[d].key # k
      BY <1>1 DEF Pending
  <2>2. CASE b = a /\ c # a
      BY <2>2, <2>1, <1>4
  <2>3. CASE b # a /\ c = a
      BY <2>3, <2>1, <1>4
  <2>4. CASE b # a /\ c # a
      BY <2>4, <1>4 DEF TableOK, OnePendingPerKey
  <2> QED BY <2>2, <2>3, <2>4
<1>6. \A b \in ApprovalIds : approval'[b].status = "pending" => approval'[b].version = 1
    BY <1>4 DEF TableOK
<1> QED BY <1>3, <1>5, <1>6 DEF TableOK

(* What a transition leaves behind: the row it names, decided, at version   *)
(* 2, and every other row as it was.                                        *)
LEMMA TransitionRow ==
    ASSUME TableOK, NEW a \in ApprovalIds, NEW v, NEW verb \in Verbs,
           NEW p \in Payloads \cup {NoPayload}, Transition(a, v, verb, p)
    PROVE  /\ approval[a] \in Row /\ approval[a].status = "pending"
           /\ approval' \in [ApprovalIds -> {NoRow} \cup Row]
           /\ approval'[a].status = StatusOf[verb] /\ approval'[a].status # "pending"
           /\ approval'[a].decision = p
           /\ approval'[a].key = approval[a].key
           /\ approval'[a].proposed = approval[a].proposed
           /\ \A b \in ApprovalIds \ {a} : approval'[b] = approval[b]
<1>1. approval[a].status = "pending" /\ approval[a].version = 1
    BY DEF Transition, TransitionGuard, TableOK
<1>2. approval[a] \in Row
    BY <1>1, RowShape DEF Exists
<1>3. StatusOf[verb] \in Terminal
    BY StatusOfVerb
<1> DEFINE decided == [status |-> StatusOf[verb], version |-> 2, key |-> approval[a].key,
                       proposed |-> approval[a].proposed, decision |-> p]
<1>4. approval' = [approval EXCEPT ![a] = decided]
    BY <1>1, <1>2 DEF Transition, TableOK, Row
<1>5. decided \in Row
    BY <1>2, <1>3 DEF Row
<1>6. decided.status # "pending"
    BY <1>3 DEF Terminal
<1> QED BY <1>1, <1>2, <1>4, <1>5, <1>6 DEF TableOK

(* A transition keeps the table right.                                      *)
LEMMA TransitionKeepsTable ==
    ASSUME TableOK, NEW a \in ApprovalIds, NEW v, NEW verb \in Verbs,
           NEW p \in Payloads \cup {NoPayload}, Transition(a, v, verb, p)
    PROVE  TableOK'
<1>1. OnePendingPerKey'
  <2> SUFFICES ASSUME NEW b \in ApprovalIds, NEW c \in ApprovalIds,
                      approval'[b].status = "pending", approval'[c].status = "pending",
                      approval'[b].key = approval'[c].key
               PROVE  b = c
      BY DEF OnePendingPerKey
  <2>1. approval'[b] = approval[b] /\ approval'[c] = approval[c]
      BY TransitionRow
  <2> QED BY <2>1 DEF TableOK, OnePendingPerKey
<1> QED BY <1>1, TransitionRow DEF TableOK
-----------------------------------------------------------------------------
(* What a step may do to a row: decided rows stay, pending ones keep their  *)
(* key and their proposal.                                                  *)
RowStands(a) ==
    /\ approval[a].status \in Terminal => approval'[a] = approval[a]
    /\ approval[a].status = "pending" =>
          /\ approval'[a].status \in {"pending"} \cup Terminal
          /\ approval'[a].key = approval[a].key
          /\ approval'[a].proposed = approval[a].proposed

(* What the steps of the approval service need to know of a request, in a   *)
(* system whose requests also do other things.                              *)
CallTyped(w) ==
    /\ call[w].op = "propose" => call[w] \in ProposeCall
    /\ call[w].op \in {"decide", "decided"} => call[w] \in DecideCall

(* A step of the approval service keeps the table right, lets every row     *)
(* stand, and moves its request to another place of the service.            *)
LEMMA StepKeepsTable ==
    ASSUME TableOK, NEW w \in Workers, CallTyped(w), ApprovalStep(w)
    PROVE  /\ TableOK'
           /\ \A a \in ApprovalIds : RowStands(a)
           /\ \E c \in ApprovalCall : call' = [call EXCEPT ![w] = c]
<1>1. Idle \in ApprovalCall
    BY DEF ApprovalCall
<1>2. ASSUME UNCHANGED approval
      PROVE  TableOK' /\ \A a \in ApprovalIds : RowStands(a)
    BY <1>2 DEF TableOK, OnePendingPerKey, RowStands
<1>3. ASSUME NEW k \in Keys, NEW p \in Payloads \cup {NoPayload}, ProposeCheck(w, k, p)
      PROVE  \E c \in ApprovalCall : call' = [call EXCEPT ![w] = c]
  <2>1. [op |-> "propose", key |-> k, payload |-> p] \in ApprovalCall
      BY DEF ApprovalCall, ProposeCall
  <2> QED BY <1>3, <2>1 DEF ProposeCheck
<1>4. ASSUME NEW a \in ApprovalIds, NEW verb \in Verbs, NEW v \in ClientVersions,
             NEW p \in Payloads \cup {NoPayload}, DecideRead(w, a, verb, v, p)
      PROVE  \E c \in ApprovalCall : call' = [call EXCEPT ![w] = c]
  <2>1. [op |-> "decide", id |-> a, verb |-> verb, expected |-> v, payload |-> p] \in ApprovalCall
      BY DEF ApprovalCall, DecideCall
  <2> QED BY <1>4, <2>1 DEF DecideRead
<1>5. ASSUME NEW a \in ApprovalIds, ProposeInsert(w, a)
      PROVE  TableOK' /\ \A b \in ApprovalIds : RowStands(b)
  <2>1. call[w].key \in Keys /\ call[w].payload \in Payloads \cup {NoPayload}
      BY <1>5 DEF ProposeInsert, CallTyped, ProposeCall
  <2>2. InsertPending(a, call[w].key, call[w].payload)
      BY <1>5 DEF ProposeInsert
  <2>3. TableOK'
      BY <2>1, <2>2, InsertKeepsTable
  <2>4. approval[a].status = "absent" /\ \A b \in ApprovalIds \ {a} : approval'[b] = approval[b]
      BY <2>2 DEF InsertPending, Exists, TableOK
  <2> QED BY <2>3, <2>4 DEF RowStands, Terminal
<1>6. ASSUME DecideCommit(w)
      PROVE  /\ TableOK' /\ \A b \in ApprovalIds : RowStands(b)
             /\ \E c \in ApprovalCall : call' = [call EXCEPT ![w] = c]
  <2> DEFINE c == call[w]
  <2>1. c \in DecideCall
      BY <1>6 DEF DecideCommit, CallTyped
  <2>2. c.id \in ApprovalIds /\ c.verb \in Verbs /\ c.payload \in Payloads \cup {NoPayload}
      BY <2>1 DEF DecideCall
  <2>3. Transition(c.id, c.expected, c.verb, c.payload)
      BY <1>6 DEF DecideCommit, Transition
  <2>4. call' = [call EXCEPT ![w] = [c EXCEPT !.op = "decided"]]
      BY <1>6 DEF DecideCommit
  <2>5. [c EXCEPT !.op = "decided"] \in ApprovalCall
      BY <2>1 DEF DecideCall, ApprovalCall
  <2> HIDE DEF c
  <2>6. TableOK'
      BY <2>2, <2>3, TransitionKeepsTable
  <2>7. /\ approval[c.id].status = "pending"
        /\ approval'[c.id].status = StatusOf[c.verb]
        /\ approval'[c.id].key = approval[c.id].key
        /\ approval'[c.id].proposed = approval[c.id].proposed
        /\ \A b \in ApprovalIds \ {c.id} : approval'[b] = approval[b]
      BY <2>2, <2>3, TransitionRow
  <2>8. \A b \in ApprovalIds : RowStands(b)
      BY <2>2, <2>7, StatusOfVerb DEF RowStands, Terminal
  <2> QED BY <2>4, <2>5, <2>6, <2>8
<1> QED BY <1>1, <1>2, <1>3, <1>4, <1>5, <1>6 DEF ApprovalStep, ProposeCheck, ProposeInsert,
           ProposeConflict, DecideRead, DecideConflict, DecideAnswer, RequestLost

(* A step of the approval service only appends its own events to a trail,   *)
(* and never to the trail of a decided request.                             *)
LEMMA StepKeepsTrail ==
    ASSUME TableOK, NEW w \in Workers, CallTyped(w), ApprovalStep(w),
           NEW S, {"propose"} \cup Verbs \subseteq S, audit \in [ApprovalIds -> Seq(S)]
    PROVE  /\ audit' \in [ApprovalIds -> Seq(S)]
           /\ \A a \in ApprovalIds : approval[a].status \in Terminal => audit'[a] = audit[a]
<1>1. CASE UNCHANGED audit
    BY <1>1
<1>2. ASSUME NEW a \in ApprovalIds, ProposeInsert(w, a)
      PROVE  /\ audit' \in [ApprovalIds -> Seq(S)]
             /\ \A b \in ApprovalIds : approval[b].status \in Terminal => audit'[b] = audit[b]
  <2>1. audit' = [audit EXCEPT ![a] = Append(@, "propose")] /\ approval[a].status = "absent"
      BY <1>2 DEF ProposeInsert, InsertPending, Exists
  <2>2. Append(audit[a], "propose") \in Seq(S)
      OBVIOUS
  <2> QED BY <2>1, <2>2 DEF Terminal
<1>3. CASE DecideCommit(w)
  <2> DEFINE c == call[w]
  <2>1. c.id \in ApprovalIds /\ c.verb \in Verbs
      BY <1>3 DEF DecideCommit, CallTyped, DecideCall
  <2>2. audit' = [audit EXCEPT ![c.id] = Append(@, c.verb)] /\ approval[c.id].status = "pending"
      BY <1>3 DEF DecideCommit, TransitionGuard
  <2> HIDE DEF c
  <2>3. Append(audit[c.id], c.verb) \in Seq(S)
      BY <2>1
  <2> QED BY <2>1, <2>2, <2>3 DEF Terminal
<1> QED BY <1>1, <1>2, <1>3 DEF ApprovalStep, ProposeCheck, ProposeConflict, DecideRead,
           DecideConflict, DecideAnswer, RequestLost

(* The writes of decide(): the transition and its audit event.              *)
Decides(a, expected, verb, p) ==
    /\ Transition(a, expected, verb, p)
    /\ audit' = [audit EXCEPT ![a] = Append(@, verb)]

(* A step of the approval service writes nothing, or inserts one request,   *)
(* or decides one.                                                          *)
LEMMA StepWrites ==
    ASSUME NEW w \in Workers, CallTyped(w), ApprovalStep(w)
    PROVE  \/ UNCHANGED <<approval, audit>>
           \/ \E a \in ApprovalIds, k \in Keys, p \in Payloads \cup {NoPayload} :
                 InsertPending(a, k, p)
           \/ \E a \in ApprovalIds, v \in ClientVersions, verb \in Verbs,
                 p \in Payloads \cup {NoPayload} : Decides(a, v, verb, p)
<1>1. CASE \E a \in ApprovalIds : ProposeInsert(w, a)
    BY <1>1 DEF ProposeInsert, CallTyped, ProposeCall
<1>2. CASE DecideCommit(w)
    BY <1>2 DEF DecideCommit, CallTyped, DecideCall, Decides, Transition
<1> QED BY <1>1, <1>2 DEF ApprovalStep, ProposeCheck, ProposeConflict, DecideRead,
           DecideConflict, DecideAnswer, RequestLost

(* A trail that tells its row still does after a step of the service.       *)
LEMMA StepTellsStory ==
    ASSUME TableOK, NEW w \in Workers, CallTyped(w), ApprovalStep(w),
           DOMAIN audit = ApprovalIds,
           NEW b \in ApprovalIds, audit[b] = Story[approval[b].status]
    PROVE  audit'[b] = Story[approval'[b].status]
<1>1. CASE UNCHANGED <<approval, audit>>
    BY <1>1
<1>2. ASSUME NEW a \in ApprovalIds, NEW k \in Keys, NEW p \in Payloads \cup {NoPayload},
             InsertPending(a, k, p)
      PROVE  audit'[b] = Story[approval'[b].status]
  <2>1. CASE a = b
    <3>1. approval[b].status = "absent" /\ approval'[b].status = "pending"
        BY <1>2, <2>1 DEF InsertPending, Exists, TableOK
    <3>2. audit'[b] = Append(<<>>, "propose")
        BY <1>2, <2>1, <3>1 DEF InsertPending, Story
    <3> QED BY <3>1, <3>2 DEF Story
  <2>2. CASE a # b
      BY <1>2, <2>2 DEF InsertPending, TableOK
  <2> QED BY <2>1, <2>2
<1>3. ASSUME NEW a \in ApprovalIds, NEW v \in ClientVersions, NEW verb \in Verbs,
             NEW p \in Payloads \cup {NoPayload}, Decides(a, v, verb, p)
      PROVE  audit'[b] = Story[approval'[b].status]
  <2>1. /\ approval[a].status = "pending" /\ approval'[a].status = StatusOf[verb]
        /\ \A c \in ApprovalIds \ {a} : approval'[c] = approval[c]
      BY <1>3, TransitionRow DEF Decides
  <2>2. CASE a = b
    <3>1. audit'[b] = Append(<<"propose">>, verb)
        BY <1>3, <2>1, <2>2 DEF Decides, Story
    <3>2. Append(<<"propose">>, verb) = <<"propose", verb>>
      <4>1. "propose" \in {"propose"} \cup Verbs /\ verb \in {"propose"} \cup Verbs
          OBVIOUS
      <4> QED BY <4>1, AppendToOne
    <3> QED BY <2>1, <2>2, <3>1, <3>2, StatusOfVerb
  <2>3. CASE a # b
      BY <1>3, <2>1, <2>3 DEF Decides
  <2> QED BY <2>2, <2>3
<1> QED BY <1>1, <1>2, <1>3, StepWrites

-----------------------------------------------------------------------------
(* Initially the table is empty and nobody has asked for anything.          *)
LEMMA InitOK == ApprovalInit => ApprovalInv
BY DEF ApprovalInit, ApprovalInv, TableOK, NoRow, Idle, ApprovalCall, OnePendingPerKey,
       Story, AnswerIsOwnDecision

(* A step that leaves table and trail alone and moves one request to a      *)
(* place where it has no answer to give keeps the invariant.                *)
LEMMA QuietStep ==
    ASSUME ApprovalInv, NEW w \in Workers, NEW c \in ApprovalCall, c.op # "decided",
           call' = [call EXCEPT ![w] = c], UNCHANGED <<approval, audit>>
    PROVE  ApprovalInv'
<1>1. /\ TableOK' /\ call' \in [Workers -> ApprovalCall]
      /\ audit' = [a \in ApprovalIds |-> Story[approval'[a].status]]
    BY DEF ApprovalInv, TableOK, OnePendingPerKey
<1>2. AnswerIsOwnDecision'
    BY DEF ApprovalInv, AnswerIsOwnDecision
<1> QED BY <1>1, <1>2 DEF ApprovalInv

(* Every step keeps the invariant.                                          *)
LEMMA StepOK == ApprovalInv /\ [ApprovalNext]_approvalVars => ApprovalInv'
<1> SUFFICES ASSUME ApprovalInv, [ApprovalNext]_approvalVars PROVE ApprovalInv'
    OBVIOUS
<1>1. Idle \in ApprovalCall /\ Idle.op = "idle"
    BY DEF ApprovalCall, Idle
<1>2. CASE UNCHANGED approvalVars
    BY <1>2 DEF approvalVars, ApprovalInv, TableOK, OnePendingPerKey, AnswerIsOwnDecision
<1>3. ASSUME NEW w \in Workers, call' = [call EXCEPT ![w] = Idle], UNCHANGED <<approval, audit>>
      PROVE  ApprovalInv'
    BY <1>1, <1>3, QuietStep
<1>4. ASSUME NEW w \in Workers, NEW k \in Keys, NEW p \in Payloads \cup {NoPayload},
             ProposeCheck(w, k, p)
      PROVE  ApprovalInv'
  <2> DEFINE c == [op |-> "propose", key |-> k, payload |-> p]
  <2>1. c \in ApprovalCall /\ c.op # "decided"
      BY DEF ApprovalCall, ProposeCall
  <2> QED BY <1>4, <2>1, QuietStep DEF ProposeCheck
<1>5. ASSUME NEW w \in Workers, NEW a \in ApprovalIds, ProposeInsert(w, a)
      PROVE  ApprovalInv'
  <2> DEFINE k == call[w].key
             p == call[w].payload
  <2>1. k \in Keys /\ p \in Payloads \cup {NoPayload}
      BY <1>5 DEF ApprovalInv, ProposeInsert, ApprovalCall, Idle, ProposeCall, DecideCall
  <2>2. InsertPending(a, k, p) /\ call' = [call EXCEPT ![w] = Idle]
      BY <1>5 DEF ProposeInsert
  <2>3. TableOK'
      BY <2>1, <2>2, InsertKeepsTable DEF ApprovalInv
  <2>4. call' \in [Workers -> ApprovalCall]
      BY <1>1, <2>2 DEF ApprovalInv
  <2>5. /\ approval[a].status = "absent" /\ approval'[a].status = "pending"
        /\ \A b \in ApprovalIds \ {a} : approval'[b] = approval[b]
      BY <2>2 DEF InsertPending, ApprovalInv, TableOK, Exists
  <2>6. audit' = [b \in ApprovalIds |-> Story[approval'[b].status]]
    <3>1. audit[a] = <<>>
        BY <2>5 DEF ApprovalInv, Story
    <3>2. audit' = [audit EXCEPT ![a] = Append(audit[a], "propose")]
        BY <2>2 DEF InsertPending
    <3>3. Append(<<>>, "propose") = <<"propose">>
        OBVIOUS
    <3>4. audit' = [audit EXCEPT ![a] = <<"propose">>]
        BY <3>1, <3>2, <3>3, Zenon
    <3> QED BY <3>4, <2>5 DEF ApprovalInv, Story
  <2>7. AnswerIsOwnDecision'
      BY <2>2, <2>5, <1>1, StatusOfVerb DEF InsertPending, ApprovalInv, AnswerIsOwnDecision,
         ApprovalCall, ProposeCall, DecideCall, Exists, Terminal
  <2> QED BY <2>3, <2>4, <2>6, <2>7 DEF ApprovalInv
<1>6. ASSUME NEW w \in Workers, NEW a \in ApprovalIds, NEW verb \in Verbs,
             NEW v \in ClientVersions, NEW p \in Payloads \cup {NoPayload},
             DecideRead(w, a, verb, v, p)
      PROVE  ApprovalInv'
  <2> DEFINE c == [op |-> "decide", id |-> a, verb |-> verb, expected |-> v, payload |-> p]
  <2>1. c \in ApprovalCall /\ c.op # "decided"
      BY DEF ApprovalCall, DecideCall
  <2> QED BY <1>6, <2>1, QuietStep DEF DecideRead
<1>7. ASSUME NEW w \in Workers, DecideCommit(w)
      PROVE  ApprovalInv'
  <2> DEFINE c == call[w]
             a == c.id
  <2>1. c \in DecideCall /\ c.op = "decide"
      BY <1>7 DEF DecideCommit, ApprovalInv, ApprovalCall, Idle, ProposeCall
  <2>2. a \in ApprovalIds /\ c.verb \in Verbs /\ c.payload \in Payloads \cup {NoPayload}
      BY <2>1 DEF DecideCall
  <2>3. Transition(a, c.expected, c.verb, c.payload)
      BY <1>7 DEF DecideCommit, Transition
  <2>4. TableOK'
      BY <2>2, <2>3, TransitionKeepsTable DEF ApprovalInv
  <2>5. c = [op |-> c.op, id |-> a, verb |-> c.verb, expected |-> c.expected,
             payload |-> c.payload]
      BY <2>1 DEF DecideCall
  <2>6. call' = [call EXCEPT ![w] = [op |-> "decided", id |-> a, verb |-> c.verb,
                                     expected |-> c.expected, payload |-> c.payload]]
    <3>1. [c EXCEPT !.op = "decided"] = [op |-> "decided", id |-> a, verb |-> c.verb,
                                         expected |-> c.expected, payload |-> c.payload]
        BY <2>1 DEF DecideCall
    <3>2. call' = [call EXCEPT ![w] = [c EXCEPT !.op = "decided"]]
        BY <1>7 DEF DecideCommit
    <3> QED BY <3>1, <3>2, Zenon
  <2>7. call' \in [Workers -> ApprovalCall]
      BY <2>1, <2>6 DEF ApprovalInv, ApprovalCall, DecideCall
  <2>8. /\ approval[a].status = "pending"
        /\ approval'[a].status = StatusOf[c.verb]
        /\ approval'[a].decision = c.payload
        /\ \A b \in ApprovalIds \ {a} : approval'[b] = approval[b]
    <3> HIDE DEF c, a
    <3>1. TableOK
        BY DEF ApprovalInv
    <3> QED BY <2>2, <2>3, <3>1, TransitionRow
  <2>9. audit' = [b \in ApprovalIds |-> Story[approval'[b].status]]
    <3>1. audit[a] = <<"propose">>
        BY <2>2, <2>8 DEF ApprovalInv, Story
    <3>2. Append(<<"propose">>, c.verb) = <<"propose", c.verb>>
      <4>1. "propose" \in {"propose"} \cup Verbs /\ c.verb \in {"propose"} \cup Verbs
          BY <2>2
      <4> QED BY <4>1, AppendToOne
    <3>3. audit' = [audit EXCEPT ![a] = <<"propose", c.verb>>]
        BY <1>7, <3>1, <3>2 DEF DecideCommit
    <3>4. Story[approval'[a].status] = <<"propose", c.verb>>
        BY <2>2, <2>8, StatusOfVerb
    <3> QED BY <2>2, <2>8, <3>3, <3>4 DEF ApprovalInv
  <2>10. AnswerIsOwnDecision'
      BY <2>2, <2>6, <2>8, StatusOfVerb DEF ApprovalInv, AnswerIsOwnDecision, Terminal,
         ApprovalCall, Idle, ProposeCall, DecideCall
  <2> QED BY <2>4, <2>7, <2>9, <2>10 DEF ApprovalInv
<1>8. ASSUME NEW w \in Workers, ProposeConflict(w) \/ DecideConflict(w) \/ DecideAnswer(w)
                                 \/ RequestLost(w)
      PROVE  ApprovalInv'
    BY <1>3, <1>8 DEF ProposeConflict, DecideConflict, DecideAnswer, RequestLost
<1> QED BY <1>2, <1>4, <1>5, <1>6, <1>7, <1>8 DEF ApprovalNext, ApprovalStep

-----------------------------------------------------------------------------
(* The invariant holds in every reachable state.                            *)
THEOREM InvHolds == ApprovalSpec => []ApprovalInv
BY InitOK, StepOK, PTL DEF ApprovalSpec

(* The trail of a row is a sequence of events, as its story is.             *)
LEMMA StoriesAreSequences ==
    ASSUME NEW s \in {"absent", "pending"} \cup Terminal
    PROVE  Story[s] \in Seq({"propose"} \cup Verbs)
<1>1. s = "absent" \/ s = "pending" \/ \E verb \in Verbs : s = StatusOf[verb]
    BY DEF Terminal, Verbs, StatusOf
<1>2. CASE s = "absent"
    BY <1>2 DEF Story
<1>3. CASE s = "pending"
    BY <1>3 DEF Story
<1>4. ASSUME NEW verb \in Verbs, s = StatusOf[verb] PROVE Story[s] \in Seq({"propose"} \cup Verbs)
  <2>1. <<"propose", verb>> \in Seq({"propose"} \cup Verbs)
      OBVIOUS
  <2> QED BY <1>4, <2>1, StatusOfVerb
<1> QED BY <1>1, <1>2, <1>3, <1>4

(* The types of the module follow from it.                                  *)
LEMMA InvImpliesTypes == ApprovalInv => ApprovalTypeOK
<1> SUFFICES ASSUME ApprovalInv PROVE ApprovalTypeOK
    OBVIOUS
<1>1. \A a \in ApprovalIds : approval[a].status \in {"absent", "pending"} \cup Terminal
    BY DEF ApprovalInv, TableOK, NoRow, Row
<1>2. audit \in [ApprovalIds -> Seq({"propose"} \cup Verbs)]
    BY <1>1, StoriesAreSequences DEF ApprovalInv
<1> QED BY <1>2 DEF ApprovalInv, ApprovalTypeOK, TableOK

(* Type correctness: in particular no version ever exceeds 2.               *)
THEOREM TypesHold == ApprovalSpec => []ApprovalTypeOK
BY InvHolds, InvImpliesTypes, PTL

(* No key has two open requests, however many proposers race.               *)
THEOREM OnePendingHolds == ApprovalSpec => []OnePendingPerKey
<1>1. ApprovalInv => OnePendingPerKey
    BY DEF ApprovalInv, TableOK
<1> QED BY <1>1, InvHolds, PTL

(* The audit trail of a request is exactly the story of its row.            *)
THEOREM AuditHolds == ApprovalSpec => []AuditTellsTheRow
<1>1. ApprovalInv => AuditTellsTheRow
    BY DEF ApprovalInv, AuditTellsTheRow
<1> QED BY <1>1, InvHolds, PTL

(* A caller whose decision committed is answered with that decision.        *)
THEOREM AnswersHold == ApprovalSpec => []AnswerIsOwnDecision
<1>1. ApprovalInv => AnswerIsOwnDecision
    BY DEF ApprovalInv
<1> QED BY <1>1, InvHolds, PTL

(* A decision is final, and a proposal is not edited while it waits.        *)
THEOREM DecisionsStandHolds == ApprovalSpec => DecisionsStand
<1>1. ApprovalInv /\ [ApprovalNext]_approvalVars => [\A a \in ApprovalIds : RowStands(a)]_approvalVars
  <2> SUFFICES ASSUME ApprovalInv, NEW w \in Workers, ApprovalStep(w)
               PROVE  \A a \in ApprovalIds : RowStands(a)
      BY DEF ApprovalNext
  <2>1. TableOK /\ CallTyped(w)
      BY DEF ApprovalInv, CallTyped, ApprovalCall, Idle, ProposeCall, DecideCall
  <2> QED BY <2>1, StepKeepsTable
<1> QED BY <1>1, InvHolds, PTL DEF ApprovalSpec, DecisionsStand, RowStands

-----------------------------------------------------------------------------
(* What the services that execute approvals share: how the writes of the    *)
(* approval table look to a reader of ApprovalGate.  GateBar and SubjectBar *)
(* are the two components of the refinement mapping both services use.      *)
GateBar == [a \in ApprovalIds |-> GateOf(a)]

SubjectBar(nobody) == [a \in ApprovalIds |-> SubjectOf(a, nobody)]

(* What a trail may hold once approvals are executed.                       *)
TrailEvents == {"propose", "execute"} \cup Verbs

(* What the receipts promise of one step.                                   *)
ReceiptStands(a) ==
    receipt[a] # NoReceipt =>
        /\ receipt'[a] = receipt[a]
        /\ audit'[a] = audit[a]

(* Only a granted request is executed.                                      *)
ExecutedWasGranted == \A a \in ApprovalIds : Unexecuted(a) \/ Granted(a)

(* The steps of the gate, over the mapped variables.                        *)
Asks(a, k, nobody) ==
    /\ GateBar[a] = "closed"
    /\ \A b \in ApprovalIds : GateBar[b] = "asked" => SubjectBar(nobody)[b] # k
    /\ GateBar' = [GateBar EXCEPT ![a] = "asked"]
    /\ SubjectBar(nobody)' = [SubjectBar(nobody) EXCEPT ![a] = k]

Settles(a, verdict, nobody) ==
    /\ GateBar[a] = "asked"
    /\ GateBar' = [GateBar EXCEPT ![a] = verdict]
    /\ UNCHANGED SubjectBar(nobody)

-----------------------------------------------------------------------------
(* The status of a row that the table allows.                               *)
LEMMA RowStatus ==
    ASSUME TableOK, NEW a \in ApprovalIds
    PROVE  approval[a].status \in {"absent", "pending", "approved", "rejected", "modified"}
BY DEF TableOK, NoRow, Row, Terminal

(* Where the gate stands, status by status.                                 *)
LEMMA GateShape ==
    ASSUME TableOK, NEW a \in ApprovalIds
    PROVE  /\ approval[a].status = "absent" <=> GateBar[a] = "closed"
           /\ approval[a].status = "pending" <=> GateBar[a] = "asked"
           /\ approval[a].status = "rejected" => GateBar[a] = "refused"
           /\ Granted(a) /\ Unexecuted(a) => GateBar[a] = "granted"
           /\ Granted(a) /\ ~Unexecuted(a) => GateBar[a] = "executed"
<1>1. GateBar[a] = GateOf(a)
    BY DEF GateBar
<1> QED BY <1>1, RowStatus DEF GateOf, Granted, Exists

(* The mapped variables after a step that writes one row and no receipt.    *)
LEMMA OneRowWritten ==
    ASSUME NEW a \in ApprovalIds, NEW nobody, UNCHANGED receipt,
           \A b \in ApprovalIds \ {a} : approval'[b] = approval[b]
    PROVE  /\ GateBar' = [GateBar EXCEPT ![a] = GateBar'[a]]
           /\ SubjectBar(nobody)' = [SubjectBar(nobody) EXCEPT ![a] = SubjectBar(nobody)'[a]]
<1>1. ASSUME NEW b \in ApprovalIds \ {a} PROVE GateBar'[b] = GateBar[b]
  <2>1. /\ Exists(b)' <=> Exists(b)
        /\ Granted(b)' <=> Granted(b)
        /\ Unexecuted(b)' <=> Unexecuted(b)
      BY DEF Exists, Granted, Unexecuted
  <2>2. GateOf(b)' = GateOf(b)
      BY <2>1 DEF GateOf
  <2> QED BY <2>2 DEF GateBar
<1>2. \A b \in ApprovalIds \ {a} : SubjectBar(nobody)'[b] = SubjectBar(nobody)[b]
    BY DEF SubjectBar, SubjectOf, Exists
<1> QED BY <1>1, <1>2 DEF GateBar, SubjectBar

(* Inserting a request asks the gate: the index keeps the subject free.     *)
LEMMA InsertAsks ==
    ASSUME TableOK, NEW a \in ApprovalIds, NEW k \in Keys, NEW p \in Payloads \cup {NoPayload},
           InsertPending(a, k, p), UNCHANGED receipt, NEW nobody
    PROVE  Asks(a, k, nobody)
<1>1. /\ approval[a].status = "absent"
      /\ approval'[a].status = "pending" /\ approval'[a].key = k
      /\ \A b \in ApprovalIds \ {a} : approval'[b] = approval[b]
    BY DEF InsertPending, Exists, TableOK
<1>2. GateBar[a] = "closed" /\ GateBar'[a] = "asked"
    BY <1>1 DEF GateBar, GateOf, Exists, Granted
<1>3. SubjectBar(nobody)'[a] = k
    BY <1>1 DEF SubjectBar, SubjectOf, Exists
<1>4. ASSUME NEW b \in ApprovalIds, GateBar[b] = "asked"
      PROVE  SubjectBar(nobody)[b] # k
  <2>1. approval[b].status = "pending"
      BY <1>4, GateShape
  <2> QED BY <2>1 DEF InsertPending, Pending, SubjectBar, SubjectOf, Exists
<1> QED BY <1>1, <1>2, <1>3, <1>4, OneRowWritten DEF Asks

(* Deciding a request settles the gate: a request that is still open has no *)
(* receipt, so a grant is not yet executed.                                 *)
LEMMA DecideSettles ==
    ASSUME TableOK, ExecutedWasGranted, NEW a \in ApprovalIds, NEW v, NEW verb \in Verbs,
           NEW p \in Payloads \cup {NoPayload}, Transition(a, v, verb, p),
           UNCHANGED receipt, NEW nobody
    PROVE  \E verdict \in {"granted", "refused"} : Settles(a, verdict, nobody)
<1>1. /\ approval[a].status = "pending" /\ approval'[a].status = StatusOf[verb]
      /\ approval'[a].key = approval[a].key
      /\ \A b \in ApprovalIds \ {a} : approval'[b] = approval[b]
    BY TransitionRow
<1>2. approval'[a].status \in Terminal
    BY <1>1, StatusOfVerb
<1>3. receipt'[a] = NoReceipt
    BY <1>1 DEF ExecutedWasGranted, Unexecuted, Granted
<1>4. GateBar[a] = "asked" /\ GateBar'[a] \in {"granted", "refused"}
    BY <1>1, <1>2, <1>3 DEF GateBar, GateOf, Exists, Granted, Unexecuted, Terminal
<1>5. SubjectBar(nobody)'[a] = SubjectBar(nobody)[a]
    BY <1>1, <1>2 DEF SubjectBar, SubjectOf, Exists, Terminal
<1>6. SubjectBar(nobody)' = SubjectBar(nobody)
  <2>1. SubjectBar(nobody)' = [SubjectBar(nobody) EXCEPT ![a] = SubjectBar(nobody)[a]]
      BY <1>1, <1>5, OneRowWritten
  <2> QED BY <2>1 DEF SubjectBar
<1> QED BY <1>1, <1>4, <1>6, OneRowWritten DEF Settles

(* What a step of the approval service is for the gate: a stutter, a        *)
(* question or a verdict.                                                   *)
LEMMA StepAtGate ==
    ASSUME TableOK, ExecutedWasGranted, NEW w \in Workers, CallTyped(w), ApprovalStep(w),
           UNCHANGED receipt, NEW nobody
    PROVE  \/ UNCHANGED GateBar /\ UNCHANGED SubjectBar(nobody)
           \/ \E a \in ApprovalIds, k \in Keys : Asks(a, k, nobody)
           \/ \E a \in ApprovalIds, verdict \in {"granted", "refused"} :
                 Settles(a, verdict, nobody)
<1>1. CASE UNCHANGED <<approval, audit>>
    BY <1>1 DEF GateBar, GateOf, SubjectBar, SubjectOf, Exists, Granted, Unexecuted
<1>2. ASSUME NEW a \in ApprovalIds, NEW k \in Keys, NEW p \in Payloads \cup {NoPayload},
             InsertPending(a, k, p)
      PROVE  Asks(a, k, nobody)
    BY <1>2, InsertAsks
<1>3. ASSUME NEW a \in ApprovalIds, NEW v \in ClientVersions, NEW verb \in Verbs,
             NEW p \in Payloads \cup {NoPayload}, Decides(a, v, verb, p)
      PROVE  \E verdict \in {"granted", "refused"} : Settles(a, verdict, nobody)
    BY <1>3, DecideSettles DEF Decides
<1> QED BY <1>1, <1>2, <1>3, StepWrites
=============================================================================
