--------------------------- MODULE ModelLifecycle ---------------------------
(* The champion/challenger lifecycle of registered models                   *)
(* (application/lifecycle.py) on top of the approval table.  A promotion is *)
(* requested, decided by a human, and executed by a third request: the      *)
(* MLflow alias moves first, outside any transaction, then one transaction  *)
(* locks the rows of the model's name, archives the old champion and writes *)
(* the receipt.                                                             *)
EXTENDS ApprovalExecutions

CONSTANTS
    Models,     \* registered models; as a key, "promote this model"; as a
                \* payload, one whose id, name and version are this model's
    Names,
    NameOf,     \* the registered name of each model
    NoModel

ASSUME ModelsAreKeysAndPayloads == Models \subseteq Keys /\ Models \subseteq Payloads
ASSUME EveryModelHasAName == NameOf \in [Models -> Names]
ASSUME NoModelIsNone == NoModel \notin Models

VARIABLES
    lifecycle,      \* the model_lifecycle_states table
    championAlias   \* the MLflow alias "champion" of each name

lifecycleVars == <<approval, audit, call, receipt, lifecycle, championAlias>>

Statuses == {"challenger", "champion", "archived"}

Receipt == [kind: {"promotion"}, model: Models, archived: SUBSET Models]

RequestCall == [op: {"request"}, model: Models, found: {"none"} \cup Statuses]

ExecuteCall == [op: {"execute", "promoted"}, model: Models, id: ApprovalIds]

LockedCall == [op: {"locked"}, model: Models, id: ApprovalIds,
               archive: SUBSET Models, found: {"none"} \cup Statuses]

Versions(n) == {m \in Models : NameOf[m] = n}

Champions(n) == {m \in Versions(n) : lifecycle[m] = "champion"}

(* Mistake: the rows of the name are read without FOR UPDATE.               *)
NeverLocked(n) == TRUE

(* list_by_name with a session is SELECT ... FOR UPDATE over the rows of    *)
(* the name, so at most one transaction is past it.                         *)
NameIsFree(n) == \A w \in Workers : call[w].op = "locked" => NameOf[call[w].model] # n

-----------------------------------------------------------------------------
(* Mistake: the challenger row is committed before the request.             *)
RequestEager(w, m) ==
    /\ call[w] = Idle
    /\ lifecycle[m] \notin {"champion", "archived"}
    /\ lifecycle' = [lifecycle EXCEPT ![m] = "challenger"]
    /\ call' = [call EXCEPT ![w] = [op |-> "request", model |-> m, found |-> "challenger"]]
    /\ UNCHANGED <<approval, audit, receipt, championAlias>>

(* request_promotion opens a transaction and reads the lifecycle row.       *)
RequestRead(w, m) ==
    /\ call[w] = Idle
    /\ lifecycle[m] \notin {"champion", "archived"}
    /\ call' = [call EXCEPT ![w] = [op |-> "request", model |-> m, found |-> lifecycle[m]]]
    /\ UNCHANGED <<approval, audit, receipt, lifecycle, championAlias>>

(* The challenger row goes in only where none was found, and the unique     *)
(* registered_model_id refuses it when another request was faster.          *)
ChallengerFits(c) == c.found = "none" => lifecycle[c.model] = "none"

WithChallenger(c) ==
    IF c.found = "none" THEN [lifecycle EXCEPT ![c.model] = "challenger"] ELSE lifecycle

(* Challenger row, approval request and audit event commit together.        *)
RequestCommit(w, a) ==
    LET c == call[w] IN
    /\ c.op = "request"
    /\ ChallengerFits(c)
    /\ InsertPending(a, c.model, c.model)
    /\ lifecycle' = WithChallenger(c)
    /\ call' = [call EXCEPT ![w] = Idle]
    /\ UNCHANGED <<receipt, championAlias>>

(* An open request of the model, seen by find_pending or by the index, or a *)
(* faster challenger: everything rolls back.                                *)
RequestConflict(w) ==
    LET c == call[w] IN
    /\ c.op = "request"
    /\ ~ChallengerFits(c) \/ Pending(c.model) # {}
    /\ call' = [call EXCEPT ![w] = Idle]
    /\ UNCHANGED <<approval, audit, receipt, lifecycle, championAlias>>

(* Mistake: any approval of the model will do.                              *)
SameModel(m, a) == Exists(a) /\ approval[a].key = m

(* Mistake: any decided approval of the model will do.                      *)
DecidedModel(m, a) == approval[a].status \in Terminal /\ approval[a].key = m

(* _validate_approval: action type, entity and status.                      *)
ValidApproval(m, a) == Granted(a) /\ approval[a].key = m

(* Mistake: what was proposed counts, modified or not.                      *)
ProposedTargets(m, a) == approval[a].proposed = m

(* _validate_payload: the effective payload still names this model.         *)
PayloadTargets(m, a) == EffectivePayload(a) = m

(* execute_promotion without a receipt: everything is validated before      *)
(* anything moves.  Its reads are sessions of their own, but an approval    *)
(* that is granted stays as it is, so when they happen makes no difference. *)
ExecuteStart(w, m, a) ==
    /\ call[w] = Idle
    /\ Unexecuted(a)
    /\ ValidApproval(m, a)
    /\ PayloadTargets(m, a)
    /\ call' = [call EXCEPT ![w] = [op |-> "execute", model |-> m, id |-> a]]
    /\ UNCHANGED <<approval, audit, receipt, lifecycle, championAlias>>

(* Mistake: the arguments of the registry call are swapped.                 *)
PromoteApproval(w) ==
    /\ call[w].op = "execute"
    /\ championAlias' = [championAlias EXCEPT ![NameOf[call[w].model]] = call[w].id]
    /\ call' = [call EXCEPT ![w].op = "promoted"]
    /\ UNCHANGED <<approval, audit, receipt, lifecycle>>

(* registry.promote_champion: the alias moves in MLflow.                    *)
PromoteChampion(w) ==
    /\ call[w].op = "execute"
    /\ championAlias' = [championAlias EXCEPT ![NameOf[call[w].model]] = call[w].model]
    /\ call' = [call EXCEPT ![w].op = "promoted"]
    /\ UNCHANGED <<approval, audit, receipt, lifecycle>>

(* The transaction locks the name, then reads the lifecycle rows of the     *)
(* other versions and of the target.                                        *)
LockName(w) ==
    LET c == call[w]
        n == NameOf[c.model] IN
    /\ c.op = "promoted"
    /\ NameIsFree(n)
    /\ call' = [call EXCEPT ![w] = [op |-> "locked", model |-> c.model, id |-> c.id,
                                    archive |-> Champions(n) \ {c.model},
                                    found |-> lifecycle[c.model]]]
    /\ UNCHANGED <<approval, audit, receipt, lifecycle, championAlias>>

(* The target is made champion whatever its row said.                       *)
AfterPromotion(c) ==
    [m \in Models |->
        IF m = c.model THEN "champion"
        ELSE IF m \in c.archive THEN "archived" ELSE lifecycle[m]]

(* Mistake: no unique approval_id.                                          *)
ManyReceipts(c) == ChallengerFits(c)

(* Neither the receipt nor the target's lifecycle row may have been         *)
(* inserted by someone else.                                                *)
CommitFits(c) == Unexecuted(c.id) /\ ChallengerFits(c)

(* Archiving, promotion, receipt and audit event commit together.           *)
ExecuteCommit(w) ==
    LET c == call[w] IN
    /\ c.op = "locked"
    /\ CommitFits(c)
    /\ lifecycle' = AfterPromotion(c)
    /\ receipt' = [receipt EXCEPT ![c.id] = [kind |-> "promotion", model |-> c.model,
                                             archived |-> c.archive]]
    /\ audit' = [audit EXCEPT ![c.id] = Append(@, "execute")]
    /\ call' = [call EXCEPT ![w] = Idle]
    /\ UNCHANGED <<approval, championAlias>>

(* IntegrityError: the transaction rolls back; the caller gets the other's  *)
(* receipt if there is one, an error if there is none.                      *)
ExecuteConflict(w) ==
    LET c == call[w] IN
    /\ c.op = "locked"
    /\ ~CommitFits(c)
    /\ call' = [call EXCEPT ![w] = Idle]
    /\ UNCHANGED <<approval, audit, receipt, lifecycle, championAlias>>

(* A failing session or a dying process gives up the lock and forgets what  *)
(* was read; an alias that moved stays where it is.                         *)
LifecycleLost(w) ==
    /\ call[w].op \in {"request", "execute", "promoted", "locked"}
    /\ call' = [call EXCEPT ![w] = Idle]
    /\ UNCHANGED <<approval, audit, receipt, lifecycle, championAlias>>

-----------------------------------------------------------------------------
LifecycleInit ==
    /\ ApprovalInit
    /\ receipt = [a \in ApprovalIds |-> NoReceipt]
    /\ lifecycle = [m \in Models |-> "none"]
    /\ championAlias = [n \in Names |-> NoModel]

LifecycleStep(w) ==
    \/ \E m \in Models : RequestRead(w, m)
    \/ \E a \in ApprovalIds : RequestCommit(w, a)
    \/ RequestConflict(w)
    \/ \E m \in Models, a \in ApprovalIds : ExecuteStart(w, m, a)
    \/ PromoteChampion(w)
    \/ LockName(w)
    \/ ExecuteCommit(w)
    \/ ExecuteConflict(w)
    \/ LifecycleLost(w)

LifecycleNext ==
    \/ ApprovalNext /\ UNCHANGED <<receipt, lifecycle, championAlias>>
    \/ \E w \in Workers : LifecycleStep(w)

LifecycleSpec == LifecycleInit /\ [][LifecycleNext]_lifecycleVars

-----------------------------------------------------------------------------
(* Every variable has its type.                                             *)
LifecycleTypeOK ==
    /\ approval \in [ApprovalIds -> {NoRow} \cup Row]
    /\ audit \in [ApprovalIds -> Seq({"propose", "execute"} \cup Verbs)]
    /\ call \in [Workers -> ApprovalCall \cup RequestCall \cup ExecuteCall \cup LockedCall]
    /\ receipt \in [ApprovalIds -> {NoReceipt} \cup Receipt]
    /\ lifecycle \in [Models -> {"none"} \cup Statuses]
    /\ championAlias \in [Names -> Models \cup {NoModel}]

(* A human granted the promotion of m by a, in the form that counts.        *)
GrantedPromotion(m, a) ==
    /\ \/ approval[a].status = "approved" /\ approval[a].proposed = m
       \/ approval[a].status = "modified" /\ approval[a].decision = m
    /\ approval[a].key = m

(* Two promotions of one name may interleave as they like, over different   *)
(* models or over the same approval: the name never has two champions.      *)
OneChampionPerName == \A m, p \in Models :
    lifecycle[m] = "champion" /\ lifecycle[p] = "champion" /\ NameOf[m] = NameOf[p] => m = p

(* Nothing executes but what a human granted, for the very model and with   *)
(* the very payload that was granted; and whoever is, or ever was, champion *)
(* got there by such a receipt.                                             *)
OnlyGrantedPromotions ==
    /\ \A a \in ApprovalIds : receipt[a] # NoReceipt => GrantedPromotion(receipt[a].model, a)
    /\ \A m \in Models : lifecycle[m] \in {"champion", "archived"} =>
           \E a \in ApprovalIds : receipt[a] # NoReceipt /\ receipt[a].model = m

(* The MLflow alias may run ahead of the database, but never to a model     *)
(* whose promotion no human granted: validation comes before the alias.     *)
AliasWasGranted == \A n \in Names :
    championAlias[n] # NoModel =>
        NameOf[championAlias[n]] = n /\ \E a \in ApprovalIds : GrantedPromotion(championAlias[n], a)

(* A challenger row never appears without the request it was created for:   *)
(* request_promotion writes both in one transaction, whichever of the two   *)
(* inserts is refused.                                                      *)
ChallengerWasProposed == \A m \in Models :
    lifecycle[m] # "none" => \E a \in ApprovalIds : Exists(a) /\ approval[a].key = m

(* The champion of a name, for a reader of ApprovalGate.                    *)
ChampionOf(n) == IF Champions(n) = {} THEN NoModel ELSE CHOOSE m \in Champions(n) : TRUE

Gate == INSTANCE ApprovalGate WITH
    Requests <- ApprovalIds, Subjects <- Keys, Seats <- Names, SeatOf <- NameOf,
    Nobody <- NoModel,
    gate <- [a \in ApprovalIds |-> GateOf(a)],
    subject <- [a \in ApprovalIds |-> SubjectOf(a, NoModel)],
    holder <- [n \in Names |-> ChampionOf(n)]

(* Promotions implement the gate: the champion of a name changes only when  *)
(* a granted and not yet executed request executes, it changes to the model *)
(* that request is about, and a name that has a champion keeps one.         *)
ImplementsGate == Gate!GateSpec

(* db/models.py: a model goes challenger -> champion -> archived, and       *)
(* lifecycle.py refuses to promote an archived one.                         *)
ArchivedIsFinal ==
    [][\A m \in Models : lifecycle[m] = "archived" => lifecycle'[m] = "archived"]_lifecycleVars

(* execute_promotion: the alias move, the archiving and the receipt happen  *)
(* together, and a retry repairs an alias that moved alone.  So once every  *)
(* granted promotion has its receipt and nothing is under way, the alias    *)
(* names the champion.                                                      *)
AliasFollowsChampion ==
    /\ \A w \in Workers : call[w].op \notin {"execute", "promoted", "locked"}
    /\ \A a \in ApprovalIds : Granted(a) => ~Unexecuted(a)
    => \A n \in Names : championAlias[n] = ChampionOf(n)
=============================================================================
