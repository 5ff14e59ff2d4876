------------------------ MODULE ModelLifecycleProofs ------------------------
(* The champion lifecycle is right for any number of workers, models, names *)
(* and approvals.                                                           *)
EXTENDS ModelLifecycle, ApprovalsProofs

LifecycleCall == ApprovalCall \cup RequestCall \cup ExecuteCall \cup LockedCall

(* FOR UPDATE: two transactions past the lock are about different names.    *)
LocksExclude == \A v, w \in Workers :
    /\ call[v].op = "locked" /\ call[w].op = "locked"
    /\ NameOf[call[v].model] = NameOf[call[w].model]
    => v = w

(* What a transaction read under the lock is still so when it commits: this *)
(* is what makes its archiving complete.                                    *)
OtherChampion(m, c) == m # c.model /\ NameOf[m] = NameOf[c.model] /\ lifecycle[m] = "champion"

ArchiveIsCurrent == \A w \in Workers, m \in Models :
    call[w].op = "locked" => (m \in call[w].archive <=> OtherChampion(m, call[w]))

(* Inductive for the champions: uniqueness needs complete archiving, which  *)
(* needs the lock.                                                          *)
SeatInv ==
    /\ TableOK
    /\ call \in [Workers -> LifecycleCall]
    /\ lifecycle \in [Models -> {"none"} \cup Statuses]
    /\ LocksExclude
    /\ ArchiveIsCurrent
    /\ OneChampionPerName

Becomes(w, c) == call' = [call EXCEPT ![w] = c]

-----------------------------------------------------------------------------
(* The fields of a request, by where it stands.                             *)
LEMMA CallShape ==
    ASSUME SeatInv, NEW w \in Workers
    PROVE  /\ CallTyped(w)
           /\ call[w].op = "request" => call[w] \in RequestCall
           /\ call[w].op \in {"execute", "promoted"} => call[w] \in ExecuteCall
           /\ call[w].op = "locked" => call[w] \in LockedCall
BY DEF SeatInv, LifecycleCall, CallTyped, ApprovalCall, Idle, ProposeCall, DecideCall,
       RequestCall, ExecuteCall, LockedCall

(* A request inside the approval service holds no lock on a name.           *)
LEMMA NoApprovalCallIsLocked == \A c \in ApprovalCall : c \in LifecycleCall /\ c.op # "locked"
BY DEF ApprovalCall, Idle, ProposeCall, DecideCall, LifecycleCall

(* Nor does a worker without a request.                                     *)
LEMMA IdleIsNotLocked == Idle \in LifecycleCall /\ Idle.op = "idle" /\ Idle \in ApprovalCall
BY DEF ApprovalCall, Idle, LifecycleCall

(* A step that leaves the champions alone and takes no lock keeps SeatInv.  *)
LEMMA UnlockedStep ==
    ASSUME SeatInv, TableOK', NEW w \in Workers, NEW c \in LifecycleCall, c.op # "locked",
           Becomes(w, c),
           lifecycle' \in [Models -> {"none"} \cup Statuses],
           \A m \in Models : lifecycle'[m] = "champion" <=> lifecycle[m] = "champion"
    PROVE  SeatInv'
<1>1. call' \in [Workers -> LifecycleCall]
    BY DEF SeatInv, Becomes
<1>2. \A v \in Workers : call'[v].op = "locked" => call'[v] = call[v]
    BY DEF SeatInv, Becomes
<1>3. LocksExclude'
    BY <1>2 DEF SeatInv, LocksExclude
<1>4. ArchiveIsCurrent'
    BY <1>2 DEF SeatInv, ArchiveIsCurrent, OtherChampion
<1>5. OneChampionPerName'
    BY DEF SeatInv, OneChampionPerName
<1> QED BY <1>1, <1>3, <1>4, <1>5 DEF SeatInv

(* Taking the lock: nobody else has it, and the champions are read now.     *)
LEMMA LockStep ==
    ASSUME SeatInv, NEW w \in Workers, LockName(w)
    PROVE  SeatInv'
<1> DEFINE c == call[w]
           n == NameOf[c.model]
           d == [op |-> "locked", model |-> c.model, id |-> c.id,
                 archive |-> Champions(n) \ {c.model}, found |-> lifecycle[c.model]]
<1>1. c \in ExecuteCall /\ Becomes(w, d) /\ NameIsFree(n)
    BY CallShape DEF LockName, Becomes
<1>2. d \in LockedCall
    BY <1>1 DEF ExecuteCall, LockedCall, SeatInv, Champions, Versions
<1>3. \A v \in Workers : call'[v] = IF v = w THEN d ELSE call[v]
    BY <1>1 DEF SeatInv, Becomes
<1>4. call' \in [Workers -> LifecycleCall]
    BY <1>1, <1>2 DEF SeatInv, Becomes, LifecycleCall
<1>5. UNCHANGED <<approval, lifecycle>>
    BY DEF LockName
<1>6. LocksExclude'
  <2> SUFFICES ASSUME NEW u \in Workers, NEW v \in Workers,
                      call'[u].op = "locked", call'[v].op = "locked",
                      NameOf[call'[u].model] = NameOf[call'[v].model]
               PROVE  u = v
      BY DEF LocksExclude
  <2>1. CASE u # w /\ v # w
      BY <2>1, <1>3 DEF SeatInv, LocksExclude
  <2>2. CASE u = w /\ v # w
      BY <2>2, <1>1, <1>3 DEF NameIsFree
  <2>3. CASE u # w /\ v = w
      BY <2>3, <1>1, <1>3 DEF NameIsFree
  <2> QED BY <2>1, <2>2, <2>3
<1>7. ArchiveIsCurrent'
  <2> SUFFICES ASSUME NEW v \in Workers, NEW m \in Models, call'[v].op = "locked"
               PROVE  m \in call'[v].archive <=> OtherChampion(m, call[v])'
      BY DEF ArchiveIsCurrent
  <2>1. CASE v = w
    <3>1. m \in d.archive <=> OtherChampion(m, d)
        BY DEF OtherChampion, Champions, Versions
    <3> QED BY <2>1, <3>1, <1>3, <1>5 DEF OtherChampion
  <2>2. CASE v # w
      BY <2>2, <1>3, <1>5 DEF SeatInv, ArchiveIsCurrent, OtherChampion
  <2> QED BY <2>1, <2>2
<1> QED BY <1>4, <1>5, <1>6, <1>7 DEF SeatInv, TableOK, OnePendingPerKey, OneChampionPerName

(* Committing a promotion: the champions read under the lock are all the    *)
(* champions there are, so archiving them leaves the target alone.          *)
LEMMA CommitStep ==
    ASSUME SeatInv, NEW w \in Workers, ExecuteCommit(w)
    PROVE  SeatInv'
<1> DEFINE c == call[w]
           n == NameOf[c.model]
<1>1. c \in LockedCall /\ c.op = "locked" /\ c.model \in Models
    BY CallShape DEF ExecuteCommit, LockedCall
<1>2. \A m \in Models : m \in c.archive <=> OtherChampion(m, c)
    BY <1>1 DEF SeatInv, ArchiveIsCurrent
<1>3. lifecycle' = AfterPromotion(c) /\ Becomes(w, Idle) /\ UNCHANGED approval
    BY DEF ExecuteCommit, Becomes
<1>4. lifecycle' \in [Models -> {"none"} \cup Statuses]
    BY <1>3 DEF AfterPromotion, SeatInv, Statuses
<1>5. \A m \in Models : lifecycle'[m] = "champion" <=>
                            m = c.model \/ (lifecycle[m] = "champion" /\ NameOf[m] # n)
    BY <1>1, <1>2, <1>3 DEF AfterPromotion, OtherChampion
<1>6. OneChampionPerName'
    BY <1>1, <1>5 DEF SeatInv, OneChampionPerName
<1>7. \A v \in Workers : call'[v] = IF v = w THEN Idle ELSE call[v]
    BY <1>3 DEF SeatInv, Becomes
<1>8. call' \in [Workers -> LifecycleCall]
    BY <1>3, IdleIsNotLocked DEF SeatInv, Becomes
<1>9. LocksExclude'
    BY <1>7, IdleIsNotLocked DEF SeatInv, LocksExclude
<1>10. ArchiveIsCurrent'
  <2> SUFFICES ASSUME NEW v \in Workers, NEW m \in Models, call'[v].op = "locked"
               PROVE  m \in call'[v].archive <=> OtherChampion(m, call[v])'
      BY DEF ArchiveIsCurrent
  <2>1. v # w /\ call'[v] = call[v] /\ call[v].op = "locked"
      BY <1>7, IdleIsNotLocked
  <2>2. NameOf[call[v].model] # n
      BY <2>1, <1>1 DEF SeatInv, LocksExclude
  <2>3. OtherChampion(m, call[v])' <=> OtherChampion(m, call[v])
      BY <2>1, <2>2, <1>1, <1>5 DEF OtherChampion
  <2> QED BY <2>1, <2>3 DEF SeatInv, ArchiveIsCurrent
<1> QED BY <1>3, <1>4, <1>6, <1>8, <1>9, <1>10 DEF SeatInv, TableOK, OnePendingPerKey

(* The lifecycle's own steps keep SeatInv.                                  *)
LEMMA LifecycleStepSeat ==
    ASSUME SeatInv, NEW w \in Workers, LifecycleStep(w)
    PROVE  SeatInv'
<1>1. ASSUME NEW c \in LifecycleCall, c.op # "locked", Becomes(w, c),
             UNCHANGED <<approval, lifecycle>>
      PROVE  SeatInv'
  <2>1. TableOK'
      BY <1>1 DEF SeatInv, TableOK, OnePendingPerKey
  <2>2. lifecycle' \in [Models -> {"none"} \cup Statuses]
      BY <1>1 DEF SeatInv
  <2> QED BY <1>1, <2>1, <2>2, UnlockedStep
<1>2. ASSUME NEW m \in Models, RequestRead(w, m) PROVE SeatInv'
  <2> DEFINE c == [op |-> "request", model |-> m, found |-> lifecycle[m]]
  <2>1. c \in LifecycleCall /\ c.op # "locked"
      BY DEF SeatInv, LifecycleCall, RequestCall
  <2>2. Becomes(w, c) /\ UNCHANGED <<approval, lifecycle>>
      BY <1>2 DEF RequestRead, Becomes
  <2> QED BY <2>1, <2>2, <1>1
<1>3. ASSUME NEW a \in ApprovalIds, RequestCommit(w, a) PROVE SeatInv'
  <2> DEFINE c == call[w]
  <2>1. c \in RequestCall /\ c.model \in Models
      BY <1>3, CallShape DEF RequestCommit, RequestCall
  <2>2. InsertPending(a, c.model, c.model)
      BY <1>3 DEF RequestCommit
  <2>3. TableOK'
      BY <2>1, <2>2, InsertKeepsTable, ModelsAreKeysAndPayloads DEF SeatInv
  <2>4. ChallengerFits(c) /\ lifecycle' = WithChallenger(c)
      BY <1>3 DEF RequestCommit
  <2>5. lifecycle' \in [Models -> {"none"} \cup Statuses]
      BY <2>4 DEF SeatInv, WithChallenger, Statuses
  <2>6. \A m \in Models : lifecycle'[m] = "champion" <=> lifecycle[m] = "champion"
      BY <2>1, <2>4 DEF SeatInv, WithChallenger, ChallengerFits
  <2>7. Becomes(w, Idle)
      BY <1>3 DEF RequestCommit, Becomes
  <2> QED BY <2>3, <2>5, <2>6, <2>7, UnlockedStep, IdleIsNotLocked
<1>4. ASSUME NEW m \in Models, NEW a \in ApprovalIds, ExecuteStart(w, m, a) PROVE SeatInv'
  <2> DEFINE c == [op |-> "execute", model |-> m, id |-> a]
  <2>1. c \in LifecycleCall /\ c.op # "locked"
      BY DEF LifecycleCall, ExecuteCall
  <2>2. Becomes(w, c) /\ UNCHANGED <<approval, lifecycle>>
      BY <1>4 DEF ExecuteStart, Becomes
  <2> QED BY <2>1, <2>2, <1>1
<1>5. ASSUME PromoteChampion(w) PROVE SeatInv'
  <2> DEFINE c == [call[w] EXCEPT !.op = "promoted"]
  <2>1. call[w] \in ExecuteCall
      BY <1>5, CallShape DEF PromoteChampion
  <2>2. c \in LifecycleCall /\ c.op # "locked"
      BY <2>1 DEF LifecycleCall, ExecuteCall
  <2>3. Becomes(w, c) /\ UNCHANGED <<approval, lifecycle>>
      BY <1>5 DEF PromoteChampion, Becomes
  <2> HIDE DEF c
  <2> QED BY <2>2, <2>3, <1>1
<1>6. ASSUME RequestConflict(w) \/ ExecuteConflict(w) \/ LifecycleLost(w) PROVE SeatInv'
    BY <1>6, <1>1, IdleIsNotLocked DEF RequestConflict, ExecuteConflict, LifecycleLost, Becomes
<1> QED BY <1>2, <1>3, <1>4, <1>5, <1>6, LockStep, CommitStep DEF LifecycleStep

-----------------------------------------------------------------------------
(* Nobody executes, has executed or holds a seat without a grant; GrantInv  *)
(* is SeatInv and that.                                                     *)
CallsGranted == \A w \in Workers :
    call[w].op \in {"execute", "promoted", "locked"} =>
        GrantedPromotion(call[w].model, call[w].id)

GrantInv ==
    /\ SeatInv
    /\ audit \in [ApprovalIds -> Seq(TrailEvents)]
    /\ receipt \in [ApprovalIds -> {NoReceipt} \cup Receipt]
    /\ championAlias \in [Names -> Models \cup {NoModel}]
    /\ CallsGranted
    /\ OnlyGrantedPromotions
    /\ AliasWasGranted

(* GrantedPromotion(m, a) in the next state.                                *)
GrantedNext(m, a) ==
    /\ approval'[a].key = m
    /\ \/ approval'[a].status = "approved" /\ approval'[a].proposed = m
       \/ approval'[a].status = "modified" /\ approval'[a].decision = m

(* A grant is final because the row is.                                     *)
LEMMA GrantStands ==
    ASSUME NEW m, NEW a, RowStands(a), GrantedPromotion(m, a)
    PROVE  GrantedNext(m, a)
BY DEF RowStands, GrantedPromotion, GrantedNext, Terminal

(* Inserting a request lets every row stand.                                *)
LEMMA InsertStands ==
    ASSUME TableOK, NEW a \in ApprovalIds, NEW k, NEW p, InsertPending(a, k, p)
    PROVE  \A b \in ApprovalIds : RowStands(b)
BY DEF TableOK, InsertPending, Exists, RowStands, Terminal

(* The models and approvals a request carries.                              *)
LEMMA CallNames ==
    ASSUME SeatInv, NEW w \in Workers, call[w].op \in {"execute", "promoted", "locked"}
    PROVE  call[w].model \in Models /\ call[w].id \in ApprovalIds
BY CallShape DEF ExecuteCall, LockedCall

(* A step that executes nothing keeps GrantInv when rows stand, the trail   *)
(* is one, and a request that starts to execute has its grant.              *)
LEMMA NothingExecuted ==
    ASSUME GrantInv, SeatInv', audit' \in [ApprovalIds -> Seq(TrailEvents)],
           \A a \in ApprovalIds : RowStands(a),
           UNCHANGED <<receipt, championAlias>>,
           \A m \in Models : lifecycle'[m] = lifecycle[m] \/ lifecycle'[m] = "challenger",
           NEW w \in Workers, NEW c, Becomes(w, c),
           c.op \in {"execute", "promoted", "locked"} =>
               /\ c.model \in Models /\ c.id \in ApprovalIds
               /\ GrantedPromotion(c.model, c.id)
    PROVE  GrantInv'
<1>1. CallsGranted'
  <2> SUFFICES ASSUME NEW v \in Workers, call'[v].op \in {"execute", "promoted", "locked"}
               PROVE  GrantedNext(call'[v].model, call'[v].id)
      BY DEF CallsGranted, GrantedPromotion, GrantedNext
  <2>1. call'[v] = IF v = w THEN c ELSE call[v]
      BY DEF GrantInv, SeatInv, Becomes
  <2>2. CASE v = w
      BY <2>1, <2>2, GrantStands
  <2>3. CASE v # w
    <3>1. call'[v] = call[v] /\ GrantedPromotion(call[v].model, call[v].id)
        BY <2>1, <2>3 DEF GrantInv, CallsGranted
    <3>2. call[v].id \in ApprovalIds
        BY <2>1, <2>3, CallNames DEF GrantInv
    <3>3. GrantedNext(call[v].model, call[v].id)
        BY <3>1, <3>2, GrantStands
    <3> QED BY <3>1, <3>3
  <2> QED BY <2>2, <2>3
<1>2. OnlyGrantedPromotions'
  <2>1. ASSUME NEW a \in ApprovalIds, receipt[a] # NoReceipt
        PROVE  GrantedNext(receipt[a].model, a)
      BY <2>1, GrantStands DEF GrantInv, OnlyGrantedPromotions
  <2>2. ASSUME NEW m \in Models, lifecycle'[m] \in {"champion", "archived"}
        PROVE  \E a \in ApprovalIds : receipt[a] # NoReceipt /\ receipt[a].model = m
      BY <2>2 DEF GrantInv, OnlyGrantedPromotions
  <2> QED BY <2>1, <2>2 DEF OnlyGrantedPromotions, GrantedPromotion, GrantedNext
<1>3. AliasWasGranted'
  <2> SUFFICES ASSUME NEW n \in Names, championAlias[n] # NoModel
               PROVE  /\ NameOf[championAlias[n]] = n
                      /\ \E a \in ApprovalIds : GrantedNext(championAlias[n], a)
      BY DEF AliasWasGranted, GrantedPromotion, GrantedNext
  <2>1. PICK a \in ApprovalIds : GrantedPromotion(championAlias[n], a)
      BY DEF GrantInv, AliasWasGranted
  <2>2. GrantedNext(championAlias[n], a)
      BY <2>1, GrantStands
  <2> QED BY <2>2 DEF GrantInv, AliasWasGranted
<1> QED BY <1>1, <1>2, <1>3 DEF GrantInv

(* A request with a receipt is decided, so its trail is closed to the       *)
(* approval service.                                                        *)
LEMMA ReceiptIsDecided ==
    ASSUME GrantInv, NEW a \in ApprovalIds, receipt[a] # NoReceipt
    PROVE  Exists(a) /\ approval[a].status \in Terminal
BY DEF GrantInv, OnlyGrantedPromotions, GrantedPromotion, Exists, Terminal

(* A step of the approval service, with the lifecycle left alone.           *)
LEMMA ApprovalStepGrant ==
    ASSUME GrantInv, NEW w \in Workers, ApprovalStep(w),
           UNCHANGED <<receipt, lifecycle, championAlias>>
    PROVE  GrantInv' /\ \A a \in ApprovalIds : ReceiptStands(a)
<1>1. SeatInv /\ TableOK /\ CallTyped(w)
    BY CallShape DEF GrantInv, SeatInv
<1>2. TableOK' /\ \A a \in ApprovalIds : RowStands(a)
    BY <1>1, StepKeepsTable
<1>3. PICK c \in ApprovalCall : Becomes(w, c)
    BY <1>1, StepKeepsTable DEF Becomes
<1>4. c \in LifecycleCall /\ c.op # "locked" /\ c.op \notin {"execute", "promoted", "locked"}
    BY <1>3 DEF ApprovalCall, Idle, ProposeCall, DecideCall, LifecycleCall
<1>5. SeatInv'
    BY <1>1, <1>2, <1>3, <1>4, UnlockedStep DEF SeatInv
<1>6. {"propose"} \cup Verbs \subseteq TrailEvents
    BY DEF TrailEvents
<1>7. /\ audit' \in [ApprovalIds -> Seq(TrailEvents)]
      /\ \A a \in ApprovalIds : approval[a].status \in Terminal => audit'[a] = audit[a]
    BY <1>1, <1>6, StepKeepsTrail DEF GrantInv
<1>8. GrantInv'
    BY <1>2, <1>3, <1>4, <1>5, <1>7, NothingExecuted
<1> QED BY <1>7, <1>8, ReceiptIsDecided DEF ReceiptStands

(* Moving the alias: the request that moves it has its grant.               *)
LEMMA PromoteGrant ==
    ASSUME GrantInv, NEW w \in Workers, PromoteChampion(w)
    PROVE  GrantInv'
<1> DEFINE c == call[w]
           d == [c EXCEPT !.op = "promoted"]
<1>1. SeatInv /\ SeatInv'
    BY LifecycleStepSeat DEF GrantInv, LifecycleStep
<1>2. c \in ExecuteCall /\ c.model \in Models /\ c.id \in ApprovalIds
    BY <1>1, CallShape DEF PromoteChampion, ExecuteCall
<1>3. GrantedPromotion(c.model, c.id)
    BY DEF PromoteChampion, GrantInv, CallsGranted
<1>4. Becomes(w, d) /\ d.model = c.model /\ d.id = c.id
    BY <1>2 DEF PromoteChampion, Becomes, ExecuteCall
<1>5. championAlias' = [championAlias EXCEPT ![NameOf[c.model]] = c.model]
      /\ UNCHANGED <<approval, audit, receipt, lifecycle>>
    BY DEF PromoteChampion
<1>6. championAlias' \in [Names -> Models \cup {NoModel}]
    BY <1>2, <1>5 DEF GrantInv
<1>7. AliasWasGranted'
    BY <1>2, <1>3, <1>5, EveryModelHasAName DEF GrantInv, AliasWasGranted, GrantedPromotion
<1>8. CallsGranted'
  <2>1. \A v \in Workers : call'[v] = IF v = w THEN d ELSE call[v]
      BY <1>1, <1>4 DEF SeatInv, Becomes
  <2> HIDE DEF c, d
  <2> QED BY <1>3, <1>4, <1>5, <2>1 DEF GrantInv, CallsGranted, GrantedPromotion
<1>9. OnlyGrantedPromotions'
    BY <1>5 DEF GrantInv, OnlyGrantedPromotions, GrantedPromotion
<1> QED BY <1>1, <1>5, <1>6, <1>7, <1>8, <1>9 DEF GrantInv

(* Committing: the new receipt is the grant of the new champion, and the    *)
(* champions it archives keep the receipts that seated them.                *)
LEMMA CommitGrant ==
    ASSUME GrantInv, NEW w \in Workers, ExecuteCommit(w)
    PROVE  GrantInv' /\ \A a \in ApprovalIds : ReceiptStands(a)
<1> DEFINE c == call[w]
           r == [kind |-> "promotion", model |-> c.model, archived |-> c.archive]
<1>1. SeatInv /\ SeatInv'
    BY CommitStep DEF GrantInv
<1>2. /\ c.op = "locked" /\ c.model \in Models /\ c.id \in ApprovalIds
      /\ c.archive \in SUBSET Models
    BY <1>1, CallShape DEF ExecuteCommit, LockedCall
<1>3. GrantedPromotion(c.model, c.id)
    BY <1>2 DEF GrantInv, CallsGranted
<1>4. /\ receipt' = [receipt EXCEPT ![c.id] = r] /\ receipt[c.id] = NoReceipt
      /\ audit' = [audit EXCEPT ![c.id] = Append(@, "execute")]
      /\ lifecycle' = AfterPromotion(c) /\ Becomes(w, Idle)
      /\ UNCHANGED <<approval, championAlias>>
    BY DEF ExecuteCommit, CommitFits, Unexecuted, Becomes
<1>5. r \in Receipt /\ r # NoReceipt
    BY <1>2 DEF Receipt, NoReceipt
<1>6. receipt' \in [ApprovalIds -> {NoReceipt} \cup Receipt]
      /\ \A a \in ApprovalIds : receipt'[a] = IF a = c.id THEN r ELSE receipt[a]
    BY <1>2, <1>4, <1>5 DEF GrantInv
<1>7. audit' \in [ApprovalIds -> Seq(TrailEvents)]
  <2>1. Append(audit[c.id], "execute") \in Seq(TrailEvents)
      BY <1>2 DEF GrantInv, TrailEvents
  <2> QED BY <1>4, <2>1 DEF GrantInv
<1>8. CallsGranted'
  <2>1. \A v \in Workers : call'[v] = IF v = w THEN Idle ELSE call[v]
      BY <1>1, <1>4 DEF SeatInv, Becomes
  <2> QED BY <1>4, <2>1, IdleIsNotLocked DEF GrantInv, CallsGranted, GrantedPromotion
<1>9. OnlyGrantedPromotions'
  <2> HIDE DEF c, r
  <2>1. ASSUME NEW a \in ApprovalIds, receipt'[a] # NoReceipt
        PROVE  GrantedPromotion(receipt[a].model, a)'
    <3>1. CASE a = c.id
        BY <3>1, <1>3, <1>4, <1>6 DEF GrantedPromotion, r
    <3>2. CASE a # c.id
        BY <3>2, <2>1, <1>4, <1>6 DEF GrantInv, OnlyGrantedPromotions, GrantedPromotion
    <3> QED BY <3>1, <3>2
  <2>2. ASSUME NEW m \in Models, lifecycle'[m] \in {"champion", "archived"}
        PROVE  \E a \in ApprovalIds : receipt'[a] # NoReceipt /\ receipt'[a].model = m
    <3>1. CASE m = c.model
        BY <3>1, <1>2, <1>5, <1>6 DEF r
    <3>2. CASE m # c.model
      <4>1. lifecycle[m] \in {"champion", "archived"}
          BY <2>2, <3>2, <1>2, <1>4, <1>1 DEF AfterPromotion, SeatInv, ArchiveIsCurrent, OtherChampion, c
      <4>2. PICK a \in ApprovalIds : receipt[a] # NoReceipt /\ receipt[a].model = m
          BY <4>1 DEF GrantInv, OnlyGrantedPromotions
      <4> QED BY <4>2, <1>4, <1>6
    <3> QED BY <3>1, <3>2
  <2> QED BY <2>1, <2>2 DEF OnlyGrantedPromotions
<1>10. AliasWasGranted'
    BY <1>4 DEF GrantInv, AliasWasGranted, GrantedPromotion
<1>11. \A a \in ApprovalIds : ReceiptStands(a)
    BY <1>2, <1>4, <1>6 DEF GrantInv, ReceiptStands
<1>12. championAlias' \in [Names -> Models \cup {NoModel}]
    BY <1>4 DEF GrantInv
<1> QED BY <1>1, <1>6, <1>7, <1>8, <1>9, <1>10, <1>11, <1>12 DEF GrantInv

(* The lifecycle's own steps keep GrantInv and the receipts.                *)
LEMMA LifecycleStepGrant ==
    ASSUME GrantInv, NEW w \in Workers, LifecycleStep(w)
    PROVE  GrantInv' /\ \A a \in ApprovalIds : ReceiptStands(a)
<1>1. SeatInv /\ SeatInv'
    BY LifecycleStepSeat DEF GrantInv
<1>2. ASSUME NEW c, Becomes(w, c), UNCHANGED <<approval, audit, receipt, lifecycle, championAlias>>,
             c.op \in {"execute", "promoted", "locked"} =>
                 /\ c.model \in Models /\ c.id \in ApprovalIds
                 /\ GrantedPromotion(c.model, c.id)
      PROVE  GrantInv' /\ \A a \in ApprovalIds : ReceiptStands(a)
  <2>1. \A a \in ApprovalIds : RowStands(a) /\ ReceiptStands(a)
      BY <1>2 DEF GrantInv, SeatInv, TableOK, NoRow, Row, RowStands, ReceiptStands
  <2>2. audit' \in [ApprovalIds -> Seq(TrailEvents)]
      BY <1>2 DEF GrantInv
  <2> QED BY <1>1, <1>2, <2>1, <2>2, NothingExecuted
<1>3. ASSUME NEW m \in Models, RequestRead(w, m)
      PROVE  GrantInv' /\ \A a \in ApprovalIds : ReceiptStands(a)
  <2> DEFINE c == [op |-> "request", model |-> m, found |-> lifecycle[m]]
  <2>1. Becomes(w, c) /\ c.op = "request"
        /\ UNCHANGED <<approval, audit, receipt, lifecycle, championAlias>>
      BY <1>3 DEF RequestRead, Becomes
  <2> HIDE DEF c
  <2> QED BY <2>1, <1>2
<1>4. ASSUME NEW a \in ApprovalIds, RequestCommit(w, a)
      PROVE  GrantInv' /\ \A b \in ApprovalIds : ReceiptStands(b)
  <2> DEFINE m == call[w].model
  <2>1. /\ InsertPending(a, m, m) /\ ChallengerFits(call[w]) /\ lifecycle' = WithChallenger(call[w])
        /\ Becomes(w, Idle) /\ UNCHANGED <<receipt, championAlias>>
      BY <1>4 DEF RequestCommit, Becomes
  <2>2. \A b \in ApprovalIds : RowStands(b)
      BY <1>1, <2>1, InsertStands DEF SeatInv
  <2>3. audit' = [audit EXCEPT ![a] = Append(@, "propose")] /\ ~Exists(a)
      BY <2>1 DEF InsertPending
  <2>4. audit' \in [ApprovalIds -> Seq(TrailEvents)]
    <3>1. Append(audit[a], "propose") \in Seq(TrailEvents)
        BY DEF GrantInv, TrailEvents
    <3> QED BY <2>3, <3>1 DEF GrantInv
  <2>5. \A p \in Models : lifecycle'[p] = lifecycle[p] \/ lifecycle'[p] = "challenger"
      BY <1>1, <2>1 DEF SeatInv, WithChallenger
  <2>6. GrantInv'
      BY <1>1, <2>1, <2>2, <2>4, <2>5, IdleIsNotLocked, NothingExecuted
  <2>7. \A b \in ApprovalIds : ReceiptStands(b)
      BY <2>1, <2>3, ReceiptIsDecided DEF GrantInv, ReceiptStands
  <2> QED BY <2>6, <2>7
<1>5. ASSUME NEW m \in Models, NEW a \in ApprovalIds, ExecuteStart(w, m, a)
      PROVE  GrantInv' /\ \A b \in ApprovalIds : ReceiptStands(b)
  <2> DEFINE c == [op |-> "execute", model |-> m, id |-> a]
  <2>1. Becomes(w, c) /\ UNCHANGED <<approval, audit, receipt, lifecycle, championAlias>>
      BY <1>5 DEF ExecuteStart, Becomes
  <2>2. GrantedPromotion(m, a)
      BY <1>5 DEF ExecuteStart, ValidApproval, Granted, PayloadTargets, EffectivePayload,
         GrantedPromotion
  <2>3. c.model = m /\ c.id = a
      OBVIOUS
  <2> HIDE DEF c
  <2> QED BY <2>1, <2>2, <2>3, <1>2
<1>6. ASSUME LockName(w)
      PROVE  GrantInv' /\ \A a \in ApprovalIds : ReceiptStands(a)
  <2> DEFINE c == call[w]
             d == [op |-> "locked", model |-> c.model, id |-> c.id,
                   archive |-> Champions(NameOf[c.model]) \ {c.model},
                   found |-> lifecycle[c.model]]
  <2>1. Becomes(w, d) /\ UNCHANGED <<approval, audit, receipt, lifecycle, championAlias>>
        /\ c.op = "promoted"
      BY <1>6 DEF LockName, Becomes
  <2>2. c.model \in Models /\ c.id \in ApprovalIds /\ GrantedPromotion(c.model, c.id)
      BY <1>1, <2>1, CallNames DEF GrantInv, CallsGranted
  <2>3. d.model = c.model /\ d.id = c.id
      OBVIOUS
  <2> HIDE DEF c, d
  <2> QED BY <2>1, <2>2, <2>3, <1>2
<1>7. ASSUME RequestConflict(w) \/ ExecuteConflict(w) \/ LifecycleLost(w)
      PROVE  GrantInv' /\ \A a \in ApprovalIds : ReceiptStands(a)
  <2>1. Becomes(w, Idle) /\ UNCHANGED <<approval, audit, receipt, lifecycle, championAlias>>
      BY <1>7 DEF RequestConflict, ExecuteConflict, LifecycleLost, Becomes
  <2> QED BY <2>1, <1>2, IdleIsNotLocked
<1>8. ASSUME PromoteChampion(w)
      PROVE  GrantInv' /\ \A a \in ApprovalIds : ReceiptStands(a)
  <2>1. UNCHANGED <<audit, receipt>>
      BY <1>8 DEF PromoteChampion
  <2> QED BY <1>8, <2>1, PromoteGrant DEF ReceiptStands
<1> QED BY <1>3, <1>4, <1>5, <1>6, <1>7, <1>8, CommitGrant DEF LifecycleStep

-----------------------------------------------------------------------------
(* Initially nobody is champion, and there is no receipt to account for.    *)
LEMMA LifecycleInitOK == LifecycleInit => GrantInv
<1> SUFFICES ASSUME LifecycleInit PROVE GrantInv
    OBVIOUS
<1>1. TableOK
    BY DEF LifecycleInit, ApprovalInit, TableOK, NoRow, OnePendingPerKey
<1>2. call = [w \in Workers |-> Idle] /\ audit \in [ApprovalIds -> Seq(TrailEvents)]
    BY DEF LifecycleInit, ApprovalInit
<1>3. SeatInv
    BY <1>1, <1>2, IdleIsNotLocked DEF LifecycleInit, SeatInv, LocksExclude, ArchiveIsCurrent,
       OneChampionPerName
<1>4. CallsGranted
    BY <1>2, IdleIsNotLocked DEF CallsGranted
<1> QED BY <1>2, <1>3, <1>4 DEF LifecycleInit, GrantInv, OnlyGrantedPromotions, AliasWasGranted

(* The inductive step: the invariant, and what a step does to a receipt.    *)
LEMMA LifecycleNextOK ==
    ASSUME GrantInv, [LifecycleNext]_lifecycleVars
    PROVE  GrantInv' /\ [\A a \in ApprovalIds : ReceiptStands(a)]_<<approval, audit, call, receipt>>
<1>1. CASE UNCHANGED lifecycleVars
  <2>1. UNCHANGED <<approval, audit, call, receipt, lifecycle, championAlias>>
      BY <1>1 DEF lifecycleVars
  <2>2. SeatInv'
      BY <2>1 DEF GrantInv, SeatInv, TableOK, OnePendingPerKey, LocksExclude, ArchiveIsCurrent,
         OtherChampion, OneChampionPerName
  <2> QED BY <2>1, <2>2 DEF GrantInv, CallsGranted, OnlyGrantedPromotions, AliasWasGranted,
             GrantedPromotion
<1>2. ASSUME NEW w \in Workers, ApprovalStep(w), UNCHANGED <<receipt, lifecycle, championAlias>>
      PROVE  GrantInv' /\ \A a \in ApprovalIds : ReceiptStands(a)
    BY <1>2, ApprovalStepGrant
<1>3. ASSUME NEW w \in Workers, LifecycleStep(w)
      PROVE  GrantInv' /\ \A a \in ApprovalIds : ReceiptStands(a)
    BY <1>3, LifecycleStepGrant
<1> QED BY <1>1, <1>2, <1>3 DEF LifecycleNext, ApprovalNext

(* The invariant holds in every reachable state.                            *)
THEOREM GrantInvHolds == LifecycleSpec => []GrantInv
BY LifecycleInitOK, LifecycleNextOK, PTL DEF LifecycleSpec

(* Type correctness of the lifecycle.                                       *)
THEOREM LifecycleTypesHold == LifecycleSpec => []LifecycleTypeOK
<1>1. GrantInv => LifecycleTypeOK
    BY DEF GrantInv, SeatInv, TableOK, LifecycleTypeOK, LifecycleCall, TrailEvents
<1> QED BY <1>1, GrantInvHolds, PTL

(* A name never has two champions, however promotions interleave, fail or   *)
(* are repeated.                                                            *)
THEOREM OneChampionHolds == LifecycleSpec => []OneChampionPerName
<1>1. GrantInv => OneChampionPerName
    BY DEF GrantInv, SeatInv
<1> QED BY <1>1, GrantInvHolds, PTL

(* Receipts, champions and former champions all go back to a grant of that  *)
(* very model.                                                              *)
THEOREM OnlyGrantedHolds == LifecycleSpec => []OnlyGrantedPromotions
<1>1. GrantInv => OnlyGrantedPromotions
    BY DEF GrantInv
<1> QED BY <1>1, GrantInvHolds, PTL

(* The MLflow alias only ever names models whose promotion was granted.     *)
THEOREM AliasGrantedHolds == LifecycleSpec => []AliasWasGranted
<1>1. GrantInv => AliasWasGranted
    BY DEF GrantInv
<1> QED BY <1>1, GrantInvHolds, PTL

(* An approval is executed at most once: receipts are final and close the   *)
(* audit trail.                                                             *)
THEOREM ReceiptsHold == LifecycleSpec => ReceiptsStand
<1>1. GrantInv /\ [LifecycleNext]_lifecycleVars
          => [\A a \in ApprovalIds : ReceiptStands(a)]_<<approval, audit, call, receipt>>
    BY LifecycleNextOK
<1> QED BY <1>1, GrantInvHolds, PTL DEF LifecycleSpec, ReceiptsStand, ReceiptStands

-----------------------------------------------------------------------------
(* No row of the lifecycle table without a request for it.                  *)
ProposedInv == GrantInv /\ ChallengerWasProposed

(* A request that is there stays there, about the same subject.             *)
LEMMA ProposalStands ==
    ASSUME TableOK, NEW a \in ApprovalIds, RowStands(a), Exists(a)
    PROVE  approval'[a].status # "absent" /\ approval'[a].key = approval[a].key
<1>1. approval[a].status \in {"pending"} \cup Terminal
    BY DEF TableOK, Exists, NoRow, Row
<1> QED BY <1>1 DEF RowStands, Terminal

(* Rows appear in the lifecycle table with their request.                   *)
LEMMA NothingUnproposed ==
    ASSUME ProposedInv, \A a \in ApprovalIds : RowStands(a),
           \A m \in Models : lifecycle'[m] # "none" =>
               \/ lifecycle[m] # "none"
               \/ \E a \in ApprovalIds : approval'[a].status # "absent" /\ approval'[a].key = m
    PROVE  ChallengerWasProposed'
<1> SUFFICES ASSUME NEW m \in Models, lifecycle[m] # "none"
             PROVE  \E a \in ApprovalIds : approval'[a].status # "absent" /\ approval'[a].key = m
    BY DEF ChallengerWasProposed, Exists
<1>1. PICK a \in ApprovalIds : Exists(a) /\ approval[a].key = m
    BY DEF ProposedInv, ChallengerWasProposed
<1> QED BY <1>1, ProposalStands DEF ProposedInv, GrantInv, SeatInv

(* Every step keeps that.                                                   *)
LEMMA LifecycleNextProposed ==
    ASSUME ProposedInv, [LifecycleNext]_lifecycleVars
    PROVE  ChallengerWasProposed'
<1>1. SeatInv /\ TableOK
    BY DEF ProposedInv, GrantInv, SeatInv
<1>2. ASSUME UNCHANGED <<approval, lifecycle>> PROVE ChallengerWasProposed'
    BY <1>2 DEF ProposedInv, ChallengerWasProposed, Exists
<1>3. ASSUME NEW w \in Workers, ApprovalStep(w), UNCHANGED lifecycle
      PROVE  ChallengerWasProposed'
  <2>1. \A a \in ApprovalIds : RowStands(a)
      BY <1>1, <1>3, CallShape, StepKeepsTable
  <2> QED BY <1>3, <2>1, NothingUnproposed
<1>4. ASSUME NEW w \in Workers, NEW a \in ApprovalIds, RequestCommit(w, a)
      PROVE  ChallengerWasProposed'
  <2>1. PICK m \in Models : m = call[w].model
      BY <1>1, <1>4, CallShape DEF RequestCommit, RequestCall
  <2>2. InsertPending(a, m, m) /\ lifecycle' = WithChallenger(call[w])
      BY <1>4, <2>1 DEF RequestCommit
  <2>3. \A b \in ApprovalIds : RowStands(b)
      BY <1>1, <2>2, InsertStands
  <2>4. approval'[a].status = "pending" /\ approval'[a].key = m
      BY <1>1, <2>2 DEF InsertPending, TableOK
  <2>5. \A q \in Models \ {m} : lifecycle'[q] = lifecycle[q]
      BY <1>1, <2>1, <2>2 DEF WithChallenger, SeatInv
  <2>6. \A q \in Models : lifecycle[q] # "none" \/ q = m \/ lifecycle'[q] = "none"
      BY <2>5
  <2> QED BY <2>3, <2>4, <2>6, NothingUnproposed
<1>5. ASSUME NEW w \in Workers, ExecuteCommit(w)
      PROVE  ChallengerWasProposed'
  <2>1. PICK m \in Models, i \in ApprovalIds :
            m = call[w].model /\ i = call[w].id /\ GrantedPromotion(m, i)
      BY <1>1, <1>5, CallNames DEF ExecuteCommit, ProposedInv, GrantInv, CallsGranted
  <2>2. UNCHANGED approval /\ lifecycle' = AfterPromotion(call[w])
      BY <1>5 DEF ExecuteCommit
  <2>3. \A a \in ApprovalIds : RowStands(a)
      BY <2>2 DEF RowStands
  <2>4. approval'[i].status # "absent" /\ approval'[i].key = m
      BY <2>1, <2>2 DEF GrantedPromotion
  <2>5. \A q \in Models : q \in call[w].archive => lifecycle[q] = "champion"
      BY <1>1, <1>5 DEF SeatInv, ArchiveIsCurrent, OtherChampion, ExecuteCommit
  <2>6. \A q \in Models : lifecycle[q] # "none" \/ q = m \/ lifecycle'[q] = "none"
      BY <2>1, <2>2, <2>5 DEF AfterPromotion
  <2> QED BY <2>3, <2>4, <2>6, NothingUnproposed
<1> QED BY <1>2, <1>3, <1>4, <1>5 DEF LifecycleNext, ApprovalNext, LifecycleStep, RequestRead,
           RequestConflict, ExecuteStart, PromoteChampion, LockName, ExecuteConflict,
           LifecycleLost, lifecycleVars

(* A challenger row never appears without the request it was created for,   *)
(* whichever of the two inserts is refused.                                 *)
THEOREM ChallengerProposedHolds == LifecycleSpec => []ChallengerWasProposed
<1>1. LifecycleInit => ProposedInv
    BY LifecycleInitOK DEF LifecycleInit, ProposedInv, ChallengerWasProposed
<1>2. ProposedInv /\ [LifecycleNext]_lifecycleVars => ProposedInv'
    BY LifecycleNextOK, LifecycleNextProposed DEF ProposedInv
<1>3. ProposedInv => ChallengerWasProposed
    BY DEF ProposedInv
<1> QED BY <1>1, <1>2, <1>3, PTL DEF LifecycleSpec

-----------------------------------------------------------------------------
HolderBar == [n \in Names |-> ChampionOf(n)]

(* The variables of the gate, mapped.                                       *)
LEMMA GateIsMapped ==
    /\ Gate!gateVars = <<GateBar, SubjectBar(NoModel), HolderBar>>
    /\ (Gate!gateVars)' = <<GateBar', SubjectBar(NoModel)', HolderBar'>>
BY DEF Gate!gateVars, GateBar, SubjectBar, HolderBar

(* Nothing is asked, granted or held at first.                              *)
LEMMA LifecycleInitAtGate == LifecycleInit => Gate!GateInit
<1> SUFFICES ASSUME LifecycleInit PROVE Gate!GateInit
    OBVIOUS
<1>1. \A a \in ApprovalIds : ~Exists(a)
    BY DEF LifecycleInit, ApprovalInit, Exists, NoRow
<1>2. \A a \in ApprovalIds : GateOf(a) = "closed" /\ SubjectOf(a, NoModel) = NoModel
    BY <1>1 DEF GateOf, SubjectOf, Exists, Granted
<1>3. \A n \in Names : ChampionOf(n) = NoModel
    BY DEF LifecycleInit, ChampionOf, Champions, Versions
<1> QED BY <1>2, <1>3 DEF Gate!GateInit

(* The champion of a name depends on its champions alone.                   *)
LEMMA SameChampions ==
    ASSUME NEW n, \A m \in Models : NameOf[m] = n =>
                      (lifecycle'[m] = "champion" <=> lifecycle[m] = "champion")
    PROVE  ChampionOf(n)' = ChampionOf(n)
<1>1. Champions(n)' = Champions(n)
    BY DEF Champions, Versions
<1> QED BY <1>1 DEF ChampionOf

(* A question to the mapped gate is a step of the gate.                     *)
LEMMA AskIsGateStep ==
    ASSUME NEW a \in ApprovalIds, NEW k \in Keys, Asks(a, k, NoModel), UNCHANGED HolderBar
    PROVE  Gate!GateNext
<1>1. Gate!Ask(a, k)
    BY DEF Asks, GateBar, SubjectBar, HolderBar, Gate!Ask
<1> QED BY <1>1 DEF Gate!GateNext

(* So is a verdict.                                                         *)
LEMMA SettleIsGateStep ==
    ASSUME NEW a \in ApprovalIds, NEW verdict \in {"granted", "refused"},
           Settles(a, verdict, NoModel), UNCHANGED HolderBar
    PROVE  Gate!GateNext
<1>1. Gate!Settle(a, verdict)
    BY DEF Settles, GateBar, SubjectBar, HolderBar, Gate!Settle
<1> QED BY <1>1 DEF Gate!GateNext

(* Requesting a promotion asks the gate, and seats nobody.                  *)
LEMMA RequestIsGateStep ==
    ASSUME GrantInv, NEW w \in Workers, NEW a \in ApprovalIds, RequestCommit(w, a)
    PROVE  Gate!GateNext
<1>1. SeatInv /\ TableOK
    BY DEF GrantInv, SeatInv
<1>2. PICK m \in Models : m = call[w].model
    BY <1>1, CallShape DEF RequestCommit, RequestCall
<1>3. /\ InsertPending(a, m, m) /\ UNCHANGED receipt
      /\ ChallengerFits(call[w]) /\ lifecycle' = WithChallenger(call[w])
    BY <1>2 DEF RequestCommit
<1>4. \A q \in Models : lifecycle'[q] = "champion" <=> lifecycle[q] = "champion"
    BY <1>1, <1>2, <1>3 DEF SeatInv, WithChallenger, ChallengerFits
<1>5. UNCHANGED HolderBar
    BY <1>4, SameChampions DEF HolderBar
<1>6. m \in Keys /\ m \in Payloads \cup {NoPayload}
    BY ModelsAreKeysAndPayloads
<1>7. Asks(a, m, NoModel)
    BY <1>1, <1>3, <1>6, InsertAsks
<1> QED BY <1>5, <1>6, <1>7, AskIsGateStep

(* Committing a promotion executes its request: the model takes the seat of *)
(* its name, because archiving was complete, and no other seat changes      *)
(* hands.                                                                   *)
LEMMA CommitIsGateStep ==
    ASSUME GrantInv, NEW w \in Workers, ExecuteCommit(w)
    PROVE  Gate!GateNext
<1>1. SeatInv /\ SeatInv' /\ TableOK
    BY CommitStep DEF GrantInv, SeatInv
<1>2. PICK m \in Models, i \in ApprovalIds :
          m = call[w].model /\ i = call[w].id /\ GrantedPromotion(m, i)
    BY <1>1, CallNames DEF ExecuteCommit, GrantInv, CallsGranted
<1>3. Granted(i) /\ Exists(i) /\ approval[i].key = m /\ Unexecuted(i)
    BY <1>2 DEF GrantedPromotion, Granted, Exists, ExecuteCommit, CommitFits
<1>4. /\ receipt' = [receipt EXCEPT ![i] = [kind |-> "promotion", model |-> m,
                                            archived |-> call[w].archive]]
      /\ lifecycle' = AfterPromotion(call[w])
      /\ UNCHANGED approval
    BY <1>2 DEF ExecuteCommit
<1>5. GateBar[i] = "granted" /\ SubjectBar(NoModel)[i] = m
    BY <1>1, <1>2, <1>3, GateShape DEF SubjectBar, SubjectOf
<1>6. UNCHANGED SubjectBar(NoModel)
    BY <1>4 DEF SubjectBar, SubjectOf, Exists
<1>7. GateBar' = [GateBar EXCEPT ![i] = "executed"]
  <2>1. ASSUME NEW a \in ApprovalIds
        PROVE  (Exists(a)' <=> Exists(a)) /\ (Granted(a)' <=> Granted(a))
      BY <1>4 DEF Exists, Granted
  <2>2. ASSUME NEW a \in ApprovalIds \ {i} PROVE GateBar'[a] = GateBar[a]
    <3>1. Unexecuted(a)' <=> Unexecuted(a)
        BY <1>4 DEF GrantInv, Unexecuted
    <3>2. GateOf(a)' = GateOf(a)
        BY <2>1, <3>1, <1>4 DEF GateOf
    <3> QED BY <3>2 DEF GateBar
  <2>3. ~Unexecuted(i)'
      BY <1>2, <1>4 DEF GrantInv, Unexecuted, NoReceipt
  <2>4. Granted(i)' /\ Exists(i)' /\ approval'[i].status \in {"approved", "modified"}
      BY <1>3, <1>4, <2>1 DEF Granted
  <2>5. GateBar'[i] = "executed"
      BY <1>2, <2>3, <2>4 DEF GateBar, GateOf
  <2> QED BY <2>2, <2>5, <1>2 DEF GateBar
<1>8. HolderBar' = [HolderBar EXCEPT ![NameOf[m]] = m]
  <2>1. \A q \in Models : lifecycle'[q] = "champion" <=>
            q = m \/ (lifecycle[q] = "champion" /\ NameOf[q] # NameOf[m])
      BY <1>1, <1>2, <1>4 DEF AfterPromotion, SeatInv, ArchiveIsCurrent, OtherChampion,
         ExecuteCommit
  <2>2. Champions(NameOf[m])' = {m}
      BY <1>2, <2>1 DEF Champions, Versions
  <2>3. ChampionOf(NameOf[m])' = m
      BY <2>2 DEF ChampionOf
  <2>4. ASSUME NEW n \in Names \ {NameOf[m]} PROVE ChampionOf(n)' = ChampionOf(n)
    <3>1. \A q \in Models : NameOf[q] = n =>
              (lifecycle'[q] = "champion" <=> lifecycle[q] = "champion")
        BY <2>1
    <3> QED BY <3>1, SameChampions
  <2>5. NameOf[m] \in Names
      BY <1>2, EveryModelHasAName
  <2> QED BY <2>3, <2>4, <2>5 DEF HolderBar
<1>9. m \in DOMAIN NameOf
    BY <1>2, EveryModelHasAName
<1>10. Gate!Execute(i)
    BY <1>2, <1>5, <1>6, <1>7, <1>8, <1>9 DEF Gate!Execute, GateBar, SubjectBar, HolderBar
<1> QED BY <1>2, <1>10 DEF Gate!GateNext

(* Every step of the lifecycle is a step of the gate or a stutter.          *)
LEMMA LifecycleStepAtGate ==
    ASSUME GrantInv, [LifecycleNext]_lifecycleVars
    PROVE  [Gate!GateNext]_(Gate!gateVars)
<1>1. ASSUME UNCHANGED lifecycle PROVE UNCHANGED HolderBar
  <2>1. \A n \in Names : ChampionOf(n)' = ChampionOf(n)
      BY <1>1, SameChampions
  <2> QED BY <2>1 DEF HolderBar
<1>2. ASSUME UNCHANGED <<approval, receipt, lifecycle>> PROVE UNCHANGED Gate!gateVars
    BY <1>1, <1>2, GateIsMapped DEF GateBar, GateOf, SubjectBar, SubjectOf, Exists, Granted,
       Unexecuted
<1>3. ASSUME NEW w \in Workers, ApprovalStep(w), UNCHANGED <<receipt, lifecycle, championAlias>>
      PROVE  [Gate!GateNext]_(Gate!gateVars)
  <2>1. TableOK /\ CallTyped(w) /\ UNCHANGED HolderBar
      BY <1>1, <1>3, CallShape DEF GrantInv, SeatInv
  <2>2. ExecutedWasGranted
      BY DEF GrantInv, OnlyGrantedPromotions, GrantedPromotion, ExecutedWasGranted, Unexecuted,
         Granted
  <2>3. \/ UNCHANGED GateBar /\ UNCHANGED SubjectBar(NoModel)
        \/ \E a \in ApprovalIds, k \in Keys : Asks(a, k, NoModel)
        \/ \E a \in ApprovalIds, verdict \in {"granted", "refused"} :
              Settles(a, verdict, NoModel)
      BY <1>3, <2>1, <2>2, StepAtGate
  <2> QED BY <2>1, <2>3, AskIsGateStep, SettleIsGateStep, GateIsMapped
<1>4. ASSUME NEW w \in Workers, LifecycleStep(w)
      PROVE  [Gate!GateNext]_(Gate!gateVars)
    BY <1>2, <1>4, RequestIsGateStep, CommitIsGateStep DEF LifecycleStep, RequestRead,
       RequestConflict, ExecuteStart, PromoteChampion, LockName, ExecuteConflict, LifecycleLost
<1> QED BY <1>2, <1>3, <1>4 DEF LifecycleNext, ApprovalNext, lifecycleVars

(* Promotions implement the gate: the champion of a name changes only when  *)
(* a granted request about the new champion executes, once.                 *)
THEOREM LifecycleImplementsGate == LifecycleSpec => ImplementsGate
<1>1. GrantInv /\ [LifecycleNext]_lifecycleVars => [Gate!GateNext]_(Gate!gateVars)
    BY LifecycleStepAtGate
<1> QED BY <1>1, LifecycleInitAtGate, GrantInvHolds, PTL
       DEF LifecycleSpec, ImplementsGate, Gate!GateSpec
=============================================================================
