CONSTANTS
    w1 = w1
    w2 = w2
    a1 = a1
    a2 = a2
    a3 = a3
    k1 = k1
    k2 = k2
    p1 = p1
    Workers <- MCWorkers
    ApprovalIds <- MCApprovalIds
    Keys <- MCKeys
    Payloads <- MCPayloads
    NoPayload = none
    ClientVersions = {1, 2}
SPECIFICATION ApprovalSpec
SYMMETRY Symmetry
INVARIANTS
    ApprovalTypeOK
    OnePendingPerKey
    AuditTellsTheRow
    AnswerIsOwnDecision
PROPERTIES
    DecisionsStand
