CONSTANTS
    w1 = w1
    w2 = w2
    a1 = a1
    a2 = a2
    a3 = a3
    m1 = m1
    m2 = m2
    n1 = n1
    Workers <- MCWorkers
    ApprovalIds <- MCApprovalIds
    Keys <- MCModels
    Payloads <- MCModels
    NoPayload = none
    ClientVersions = {1}
    Models <- MCModels
    Names <- MCNames
    NameOf <- MCNameOf
    NoModel = noModel
SPECIFICATION LifecycleSpec
CONSTRAINT Bound
SYMMETRY Symmetry
INVARIANTS
    LifecycleTypeOK
    OneChampionPerName
    OnlyGrantedPromotions
    AliasWasGranted
    ChallengerWasProposed
PROPERTIES
    ReceiptsStand
    ImplementsGate
