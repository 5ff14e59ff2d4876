CONSTANTS
    w1 = w1
    w2 = w2
    a1 = a1
    a2 = a2
    e1 = e1
    e2 = e2
    Workers <- MCWorkers
    ApprovalIds <- MCApprovalIds
    Keys <- MCEvents
    Payloads <- MCEvents
    NoPayload = none
    ClientVersions = {1}
    Events <- MCEvents
    NoEvent = noEvent
SPECIFICATION CmmsSpec
SYMMETRY Symmetry
INVARIANTS
    CmmsTypeOK
    OrderHasReceipt
    OrderIsWhatWasGranted
PROPERTIES
    ReceiptsStand
    ImplementsGate
