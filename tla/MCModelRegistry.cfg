CONSTANTS
    w1 = w1
    w2 = w2
    r1 = r1
    r2 = r2
    r3 = r3
    run1 = run1
    run2 = run2
    run3 = run3
    n1 = n1
    n2 = n2
    Workers = {w1}
    RowIds <- MCRowIds
    Runs <- MCRuns
    Names = {n1, n2}
    NoRun = noRun
SPECIFICATION RegistrySpec
SYMMETRY Symmetry
INVARIANTS
    RegistryTypeOK
    OneRowPerRun
    OneVersionPerRun
    CandidatesAgree
PROPERTIES
    DeploymentStands
