CONSTANTS
    e1 = e1
    e2 = e2
    m1 = m1
    m2 = m2
    t1 = t1
    t2 = t2
    Experiments <- MCExperimentIds
    Models <- MCModels
    Targets <- MCTargets
    TaskOf <- OneTask
    NoTarget = noTarget
    NoModel = noModel
    NoPackage = noPackage
    Nobody = nobody
SPECIFICATION ExperimentSpec
INVARIANTS
    PackageIsOfThePlan
