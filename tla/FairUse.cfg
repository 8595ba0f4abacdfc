SPECIFICATION FairSpec
CONSTANTS
    Core = 2
    MiB = 2
    Percent = 90
    Limits <- TheLimits
    Bad = Bad
    None = None
    Pods = {p1, p2}
    PodSpecs <- ThePodSpecs
    Workloads <- TheWorkloads
    DefaultNodeSelector <- TheDefault
    Annotations <- TheAnnotations
    Partial <- ThePartial
    DefaultActiveDeadlineSeconds = 1800
    Deadlines = {900}
    MaxEdits = 3
INVARIANTS NoFalseAlarm ForetellsNewPods PodsAreCompleted
PROPERTIES LowRatioIsTold
