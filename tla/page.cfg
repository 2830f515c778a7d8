SPECIFICATION Spec
CONSTANTS
    Total = 4
    Custom = 4
    PerViews = {1,2,3}
    Clicks = {f1,f2}
    MaxActs = 5
    Snapshots = {s1, s2}
    MaxRequests = 3
SYMMETRY Symmetry
INVARIANTS
    SlidesFill
    ButtonFollowsFile
    RouteShown
    ListsCurrent
CHECK_DEADLOCK FALSE
