CONSTANTS
    u1 = u1
    u2 = u2
    v1 = v1
    v2 = v2
    v3 = v3
    l1 = l1
    l2 = l2
    l3 = l3
    w1 = w1
    w2 = w2
    Users = {u1}
    Vmids = {v1, v3}
    Launches = {l1, l3}
    Workers = {w1}
    OsTypes = {"debian", "custom"}
    Custom = "custom"
    Owner <- OwnerU1
    Os <- OsMC
    VmidOf <- VmidMC
    FromSnapshot = {}
    Window = 6
    Events = {"start"}
    MaxConns = 1
    NoSession = NoSession
    Ghost = Ghost
    NoVmid = NoVmid
    NoLaunch = NoLaunch
    NoWorker = NoWorker
SPECIFICATION Spec
CHECK_DEADLOCK FALSE
INVARIANT OneVmPerUser
