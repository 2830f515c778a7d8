CONSTANTS
    Vmids = {v1, v2}
    Workers = {w1, w2}
    Capacity = 2
    Megabyte = 2
    Base = 1
    Sizes = {0, 3}
    Events = {"qmp", "abort", "timeout", "write"}
    NoVmid = NoVmid
    NoFile = NoFile
SPECIFICATION Spec
SYMMETRY Interchangeable
INVARIANTS StoredWithinCapacity
