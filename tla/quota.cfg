CONSTANTS
    Vmids = {v1, v2}
    Workers = {w1}
    Capacity = 4
    Megabyte = 2
    Base = 2
    Sizes = {2, 3}
    Events = {}
    NoVmid = NoVmid
    NoFile = NoFile
SPECIFICATION Spec
SYMMETRY Interchangeable
INVARIANTS NothingKeptNothingUsed
