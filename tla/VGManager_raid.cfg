\* A RAID class that needs two of its three device paths, of which one is optional:
\* paths are added and removed, a device disappears and comes back.
SPECIFICATION Spec
CONSTANTS
    v1 = v1
    v2 = v2
    d1 = d1
    d2 = d2
    d3 = d3
    NoVG = NoVG
    VGs <- OneClass
    Devices <- ThreeDevices
    OwnerOf <- OwnedThree
    MaxRatio = 1
    Optional = {d3}
    Selector = {v1}
    Static = {}
    ForceWipe = {}
    Thin = {}
    Raid = {v1}
    MinDevices = 2
    Retain = {}
    Used = {v1}
    Dirty = {}
    FaultKinds = {"exec", "crash", "pull"}
    MaxFaults = 1
INVARIANTS
    RaidHasMinimum
    UserVolumesBacked
