\* Two thick classes, one with an optional path, that share lvmd.yaml, with
\* a crash or a failing write anywhere, a torn write included.
SPECIFICATION Spec
CONSTANTS
    v1 = v1
    v2 = v2
    d1 = d1
    d2 = d2
    d3 = d3
    NoVG = NoVG
    VGs <- TwoClasses
    Devices <- TwoDevices
    OwnerOf <- OwnedByTwo
    MaxRatio = 1
    Optional = {d1}
    Selector = {v1, v2}
    Static = {}
    ForceWipe = {v1}
    Thin = {}
    Raid = {}
    MinDevices = 0
    Retain = {}
    Used = {}
    Dirty = {d1}
    FaultKinds = {"file", "crash"}
    MaxFaults = 1
INVARIANTS
    HostVGGuarded
    
