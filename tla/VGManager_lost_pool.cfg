\* With no fault at all: the restart for the new entry of one class interrupts
\* the creation of another class between vgcreate and lvcreate.
SPECIFICATION FairSpec
CONSTANTS
    v1 = v1
    v2 = v2
    d1 = d1
    d2 = d2
    d3 = d3
    NoVG = NoVG
    VGs <- TwoClasses
    Devices <- TwoDevices
    OwnerOf <- OwnedByTwo
    MaxRatio = 1
    Optional = {}
    Selector = {v1, v2}
    Static = {}
    ForceWipe = {}
    Thin = {v2}
    Raid = {}
    MinDevices = 0
    Retain = {}
    Used = {}
    Dirty = {}
    FaultKinds = {}
    MaxFaults = 0
PROPERTIES
    EventuallyServed
