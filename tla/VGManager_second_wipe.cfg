\* Wiping an optional device fails before the volume group is created.
SPECIFICATION Spec
CONSTANTS
    v1 = v1
    v2 = v2
    d1 = d1
    d2 = d2
    d3 = d3
    NoVG = NoVG
    VGs <- OneClass
    Devices <- OneDevice
    OwnerOf <- OwnedAlone
    MaxRatio = 1
    Optional = {d1}
    Selector = {v1}
    Static = {}
    ForceWipe = {v1}
    Thin = {}
    Raid = {}
    MinDevices = 0
    Retain = {}
    Used = {}
    Dirty = {}
    FaultKinds = {"exec"}
    MaxFaults = 2
PROPERTIES
    MembersNotWiped
