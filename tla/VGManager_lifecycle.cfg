\* One thin class with two mandatory device paths that are wiped on request:
\* creation, extension, reduction and deletion with one fault of any kind but
\* the configuration file's.
SPECIFICATION Spec
CONSTANTS
    v1 = v1
    v2 = v2
    d1 = d1
    d2 = d2
    d3 = d3
    NoVG = NoVG
    VGs <- OneClass
    Devices <- TwoDevices
    OwnerOf <- OwnedByOne
    MaxRatio = 1
    Optional = {}
    Selector = {v1}
    Static = {}
    ForceWipe = {v1}
    Thin = {v1}
    Raid = {}
    MinDevices = 0
    Retain = {v1}
    Used = {v1}
    Dirty = {d2}
    FaultKinds = {"api", "exec", "watch", "crash", "reboot", "pull", "label"}
    MaxFaults = 1
INVARIANTS
    TypeOK
    HostVGGuarded
    UserVolumesBacked
    ReadyIsBacked
    
PROPERTIES
    MembersNotWiped
    ForeignDataKept
    
    StorageImplemented
