\* One thin class with the static discovery policy and no device paths under
\* fairness: its over-provisioning ratio is edited, a device disappears and comes
\* back, a call or the process fails.
SPECIFICATION FairSpec
CONSTANTS
    v1 = v1
    v2 = v2
    d1 = d1
    d2 = d2
    d3 = d3
    NoVG = NoVG
    VGs <- OneClass
    Devices <- TwoDevices
    OwnerOf <- OwnedByOne
    MaxRatio = 2
    Optional = {}
    Selector = {}
    Static = {v1}
    ForceWipe = {}
    Thin = {v1}
    Raid = {}
    MinDevices = 0
    Retain = {v1}
    Used = {v1}
    Dirty = {}
    FaultKinds = {"api", "exec", "crash", "pull"}
    MaxFaults = 1
PROPERTIES
    RatioServed
    DeletionCompletes
    ConfigurationServed
    StaticSetSettled
