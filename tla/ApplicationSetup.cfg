SPECIFICATION SetupSpec
CONSTANTS
    v1 = v1
    v2 = v2
    v3 = v3
    v4 = v4
    v5 = v5
    None = None
    Versions <- MCVersions
    Annotated <- MCAnnotated
    Signed <- MCSigned
    VendorData <- MCVendorData
    n1 = n1
    n2 = n2
    Names = {n1, n2}
    MaxBoots = 3
    MaxFaults = 2
INVARIANTS
    TypeOK
    RunsMeasured
    OnlySignedIsInstalled
    DataSurvives
    DataOfOwner
SYMMETRY Symmetry
CHECK_DEADLOCK FALSE
