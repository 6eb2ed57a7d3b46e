SPECIFICATION Spec
CONSTANTS
    Bills <- MCBills
    Catalogs <- MCCatalogs
    Layers = {TRUE}
    Drafts <- MCDrafts
    Continent <- MCContinent
    TrustedTarget <- MCTrustedTarget
    Answers <- MCAnswers
    MaxFaults = 0
    MaxExtras = 1
    Specs <- MCSpecs
    LiveAvailability <- NoTable
    Phantoms <- MCPhantoms
    ResolvedSkus <- MCResolved
    CatalogVersion = 1
    Families <- MCFamilies
    GpuModels = {}
    InstanceSpecs <- MCInstanceSpecs
    RdsIopsIncluded = TRUE
    DefaultX86 <- X86Default
    DefaultArm <- ArmDefault
    CacheRam <- NoTable
    MemorystoreTiers <- NoTiers
    NodeGib = 1
    UnitsPerOp = 1
    GcpFamilies <- MCGcpFamilies
    GpuProfiles <- NoTable
    TpuRatio = 1
    Words <- MCWords
    UnitOf <- MCUnitOf
    Synthetic = {}
    ServicePolicy <- MCServicePolicy
    RegionOrder <- MCRegionOrder
    Discounts <- MCDiscounts
    CudPct <- MCCudPct
    Injected <- NoInjected
    Gate <- MCGate
    FeaturePenalty <- MCPenalty
    GroupOf <- MCGroupOf
    EnterpriseOf <- NoTable
    FamilyOverrides <- MCFamilyOverrides
    CudDefault <- MCCudDefault
    NotCommitted = {}
PROPERTY IdenticalProjections
