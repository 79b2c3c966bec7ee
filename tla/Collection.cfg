CONSTANTS
    Documents <- MCDocuments
    MonitoredSets = {{}, {"a"}, {"b", "c"}}
    Configurations <- MCConfigurations
    Families <- MCFamilies
    Beans <- MCBeans
    Spelling <- MCSpelling
    Nesting = 2
    PodEnv <- MCPodEnv
    OSEnv <- MCOSEnv
    Prefix <- MCPrefix
    GlobalTags <- MCGlobalTags
    LabelOrder <- MCLabelOrder
    MaxRounds = 2
    Pods = {"p1", "p2"}
    Endpoints = {"e1", "e2"}
    MetricIds = {}
    MaxMetricsPerPod = 2
SPECIFICATION Spec
CHECK_DEADLOCK FALSE
INVARIANTS
    TypeOK CollectsWhatIsMonitored SeriesStayApart DefinedAreTracked TypesMatch
    LabelsOfOnePoint LeavesAreCollected GathersWhatIsThere OnlyTheLastIsLost
PROPERTY CollectionEnds
