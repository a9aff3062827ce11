SPECIFICATION FairSpec
CONSTANTS
    Pipelines = {1, 2}
    MRPipelines = {1, 2}
    Reports = {r1}
    MetricReports = {r1}
    FullScan = FALSE
    PageSize = 1
    MaxReruns = 0
    MaxFaults = 0
    NoPipeline = NoPipeline
    NoReport = NoReport
PROPERTIES MetricCounts
CHECK_DEADLOCK FALSE
