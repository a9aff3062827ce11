SPECIFICATION FairSpec
CONSTANTS
    Pipelines = {1, 2}
    MRPipelines = {1, 2}
    Reports = {}
    MetricReports = {}
    FullScan = TRUE
    PageSize = 1
    MaxReruns = 0
    MaxFaults = 1
    NoPipeline = NoPipeline
    NoReport = NoReport
PROPERTIES TableConverges RequestConverges ImplementsMirror
CHECK_DEADLOCK FALSE
