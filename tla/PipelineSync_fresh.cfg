SPECIFICATION FairSpec
CONSTANTS
    Pipelines = {1}
    MRPipelines = {1}
    Reports = {r1, r2}
    MetricReports = {r1}
    FullScan = FALSE
    PageSize = 1
    MaxReruns = 1
    MaxFaults = 1
    NoPipeline = NoPipeline
    NoReport = NoReport
INVARIANTS TypeOK NoReportDropped
PROPERTIES RequestConverges
CHECK_DEADLOCK FALSE
