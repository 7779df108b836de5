SPECIFICATION Spec
CONSTANTS
    MaxJobs = 3
    MaxConfigs = 1
INVARIANTS CachesCurrent
PROPERTIES RequestsAnswered
