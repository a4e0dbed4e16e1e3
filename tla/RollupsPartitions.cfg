SPECIFICATION RollupSpec
CHECK_DEADLOCK FALSE
INVARIANT BoundaryHasPartition
CONSTANTS
    Story = {1}
    Hours = 2
    ServerZone = 0
    DaysPerMonth = 1
    MaxDays = 2
    MaxTraffic = 3
