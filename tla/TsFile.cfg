SPECIFICATION Spec
CONSTANTS
    Bits = 4
    Versions = {0, 1, 2}
    Instants = {0, 1, 2}
    Created = 1
    Exports <- SomeExports
    Emissions <- SomeEmissions
    MaxPushes = 3
    Failures = {"body"}
    MaxCrashes = 1
    TornHeader = FALSE
    TornBody = {1, 2}
INVARIANTS
    ReturnedIsKept
    OnlyWhatWasPushed
    EmitIsTheRange
CHECK_DEADLOCK FALSE
