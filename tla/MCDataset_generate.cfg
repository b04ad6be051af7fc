SPECIFICATION FairDataSpec
CONSTANTS
    Company <- Both
    Headcounts <- Asked
    DEPARTMENTS <- ByWeight
    Weights <- Percent
    Alphabetical <- ByName
    Personas <- Placement
    Floor = 28
    HISTORY_MONTHS = 24
    ATTENDANCE_MONTHS = 6
    Month = 2
    HireDates <- Hires
    SinceDates <- Sinces
    Users <- FullUsers
    Volume <- Supply
    Catalog <- Prices
    REGIONS = {"EMEA", "GULF"}
    HOLIDAYS <- DaysOff
    Titles <- Openings
    Offices <- Sites
    MaxLines = 2
    Few = 1
INVARIANTS
    Sound
PROPERTIES
    Generates
CHECK_DEADLOCK FALSE
