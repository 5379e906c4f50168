CONSTANTS
    Targets <- Addresses
    Lines <- SetCookies
    PublicSuffixes <- Public
    Loopback <- Local
    MaxPerDomain = 2
    MaxCookies = 3
    MaxSteps = 4
    MaxTime = 2
    Declarations <- Declared
    Listings <- Served
    Limits <- Asked
    MaxSent = 10
SPECIFICATION MCSpec
VIEW TicksCompared
INVARIANTS StaysHome OrderIsRight 
PROPERTY RecentIsKept
CHECK_DEADLOCK FALSE
