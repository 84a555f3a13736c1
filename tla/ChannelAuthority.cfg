CONSTANTS
    a = a
    b = b
    alice = alice
    bob = bob
    Nobody = Nobody
    Servers <- MCServers
    Rank <- MCRank
    Dids <- MCDids
    Home <- MCHome
    Founders <- MCDids
    Guests <- MCGuests
    Roled <- MCRoled
    RequireDidForOps <- MCStrict
    Orders <- MCOrders
    Restarting <- MCRestarting
    Compacting <- MCCompacting
    MaxDeeds = 3
    MaxFaults = 1
SPECIFICATION Spec
INVARIANTS TypeOK SettledAlike GrantsSpread
