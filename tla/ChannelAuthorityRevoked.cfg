CONSTANTS
    a = a
    b = b
    alice = alice
    bob = bob
    Nobody = Nobody
    Servers <- MCServers
    Rank <- MCRank
    Dids <- MCDids
    Home <- MCHome
    Founders <- MCAlice
    Guests = {}
    Roled = {}
    RequireDidForOps = {}
    Orders <- MCOrders
    Restarting <- MCRestarting
    Compacting <- MCCompacting
    MaxDeeds = 3
    MaxFaults = 0
SPECIFICATION Spec
INVARIANT RevocationHolds
