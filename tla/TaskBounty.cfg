CONSTANTS
    h = h
    f = f
    alice = alice
    carol = carol
    offer = offer
    bid = bid
    award = award
    cancel = cancel
    expire = expire
    NoOne = NoOne
    Servers <- MCServers
    Home = h
    Kind = "bounty"
    Moves <- MCMoves
    Opener = offer
    Verb <- MCVerb
    Actor <- MCActor
    At <- MCAt
    Late <- MCLate
    Accepts <- MCAccepts
    Offeree = NoOne
    Known <- MCKnown
    ActDeferMaxPerOrigin = 2
    ActDeferMaxTotal = 2
    MaxMoves = 3
    MaxFaults = 1
SPECIFICATION Spec
INVARIANTS TypeOK FollowersOnlyFollow NoLostKey
PROPERTY RefereedByHome
CHECK_DEADLOCK FALSE
