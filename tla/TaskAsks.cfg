CONSTANTS
    h = h
    f = f
    alice = alice
    bob = bob
    carol = carol
    offer = offer
    claimB = claimB
    doneB = doneB
    claimC = claimC
    NoOne = NoOne
    Servers <- MCServers
    Home = h
    Kind = "handoff"
    Moves <- MCMoves
    Opener = offer
    Verb <- MCVerb
    Actor <- MCActor
    At <- MCAt
    Late <- MCLate
    Accepts <- MCAccepts
    Offeree = NoOne
    Known <- MCKnown
    ActDeferMaxPerOrigin = 2
    ActDeferMaxTotal = 2
    MaxMoves = 3
    MaxFaults = 1
SPECIFICATION Spec
PROPERTY AskingEnds
CHECK_DEADLOCK FALSE
