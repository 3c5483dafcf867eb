SPECIFICATION Spec
CONSTANTS
    g1 = g1
    s1 = s1
    ana = ana
    beto = beto
    caro = caro
    Games = {g1}
    Players = {ana, beto, caro}
    PlusOnesOf <- NoPlusOnes
    Bizums = {}
    Seasons = {s1}
    SeasonOf <- MCSeasonOf
    UsualHosts <- NoUsualHosts
    ShareAmounts = {4}
    SlotCounts = {1, 2}
    MercySeats = 1
    Adjustments = {}
    EditedAlone = {}
    NewHolders = {}
SYMMETRY RegularsAlike
INVARIANT TypeOK
INVARIANT OutcomeFollowsTheGame
PROPERTY FrozenOncePlayed
