SPECIFICATION Spec
CONSTANTS
    g1 = g1
    s1 = s1
    ana = ana
    beto = beto
    caro = caro
    Games = {g1}
    Players = {ana, beto}
    PlusOnesOf <- NoPlusOnes
    Bizums = {}
    Seasons = {s1}
    SeasonOf <- MCSeasonOf
    UsualHosts <- NoUsualHosts
    ShareAmounts = {4, 5}
    SlotCounts = {1}
    MercySeats = 1
    Adjustments = {3}
    EditedAlone = {ana, beto}
    NewHolders = {}

INVARIANT PaidGameHasPayment
PROPERTY KeepsTheLedger
