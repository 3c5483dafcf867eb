SPECIFICATION Spec
CONSTANTS
    g1 = g1
    s1 = s1
    ana = ana
    beto = beto
    caro = caro
    Games = {g1}
    Players = {ana, beto}
    PlusOnesOf <- OnePlusOneOfAna
    Bizums = {}
    Seasons = {s1}
    SeasonOf <- MCSeasonOf
    UsualHosts <- BetoOfAna
    ShareAmounts = {4}
    SlotCounts = {1}
    MercySeats = 1
    Adjustments = {}
    EditedAlone = {}
    NewHolders = {beto}

INVARIANT ShareInOneTable
INVARIANT PlayedIsBilled
PROPERTY UncancelBillsNothing
