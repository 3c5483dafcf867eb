SPECIFICATION SpecWalk
CONSTANTS
    Walks = {"two seasons"}
    Ana = Ana  Beto = Beto
    Early = Early  Late = Late  Double = Double
    Players = {Ana, Beto}
    PlusOnesOf <- NoPlusOnes
    Games = {1, 2}
    Seasons = {"spring", "autumn"}
    Starts <- SeasonStarts
    Ends <- SeasonEnds
    SeasonOf <- InTwoSeasons
    PlayedOn <- OnDays1And3
    Lineups <- OnlyAna
    HolderOf <- AnaAnswers
    NewHolders = {Ana}
    ShareAmounts = {2}
    Bizums = {Late}
    BizumOrder <- OnlyLate
    BookedOn <- BookingDays
    Amount <- Amounts
    Word <- NoWord
    Incoming <- AllIncoming
    Sender <- Senders
    SenderNames = {"Ana"}
    Phones = {}
    StartDates = {0}
INVARIANT PaysItsSeasonOnly
