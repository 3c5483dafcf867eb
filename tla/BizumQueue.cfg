SPECIFICATION SpecWalk
CONSTANTS
    Walks = {"queue", "amounts"}
    Ana = Ana  Beto = Beto
    Early = Early  Late = Late  Double = Double
    Players = {Ana, Beto}
    PlusOnesOf <- NoPlusOnes
    Games = {1, 2}
    Seasons = {"year"}
    Starts <- Year
    Ends <- YearEnds
    SeasonOf <- OfTheYear
    PlayedOn <- OnDays1And3
    Lineups <- WhoMayPlay
    HolderOf <- AnaAnswers
    NewHolders = {Ana}
    ShareAmounts = {2, 3}
    Bizums = {Early, Late, Double}
    BizumOrder <- Oldest3
    BookedOn <- BookingDays
    Amount <- Amounts
    Word <- NoWord
    Incoming <- AllIncoming
    Sender <- Senders
    SenderNames = {"Ana"}
    Phones = {"600"}
    StartDates = {0}
INVARIANT RulesPayOnlyThePast
PROPERTY PlayingPaysWhatWaited
PROPERTY OldestPaysFirst
PROPERTY UndoAllOrNothing
PROPERTY KeepsTheTreasury
