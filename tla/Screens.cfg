SPECIFICATION Spec
CONSTANTS
    Pages = {"list", "game", "desk", "shared desk", "bank", "teams", "debts", "season", "players"}
    LosesAnswers = FALSE
    None = None
INVARIANT SettledIsStored
INVARIANT OnlyTheseAreRefused
PROPERTY DoesWhatWasShown
PROPERTY NothingElseIsLost
PROPERTY PaidOnce
PROPERTY FirstLineCounts
 
