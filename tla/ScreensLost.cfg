SPECIFICATION FairSpec
CONSTANTS
    Pages = {"list", "game", "shared desk", "bank", "season"}
    LosesAnswers = TRUE
    None = None
PROPERTY BusyEnds
