SPECIFICATION Spec
CONSTANTS
    k1 = k1
    k2 = k2
    ReadNames = {"a", "b"}
    OpencodeKeys = {k1, k2}
    PromptNames = {"a", "b"}
    ScreenEnvironments <- AllScreens
    ReadEnvironments <- AllReadings
    AskEnvironments <- AllQuestions
    TurnEnvironments <- AllTurns
    OpencodeEnvironments <- AllOpencode
    PromptEnvironments <- AllPrompts
CHECK_DEADLOCK FALSE
INVARIANTS
    ScreensAreRead
    TimesAreTrue
    AnsweredAsAsked
    TurnsAreTrue
    OpencodeAnswersAreTrue
    PromptIsTold
