\* Documents that stay within, reach and pass each check of the compiler.
SPECIFICATION Spec
CONSTANTS
    Identifiers <- MCIdentifiers
    DashedIdentifiers <- MCDashed
    FactNames <- MCFactNames
    Oversized = {"huge"}
    Untrimmed = {" 1"}
    SortedNames <- MCSorted
    LevelKeys <- MCLevelKeys
    One <- MCOne
    Tolerance <- MCTolerance
    Limits <- MCLimits
    Directories <- MCDirectories
    InlineData <- MCInlineData
    FactSets <- MCFactSets
    Replies <- MCReplies
    Float32 <- MCFloat32
    Widening = 4
    MaxPolicyBytes = 1
    MaxQuestions = 0
INVARIANTS
    OperandsAreTyped
    DecisionIsExplained
    SameHashSameDecision
    HashSurvivesRestart
    HonestAnswersPass
