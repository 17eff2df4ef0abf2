CONSTANTS
    Scenario <- MCScenario
    Answers <- MCAnswers
    Verdicts = {"yes", "no", "continue", "judge-error"}
    RepeatCount = 2
    MaxRouting = 2
    MaxLatency = 3
SPECIFICATION EvalSpec
INVARIANTS BilledIsNotSkipped PassMeansCleanMajority
CHECK_DEADLOCK FALSE
