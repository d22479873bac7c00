\* One saga of a longer definition, two compensatable steps and one between
\* them, with its commands and compensations answered twice and late.
SPECIFICATION FairSpec
CONSTANTS
    Sagas = {s1}
    LastStep = 3
    Compensatable = {0, 2}
    MaxReplies = 14
INVARIANTS
    StepLogAgrees
    BackedByReplies
    CommandsEmittedOnce
    NoWorkLeftBehind
PROPERTIES
    TerminalIsFinal
    KeepsPromise
    EventuallyTerminal
CHECK_DEADLOCK FALSE
