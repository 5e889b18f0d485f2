SPECIFICATION RouteSpec
CONSTANTS
    N = 3
    Roles = {synthesizer, analyst, reasoner}
    LastRole = synthesizer
    MaxScore = 2
    MaxSize = 1
    threshold = 1
    default_max = 2
INVARIANTS
    AnswerIsAChain
    SelectedSynthesizerIsLast
    BestExpertIsSelected
    HybridEndsWithSynthesizer
\* One call of route is one behaviour: it ends with the answer.
CHECK_DEADLOCK FALSE
