SPECIFICATION MCSpec
CONSTANT MaxExecutions = 2
INVARIANTS
    TypeOK
    FirstCancelReachesServer
    SuccessIsEarned
PROPERTY OutcomeEndsAction
