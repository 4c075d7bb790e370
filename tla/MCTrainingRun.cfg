SPECIFICATION TrainSpec
CONSTANTS
    Trainers = {n1, n2}
    NoTrainer = NoTrainer
    LastStep = 2
    SaveLimit = 2
    TrainRecipes = {i1}
    NoIdentity = NoIdentity
    OneAtATime = FALSE
PROPERTIES
    NoSilentRollback
CHECK_DEADLOCK FALSE
