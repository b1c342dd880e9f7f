SPECIFICATION Spec
CONSTANTS
    Configs <- MCConfigs
    Largest = 79
    Unit = 1
    Prices = {3, 4, 7}
    None = None
    Probabilities = {30, 50, 70}
    FeatureWindow = 2
    AccuracyWindow = 2
    MaxBars = 5
INVARIANTS
    StateIsHistory
    LearnsFromOutcomes
PROPERTIES
    SignalsByHistory
