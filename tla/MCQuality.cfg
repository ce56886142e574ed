SPECIFICATION Spec
CONSTANTS
    o1 = o1 t1 = t1 t2 = t2 t3 = t3 n1 = n1 h1 = h1 h2 = h2 p1 = p1 None = None
    Objects <- MCObjects
    Tasks <- MCTasks
    NCs <- MCNCs
    Threads <- MCThreads
    Params <- MCParams
    Critical = {}
    LastStep = 2
    Required = {1, 2}
    Automatic = {1, 2}
SYMMETRY MCSymmetry
INVARIANTS ReadyMeansApproved StepsWereChecked OneTaskAtPost
CHECK_DEADLOCK FALSE
