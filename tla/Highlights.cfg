SPECIFICATION Spec
CONSTANTS
    c1 = c1
    Cubes <- MCCubes
    Answers <- MCAnswers
    Selections = {h1, h2, h3}
    Sweeps = {s1, s2}
    Boot = Boot
    MaxRetained = 2
    MaxClients = 2
    Stop = Stop
    Ambient = Ambient
    Off = Off
    Left = Left
SYMMETRY Symmetry
INVARIANTS
    TypeOK
    TasksAreTracked
    NothingStranded
PROPERTIES
    OneSelection
CHECK_DEADLOCK FALSE
