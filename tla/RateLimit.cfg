\* Two runners with the smallest reserve that is enough for them and for one
\* change of a label, and a quota that they use up within a window.
SPECIFICATION Spec
CONSTANTS
    r1 = r1
    r2 = r2
    r3 = r3
    Runner = {r1, r2}
    Quota = 9
    Window = 2
    EphemeralLimit = 7
    ApiCheckTries = 2
    ApiCheckSleep = 1
    MaxLabels = 1
    MaxErrors = 2
INVARIANTS TypeOK NeverRefused SleepEndsWithWindow
SYMMETRY Interchangeable
