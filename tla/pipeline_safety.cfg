CONSTANTS
    a1 = a1  a2 = a2  b = b  c = c
    ka = ka  kb = kb  kc = kc
    Shot = {a1, a2, c}
    JobId = {ka, kc}
    NoShot = NoShot
    Slot = {w1, w2}
    NoSlot = NoSlot
    Publisher = {p1}
    KeyOf <- MCKeyOf
    Captured <- MCCaptured
    Swing <- MCSwing
    Minute = 3
    Window = 3
    MaxAttempts = 1
    MaxStalls = 1
    BatchSize = 1
    Faulty = {c}
SYMMETRY MCSymmetry
SPECIFICATION Spec
INVARIANTS
    TypeOK
    EventIffStored
    OneShotPerKey
    OriginsAreNear
    EventsNameTheFlag
    CompletedIsStored
PROPERTIES
    FlagIsWrittenOnce
    LabelIsNotTakenBack
    ImplementsLedger
CHECK_DEADLOCK FALSE
