CONSTANTS
    a1 = a1  a2 = a2  b = b  c = c
    ka = ka  kb = kb  kc = kc
    Shot = {a1, c}
    JobId = {ka, kc}
    NoShot = NoShot
    Slot = {w1, w2}
    NoSlot = NoSlot
    Publisher = {p1}
    KeyOf <- MCKeyOf
    Captured <- MCCaptured
    Swing <- MCSwing
    Minute = 3
    Window = 3
    MaxAttempts = 2
    MaxStalls = 1
    BatchSize = 1
    Faulty = {}
SPECIFICATION Spec
INVARIANT
    NoMutualDuplicates
CHECK_DEADLOCK FALSE
