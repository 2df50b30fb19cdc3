CONSTANTS
    a1 = a1  a2 = a2  b = b  c = c
    ka = ka  kb = kb  kc = kc
    Shot = {a1, b}
    JobId = {ka, kb}
    NoShot = NoShot
    Slot = {w1}
    NoSlot = NoSlot
    Publisher = {p1, p2}
    KeyOf <- MCKeyOf
    Captured <- MCCaptured
    Swing <- MCSwing
    Minute = 3
    Window = 3
    MaxAttempts = 2
    MaxStalls = 0
    BatchSize = 2
    Faulty = {a1}
SPECIFICATION FairSpec
PROPERTIES
    RowsLeaveAsSeen
    KeepsLedgerPromise
    JobIsSettled
    EarlierTwinIsFound
CHECK_DEADLOCK FALSE
