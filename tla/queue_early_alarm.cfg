CONSTANTS
    s1 = s1  s2 = s2  s3 = s3  s4 = s4
    k1 = k1  k2 = k2  k3 = k3
    single = single  batch = batch  again = again
    Shot = {s1, s2, s3}
    JobId = {k1, k2, k3}
    NoShot = NoShot
    NoJobId = NoJobId
    Slot = {w1}
    NoSlot = NoSlot
    Request = {single, batch}
    Batches = {batch}
    KeyOf <- MCKeyOf
    RequestOf <- MCRequestOf
    MaxDepth = 2
    MaxAttempts = 2
    MaxStalls = 1
SPECIFICATION Spec
PROPERTY
    FailureIsFinal
CHECK_DEADLOCK FALSE
