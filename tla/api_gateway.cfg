CONSTANTS
    alice = alice  uid = uid  uid2 = uid2  rid = rid  rid2 = rid2  stub = stub
    deviceA = deviceA  deviceB = deviceB  session = session
    u1 = u1  u2 = u2  u3 = u3  u12 = u12  u23 = u23  mac = mac  pair = pair
    p1 = p1  p2 = p2
    Text <- MCText
    LengthOf <- MCLengthOf
    Part <- MCText
    PartsOf <- MCPartsOf
    ColonsIn <- MCColonsIn
    NoReading = NoReading
    Null = Null
    Second = 2
    LastInstant = 1000
    MaxTimestamp = 1002
    Api = {p1, p2}
    Shot <- MCShot
    Truth <- MCTruth
    DeviceOf <- MCDeviceOf
    IdOf <- MCIdOf
    Body <- MCBody
    Ill <- MCIll
    Scenario <- MCScenario
    MaxPast = 3
    MaxFuture = 1
    ReplayWindow = 1
    MaxClock = 12
    MaxMessages = 2
    MaxAnswers = 3
SPECIFICATION Spec
INVARIANTS
    TypeOK
    ProductionIsClosed
    AcceptedShotsAreQueued
    OneRowPerShot
    PlausibleShotsAreStored
    PlausibleShotsAreAccepted
    ServerErrorsAreKnown
    ServedSchemaIsComplete
    WindowIsKept
CHECK_DEADLOCK FALSE
