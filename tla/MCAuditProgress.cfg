CONSTANTS
    Writers = {w1, w2, w3}
    Actors = {u1}
    EventData = {d1}
    Receipts = {}
    Keys = {}
    NoKey = NoKey
    NoCall = NoCall
    MaxEvents = 4
SPECIFICATION SteadySpec
PROPERTY SomeoneGetsIn
CHECK_DEADLOCK FALSE
