CONSTANTS
    ann = ann
    bob = bob
    a1 = a1
    a2 = a2
    b1 = b1
    b2 = b2
    q1 = q1
    q2 = q2
    r1 = r1
    r2 = r2
    r3 = r3
    NoAttempt = NoAttempt
    BotAttempt = BotAttempt
    NoQuestion = NoQuestion
    NoStats = NoStats
    Users = {ann, bob}
    AttemptIds = {a1, a2, b1, b2}
    Questions = {q1}
    Durations = {1}
    Options = {"wrong", "right"}
    Requests = {r1, r2}
    Owner <- MCOwner
    Points <- MCPoints

SPECIFICATION CrosswiseSpec

PROPERTY RequestsReturn
