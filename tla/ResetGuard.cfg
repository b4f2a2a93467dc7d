SPECIFICATION FairSpec
CONSTANTS
    m1 = m1  m2 = m2  w1 = w1
    i1 = i1  i2 = i2  s1 = s1  s2 = s2
    Handler <- MCHandler
    Task <- MCTask
    Identity <- MCIdentity
    State <- MCState
    Nil = Nil
    Never = Never
    Busy = Busy
    Window = 2
    MaxClock = 4
INVARIANTS TypeOK OneResetInFlight
PROPERTIES ConfirmedUndisturbed ResetsSpaced CallersReturn
