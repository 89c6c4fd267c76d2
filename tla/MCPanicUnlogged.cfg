SPECIFICATION Spec
CONSTANTS
    Requests = {r1, r2}
    Keys = {k1, k2}
    NoToken = NoToken
    BlankToken = BlankToken
    Revocable = {k2}
    Unlucky = {r2}
    Remembered = {r1}
INVARIANT EveryRequestLogged
\* Requests are answered once and the process exits: the system stops.
CHECK_DEADLOCK FALSE
