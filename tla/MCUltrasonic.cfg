\* One program thread creating and destroying two sensors and switching
\* the mode, against the checker thread.
SPECIFICATION Spec
CONSTANTS
    s1 = s1
    s2 = s2
    u1 = u1
    u2 = u2
    Sensors <- MCSensors
    Users <- MCOneUser
INVARIANT ThreadTracksMode
INVARIANT NoThreadMisuse
INVARIANT SensorsAlive
PROPERTY SensorsStableWhileChecking
PROPERTY ModeRestored
PROPERTY JoinReturns
PROPERTY EnabledSensorPinged
