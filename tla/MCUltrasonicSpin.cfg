\* One program thread that may turn automatic mode on with no sensor linked.
SPECIFICATION Spec
CONSTANTS
    s1 = s1
    s2 = s2
    u1 = u1
    u2 = u2
    Sensors <- MCSensors
    Users <- MCOneUser
PROPERTY CheckerWaitsEachPass
