\* Two program threads: one destroys a sensor while the other turns
\* automatic mode on.  The checker may then run while m_sensors changes.
SPECIFICATION Spec
CONSTANTS
    s1 = s1
    s2 = s2
    u1 = u1
    u2 = u2
    Sensors <- MCSensors
    Users <- MCTwoUsers
PROPERTY SensorsStableWhileChecking
