\* A filter used before its PIDSourceType is set.
SPECIFICATION Spec
INVARIANT ReadsMeasurement
