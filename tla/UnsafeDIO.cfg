\* One call of UnsafeManipulateDIO; once it returned nothing is left to do.
SPECIFICATION Spec
INVARIANT ValidCallRunsFunc
CHECK_DEADLOCK FALSE
