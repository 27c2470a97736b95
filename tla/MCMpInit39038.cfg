SPECIFICATION Spec
CONSTANT Settings <- LateOnly
PROPERTY Reports39038
CHECK_DEADLOCK FALSE
