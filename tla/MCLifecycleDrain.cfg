SPECIFICATION Spec
CONSTANT MaxPublications = 1
INVARIANT DrainedMeansRecorded
CHECK_DEADLOCK FALSE
