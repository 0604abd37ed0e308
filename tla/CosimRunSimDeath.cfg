SPECIFICATION FairSpec
CONSTANT trace = FALSE
PROPERTIES SimDeathReported
CHECK_DEADLOCK FALSE
