SPECIFICATION FairSpec
CONSTANT trace = TRUE
INVARIANTS TypeOK NoOrphans OutcomeIsEarned WaveformUsable ClientOnLiveQueue KillIsLastResort
PROPERTIES RunEnds
CHECK_DEADLOCK FALSE
