SPECIFICATION FairLifeSpec
CONSTANT Configs <- Every
INVARIANTS BusOutlivesListeners
PROPERTIES SignalEnds FailureEnds ReturnEnds ProbesFollow
CHECK_DEADLOCK FALSE
