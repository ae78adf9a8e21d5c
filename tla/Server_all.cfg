CONSTANTS
  Id = {i1, i2}
  MaxSynth = 2
  Completions <- SafeCompletions
SPECIFICATION FairSpec
INVARIANTS TypeOK CycleSeesWholeSynths
PROPERTIES DoneActionFreesReporterOrHeir DoneSynthsGo HandlerReturns
