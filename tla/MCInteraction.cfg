SPECIFICATION FairSpec
CONSTANTS
  Motes = {2, 3}
  Targets <- MCTargets
  Direct = {0, 1}
  Windows = {4}
  SingleWindows = 2
  Pause = 5
  PollPause = 1
  EventPeriod = 5
  MaxDelay = 1
  MaxLost = 1
INVARIANTS TypeOK OneBehaviourSends EventsOfThisRound EveryMoteObserved ComparesWhatWasExchanged
PROPERTIES MotesFallSilent
