CONSTANTS
  t1 = t1
  t2 = t2
  t3 = t3
  Timers = {t1, t2, t3}
  Delay <- Delays
  NoTimer = NoTimer
  CallbackOps = {"clear", "refresh"}
SPECIFICATION FairSpec
INVARIANT NoTimerLost
PROPERTIES AlarmsKept EveryTimerEnds
