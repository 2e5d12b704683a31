CONSTANTS
  r1 = r1
  r2 = r2
  tm1 = tm1
  tm2 = tm2
  Rest = {r1, r2}
  Timers = {tm1}
  MaxCalls = 2
  Rise = 1
  Base = 0
  PanelModes = {"MANUAL", "PARTY"}
  PanelBusy = {TRUE, FALSE}
  PanelWarm = {TRUE, FALSE}
  Worlds <- Surrounded
  Nil = Nil
  Error = Error
SPECIFICATION Spec
INVARIANTS
  TypeOK
  Balanced
  BoostExcludesUnboost
  OkMeansBoosted
PROPERTIES
  TimerFollowsDevice
  BoostEnds
  ImplementsBoostSwitch
