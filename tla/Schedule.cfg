SPECIFICATION FairSpec
CONSTANTS
  Underlying = {u1}
  CooldownDays = 2
  Reach = 3
  Job = {j1, j2}
  Minutes = {0, 5, 10, 15, 20, 25}
  Patience = 3
  Notices = {"posted", "failed", "no webhook"}
  Mishaps = {"dies", "killed", "reboot", "overrun"}
  MaxMishaps = 2
INVARIANTS
  IInv
  OnePassAtATime
  StopsAreWatched
  UnwatchedIsAnnounced
PROPERTIES
  FullPassesGoOn
  CountsSessions
