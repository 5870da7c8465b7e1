SPECIFICATION FairSpec
CONSTANTS
  r1 = r1
  r2 = r2
  Route <- MCRoute
  Sound = {r1}
  TTL = 2
  Backoff <- OneTick
  Slow = 1
  MaxDrift <- OneDrift
  Wanted = {r1}
  Metered = {r1}
INVARIANTS TypeOK
PROPERTIES LaunchProved OthersEligible AvailableAgain
