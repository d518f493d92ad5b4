\* Every location, with and without a token provider; tokens live two ticks.
CONSTANTS
  Usable = {c1, c2}
  WithUser = {c1}
  Default = Default
  NoData = NoData
  Garbage = Garbage
  Nothing = Nothing
  Lifetime = 2
  AskTime = 1
  FetchTime = 1
  Retries = 3
  MaxFaults = 4
  MaxChanges = 2
SPECIFICATION FairSpec
INVARIANTS TypeOK LatestUsable NotLongRunOut
PROPERTY BecomesCurrent
