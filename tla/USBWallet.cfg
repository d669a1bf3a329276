SPECIFICATION FairSpec
CONSTANTS
  c1 = c1
  c2 = c2
  r1 = r1
  Callers = {c1, c2}
  Refreshers = {r1}
  Urls = {1, 2}
  Mine = 1
  MaxBases = 2
  PayloadLengths = {258}
  Apps = {"1.5.0"}
  MaxIndex = 1
  MaxOpens = 2
  Instances <- MCInstances
INVARIANT CommsExclusive NoEnumerationDuringConfirmation MessageArrivesWhole OnlyTeardownPanics NothingIsPassedOver
PROPERTY CloseReturns
CHECK_DEADLOCK FALSE
