CONSTANTS
  ValidDays = 4
  RenewDays = 2
  ForceRegen = FALSE
  MaxKills = 1
SPECIFICATION ACFairSpec
PROPERTY ListensAgain
CHECK_DEADLOCK FALSE
