SPECIFICATION PageSpec
CONSTANTS
  Authors = {me}
  Me = me
  Edits = {"edit", "edit again"}
  Cores <- MCCores
  Nicknames <- MCNicknames
  MaxTime = 2
  Named = {1}
  MaxActs = 2
  MaxPushes = 1
INVARIANTS PageTypeOK SendsWhatItAsked ShowsWhatIsKept UpgradeWins LastEditWins
CHECK_DEADLOCK FALSE
PROPERTIES OnboardingEnds ViewCatchesUp
