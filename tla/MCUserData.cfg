SPECIFICATION Spec
CONSTANTS
  Licences <- TwoLicences
  Lists = {0, 1}
  CupCount <- Counts
  StoredFiles <- MCStoredFiles
  Changes <- MCChanges
  GPResults <- MCGPResults
  OnlineRaces <- MCOnlineRaces
  MaxEvents = 2
INVARIANTS SettingsKept TrophiesAreOwn
PROPERTIES ClassEarned
