SPECIFICATION Spec
CONSTANTS
  Processes = {server1, server2, tool}
  Servers = {server1, server2}
  Earlier = earlier
  MaxCrashes = 2
INVARIANTS
  TypeOK
  WelcomeIsSeededOnce
PROPERTIES
  NothingStoredIsWiped
  UpgradesFinish
