SPECIFICATION Spec
CONSTANTS
  Releases = {r1, r2, r3}
  None = None
INVARIANTS
  OnlyInstalledReleases
  WholeScriptsAgree
  RollbackIsRepeatable
