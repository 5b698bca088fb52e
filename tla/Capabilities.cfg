SPECIFICATION Spec
CONSTANTS
  None = None
  Star = Star
  raw = raw
  Users = {ann, bob}
  App <- MCApp
  PrivatePaths <- MCPrivatePaths
  PublicPaths <- MCPublicPaths
  Raw <- MCRaw
  Grants <- MCGrants
  Lifetime = 1
  Tries = 2
  MaxOpens = 3
  MaxTime = 1
INVARIANTS TypeOK SecretsLoad
PROPERTIES ChangesAreProven CollectSettles
CHECK_DEADLOCK FALSE
