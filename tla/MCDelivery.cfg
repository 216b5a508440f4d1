SPECIFICATION DeliverySpec
CONSTANTS
  r1 = r1
  h1 = h1
  Run = {r1}
  Hand = {h1}
  Checkout <- MCCheckout
  Tagged <- MCTagged
  ManifestPath = "platform.yml"
  Minute = {1}
  MinimumBuild = 1
  MinimumHost = 2
  MaxDeliveries = 2
  Canonical = {"platform.yml", "compose.yml", "secrets.yml", "platform-observability.json"}
  MetadataPath = "platform-bundle.json"
  Observability = "platform-observability.json"
  Torn = Torn
  None = None
INVARIANTS
  StagedIsAccepted
  RunIsOneCommit
  BuiltIsTaken
