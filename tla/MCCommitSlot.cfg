SPECIFICATION Spec
CONSTANTS
  None = None
  p1 = p1
  look = look
  type = type
  hello = hello
  bye = bye
  Packages = {p1}
  Manifests <- TheManifests
  Drafts <- TheDrafts
  Slots = {s1}
  MaxPreviews = 1
  MaxIds = 2
  MaxVersion = 2
  MaxEdits = 1
  Places = {here}
  ArmMs = 1
  MaxReqs = 3
  MaxDeaths = 1
INVARIANTS ShownIsSubmitted CommitsWereRead WaitsAreOwed
PROPERTIES AuthorityIsInstalled
CHECK_DEADLOCK FALSE
