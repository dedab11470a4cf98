SPECIFICATION Spec
CONSTANTS
  device = device
  send = send
  pay = pay
  Null = Null
  Requests = {r1, r2}
  Confs = {c1}
  Devices = {}
  Capabilities <- RaceCapabilities
  Proposals <- TwoProposals
  Grants <- TwoGrants
  MaxPerms = 2
  MaxTime = 1
  ConfirmationTTL = 1
SYMMETRY Symmetry
INVARIANTS
  AllowRestsOnConsent
PROPERTY RevocationHolds
