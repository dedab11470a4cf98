SPECIFICATION Spec
CONSTANTS
  device = device
  send = send
  pay = pay
  Null = Null
  Requests = {r1, r2}
  Confs = {c1}
  Devices = {device}
  Capabilities <- RaceCapabilities
  Proposals <- RaceProposals
  Grants <- RaceGrants
  MaxPerms = 1
  MaxTime = 1
  ConfirmationTTL = 2
SYMMETRY Symmetry
INVARIANT ConfirmationSingleUse
