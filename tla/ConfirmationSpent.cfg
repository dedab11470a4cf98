SPECIFICATION Spec
CONSTANTS
  device = device
  send = send
  pay = pay
  Null = Null
  Requests = {r1, r2}
  Confs = {c1}
  Devices = {device}
  Capabilities <- WideCapabilities
  Proposals <- WideProposals
  Grants <- WideGrants
  MaxPerms = 1
  MaxTime = 1
  ConfirmationTTL = 1
SYMMETRY Symmetry
PROPERTY SpentIsRefused
