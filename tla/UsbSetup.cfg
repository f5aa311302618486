\* A read given up while its first packet is not handled yet.
SPECIFICATION Spec
CONSTANTS
  CtrlSize = 2
  Descriptor = 4
  Addresses = {1}
  Codings = {c0, c1}
  Default = c0
  MaxRequests = 3
INVARIANT FollowsSetup
CHECK_DEADLOCK FALSE
