SPECIFICATION Spec
CONSTANTS
  Contracts = {c1, c2}
  Bids = {b1, b2}
  Selections = {s1, s2}
  NoDelegator = NoDelegator
  o1 = o1
  a1 = a1
  b1 = b1
  b2 = b2
  DelegatorOf <- SomeDelegators
  DelegateeOf <- OneDelegatee
  MaxTime = 2
INVARIANT UntouchedVerifies
CHECK_DEADLOCK FALSE
