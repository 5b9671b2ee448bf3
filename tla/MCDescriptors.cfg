CONSTANTS
  ter = ter
  a = a
  b = b
  proxy = proxy
  Link = {ter}
  FlowConn = {a, b}
  Listener = {proxy}
  Fd = {3, 4, 5}
  MaxBytes = 1
SYMMETRY MCSymmetry
SPECIFICATION Spec
CHECK_DEADLOCK FALSE
INVARIANTS TypeOK NoDangling NoDescriptorLeak LinkUndisturbed ExactUntilReuse RatesAddUp
