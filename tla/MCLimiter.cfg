CONSTANTS
  g = g
  Conns = {c1, c2}
  Users = {u1}
  Groups = {g}
  GroupOf <- OneCustomer
  Policies <- MCPolicies
  Deliveries <- MCDeliveries
  Absent = Absent
  Heavy = {u1}
  NoBucket = NoBucket
  NoUser = NoUser
  Monitor = Monitor
SYMMETRY Interchangeable
SPECIFICATION Spec
INVARIANTS CountIsExact AutoLimitKeepsBucket
PROPERTIES AdmittedWithinLimit
