SPECIFICATION Spec
CONSTANTS
  Thread = {t, u}
  Request = {p, q}
  None = None
  StripeOf <- Own
  TableOf <- Own
  Slots = 2
  Reserve = 2
  Costs = {1, 3}
  Limit = 4
  MaxDay = 1
  MaxCalls = 3
INVARIANTS WithinLimit BillsAreCharged
PROPERTIES NeverResent AnsweredOnce
SYMMETRY Names
