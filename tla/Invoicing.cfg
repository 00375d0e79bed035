\* One tenant, two requests for one customer and one for another, every fault.
\* Every request is used once: the end of a behaviour is no error.
SPECIFICATION InvoicingSpec
CONSTANTS
  n1 = n1
  u1 = u1
  u2 = u2
  t1 = t1
  t2 = t2
  a = a
  b = b
  r1 = r1
  r2 = r2
  r3 = r3
  Tenants = {n1}
  Customers = {u1, u2}
  Tasks = {t1, t2}
  Codes = {a, b}
  TenantOf <- MCTenantOf
  CustomerOf <- MCCustomerOf
  Checklist <- MCChecklist
  Prices = {7}
  LockKey <- MCLockKey
  Runs = {r1, r2, r3}
  Asks <- MCAsks
  Period <- MCPeriod
  MaxEdits = 1
  Faults = {"crash", "drive", "db"}
  e1 = e1
  e2 = e2
  Home = n1
  Worth <- MCWorth
  ValidUntil <- MCValidUntil
  Units = {e1, e2}
  UnitOf <- MCUnitOf
  Interval = 2
  DueWithin = 1
  ExpiryWarning = 1
  Lookback = 2
  Year = 2
  WeekLength = 1
  Limit <- MCLimit
  MonthStarts = {0, 1}
  Urgent = {t1}
  Parts <- MCParts
  Plans <- MCPlans
  Groupings <- MCGroupings
  MaxDay = 2
  Never = Never
  NoPrice = NoPrice
  NoRun = NoRun
  NoInvoice = NoInvoice
  Lines <- MCLines
  Box = 4
  Height = 3400
  Margin = 500
  Reserve = 600
  Header = 1700
  RowLine = 130
  TotalLine = 156
  MaxRows = 20
INVARIANTS
  InvoiceIsReadable
  NumbersAreSound
  BilledOnce
  ConflictMeansRace
  
PROPERTIES
  EveryRunEnds
CHECK_DEADLOCK FALSE
