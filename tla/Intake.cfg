SPECIFICATION IntakeSpec
CONSTANTS
  Runs = {r1, r2}
  Drops = {d1}
  Letters = {l1}
  Consents = {k1, k2}
  Mails = {m1, m2}
  MaxTokens = 3
  MaxChanges = 2
  Attempts = 2
  Overlap = 1
  SearchLimit = 2
  MaxEntered = 3
  Budget = 1
  MaxNow = 2
  Shapes <- MCShapes
  NoToken = NoToken
  Nobody = Nobody
  Never = Never
  Absent = Absent
  Extractions = {e1, e2, e3}
  MonthBudget = 2
  Usages <- MCUsages
  Price <- MCPrice
  Million = 10
  MaxCost = 2
  MaxAttempts = 2
  Chosen = {"gemini", "anthropic"}
  Templates = {1}
  Replies <- MCReplies
  MaxMonths = 1
SYMMETRY MCSymmetry
INVARIANTS
  IntakeIsSound
  IntegrationIsSound
  SpendIsBounded
CHECK_DEADLOCK FALSE
