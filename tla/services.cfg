CONSTANTS
  r1 = r1
  r2 = r2
  u1 = u1
  u2 = u2
  m1 = m1
  m2 = m2
  o1 = o1
  o2 = o2
  g1 = g1
  NoOne = NoOne
  NoEmail = NoEmail
  Nobody = Nobody
  Free = Free
  ClerkIds = {m1, m2}
  GoogleIds = {g1}
  Emails = {u1, u2}
  SignIns = {r1, r2}
  MaxSignIns = 3
  MaxUserFaults = 1
  Users = {u1, u2}
  Members = {m1, m2}
  Orgs = {o1, o2}
  Requests = {r1, r2}
  Cap = 2
  MemberIndexed = FALSE
  RefreshAttempts = 1
  MaxAccountCalls = 3
  MaxAccountFaults = 1
  Plans = {m1, m2}
  Handlers = {r1, r2}
  MaxEvents = 4
  MaxPeriods = 2
  MaxHookFaults = 1
  Checks = {r1, r2}
  CreditsFree = 1
  CreditsPaid = 2
  MaxChecks = 2
  Runs = {r1, r2}
  MaxSteps = 1
  SearchCap = 2
  MaxCallsPerTurn = 3
  Costs = {0, 3}
  UnitsPerCredit = 2
  TokenCredits = 1
  SearchCredits = 1
  RenderUnits = {3}
  RenderCredits = 1
  MinRenderCredits = 2
  Limit = 1
  JobAttempts = 2
  MaxAgentFaults = 1
SPECIFICATION Spec
CHECK_DEADLOCK FALSE
SYMMETRY Interchangeable
INVARIANTS
  TypeOK
  SignInsResolve
  IdentitiesUnique
  OneOwner
  CapOvershootBounded
  PagesFollowPerson
  MetadataIsCurrent
  AnsweredIsApplied
  ServedAsPaid
  AnswersAgree
  BilledAsUsed
  OvershootBounded
