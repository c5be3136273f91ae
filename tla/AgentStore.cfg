CONSTANTS
  MaxEvents = 2
  MaxRemediations = 2
  MaxBatch = 2
  MaxIngested = 4
  Ingesters = {g1, g2}
  Nobody = Nobody
  c1 = c1
  c2 = c2
  Containers = {c1, c2}
  NoContainer = NoContainer
  Resolvable = {c2}
  NumRules = 3
  RuleClasses <- MCRuleClasses
  RuleSeverity <- MCRuleSeverity
  Inputs <- MCInputs
  KindOf <- MCKindOf
  DefaultLimit = 1
  MaxLimit = 2
  Queries <- MCQueries
SYMMETRY Symmetry
SPECIFICATION Spec
INVARIANTS
  TypeOK
  HoldsTheLatest
  IndexMatchesRing
  OneRemediationPerKey
  RemediationsBounded
  RemediationSumsItsMatches
  AllOrNothing
  ListsAreExact
PROPERTIES
  ImplementsEventLog
