\* One proposal of two items reviewed on two gates, items edited by verdicts and by
\* edit_item while decisions, merges and expiries commit; resubmission
\* recomputes the gates from the edited payload.
SPECIFICATION Spec
CONSTANTS
  Engagements = {e1}
  None = None
  p1 = p1  p2 = p2  i1 = i1  i2 = i2  g1 = g1  g2 = g2  r1 = r1  r2 = r2
  author = author  agent = agent  s1 = s1  e1 = e1  k1 = k1  k2 = k2  a = a  b = b
  Sessions = {s1}
  SessionOf <- OneSessionOf
  EngagementOf <- OneEngagementOf
  AgentPayload <- AgentPayloadA
  Cited <- Everything
  MaxQuorum = 2
  Proposals = {p1}  Items = {i1, i2}  Policies = {g1, g2}  Kinds = {k1, k2}  Payloads = {a, b}
  Reviewers = {r1, r2}  Authors = {agent}
  ItemsOf <- PairItemsOf  Author <- AgentAuthor  KindOf <- TwoKindsOf
  AllowSelf = {}  Matches <- EditUnmatches  Quorums <- Fixed  Policy0 <- QuorumOne
  Authority0 <- CrossAuthority  Movable = {}  Switchable = {}
  MaxRounds = 2
INVARIANTS FreshDecisions OriginalIsAgents ApprovedGatesStamped
PROPERTIES KeepsPromise
CHECK_DEADLOCK FALSE
