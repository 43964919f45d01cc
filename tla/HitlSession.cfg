\* Two proposals of one trace session, judged independently; deadlines and the expiry
\* sweep, with a roster that may leave a review stuck.
SPECIFICATION FairSpec
CONSTANTS
  Engagements = {e1}
  None = None
  p1 = p1  p2 = p2  i1 = i1  i2 = i2  g1 = g1  g2 = g2  r1 = r1  r2 = r2
  author = author  agent = agent  s1 = s1  e1 = e1  k1 = k1  k2 = k2  a = a  b = b
  Sessions = {s1}
  SessionOf <- OneSessionOf
  EngagementOf <- OneEngagementOf
  AgentPayload <- AgentPayloadA
  Cited <- Everything
  MaxQuorum = 2
  Proposals = {p1, p2}  Items = {i1, i2}  Policies = {g1}  Kinds = {k1}  Payloads = {a}
  Reviewers = {r1}  Authors = {agent}
  ItemsOf <- TwoItemsOf  Author <- AgentAuthor  KindOf <- OneKindOf
  AllowSelf = {}  Matches <- AllMatch  Quorums <- Fixed  Policy0 <- QuorumOne
  Authority0 <- AllAuthority  Movable <- AllAuthority  Switchable = {}
  MaxRounds = 1
INVARIANTS LabelMatchesJudgment
PROPERTIES ReviewsEnd
CHECK_DEADLOCK FALSE
