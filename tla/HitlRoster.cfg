\* One gate of quorum 2, two reviewers and an author who is one too; the roster
\* and the policy change while decisions are taken.
SPECIFICATION Spec
CONSTANTS
  Engagements = {e1}
  None = None
  p1 = p1  p2 = p2  i1 = i1  i2 = i2  g1 = g1  g2 = g2  r1 = r1  r2 = r2
  author = author  agent = agent  s1 = s1  e1 = e1  k1 = k1  k2 = k2  a = a  b = b
  Sessions = {s1}
  SessionOf <- OneSessionOf
  EngagementOf <- OneEngagementOf
  AgentPayload <- AgentPayloadA
  Cited <- Everything
  MaxQuorum = 2
  Proposals = {p1}  Items = {i1}  Policies = {g1}  Kinds = {k1}  Payloads = {a}
  Reviewers = {r1, r2, author}  Authors = {author}
  ItemsOf <- OneItemsOf  Author <- OneAuthor  KindOf <- OneKindOf
  AllowSelf = {}  Matches <- AllMatch  Quorums <- Retuned  Policy0 <- QuorumTwo
  Authority0 <- AllAuthority  Movable <- AllAuthority  Switchable <- Everyone
  MaxRounds = 2
SYMMETRY Symmetry
INVARIANTS QuorumStands
PROPERTIES RosterCounts FrozenBar
CHECK_DEADLOCK FALSE
