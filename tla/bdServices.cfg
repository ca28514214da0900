CONSTANTS
  Files = {stats}
  Profile = profile
  Blocks = {b1, b2}
  MaxRequests = 3
SPECIFICATION Spec
INVARIANTS RepliesAsAsked StrayOnlyLate AckedWritesLast
PROPERTY RepliedUnlessBlocked
