SPECIFICATION FairSpec
CONSTANTS
  Batches = {b1}
  Records = {s1, s2}
  Requests = {r1}
  Users = {clerk, principal}
  Clerks = {clerk}
  Principals = {principal}
  Workers = {w1}
  Attempts = 2
  MaxStalls = 1
  None = None
INVARIANTS AttemptsCoverSms SentMeansDelivered
PROPERTIES ImplementsBoundedDelivery JobsSettle QueuedUnlessLost
