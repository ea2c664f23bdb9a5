SPECIFICATION Spec
CONSTANTS
  Clients <- MCClients
  Refreshers <- MCRefreshers
  Tools <- MCTools
  Announcing <- MCShards
  Limits <- MCLimits
  MaxCompleted = 1
  MaxVersion = 3
INVARIANTS
  TypeOK
  FreshAnswers
  LimitServed
  InFlightExact
PROPERTIES
  FollowersAnswered
