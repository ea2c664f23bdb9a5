SPECIFICATION Spec
CONSTANTS
  Clients <- MCClients
  Refreshers <- MCRefreshers
  Tools <- MCTools
  Announcing <- MCTools
  Limits <- MCLimits
  MaxCompleted = 1
  MaxVersion = 2
INVARIANT
  FreshAnswers
