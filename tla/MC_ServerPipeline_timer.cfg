CONSTANTS
  c1 = c1
  c2 = c2
  NoClient = NoClient
  Clients <- MCTwoClients
  MaxMsgs <- MCMaxMsgs
SPECIFICATION Spec
INVARIANT TimerTargetsLiveChannel
