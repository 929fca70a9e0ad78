CONSTANTS
  t1 = t1
  NoTex = NoTex
  Textures <- MCTextures
  Blends <- MCBlends
  MaxSeq <- MCMaxSeq
  MaxCmds = 5
  MaxXrEvents = 6
  EmitUpMessage <- MCEmitUpMessage
SPECIFICATION AppSpec
CHECK_DEADLOCK FALSE
INVARIANT AppTypeOK
PROPERTY ReadySessionBegun
PROPERTY SessionCallsInState
