CONSTANTS
  t1 = t1
  NoTex = NoTex
  Textures <- MCTextures
  Blends <- MCBlends
  MaxSeq <- MCMaxSeq
  MaxCmds = 3
  MaxXrEvents = 1
  EmitUpMessage <- MCEmitUpMessage
SPECIFICATION AppSpec
CHECK_DEADLOCK FALSE
INVARIANT FrameEndedBeforeReturn
