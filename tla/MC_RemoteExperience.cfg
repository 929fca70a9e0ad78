CONSTANTS
  t1 = t1
  t2 = t2
  t3 = t3
  NoTex = NoTex
  Textures <- MCTextures
  Blends <- MCBlends
  MaxSeq <- MCMaxSeq
SPECIFICATION Spec
CONSTRAINT ChanBound
SYMMETRY TextureSymmetry
INVARIANT TypeOK
INVARIANT TexturesPartitioned
INVARIANT FrameReportsIncrease
PROPERTY ImplementsHandOff
