------------------------ MODULE MC_RemoteExperience ------------------------
(* Small instance of RemoteExperience for TLC: three decoder textures, so  *)
(* that the decoder can fill the ready slot while the render thread holds  *)
(* both a pulled and a previous sample; four frames; two blend values.     *)
EXTENDS RemoteExperience, TLC

CONSTANTS t1, t2, t3

MCTextures == {t1, t2, t3}
MCBlends == {"UNSET", "ADDITIVE", "ALPHA_BLEND"}
MCMaxSeq == 4

(* The data channel is unbounded; TLC explores it up to three messages.   *)
ChanBound == Len(upChan) <= 3

TextureSymmetry == Permutations(MCTextures)
=============================================================================
