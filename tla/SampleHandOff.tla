---------------------------- MODULE SampleHandOff ----------------------------
(***************************************************************************)
(* What the stream client and the render loop promise each other about the *)
(* decoder's textures (spec sections 3 and 5, testable property 3),        *)
(* without the threads, the ready slot or the XR frame.                    *)
(*                                                                         *)
(* A texture is either the decoder's or checked out to the renderer.  The  *)
(* renderer checks out at most one sample while it still holds another,   *)
(* each checked-out sample is newer than every one before it, a texture    *)
(* goes back only by the renderer releasing it, and closing the client     *)
(* gives everything back.                                                  *)
(***************************************************************************)
EXTENDS Naturals

CONSTANT Textures

VARIABLES
  out,     \* textures checked out to the renderer and not yet released
  newest,  \* sequence id of the newest sample checked out (0: none yet)
  open     \* the client has not been destroyed

vars == <<out, newest, open>>

Init ==
  /\ out = {}
  /\ newest = 0
  /\ open = TRUE

(* The renderer takes a sample newer than all before it, holding at most  *)
(* one other.                                                              *)
CheckOut(t) ==
  /\ open
  /\ t \in Textures \ out
  /\ \A u, v \in out : u = v
  /\ out' = out \cup {t}
  /\ newest' \in Nat
  /\ newest' > newest
  /\ UNCHANGED open

(* The renderer hands a texture back to the decoder.                     *)
Release(t) ==
  /\ t \in out
  /\ out' = out \ {t}
  /\ UNCHANGED <<newest, open>>

(* Teardown: every texture is the decoder's again.                        *)
Close ==
  /\ open
  /\ out' = {}
  /\ newest' = 0
  /\ open' = FALSE

Next ==
  \/ \E t \in Textures : CheckOut(t)
  \/ \E t \in Textures : Release(t)
  \/ Close

Spec == Init /\ [][Next]_vars
=============================================================================
