----------------------------- MODULE MCTextures -----------------------------
EXTENDS Textures

(* An image and a frame; an image and the last frame of the window, which is
   drawn last.                                                              *)
Shown(i, id) == [tex |-> i, frame |-> id, past |-> 0]
Past(k)      == [tex |-> 0, frame |-> 0, past |-> k]

MCScenes == {<<Shown(0, 0), Shown(1, 0)>>, <<Shown(0, 0), Past(1)>>}

FeedbackScenes == {<<Past(1)>>}
=============================================================================
