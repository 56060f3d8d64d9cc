---- MODULE MCVideoFramebuffers ----
(* Frames of one buffer with two planes and of two buffers with one each; a *)
(* format in two sizes and a second format.                                 *)
EXTENDS VideoFramebuffers

ThreeFrames == {<<1, 1>>, <<2, 2>>, <<3, 4>>}
ThreeLayouts == {[format |-> "nv12", size |-> 1], [format |-> "nv12", size |-> 2],
                 [format |-> "nv12c", size |-> 1]}
TwoSizes == {[format |-> "xrgb", size |-> 1], [format |-> "xrgb", size |-> 2]}
====
