---- MODULE MCOverlay ----
(* A buffer on a screen too narrow for a panel, and a wide window, which has *)
(* what a wide buffer has and a mouse; what the compositor draws does not    *)
(* depend on the panels.                                                     *)
EXTENDS Overlay

MCSetups == {<<"buffer", TRUE>>, <<"sdl", FALSE>>}
MCSnaps  == {[artosyn |-> FALSE, extra |-> 0], [artosyn |-> TRUE, extra |-> 1]}
====
