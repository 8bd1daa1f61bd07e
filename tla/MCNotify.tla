------------------------------ MODULE MCNotify ------------------------------
(***************************************************************************)
(* Two similar videos, one with two keyframes, and an image like both of   *)
(* them, for TLC.                                                          *)
(***************************************************************************)
EXTENDS Notify

CONSTANTS v, w, i, alice, bob

MCHash == {v, w, i}
MCVideo == {v, w}
MCKeyframes == [h \in MCVideo |-> IF h = v THEN 2 ELSE 1]

\* The image is more like video v; the videos are as alike as it takes.
MCSim == [x \in MCHash \X MCHash |->
            IF x[1] = x[2] THEN 100
            ELSE CASE {x[1], x[2]} = {v, w} -> 80
                   [] {x[1], x[2]} = {v, i} -> 90
                   [] OTHER -> 85]

\* The image is by the creator of v.
TwoCreators == [h \in MCHash |-> IF h = w THEN bob ELSE alice]
=============================================================================
