----------------------------- MODULE MCRegistry -----------------------------
(***************************************************************************)
(* Instances of Registry for TLC: two similar contents registered by two   *)
(* workers, a third one that resembles the first only, and one client.     *)
(***************************************************************************)
EXTENDS Registry

CONSTANTS a, b, c, w1, w2, r1

MCHash == {a, b, c}
MCWorkers == {w1, w2}
MCClients == {r1}

Pair(x, y, g, h) == {x, y} = {g, h}

\* a and b are near duplicates, c is a derivative of a below the parent floor
\* for b.
MCSim == [p \in MCHash \X MCHash |->
            IF p[1] = p[2] THEN 100
            ELSE IF Pair(a, b, p[1], p[2]) THEN 90
            ELSE IF Pair(a, c, p[1], p[2]) THEN 85
            ELSE 70]

\* The points of a alone are more than a query returns if the limit is one.
MCPoints == [h \in MCHash |-> IF h = a THEN 2 ELSE 1]

\* Two videos and an image.
VideoTypes == [h \in MCHash |-> IF h = c THEN "image" ELSE "video"]

\* Two texts and a video, whose metadata may carry no keyframes.
TextTypes == [h \in MCHash |-> IF h = c THEN "video" ELSE "text"]
NotC == {a, b}

NoneDeclared == [h \in MCHash |-> NoHash]

\* b names its true origin a in its metadata, and c names b.
ChainDeclared == [h \in MCHash |-> IF h = b THEN a ELSE IF h = c THEN b ELSE NoHash]

MCOneWorker == {w1}
=============================================================================
