-------------------------------- MODULE Physics --------------------------------
(***************************************************************************)
(* PhysicsSystem (src/physics.cpp) on the Scene.  Vectors have integer     *)
(* coordinates, and one step is one unit of time.  A Transform is its      *)
(* position (the scale is 1), a RigidBody its velocity and a Collider its  *)
(* size.                                                                   *)
(***************************************************************************)
EXTENDS Scene

Vec(x, y) == [x |-> x, y |-> y]
Plus(v, w) == Vec(v.x + w.x, v.y + w.y)

\* Every body falls faster, then moves with its new velocity.
Fall(w, gravity) ==
    [w EXCEPT !.stores[RigidBody] = [e \in DOMAIN @ |-> Plus(@[e], Vec(0, gravity))]]

Move(w) ==
    [w EXCEPT !.transforms = [e \in DOMAIN @ |->
        IF Has(w, RigidBody, e) THEN Plus(@[e], Get(w, RigidBody, e)) ELSE @[e]]]

Advance(w, gravity) == Move(Fall(w, gravity))

Lower(a, b) == IF a < b THEN a ELSE b
Upper(a, b) == IF a < b THEN b ELSE a

\* The top left corner and the size of what two boxes share: negative if they are apart.
Shared(w, a, b) ==
    LET p == w.transforms[a]
        q == w.transforms[b]
        s == Get(w, Collider, a)
        t == Get(w, Collider, b)
        corner == Vec(Upper(p.x, q.x), Upper(p.y, q.y))
    IN  [corner |-> corner,
         size |-> Vec(Lower(p.x + s.x, q.x + t.x) - corner.x,
                      Lower(p.y + s.y, q.y + t.y) - corner.y)]

HaveColliders(w, a, b) == Has(w, Collider, a) /\ Has(w, Collider, b)

\* Boxes that touch collide.
IsCollision(w, a, b) ==
    HaveColliders(w, a, b) /\ Shared(w, a, b).size.x >= 0 /\ Shared(w, a, b).size.y >= 0

GetCollisionOverlap(w, a, b) ==
    IF IsCollision(w, a, b) THEN Shared(w, a, b)
    ELSE [corner |-> Vec(0, 0), size |-> Vec(0, 0)]
=============================================================================
