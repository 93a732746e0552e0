---------------------------- MODULE MCMultiHost ----------------------------
(* Model-checking instances of MultiHost: two hosts one at a time, and     *)
(* three hosts in batches of two and one.  The fleet is uniform, or its    *)
(* second host is new, or all are; the second host may be out of the pool; *)
(* once there is no database.                                              *)
EXTENDS MultiHost

TwoHosts == <<"h1", "h2">>
ThreeHosts == <<"h1", "h2", "h3">>

Uniform(x) == [h \in Hosts |-> x]
Start(releases, pool, owns) == [prior |-> releases, pool |-> pool, ownsDatabase |-> owns]
FewStarts ==
    {Start(releases, pool, TRUE) :
        releases \in {Uniform(Old), Uniform(None), [Uniform(Old) EXCEPT !["h2"] = None]},
        pool \in {Uniform("in"), [Uniform("in") EXCEPT !["h2"] = "down"]}}
    \cup {Start(Uniform(Old), Uniform("in"), FALSE)}

=============================================================================
