---------------------------- MODULE MCOperations ----------------------------
(* Two of everything that comes in numbers.  The stack files vary a router *)
(* with two subgraphs, one of them on two hosts.  The operators, the       *)
(* deployables, the refreshes and the posts are the same two model values: *)
(* a behaviour has only one of the four, and one permutation serves all.   *)
EXTENDS Operations, TLC

Federated ==
    [deps |-> <<{2, 3}, {}, {2}>>, router |-> 1, sdl |-> {2, 3}, url |-> {2, 3}, blueGreen |-> {},
     hosts |-> <<1, 1, 2>>, activePath |-> TRUE, routerOnHosts |-> FALSE, flawed |-> FALSE]
MCFiles ==
    {Federated, [Federated EXCEPT !.sdl = {}, !.deps = <<{3}, {}, {}>>],
     [Federated EXCEPT !.deps = <<{2}, {}, {2}>>], [Federated EXCEPT !.deps = <<{2, 3}, {3}, {2}>>],
     [Federated EXCEPT !.deps = <<{2, 3}, {4}, {2}>>], [Federated EXCEPT !.router = 0],
     [Federated EXCEPT !.blueGreen = {2}], [Federated EXCEPT !.routerOnHosts = TRUE],
     [Federated EXCEPT !.flawed = TRUE]}

(* Archives without an extension, and with one that makes a schema the     *)
(* archive puts a table in and that owns a table with rows.                *)
MCListings ==
    {{<<"TABLE", "public", "t">>, <<"TABLE DATA", "public", "t">>},
     {<<"EXTENSION", "-", "x">>, <<"SCHEMA", "-", "x">>, <<"TABLE", "x", "t">>,
      <<"TABLE DATA", "x", "t">>, <<"TABLE DATA", "x", "conf">>}}

MCSymmetry == Permutations(Operators)
=============================================================================
