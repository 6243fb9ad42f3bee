----------------------------- MODULE MCServices -----------------------------
(* An instance of Services: three filters of two groups of which the browser *)
(* takes two, a host, its parent domain and another host with its prefix    *)
(* (the parent is never visited itself: its verdict is one for a subdomain), *)
(* two tasks on custom filters, two lines of user rules, hours of two ticks *)
(* and months of four, two tabs and the background, three versions.         *)
EXTENDS Services, TLC

CONSTANTS u1, u2, a1, f1, f2, f3, g1, g2, host, parent, neighbour, p1, p2, r1, r2,
          s1, s2, t1, t2, background

MCRulesetGroup == [f \in Rulesets |-> IF f = f3 THEN g2 ELSE g1]
MCHostChain == (host :> <<host, parent>>) @@ (parent :> <<parent>>) @@ (neighbour :> <<neighbour>>)
MCHostPrefix == (host :> p1) @@ (parent :> p2) @@ (neighbour :> p1)
MCSpan == ("hours" :> 2) @@ ("months" :> 4)
MCWindow == ("hours" :> 2) @@ ("months" :> 2)
MCSchemaOf == (1 :> 1) @@ (2 :> 2) @@ (3 :> 3)
MCSchemaOfOne == (1 :> 1)

\* One set of slots serves tasks, saves, counts and pages.
MCServicesSymmetry == Permutations({s1, s2}) \union Permutations({r1, r2})
=============================================================================
