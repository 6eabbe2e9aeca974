------------------------------- MODULE MCMesh -------------------------------
EXTENDS Mesh

Sym(links) ==
  LET V == UNION {{l[1], l[2]} : l \in links}
  IN [n \in V |-> {m \in V : <<n, m>> \in links \/ <<m, n>> \in links}]
Net(hears, ours, routers) == [hears |-> hears, ours |-> ours, routers |-> routers]
Plain(links) == Net(Sym(links), DOMAIN Sym(links), {})
MCShapes ==
  << Plain({<<1,2>>, <<2,3>>, <<3,4>>}),
     Plain({<<1,2>>, <<2,3>>, <<3,4>>, <<4,1>>}),
     Plain({<<1,2>>, <<1,3>>, <<2,3>>, <<3,4>>, <<2,4>>}),
     Plain({<<1,2>>, <<2,3>>, <<1,4>>, <<4,3>>, <<3,5>>}),
     \* 4 is a stock leaf
     Net(Sym({<<1,2>>, <<1,3>>, <<2,4>>, <<3,4>>, <<2,3>>}), {1, 2, 3}, {}),
     \* 2 is a stock router
     Net(Sym({<<1,2>>, <<1,3>>, <<2,4>>, <<3,4>>}), {1, 3, 4}, {2}),
     \* 3 is a router of ours
     Net(Sym({<<1,2>>, <<1,3>>, <<2,4>>, <<3,4>>, <<2,3>>}), {1, 2, 3, 4}, {3}),
     Plain({<<1,2>>, <<1,4>>, <<1,5>>, <<2,4>>, <<2,5>>, <<3,4>>, <<4,5>>}),
     \* 1 hears 3, which does not hear 1
     Net(<<{2, 3}, {1, 3, 4}, {2, 4}, {2, 3}>>, {1, 2, 3, 4}, {}),
     \* nobody is heard by 4, and 5 hears 1, which does not hear 5
     Net(<<{2, 3}, {1, 4, 5}, {1, 4, 5}, {}, {1, 3, 4}>>, {1, 2, 3, 4, 5}, {}) >>

(* A short path and a long one to the same node, whose neighbor waits. *)
UpgradeShapes == << Plain({<<1,2>>, <<2,3>>, <<3,4>>, <<1,5>>, <<5,4>>, <<4,6>>}) >>
(* 3 is a stock leaf of 2 and 4. *)
OwnerShapes == << Net(Sym({<<1,2>>, <<1,4>>, <<1,5>>, <<2,3>>, <<2,4>>, <<3,4>>, <<4,5>>}),
                      {1, 2, 4, 5}, {}) >>
=============================================================================
