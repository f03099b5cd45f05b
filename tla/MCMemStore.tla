----------------------------- MODULE MCMemStore ------------------------------
(***************************************************************************)
(* Instances of MemStore: a single-valued unique attribute, an indexed     *)
(* multi-valued one, and a complex one the index does not cover.           *)
(***************************************************************************)
EXTENDS MemStore

MCAttrs == {"userName", "tags", "members"}

MCValues == {"Ann", "ann", "bob", "m1", "m2"}

(* "m1" and "m2" are complex elements: they have no index term.            *)
MCFoldName == [v \in {"Ann", "ann", "bob"} |-> IF v = "Ann" THEN "ann" ELSE v]

Body(u, t, m) == [userName |-> u, tags |-> t, members |-> m]

MCBodies == {Body({"Ann"}, {"bob"}, {}), Body({"ann"}, {"Ann", "bob"}, {"m1"}),
             Body({}, {}, {"m1"})}

Op(k, a, v, w) == [attr |-> a, op |-> [kind |-> k, value |-> v, with |-> w]]

MCOps == {Op("set", "userName", "bob", "bob"), Op("add", "tags", "ann", "ann"),
          Op("replace", "members", "m1", "m2")}

Symmetric == Permutations(Clients) \cup Permutations(Ids)

==============================================================================
