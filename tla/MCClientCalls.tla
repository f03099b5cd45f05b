---------------------------- MODULE MCClientCalls ----------------------------
(***************************************************************************)
(* Instances of ClientCalls: calls on one group and creates beside it, all *)
(* with the same unique name.                                              *)
(***************************************************************************)
EXTENDS ClientCalls, TLC

MCAttrs == {"name", "members"}

MCValues == {"n", "m1", "m2"}

MCCanonical == [a \in MCAttrs |-> MCValues]

GroupId == <<"group">>

MCIds == {GroupId} \cup (Calls \X {"post"} \X (1..MaxAttempts))

Res(names, members) == [name |-> names, members |-> members]

MCStart == [attrs |-> Res({}, {"m1"}), version |-> 1]

MCBodies == {Res({"n"}, {"m2"})}

Members(kind, m) == [attr |-> "members", op |-> [kind |-> kind, value |-> m, with |-> m]]

MCPatchOps == {Members("add", "m2"), Members("remove", "m1")}

(* A target over a store that tracks versions, and nobody writes around it. *)
Plain == [native |-> FALSE, versioned |-> TRUE, strict |-> FALSE, outside |-> FALSE]

MCModes == {Plain}

Options(f, r, p, b, k, t) ==
  [fallback |-> f, replays |-> r, patches |-> p, bare |-> b, picky |-> k, tags |-> t]

(* A target without PATCH, one that answers it tersely and is picky, and   *)
(* one without versions for a client that replays everything.              *)
MCSetups ==
  {Options(TRUE, FALSE, FALSE, FALSE, FALSE, TRUE),
   Options(TRUE, FALSE, TRUE, TRUE, TRUE, TRUE),
   Options(FALSE, TRUE, TRUE, FALSE, TRUE, FALSE)}

Symmetric == Permutations(Calls)

==============================================================================
