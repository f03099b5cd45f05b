---------------------------- MODULE MCScimServer -----------------------------
(***************************************************************************)
(* Instances of ScimServer: a required multi-valued attribute, a unique    *)
(* immutable one, and a readOnly one only the embedding program writes.    *)
(***************************************************************************)
EXTENDS ScimServer, TLC

CONSTANT First   \* the one resource the store holds at the start

MCAttrs == {"members", "serial", "owner"}
MCValues == {"m1", "m2", "s1", "s2", "o1", "o2"}

Body(m, s, o) == [members |-> m, serial |-> s, owner |-> o]

(* "s2" is a value only a tolerant server takes.                            *)
MCCanonical == Body({"m1", "m2"}, {"s1"}, {"o1", "o2"})

MCStart == [i \in Ids |-> IF i = First THEN [attrs |-> Body({"m1", "m2"}, {}, {"o1"}), version |-> 1] ELSE Nil]

(* What clients send; readOnly attributes were dropped at decode.          *)
MCBodies == {Body({"m1"}, {}, {}), Body({}, {}, {}), Body({"m2"}, {"s1"}, {})}

Op(k, a, v, w) == [attr |-> a, op |-> [kind |-> k, value |-> v, with |-> w]]

MCPatchOps == {Op("remove", "members", "m1", "m1"),
               Op("strip", "members", "m1", "m1"), Op("strip", "members", "m2", "m2"),
               Op("add", "members", "m1", "m1"), Op("set", "serial", "s2", "s2"),
               Op("replace", "members", "m2", "m1")}

MCOutsideBodies == {Body({"m2"}, {"s1"}, {"o2"}), Body({"m1"}, {}, {"o1"})}

M(native, versioned, strict, out) ==
  [native |-> native, versioned |-> versioned, strict |-> strict, outside |-> out]

(* Every mode in which requests are promised to be atomic.                 *)
SerializableModes == {m \in Flags : m.versioned \/ ~(m.native \/ m.outside)}

OneStripe == [id \in Ids |-> CHOOSE s \in Stripes : TRUE]

(* The liveness instance: fewer contents, the code's own retry bound.      *)
LiveBodies == {Body({"m1"}, {}, {})}
LivePatchOps == {Op("remove", "members", "m1", "m1"), Op("add", "members", "m1", "m1")}
LiveOutsideBodies == {Body({"m2"}, {}, {"o2"})}
LiveModes == {M(TRUE, TRUE, TRUE, FALSE), M(FALSE, TRUE, FALSE, TRUE), M(FALSE, FALSE, TRUE, FALSE)}

Symmetric == Permutations(Requests)

==============================================================================
