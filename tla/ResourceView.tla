------------------------------ MODULE ResourceView -----------------------------
(***************************************************************************)
(* A body received and what a response shows of the resource it became.    *)
(***************************************************************************)
EXTENDS ResourceCodec

CONSTANTS
  Bodies,       \* what clients send
  Projections   \* [attributes, excluded]: two sequences of paths

VARIABLES
  resource,     \* the outcome of decoding a body, Nil before
  shown, view   \* what a query asked for, and was answered

ASSUME ViewAssumption ==
  /\ Attrs \subseteq STRING
  /\ Bodies \subseteq JSONBodies
  /\ Bad \notin Seq([Subs -> Scalars \cup {Nil}])
  /\ Bad \notin Members(Extension)
  /\ Projections \subseteq [attributes : Seq(NamedPaths), excluded : Seq(NamedPaths)]

ViewInit == resource = Nil /\ shown = Nil /\ view = Nil

(* DecodeResource: of a client's body, readOnly attributes dropped, or of  *)
(* a provider's.                                                           *)
ReceiveBody(body, dropReadOnly) ==
  /\ resource = Nil
  /\ resource' \in DecodeResource(body, dropReadOnly)
  /\ UNCHANGED <<shown, view>>

ShowResource(p) ==
  /\ resource # Nil /\ resource.ok /\ view = Nil
  /\ shown' = p
  /\ view' = EncodeResource(resource.res, p.attributes, p.excluded)
  /\ UNCHANGED resource

ViewNext ==
  \/ \E body \in Bodies, drop \in BOOLEAN : ReceiveBody(body, drop)
  \/ \E p \in Projections : ShowResource(p)

ViewSpec == ViewInit /\ [][ViewNext]_<<resource, shown, view>>

-----------------------------------------------------------------------------
(* Whether a list of paths names a sub-attribute, itself or with the whole *)
(* it belongs to.                                                          *)
Names(paths, a, s) ==
  \/ Contains(paths, Path(a, Nil))
  \/ Schema[a].ext /\ Contains(paths, WholeExtension)
  \/ Contains(paths, Path(a, s)) /\ Schema[a].complex /\ ~Schema[a].multi

Visible(a, s) ==
  /\ Returned[a] # "never" /\ <<a, s>> \notin HiddenSubs
  /\ \/ Returned[a] = "always"
     \/ IF shown.attributes # <<>> THEN Names(shown.attributes, a, s)
        ELSE Returned[a] = "default" /\ ~Names(shown.excluded, a, s)

VisiblePart(a) ==
  LET part(e) == [s \in Subs |-> IF Visible(a, s) THEN e[s] ELSE Nil]
  IN  WithoutEmpty([i \in DOMAIN resource.res[a] |-> part(resource.res[a][i])])

SentBack(a) ==
  [list  |-> Schema[a].multi,
   elems |-> [i \in DOMAIN view.at[a] |->
               [form |-> IF Schema[a].complex THEN "object" ELSE "scalar", at |-> view.at[a][i]]]]

ViewBody ==
  LET members(attrs) == {Member(a, a, SentBack(a)) : a \in {b \in attrs : view.at[b] # <<>>}}
      box == CHOOSE b \in Boxes : TRUE
  IN  Body(members(Attrs \ Extension), [b \in Boxes |-> IF b = box THEN members(Extension) ELSE {}])

(* A response shows what the query names, in whatever order it names a     *)
(* whole and its parts, and nothing its schema never returns; read by a    *)
(* client, it is those values again, in order (EncodeResource,             *)
(* indexPaths, selection, DecodeResource).                                 *)
ViewExact ==
  view # Nil => DecodeResource(ViewBody, FALSE) = {[ok |-> TRUE, res |-> [a \in Attrs |-> VisiblePart(a)]]}

(* Sent back whole, a response writes every value the client may write and *)
(* none it may not, at the top level and in an extension's container       *)
(* (DropReadOnly).                                                         *)
SendsBackWritable ==
  view # Nil =>
    DecodeResource(ViewBody, TRUE) =
      {[ok |-> TRUE, res |-> [a \in Attrs |-> IF ReadOnly(a) THEN <<>> ELSE VisiblePart(a)]]}

===============================================================================
