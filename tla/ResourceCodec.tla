----------------------------- MODULE ResourceCodec ----------------------------
(***************************************************************************)
(* Bodies to resources and back (scim/codec.go).                           *)
(*                                                                         *)
(* A body holds members at its top level and, under the spellings of the   *)
(* extension's URN, containers of members.  Keys are unique as spelled and *)
(* match attributes whatever their case, and the decoder visits them in    *)
(* the order of a Go map, which is any order: of two members that name one *)
(* attribute either may win.                                               *)
(***************************************************************************)
EXTENDS AttrData

CONSTANTS
  Returned,     \* attribute -> "always", "default", "request" or "never"
  HiddenSubs,   \* the pairs <<attribute, sub-attribute>> never returned
  Boxes,        \* spellings of the extension's URN
  Wire,         \* type -> stored scalar -> the JSON scalar it is written as
  Unknown       \* a name that no attribute has

ASSUME CodecAssumption ==
  /\ IsFiniteSet(Attrs) /\ Boxes # {} /\ {Unknown, "extension"} \cap Attrs = {}
  /\ \A a \in Attrs : Returned[a] \in {"always", "default", "request", "never"}
  /\ \A t \in Types, x \in Scalars :
       LET stored == Convert[t][x]
       IN  stored # Bad => Wire[t][stored] \in Scalars /\ Convert[t][Wire[t][stored]] = stored
  /\ \A h \in HiddenSubs : h[1] \in Attrs /\ Schema[h[1]].complex /\ h[2] \in SubsOf(h[1])

Extension == {a \in Attrs : Schema[a].ext}

(* attr is the attribute the key matches, of the top level or of the       *)
(* container it is in.                                                     *)
Member(key, attr, value) == [key |-> key, attr |-> attr, value |-> value]

Body(top, boxes) == [top |-> top, boxes |-> boxes]

(* What a body may hold; a container that is no object has something else  *)
(* than members.                                                           *)
NotAnObject == {Bad}

Members(attrs) == [key : STRING, attr : attrs \cup {Unknown}, value : RawValue]

JSONBodies ==
  [top : SUBSET Members(Attrs \ Extension), boxes : [Boxes -> {NotAnObject} \cup SUBSET Members(Extension)]]

ReadOnly(a) == Schema[a].mutability = "readOnly"

Considered(members, dropReadOnly) ==
  {m \in members : m.attr # Unknown /\ ~(dropReadOnly /\ ReadOnly(m.attr))}

(* decodeAttr: an attribute whose value is nothing leaves what is there.   *)
Readings(members, a) ==
  LET values == {Coerce(a, m.value) : m \in {n \in members : n.attr = a}} \ {<<>>}
  IN  IF values = {} THEN {<<>>} ELSE values

Assignments(members, attrs) ==
  FoldSet(LAMBDA a, fs : {[f EXCEPT ![a] = v] : f \in fs, v \in Readings(members, a)},
          {[a \in attrs |-> <<>>]}, {m.attr : m \in members} \cap attrs)

Mistaken(members) == \E m \in members : Coerce(m.attr, m.value) = Bad

Containers_KeepsReadOnly(body, dropReadOnly) ==
  LET full(b) == Assignments(Considered(body.boxes[b], FALSE), Extension)
      filled  == (UNION {full(b) : b \in {c \in Boxes : body.boxes[c] # {}}}) \ {[a \in Extension |-> <<>>]}
  IN  IF filled = {} THEN {[a \in Extension |-> <<>>]} ELSE filled

(* decodeExtension: an empty container leaves the one that is there.       *)
Containers(body, dropReadOnly) ==
  LET full(b) == Assignments(Considered(body.boxes[b], dropReadOnly), Extension)
      filled  == (UNION {full(b) : b \in {c \in Boxes : body.boxes[c] # {}}}) \ {[a \in Extension |-> <<>>]}
  IN  IF filled = {} THEN {[a \in Extension |-> <<>>]} ELSE filled

Refusals(body, dropReadOnly) ==
  LET objects == {b \in Boxes : body.boxes[b] # NotAnObject}
      members == body.top \cup UNION {body.boxes[b] : b \in objects}
  IN  {err \in {"invalidValue", "invalidSyntax"} :
         IF err = "invalidValue" THEN Mistaken(Considered(members, dropReadOnly)) ELSE objects # Boxes}

Join(top, ext) == [a \in Attrs |-> IF a \in Extension THEN ext[a] ELSE top[a]]

(* DecodeResource: every outcome some order of visits has.                 *)
DecodeResource(body, dropReadOnly) ==
  IF Refusals(body, dropReadOnly) # {}
  THEN {[ok |-> FALSE, err |-> e] : e \in Refusals(body, dropReadOnly)}
  ELSE {[ok |-> TRUE, res |-> Join(top, ext)] :
          top \in Assignments(Considered(body.top, dropReadOnly), Attrs \ Extension),
          ext \in Containers(body, dropReadOnly)}

-----------------------------------------------------------------------------
(* Projection.  A path names an attribute, one of its sub-attributes, or   *)
(* the whole extension; attr is Unknown when it names none.                *)
Path(a, s)    == [attr |-> a, sub |-> s]
NamedPaths    == [attr : Attrs \cup {"extension", Unknown}, sub : Subs \cup {Nil}]
WholeExtension == [attr |-> "extension", sub |-> Nil]

(* resolvePath: sub-attributes of single-valued attributes only.           *)
PathResolves(p) ==
  \/ p = WholeExtension
  \/ p.attr \in Attrs /\ \/ p.sub = Nil
                         \/ Schema[p.attr].complex /\ ~Schema[p.attr].multi /\ p.sub \in SubsOf(p.attr)

Unlisted == [whole |-> FALSE, subs |-> {}]
Entire   == [whole |-> TRUE, subs |-> {}]

Indexed_Narrowing(index, p) ==
  IF ~PathResolves(p) THEN index
  ELSE IF p = WholeExtension THEN [a \in Attrs |-> IF a \in Extension THEN Entire ELSE index[a]]
  ELSE IF p.sub = Nil THEN [index EXCEPT ![p.attr] = Entire]
  ELSE [index EXCEPT ![p.attr] = [whole |-> FALSE, subs |-> @.subs \cup {p.sub}]]

(* indexPaths, one path: a sub-attribute does not narrow the whole.        *)
Indexed(index, p) ==
  IF ~PathResolves(p) THEN index
  ELSE IF p = WholeExtension THEN [a \in Attrs |-> IF a \in Extension THEN Entire ELSE index[a]]
  ELSE IF p.sub = Nil THEN [index EXCEPT ![p.attr] = Entire]
  ELSE IF index[p.attr].whole THEN index
  ELSE [index EXCEPT ![p.attr] = [whole |-> FALSE, subs |-> @.subs \cup {p.sub}]]

IndexPaths(paths) == FoldLeft(Indexed, [a \in Attrs |-> Unlisted], paths)

(* selection: what an attribute shows, a set of sub-attributes, or nothing *)
(* at all.                                                                 *)
Selection(a, attributes, excluded) ==
  LET only == IndexPaths(attributes)[a]
      drop == IndexPaths(excluded)[a]
  IN  CASE Returned[a] = "never"  -> {}
        [] Returned[a] = "always" -> Subs
        [] Returned[a] \in {"default", "request"} /\ attributes # <<>> ->
             IF only.whole THEN Subs ELSE only.subs
        [] Returned[a] = "request" /\ attributes = <<>> -> {}
        [] Returned[a] = "default" /\ attributes = <<>> -> IF drop.whole THEN {} ELSE Subs \ drop.subs

(* encodeValue, encodeComplex: hidden sub-attributes go, and elements left *)
(* empty.                                                                  *)
Encoded(a, stored, kept) ==
  LET shown(e) == [s \in Subs |-> IF s \in kept /\ <<a, s>> \notin HiddenSubs /\ e[s] # Nil
                                  THEN Wire[Schema[a].subs[s].type][e[s]] ELSE Nil]
  IN  WithoutEmpty([i \in DOMAIN stored |-> shown(stored[i])])

(* EncodeResource: what is shown, and whether schemas lists the extension. *)
EncodeResource(r, attributes, excluded) ==
  [at       |-> [a \in Attrs |-> Encoded(a, r[a], Selection(a, attributes, excluded))],
   extended |-> \E a \in Extension : r[a] # <<>>]

===============================================================================
