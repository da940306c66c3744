----------------------------- MODULE ShapeFiles -----------------------------
(***************************************************************************)
(* The reader of shape files (src/tools/prop/shape.py): which definitions  *)
(* are cyclic, which containers exit, which definitions have no finite     *)
(* value, and the generator that a shape reads as.  The keys, texts and    *)
(* numbers of the JSON form are left out.                                  *)
(*                                                                         *)
(* A file is [definitions, root]: nodes of the shapes below, by name, and  *)
(* the root's node.                                                        *)
(***************************************************************************)
EXTENDS Generators

Leaf(generator) == [shape |-> "leaf", generator |-> generator]
RefShape(name) == [shape |-> "ref", name |-> name]
OptionalShape(node) == [shape |-> "optional", of |-> node]
ListShape(kind, node, least, most) ==
    [shape |-> kind, of |-> node, least |-> least, most |-> most]
MapShape(key, node, least, most) ==
    [shape |-> "map", key |-> key, of |-> node, least |-> least, most |-> most]
RecordShape(nodes) == [shape |-> "record", fields |-> nodes]
EnumShape(payloads) == [shape |-> "enum", variants |-> payloads]
Unit == [shape |-> "unit"]       \* The payload of a variant that has none.

\* The nodes inside a node.
Children(node) ==
    CASE node.shape \in {"optional", "list", "fixed-list", "set"} -> {node.of}
      [] node.shape = "map" -> {node.key, node.of}
      [] node.shape = "record" -> ToSet(node.fields)
      [] node.shape = "enum" -> ToSet(node.variants)
      [] OTHER -> {}

RECURSIVE Refs(_), Required(_, _)

\* The names that a node refers to, without following a ref.
Refs(node) ==
    IF node.shape = "ref" THEN {node.name} ELSE UNION {Refs(child) : child \in Children(node)}

\* The definitions each definition reaches through refs.
RECURSIVE Reach(_, _)
Reach(definitions, reach) ==
    LET wider == [n \in DOMAIN reach |-> reach[n] \cup UNION {reach[m] : m \in reach[n]}]
    IN  IF wider = reach THEN reach ELSE Reach(definitions, wider)

Cyclic(definitions) ==
    LET reach == Reach(definitions, [n \in DOMAIN definitions |-> Refs(definitions[n])])
    IN  {n \in DOMAIN definitions : n \in reach[n]}

RefersBack(node, cyclic) == Refs(node) \cap cyclic # {}

\* The first variant that does not refer back, or 0.
ExitVariant(node, cyclic) ==
    LET free == {i \in 1..Len(node.variants) : ~RefersBack(node.variants[i], cyclic)}
    IN  IF free = {} THEN 0 ELSE Min(free)

\* Whether a container can always take an exit.
Exits(node, cyclic) ==
    \/ node.shape = "optional"
    \/ node.shape \in {"list", "set", "map"} /\ node.least = 0
    \/ node.shape = "enum" /\ ExitVariant(node, cyclic) # 0

\* The refs that every value of a node expands.
Required(node, cyclic) ==
    CASE node.shape = "ref" -> {node.name}
      [] node.shape # "ref" /\ Exits(node, cyclic) -> {}
      [] OTHER -> UNION {Required(child, cyclic) : child \in Children(node)}

\* A definition that reaches itself through refs that every value expands.
Endless(definitions, cyclic) ==
    LET must == [n \in DOMAIN definitions |-> Required(definitions[n], cyclic)]
        reach == Reach(definitions, must)
    IN  \E n \in cyclic : n \in reach[n]

Unnamed(file) ==
    LET all == Refs(file.root)
               \cup UNION {Refs(file.definitions[n]) : n \in DOMAIN file.definitions}
    IN  ~(all \subseteq DOMAIN file.definitions)

RECURSIVE Build(_, _)
Build(node, cyclic) ==
    LET back == RefersBack(node, cyclic)
        exits == back /\ Exits(node, cyclic)
    IN  CASE node.shape = "leaf" -> node.generator
          [] node.shape = "unit" -> NoPayload
          [] node.shape = "ref" -> Ref(node.name, node.name \in cyclic)
          [] node.shape = "optional" ->
                [Optional(Build(node.of, cyclic)) EXCEPT !.exits = back]
          [] node.shape \in {"list", "fixed-list"} ->
                [ListOf(Build(node.of, cyclic), node.least, node.most)
                    EXCEPT !.exits = exits /\ node.shape = "list"]
          [] node.shape = "set" ->
                [SetOf(Build(node.of, cyclic), node.least, node.most) EXCEPT !.exits = exits]
          [] node.shape = "map" ->
                [DictOf(Build(node.key, cyclic), Build(node.of, cyclic), node.least, node.most)
                    EXCEPT !.exits = exits]
          [] node.shape = "record" ->
                RecordOf([i \in 1..Len(node.fields) |-> Build(node.fields[i], cyclic)])
          [] node.shape = "enum" ->
                EnumOf([i \in 1..Len(node.variants) |-> Build(node.variants[i], cyclic)],
                       IF back THEN ExitVariant(node, cyclic) ELSE 0)

\* What a file reads as: its generator and its definitions, or a refusal.
Read(file) ==
    LET cyclic == Cyclic(file.definitions)
        root == Build(file.root, cyclic)
    IN  CASE Unnamed(file) -> [end |-> "unnamed"]
          [] ~Unnamed(file) /\ Endless(file.definitions, cyclic) -> [end |-> "endless"]
          [] OTHER -> [end |-> "read",
                       generator |-> IF cyclic = {} THEN root ELSE Root(root),
                       definitions |-> [n \in DOMAIN file.definitions |->
                                           Build(file.definitions[n], cyclic)]]
=============================================================================
