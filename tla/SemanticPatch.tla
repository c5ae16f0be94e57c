---------------------------- MODULE SemanticPatch ----------------------------
(***************************************************************************)
(* Semantic patches (crates/rebyte-semantic/src/lib.rs): operations on a   *)
(* structured document, applied in memory, all or none.                    *)
(*                                                                         *)
(* A value is a scalar [type |-> "scalar", value |-> v], an object with a  *)
(* function from components to values, or an array with a sequence.  A     *)
(* target is its syntax, its value, and its layout, which stands for       *)
(* everything about the text that is not the value.  A pointer is its      *)
(* decoded components; Malformed ones do not decode.                       *)
(***************************************************************************)
EXTENDS Integers, SequencesExt, Checks

CONSTANTS
  MaxOperations,
  MalformedPointers, \* too long, too deep, or wrongly escaped
  Index,             \* the array indexes among the components: component -> number
  Dash,              \* the component "-"
  Null               \* the scalar null

Scalar(v) == [type |-> "scalar", value |-> v]
Object(map) == [type |-> "object", map |-> map]
Array(items) == [type |-> "array", items |-> items]

\* SemanticPatch::validate; a digest is the target it is of, or "none".
PatchError(p) ==
  FirstError(<< <<p.version # 1, "UnsupportedVersion">>,
                <<Len(p.operations) \notin 1..MaxOperations, "OperationLimit">>,
                <<p.digest.form = "malformed", "InvalidDigest">> >>
             \o FlattenSeq([i \in 1..Len(p.operations) |->
                  LET path == p.operations[i].path IN
                  << <<path \in MalformedPointers, "InvalidPointer">>,
                     <<p.format = "toml" /\ (path = <<>> \/ Range(path) \cap (DOMAIN Index \cup {Dash}) # {}),
                       "UnsupportedTomlPath">> >>]))

-----------------------------------------------------------------------------
(* Pointers.  A place is [error, value].                                   *)

At(value) == [error |-> Passed, value |-> value]
Nowhere(error) == [error |-> error]

\* parse_array_index, then the element.
Child(value, component) ==
  CASE value.type = "object" -> IF component \in DOMAIN value.map THEN At(value.map[component])
                                ELSE Nowhere("MissingPath")
    [] value.type = "array" -> IF component \notin DOMAIN Index THEN Nowhere("TypeConflict")
                               ELSE IF Index[component] >= Len(value.items) THEN Nowhere("MissingPath")
                               ELSE At(value.items[Index[component] + 1])
    [] OTHER -> Nowhere("TypeConflict")

pointer_get(root, path) ==
  FoldLeft(LAMBDA place, c : IF place.error # Passed THEN place ELSE Child(place.value, c), At(root), path)

\* What the last step of pointer_set and of pointer_remove makes of the parent.
SetIn(parent, last, value) ==
  CASE parent.type = "object" -> At(Object([c \in DOMAIN parent.map \cup {last} |->
                                              IF c = last THEN value ELSE parent.map[c]]))
    [] parent.type = "array" /\ last = Dash -> At(Array(Append(parent.items, value)))
    [] parent.type = "array" /\ last # Dash ->
         IF Child(parent, last).error # Passed THEN Child(parent, last)
         ELSE At(Array(ReplaceAt(parent.items, Index[last] + 1, value)))
    [] OTHER -> Nowhere("TypeConflict")
RemoveIn(parent, last) ==
  IF Child(parent, last).error # Passed THEN Child(parent, last)
  ELSE IF parent.type = "object" THEN At(Object([c \in DOMAIN parent.map \ {last} |-> parent.map[c]]))
  ELSE At(Array(RemoveAt(parent.items, Index[last] + 1)))

\* The document with the value at path replaced, from the innermost parent out.
Rebuild(root, path, value) ==
  FoldLeft(LAMBDA inner, k : SetIn(pointer_get(root, SubSeq(path, 1, Len(path) - k)).value,
                                   path[Len(path) - k + 1], inner).value,
           value, [k \in 1..Len(path) |-> k])

pointer_set(root, path, value) ==
  IF path = <<>> THEN At(value)
  ELSE LET parent == pointer_get(root, Front(path)) IN
       IF parent.error # Passed THEN parent
       ELSE LET changed == SetIn(parent.value, Last(path), value) IN
            IF changed.error # Passed THEN changed ELSE At(Rebuild(root, Front(path), changed.value))

pointer_remove(root, path) ==
  IF path = <<>> THEN Nowhere("InvalidPointer")
  ELSE LET parent == pointer_get(root, Front(path)) IN
       IF parent.error # Passed THEN parent
       ELSE LET changed == RemoveIn(parent.value, Last(path)) IN
            IF changed.error # Passed THEN changed ELSE At(Rebuild(root, Front(path), changed.value))

-----------------------------------------------------------------------------
(* Application.                                                            *)

ApplyOperation(root, op) ==
  CASE op.op = "test" -> LET found == pointer_get(root, op.path) IN
                         IF found.error # Passed THEN found
                         ELSE IF found.value # op.value THEN Nowhere("TestFailed") ELSE At(root)
    [] op.op = "set" -> pointer_set(root, op.path, op.value)
    [] op.op = "remove" -> pointer_remove(root, op.path)
apply_operations(root, operations) ==
  FoldLeft(LAMBDA place, op : IF place.error # Passed THEN place ELSE ApplyOperation(place.value, op),
           At(root), operations)

\* apply_json prints the document afresh: whatever the layout was, it is now
\* the printer's.  A repeated key is refused.
apply_json(target, operations) ==
  LET done == apply_operations(target.value, operations) IN
  IF target.syntax # "json" THEN Nowhere("InvalidJson")
  ELSE IF done.error # Passed THEN done
  ELSE At([syntax |-> "json", value |-> done.value, layout |-> "printed"])

\* apply_toml runs the operations on a mirror, then those that change on the
\* syntax tree, which keeps its layout; TOML has no null.
HoldsNull(value) ==
  \/ value = Scalar(Null)
  \/ value.type = "object" /\ \E c \in DOMAIN value.map : value.map[c] = Scalar(Null)
  \/ value.type = "array" /\ \E i \in DOMAIN value.items : value.items[i] = Scalar(Null)
apply_toml(target, operations) ==
  LET done == apply_operations(target.value, operations) IN
  IF target.syntax # "toml" THEN Nowhere("InvalidToml")
  ELSE IF done.error # Passed THEN done
  ELSE IF \E op \in Range(operations) : op.op = "set" /\ HoldsNull(op.value)
       THEN Nowhere("UnsupportedTomlValue")
  ELSE At([target EXCEPT !.value = done.value])

apply_semantic_patch(p, target) ==
  IF PatchError(p) # Passed THEN Nowhere(PatchError(p))
  ELSE IF p.digest.form = "of" /\ p.digest.target # target THEN Nowhere("TargetDigestMismatch")
  ELSE IF p.format = "json" THEN apply_json(target, p.operations) ELSE apply_toml(target, p.operations)

=============================================================================
