---------------------------- MODULE PortablePath ----------------------------
(***************************************************************************)
(* Protocol paths (crates/rebyte-format/src/path.rs).  A path is the       *)
(* sequence of its components, the empty string the empty sequence; a      *)
(* component is a number, and Class says which of the forbidden forms it   *)
(* has.  A leading slash is an empty first component.                      *)
(***************************************************************************)
EXTENDS Integers, Sequences, SequencesExt, Checks

CONSTANT Class    \* component -> "plain" or the form the validator rejects

\* Forms a byte of which is rejected wherever it stands, in the order of the
\* byte scans of validate.
ByteForms == <<"Backslash", "Colon", "Control">>
ComponentForms ==
  <<"EmptyComponent", "CurrentDirectory", "ParentDirectory", "HomePrefix",
    "ReservedRoot", "TrailingDotOrSpace", "WindowsDeviceName">>
OnlyFirst == {"HomePrefix", "ReservedRoot"}

\* validate_component: the first component also excludes ~ and .rebyte.
ComponentChecks(c, index) ==
  [k \in 1..Len(ComponentForms) |->
     <<Class[c] = ComponentForms[k] /\ (ComponentForms[k] \in OnlyFirst => index = 1),
       ComponentForms[k]>>]

\* The error with which RelativeArtifactPath::with_max_bytes rejects path.
PathError(path, max) ==
  FirstError(
    << <<path = <<>>, "Empty">>,
       <<Len(path) > max, "TooLong">>,
       <<path # <<>> /\ Class[path[1]] = "EmptyComponent", "Absolute">> >>
    \o [k \in 1..Len(ByteForms) |->
          <<\E i \in 1..Len(path) : Class[path[i]] = ByteForms[k], ByteForms[k]>>]
    \o FlattenSeq([i \in 1..Len(path) |-> ComponentChecks(path[i], i)]))

ValidPath(path, max) == PathError(path, max) = Passed

\* The order of str::cmp on the canonical texts: an ancestor comes first.
PathLess(p, q) ==
  \/ IsStrictPrefix(p, q)
  \/ \E i \in DOMAIN p \cap DOMAIN q :
       /\ \A j \in 1..(i - 1) : p[j] = q[j]
       /\ p[i] < q[i]

=============================================================================
