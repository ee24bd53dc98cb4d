------------------------------ MODULE Elements ------------------------------
(***************************************************************************)
(* graph.Vertex and graph.Edge as the engine sees them: a vertex carries a *)
(* set of labels (NewVertex removes duplicates and sorts) and a map from   *)
(* property names to typed values; an edge carries its endpoints, a label  *)
(* and such a map.  The engine and the indexes neither look at the         *)
(* properties of an edge nor change them: where no record is replayed its  *)
(* label stands for both.                                                  *)
(***************************************************************************)
EXTENDS Naturals

CONSTANTS
    Labels,     \* vertex labels
    Keys,       \* property names
    Values,     \* property values
    EdgeLabels, \* edge labels
    Blank,      \* the empty string, which no element may carry
    Nil         \* a JSON null in a patch, or an absent "labels" field

ASSUME BlankAssumption == Blank \notin Labels

(* A null stands for no value in a patch; a stored value is never null.     *)
ASSUME NilAssumption == Nil \notin Values

PartialMaps(D, R) == UNION {[K -> R] : K \in SUBSET D}
PropertyMaps == PartialMaps(Keys, Values)
Vertices == [labels : SUBSET Labels, props : PropertyMaps]

(***************************************************************************)
(* Requests.  Blank among the labels stands for every input NewVertex      *)
(* turns down: an empty label or property name, a value of an unknown      *)
(* type.  A patch maps the names it mentions to a new value or to Nil.     *)
(***************************************************************************)
RequestedLabels == SUBSET (Labels \cup {Blank})
Patches == PartialMaps(Keys, Values \cup {Nil})

NewVertexAccepts(labels) == Blank \notin labels
NewVertex(labels, props) == [labels |-> labels, props |-> props]

NewEdgeAccepts(label) == label # Blank
NewEdge(from, to, label) == [from |-> from, to |-> to, label |-> label]
WithProps(e, props) == [from |-> e.from, to |-> e.to, label |-> e.label, props |-> props]

(* The labels and properties UpdateVertex computes from the stored vertex. *)
PatchedLabels(v, labels) == IF labels = Nil THEN v.labels ELSE labels

\* Mutant: a null in the patch is stored like any other value.
PatchedPropsStoreNulls(v, patch) ==
    [k \in DOMAIN v.props \cup DOMAIN patch |->
        IF k \in DOMAIN patch THEN patch[k] ELSE v.props[k]]

PatchedProps(v, patch) ==
    [k \in (DOMAIN v.props \cup DOMAIN patch) \ {j \in DOMAIN patch : patch[j] = Nil} |->
        IF k \in DOMAIN patch THEN patch[k] ELSE v.props[k]]
=============================================================================
