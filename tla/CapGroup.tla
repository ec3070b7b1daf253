------------------------------ MODULE CapGroup ------------------------------
(***************************************************************************)
(* The group in a relation's name. OpenFGA limits the length of a name, so *)
(* the front of the group is cut off where create_<group>_<plural> would   *)
(* be too long. The code does so twice: for resources found by discovery   *)
(* and for those of bound APIs.                                            *)
(***************************************************************************)
EXTENDS Integers, Sequences

CONSTANTS
  Letters,
  Groups, Plurals,   \* names to consider
  Core,              \* the group of the resources that have none
  MaxLength          \* 50 in the code

ASSUME CapGroupAssumption ==
  /\ Groups \subseteq Seq(Letters) /\ Plurals \subseteq Seq(Letters)
  /\ Core \in Seq(Letters)
  /\ MaxLength \in Nat

\* create_<group>_<plural>
RelationLength(group, plural) == 7 + Len(group) + 1 + Len(plural)

Excess(group, plural) == RelationLength(group, plural) - MaxLength

\* group[i:], which panics behind the end
InRange(group, i) == i <= Len(group)
From(group, i)    == SubSeq(group, i + 1, Len(group))

\* Mutant: as many letters are kept as are too many.
KeepExcess(group, plural) ==
  IF Excess(group, plural) > 0
  THEN SubSeq(group, Len(group) - Excess(group, plural) + 1, Len(group)) ELSE group

CapGroupToRelationLength(group, plural) ==
  LET name == IF group = <<>> THEN Core ELSE group IN
  IF Excess(group, plural) > 0 THEN From(name, Excess(group, plural)) ELSE name

\* processAPIResourceIntoModel: for resources found by discovery
DiscoveredGroup(group, plural) ==
  IF group = <<>> THEN Core ELSE CapGroupToRelationLength(group, plural)

\* Process of the APIBinding controller
GeneratedGroup(group, plural) ==
  IF Excess(group, plural) > 0 THEN From(group, Excess(group, plural)) ELSE group

\* Room is left for a group of no letters.
PluralFits(plural) == RelationLength(<<>>, plural) <= MaxLength

\* The two ways agree on every group, so that a resource has one type name
\* whichever way its model comes about; the relation fits, by the loss of no
\* more letters than necessary; and the slice of the group is out of range
\* exactly if the plural leaves no room (util.go,
\* authorization_model_generation.go). The core group is never cut.
CapsAgreeAndFit ==
  \A group \in Groups \ {<<>>}, plural \in Plurals :
     LET capped == GeneratedGroup(group, plural) IN
     /\ DiscoveredGroup(group, plural) = capped
     /\ InRange(group, Excess(group, plural)) <=> PluralFits(plural)
     /\ PluralFits(plural) =>
          /\ RelationLength(capped, plural) <= MaxLength
          /\ capped # group => RelationLength(capped, plural) = MaxLength
=============================================================================
