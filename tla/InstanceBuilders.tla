-------------------------- MODULE InstanceBuilders --------------------------
(***************************************************************************)
(* The builders of the instance requests (create_instance_request_builder.h *)
(* and update_instance_request_builder.h), called in any order.  Labels    *)
(* are a function from keys to values.                                     *)
(*                                                                         *)
(* The service has instances.  The builder of an update starts from a copy *)
(* of one, which may be out of date, from its name alone, or from nothing. *)
(* What a CreateInstanceRequest has beside its instance, and its config,   *)
(* are set by the constructor and never again: they are left out.          *)
(***************************************************************************)
EXTENDS Naturals, Sequences, ResourceNames

CONSTANTS
  NoName,                   \* the empty string
  DisplayNames, NodeCounts, \* what the application sets
  Labels,                   \* the maps of labels it sets or adds
  Instances,                \* what instances can have beside a name
  MaxCalls                  \* of a builder

Names == {InstanceName(in) : in \in Ids}
Keys == UNION {DOMAIN l : l \in Labels}

ASSUME BuildersAssumption ==
  /\ MaxCalls \in Nat /\ NoName \notin Names
  /\ \A i \in Instances : /\ DOMAIN i = {"display_name", "node_count", "labels"}
                          /\ DOMAIN i.labels \subseteq Keys

VARIABLES
  builder,      \* "create" or "update"
  stored,       \* the instances that the service has
  given,        \* the instance in request_ at first
  instance,     \* request_.instance()
  field_mask,   \* request_.field_mask(); a CreateInstanceRequest has none
  calls         \* the calls of the builder

builderVars == <<builder, stored, given, instance, field_mask, calls>>

NoLabels == [k \in {} |-> k]

Named(name, i) ==
  [name |-> name, display_name |-> i.display_name, node_count |-> i.node_count,
   labels |-> i.labels]

CreateInstanceRequest(in) ==
  [name |-> InstanceName(in), display_name |-> in.instance, node_count |-> 1,
   labels |-> NoLabels]

UpdateInstanceRequest(name) ==
  [name |-> name, display_name |-> NoName, node_count |-> 0, labels |-> NoLabels]

BuilderInit ==
  /\ stored \in [Names -> Instances]
  /\ \/ /\ builder = "create"
        /\ \E in \in Ids : given = CreateInstanceRequest(in)
     \/ /\ builder = "update"
        /\ \/ \E name \in Names \cup {NoName} : given = UpdateInstanceRequest(name)
           \/ \E name \in Names, i \in Instances : given = Named(name, i)
  /\ instance = given
  /\ field_mask = <<>>
  /\ calls = <<>>

InFieldMask(path) == \E i \in DOMAIN field_mask : field_mask[i] = path

AddPath(path) ==
  field_mask' = IF builder = "create" \/ InFieldMask(path) THEN field_mask
                ELSE Append(field_mask, path)

\* Labels that are there already keep their values (map::insert).
InsertLabels(labels, new) ==
  [k \in DOMAIN labels \cup DOMAIN new |->
     IF k \in DOMAIN labels THEN labels[k] ELSE new[k]]

Called(method, value) ==
  /\ Len(calls) < MaxCalls
  /\ calls' = Append(calls, [method |-> method, value |-> value])
  /\ UNCHANGED <<builder, stored, given>>

SetName ==
  \E name \in Names :
    /\ builder = "update"
    /\ instance' = [instance EXCEPT !.name = name]
    /\ UNCHANGED field_mask
    /\ Called("SetName", name)

SetDisplayName ==
  \E display_name \in DisplayNames :
    /\ AddPath("display_name")
    /\ instance' = [instance EXCEPT !.display_name = display_name]
    /\ Called("SetDisplayName", display_name)

SetNodeCount ==
  \E node_count \in NodeCounts :
    /\ AddPath("node_count")
    /\ instance' = [instance EXCEPT !.node_count = node_count]
    /\ Called("SetNodeCount", node_count)

AddLabels ==
  \E labels \in Labels :
    /\ builder = "update"
    /\ AddPath("labels")
    /\ instance' = [instance EXCEPT !.labels = InsertLabels(@, labels)]
    /\ Called("AddLabels", labels)

\* Mutant: the labels that were there are not cleared.
LabelsBefore_Kept == instance.labels

\* Mutant: those of a new instance are.
LabelsBefore_Cleared == NoLabels

\* SetLabels() of an update replaces the labels, that of a creation adds some.
LabelsBefore == IF builder = "update" THEN NoLabels ELSE instance.labels

SetLabels ==
  \E labels \in Labels :
    /\ AddPath("labels")
    /\ instance' = [instance EXCEPT !.labels = InsertLabels(LabelsBefore, labels)]
    /\ Called("SetLabels", labels)

BuilderNext == SetName \/ SetDisplayName \/ SetNodeCount \/ AddLabels \/ SetLabels

BuilderSpec == BuilderInit /\ [][BuilderNext]_builderVars

(***************************************************************************)
(* Properties.                                                             *)
(***************************************************************************)
CallsOf(method) == {i \in DOMAIN calls : calls[i].method = method}

\* A value is that of the last call of a method, or else the one before.
IsLatest(value, method, before) ==
  IF CallsOf(method) = {} THEN value = before
  ELSE \E i \in CallsOf(method) : /\ \A j \in CallsOf(method) : j <= i
                                  /\ value = calls[i].value

\* Where a label can come from: 0 is the instance that was given.
Source(i, k) ==
  IF i = 0 THEN k \in DOMAIN given.labels
  ELSE /\ calls[i].method \in {"AddLabels", "SetLabels"}
       /\ k \in DOMAIN calls[i].value

ValueFrom(i, k) == IF i = 0 THEN given.labels[k] ELSE calls[i].value[k]

\* The label has not been removed by a later call.
Gives(i, k) ==
  /\ Source(i, k)
  /\ builder = "update" => \A j \in CallsOf("SetLabels") : j <= i

\* Each label is there that was given, and has the value it was given first.
LabelsAreFirst(labels) ==
  /\ DOMAIN labels = {k \in Keys : \E i \in 0 .. Len(calls) : Gives(i, k)}
  /\ \A k \in Keys, i \in 0 .. Len(calls) :
       Gives(i, k) /\ (\A j \in 0 .. i - 1 : ~Gives(j, k))
         => labels[k] = ValueFrom(i, k)

\* What the service has in a field after an update: it replaces the fields
\* that the mask names.
Updated(path, new, old) == IF InFieldMask(path) THEN new ELSE old

\* An update that is sent after any calls of its builder leaves the instance
\* as the calls describe it: the one named last; a field that no call has set
\* is as the service has it, however old the copy was that the builder
\* started from; one that was set has its last value; the labels, once one of
\* the calls was about them, are those of the copy and of the calls since
\* they were replaced.  A path is in the mask once.
BuilderUpdatesInstance ==
  builder = "update" /\ instance.name \in Names =>
    LET old == stored[instance.name]
    IN /\ IsLatest(instance.name, "SetName", given.name)
       /\ IsLatest(Updated("display_name", instance.display_name, old.display_name),
                   "SetDisplayName", old.display_name)
       /\ IsLatest(Updated("node_count", instance.node_count, old.node_count),
                   "SetNodeCount", old.node_count)
       /\ LET labels == Updated("labels", instance.labels, old.labels)
          IN IF CallsOf("AddLabels") \cup CallsOf("SetLabels") = {}
             THEN labels = old.labels ELSE LabelsAreFirst(labels)
       /\ \A i, j \in DOMAIN field_mask : field_mask[i] = field_mask[j] => i = j

\* The request for a new instance has its id as display name and one node
\* unless they were set, the last time counts, and every label of every call,
\* with its first value.
BuilderCreatesInstance ==
  builder = "create" =>
    /\ \E in \in Ids :
         /\ instance.name = InstanceName(in)
         /\ IsLatest(instance.display_name, "SetDisplayName", in.instance)
    /\ IsLatest(instance.node_count, "SetNodeCount", 1)
    /\ LabelsAreFirst(instance.labels)

\* What is sent is what the calls of the builder say, and nothing else.
BuilderIsFaithful == BuilderUpdatesInstance /\ BuilderCreatesInstance
=============================================================================
