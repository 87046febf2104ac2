------------------------------ MODULE Loading ------------------------------
(***************************************************************************)
(* How a scan gets its input (internal/loader) and what it owns up to      *)
(* (graph.Build, graph.Coverage).  Both loaders read one part after        *)
(* another, a manifest file or the list of one kind, while the parts are   *)
(* being changed; a part that cannot be read or decoded fails the load.    *)
(*                                                                         *)
(* A document is an object [is, kind, id, decodes], a list [is, items], or *)
(* one that is "empty", "kindless", "scalar" (no mapping) or "broken" (no  *)
(* YAML or JSON).                                                          *)
(* `decodes' says whether the fields of a workload have the types that the *)
(* graph's normalization expects.                                          *)
(***************************************************************************)
EXTENDS SequencesExt, Naturals, FiniteSets

CONSTANTS
  Parts,      \* the parts, in the order in which they are read
  Contents,   \* [part |-> the contents it may have: sequences of documents]
  Disks,      \* the contents of all parts that a behaviour may start with
  MaxEdits    \* bound on the changes during a load

VARIABLES
  disk,      \* the parts as they are
  ever,      \* history: the contents each part had since the load began
  edits,     \* changes so far
  next,      \* the part to read next
  out,       \* the resources loaded so far
  status     \* "loading", "loaded" or "failed"

vars == <<disk, ever, edits, next, out, status>>

Init ==
  /\ disk \in Disks
  /\ ever = [p \in DOMAIN disk |-> {disk[p]}]
  /\ edits = 0 /\ next = 1 /\ out = <<>> /\ status = "loading"

-----------------------------------------------------------------------------
(* Decoding. *)

IsObject(d) == d.is = "object"

\* A list is unwrapped once; what has no kind, or is no mapping, is left out.
Expand(d) ==
  CASE d.is = "object" -> <<d>>
    [] d.is = "list"   -> SelectSeq(d.items, IsObject)
    [] OTHER           -> <<>>

DecodeDocuments(docs) == FlattenSeq([i \in DOMAIN docs |-> Expand(docs[i])])

\* A document that is no mapping cannot be decoded into one; inside a list it is
\* dropped.
Decodable(docs) == \A i \in DOMAIN docs : docs[i].is \notin {"broken", "scalar"}

-----------------------------------------------------------------------------
(* Loading. *)

\* The list calls of the live loader, by the kind that each gives its objects.
LiveKinds ==
  <<"Namespace", "ServiceAccount", "Pod", "Service", "Deployment", "StatefulSet", "DaemonSet",
    "Job", "CronJob", "Role", "ClusterRole", "RoleBinding", "ClusterRoleBinding", "NetworkPolicy">>

Read ==
  /\ status = "loading" /\ next <= Len(Parts)
  /\ Decodable(disk[Parts[next]])
  /\ out' = out \o DecodeDocuments(disk[Parts[next]])
  /\ next' = next + 1
  /\ UNCHANGED <<disk, ever, edits, status>>

\* Faulty variant: what was read before the error is returned.
ReadFails_partial ==
  /\ status = "loading" /\ next <= Len(Parts)
  /\ status' = "loaded"
  /\ UNCHANGED <<disk, ever, edits, next, out>>

\* A file is gone or unreadable, a document does not decode, a list call fails.
ReadFails ==
  /\ status = "loading" /\ next <= Len(Parts)
  /\ status' = "failed" /\ out' = <<>>
  /\ UNCHANGED <<disk, ever, edits, next>>

Finish ==
  /\ status = "loading" /\ next > Len(Parts)
  /\ status' = "loaded"
  /\ UNCHANGED <<disk, ever, edits, next, out>>

\* Somebody changes a part.
Edit ==
  /\ status = "loading" /\ edits < MaxEdits
  /\ \E p \in DOMAIN disk : \E c \in Contents[p] \ {disk[p]} :
       /\ disk' = [disk EXCEPT ![p] = c]
       /\ ever' = [ever EXCEPT ![p] = @ \cup {c}]
  /\ edits' = edits + 1
  /\ UNCHANGED <<next, out, status>>

Next == Read \/ ReadFails \/ Finish \/ Edit

Spec == Init /\ [][Next]_vars

-----------------------------------------------------------------------------
(* The graph and its coverage. *)

WorkloadKinds == {"Pod", "Deployment", "StatefulSet", "DaemonSet", "Job", "CronJob"}

AssessedKinds == WorkloadKinds \cup
  {"ServiceAccount", "Role", "ClusterRole", "RoleBinding", "ClusterRoleBinding",
   "Service", "NetworkPolicy", "Namespace"}

\* The resources that get a place in the graph, where the checks find them.
Normalized(resources) ==
  {i \in DOMAIN resources :
     \/ resources[i].kind \in WorkloadKinds /\ resources[i].decodes
     \/ resources[i].kind \in {"ServiceAccount", "Role", "ClusterRole", "RoleBinding",
                               "ClusterRoleBinding", "Service", "NetworkPolicy", "Namespace"}}

Coverage(resources) ==
  LET of(k) == {i \in DOMAIN resources : resources[i].kind = k}
      other == {r.kind : r \in Range(resources)} \ AssessedKinds
      assessable == Cardinality(UNION {of(k) : k \in AssessedKinds})
  IN [discovered |-> Len(resources), assessable |-> assessable,
      skipped |-> Len(resources) - assessable,
      byKind |-> [k \in other |-> Cardinality(of(k))]]

-----------------------------------------------------------------------------
(* Properties. *)

TypeOK ==
  /\ status \in {"loading", "loaded", "failed"}
  /\ next \in 1 .. Len(Parts) + 1 /\ edits \in 0 .. MaxEdits
  /\ \A p \in DOMAIN disk : disk[p] \in ever[p] /\ ever[p] \subseteq Contents[p]
  /\ \A i \in DOMAIN out : IsObject(out[i])

\* The objects of a part, wherever in it they are.
Objects(docs) ==
  {docs[i] : i \in {j \in DOMAIN docs : IsObject(docs[j])}}
  \cup UNION {{x \in Range(docs[i].items) : IsObject(x)} : i \in {j \in DOMAIN docs : docs[j].is = "list"}}

LoadedWholeOrNot ==
  /\ status = "loaded" =>
       /\ \A p \in DOMAIN ever : \A o \in Objects(disk[p]) :
            (\A c \in ever[p] : o \in Objects(c)) => o \in Range(out)
       /\ Range(out) \subseteq UNION {UNION {Objects(c) : c \in ever[p]} : p \in DOMAIN ever}
  /\ status = "failed" => out = <<>>

AllAccountedFor ==
  status = "loaded" =>
    LET cov == Coverage(out)
    IN /\ cov.discovered = Len(out)
       /\ cov.assessable + cov.skipped = cov.discovered
       /\ MapThenSumSet(LAMBDA k : cov.byKind[k], DOMAIN cov.byKind) = cov.skipped
       /\ Cardinality(Normalized(out)) + Cardinality({i \in DOMAIN out : ~out[i].decodes}) = cov.assessable

\* A load that succeeds, whatever was changed meanwhile, has every object that was
\* there all along, and none that never was; a load that fails has nothing
\* (offline.Load, live.Load).  Every loaded resource is in the graph, or tallied
\* under its kind as skipped, or a workload that could not be decoded
\* (graph.Coverage: "rather than silently dropped").
LoadIsHonest == TypeOK /\ LoadedWholeOrNot /\ AllAccountedFor

\* Kept by what the live loader reads, and not by manifests with a workload that
\* does not decode.  What is reported as assessed is what the checks could look at
\* (docs/honest-metrics.md: "Collection gaps are disclosed, never hidden").
GapsDisclosed == status = "loaded" => Coverage(out).assessable = Cardinality(Normalized(out))

=============================================================================
