---------------------------- MODULE AttackPaths ----------------------------
(***************************************************************************)
(* The attack-path engine of internal/attack: for every workload, the      *)
(* chain of capabilities that its exposure, its escape, its ServiceAccount *)
(* token and its namespace give.  A hop keeps the capability it reaches    *)
(* and the check that enables it; narratives, titles and technique tags    *)
(* are left out.  The paths of a scan are a set, one path per workload.    *)
(***************************************************************************)
EXTENDS Checks

EscapeHostPaths == SensitiveHostPaths \ {"/etc/kubernetes"}

EscapeCaps == DangerousCaps \ {"NET_ADMIN", "SYS_BOOT", "NET_RAW"}

HasEscapeHostPath(w) == \E v \in HostPaths(w) : v.path \in EscapeHostPaths

AnyPrivileged(w) == \E c \in Containers(w) : Privileged(c)

WorkloadEscape(w) ==
  AnyPrivileged(w) \/ HasEscapeHostPath(w) \/ \E c \in Containers(w) : c.add \cap EscapeCaps # {}

EscapeEnabler(w) ==
  CASE AnyPrivileged(w) -> "KG-001"
    [] \E c \in Containers(w) : c.add \cap EscapeCaps # {} -> "KG-008"
    [] OTHER -> "KG-002"

ExposingService(g, w) == \E s \in g.services : Exposing(s) /\ w \in WorkloadsForService(g, s)

CapSeverity(c) ==
  CASE c \in {"ClusterAdmin", "NodeAccess"} -> "critical"
    [] c \in {"ContainerEscape", "SecretRead", "PodCreate"} -> "high"
    [] c \in {"ServiceAccountToken", "LateralMovement"} -> "medium"
    [] OTHER -> "low"

-----------------------------------------------------------------------------
Hop(to, by) == <<[to |-> to, by |-> by]>>

EntryHops(g, w) ==
  IF ExposingService(g, w) THEN Hop("NetworkReachable", "KG-018") ELSE <<>>

EscapeHops(w) ==
  IF ~WorkloadEscape(w) THEN <<>>
  ELSE Hop("ContainerEscape", EscapeEnabler(w))
       \o Hop("NodeAccess", IF HasEscapeHostPath(w) THEN "KG-002" ELSE "KG-001")

\* The token is worth harvesting only if it leads on; cluster-admin hides the
\* lesser rights.
TokenHops(g, w) ==
  LET sa == ServiceAccountName(w)
      admin == SAIsClusterAdmin(g, w.ns, sa)
      secrets == SACanReadSecrets(g, w.ns, sa)
      pods == SACanCreatePods(g, w.ns, sa)
  IN IF ~(AutomountEffective(g, w) /\ (admin \/ secrets \/ pods)) THEN <<>>
     ELSE Hop("ServiceAccountToken", "KG-015")
          \o IF admin THEN Hop("ClusterAdmin", "KG-011")
             ELSE (IF secrets THEN Hop("SecretRead", "KG-013") ELSE <<>>)
                  \o (IF pods THEN Hop("PodCreate", "KG-014") ELSE <<>>)

\* Lateral movement needs a foothold: merely being reachable is not one.
LateralHops(g, w, hops) ==
  IF HasDefaultDeny(g, w.ns) \/ hops = <<>> \/ Last(hops).to = "NetworkReachable" THEN <<>>
  ELSE Hop("LateralMovement", "KG-017")

\* Faulty variant: the severity of where the path ends.
PathSeverity_last(hops) == IF hops = <<>> THEN "low" ELSE CapSeverity(Last(hops).to)

\* Every path starts reachable, from the internet or from within.
PathSeverity(hops) ==
  LET caps == {h.to : h \in Range(hops)}
  IN CHOOSE s \in DOMAIN Rank :
       /\ Rank[s] = Max({Rank[CapSeverity(c)] : c \in caps \cup {"NetworkReachable"}})

PathOf(g, w) ==
  LET start == EntryHops(g, w) \o EscapeHops(w) \o TokenHops(g, w)
      hops == start \o LateralHops(g, w, start)
  IN [entry |-> Ref(w), internet |-> ExposingService(g, w),
      hops |-> hops, sev |-> PathSeverity(hops)]

\* Faulty variant: paths of any severity are reported.
BuildPaths_anySeverity(g, assumeBreach) ==
  {PathOf(g, w) : w \in {x \in Workloads(g) :
                           ExposingService(g, x) \/ WorkloadEscape(x) \/ assumeBreach}}

\* Without exposure or escape a workload is an entry only under assumeBreach,
\* and only a path of severity high or critical is reported.
BuildPaths(g, assumeBreach) ==
  {p \in {PathOf(g, w) : w \in {x \in Workloads(g) :
                                 ExposingService(g, x) \/ WorkloadEscape(x) \/ assumeBreach}} :
     Rank[p.sev] >= Rank["high"]}

Reaches(p, cap) == \E h \in Range(p.hops) : h.to = cap

Enablers(p) == {h.by : h \in Range(p.hops)}

=============================================================================
