------------------------------ MODULE Filters ------------------------------
(***************************************************************************)
(* The container filters of the configuration (config.go) and the four     *)
(* questions the exporter asks of them.  The list is read once at start-up *)
(* and never changes, so it is a constant.                                 *)
(*                                                                         *)
(* A pattern is represented by the set of values it matches: "*" is the    *)
(* set of all values, a malformed pattern is the empty set (matchPattern   *)
(* drops the error of filepath.Match and answers false).                   *)
(***************************************************************************)
EXTENDS Naturals, Sequences

CONSTANTS
  Filters,     \* the filter list of the configuration, in file order
  Comms,       \* process names, as read from /proc/<pid>/comm
  Paths        \* mountpoints and file patterns of the collect sections

(* A container is known to the filters by the three names that also label  *)
(* every one of its metrics.                                               *)
Labels == [namespace : STRING, pod : STRING, container : STRING]

ContainerFilter ==
  [namespace : SUBSET STRING, pod : SUBSET STRING, container : SUBSET STRING,
   command : SUBSET Comms, mountpoints : Seq(Paths), files : Seq(Paths)]

ASSUME FiltersAssumption == Filters \in Seq(ContainerFilter)

matchPattern(pattern, value) == value \in pattern

(* The three comparisons every function of config.go repeats.              *)
FilterMatches(i, l) ==
  /\ matchPattern(Filters[i].namespace, l.namespace)
  /\ matchPattern(Filters[i].pod, l.pod)
  /\ matchPattern(Filters[i].container, l.container)

MatchingFilters(l) == {i \in DOMAIN Filters : FilterMatches(i, l)}

MatchesContainer(l) == MatchingFilters(l) # {}

(* Only the first filter that matches the container judges the command.    *)
MatchesProcess(l, comm) ==
  \E i \in MatchingFilters(l) :
    /\ \A j \in MatchingFilters(l) : i <= j
    /\ matchPattern(Filters[i].command, comm)

(***************************************************************************)
(* The combined lists: every matching filter contributes its whole list,   *)
(* so one path may occur several times.  A list is given by its places     *)
(* <<filter, index>>, whose lexicographic order is the order of the        *)
(* concatenation.                                                          *)
(***************************************************************************)
MountpointPaths(l) ==
  UNION {{i} \X DOMAIN Filters[i].mountpoints : i \in MatchingFilters(l)}

MountpointAt(place) == Filters[place[1]].mountpoints[place[2]]

FileMetricPaths(l) ==
  UNION {{i} \X DOMAIN Filters[i].files : i \in MatchingFilters(l)}

FileAt(place) == Filters[place[1]].files[place[2]]

(* What the combined lists do not exclude by themselves.                   *)
MountpointListedTwice(l, path) ==
  \E p, q \in MountpointPaths(l) :
    p # q /\ MountpointAt(p) = path /\ MountpointAt(q) = path

FileListedTwice(l, path) ==
  \E p, q \in FileMetricPaths(l) : p # q /\ FileAt(p) = path /\ FileAt(q) = path
=============================================================================
