----------------------------- MODULE GraphTools -----------------------------
(***************************************************************************)
(* The two searches of server/graph_tools.py over the undirected graph of  *)
(* the notes' links, step by step: the breadth-first search behind         *)
(* find_link_clusters and the depth-first search for articulation points   *)
(* behind find_bridge_notes.  Notes are numbers in the order of their      *)
(* paths; a note may link to itself.                                       *)
(***************************************************************************)
EXTENDS Orders, SequencesExt, FiniteSetsExt, Naturals

CONSTANTS
    Vertices,         \* note paths
    SelfLinked,       \* the notes that may link to themselves
    MinSizes          \* values of min_cluster_size

ASSUME GraphAssumption ==
    /\ Vertices \subseteq Nat \ {0} /\ IsFiniteSet(Vertices)
    /\ SelfLinked \subseteq Vertices

Root == 0             \* parent[root] is None

VARIABLES
    tool,             \* "clusters" or "bridges"
    adjacency,        \* the neighbours of each note
    visited,          \* notes a cluster was built from
    queue,            \* what the breadth-first search still has to look at
    cluster,          \* the cluster being built
    clusters,         \* every cluster found, of whatever size
    discovery, low, parent, childCount, separatedCount, scores, clock,
    stack             \* pairs of a note and the neighbours left to visit

clusterVars == <<visited, queue, cluster, clusters>>
bridgeVars == <<discovery, low, parent, childCount, separatedCount, scores,
                clock, stack>>
graphVars == <<tool, adjacency, clusterVars, bridgeVars>>

\* The keys of the adjacency map: the notes with an edge.
Linked == {v \in Vertices : adjacency[v] # {}}

\* The adjacency map of a set of edges, where {v} is a link to itself.
Adjacency(edges) == [v \in Vertices |-> {w \in Vertices : {v, w} \in edges}]

GraphInit ==
    /\ tool \in {"clusters", "bridges"}
    /\ \E edges \in SUBSET ({{v, w} : v, w \in Vertices} \
                              {{v} : v \in Vertices \ SelfLinked}) :
          adjacency = Adjacency(edges)
    /\ visited = {} /\ queue = {} /\ cluster = {} /\ clusters = {}
    /\ discovery = <<>> /\ low = <<>> /\ parent = <<>>
    /\ childCount = [v \in Vertices |-> 0]
    /\ separatedCount = [v \in Vertices |-> 0]
    /\ scores = <<>> /\ clock = 0 /\ stack = <<>>

(***************************************************************************)
(* find_link_clusters.  The order in which Python iterates a set is not    *)
(* defined and the queue may hold a note twice: it is the set of the notes *)
(* in it, taken in any order.                                              *)
(***************************************************************************)

StartCluster(v) ==
    /\ tool = "clusters" /\ queue = {} /\ cluster = {}
    /\ v \in Linked \ visited
    /\ queue' = {v}
    /\ UNCHANGED <<tool, adjacency, visited, cluster, clusters, bridgeVars>>

\* Defect: neighbours that were queued before are not queued again, although
\* the note was never taken.
GrowClusterOnce(v) ==
    /\ v \in queue
    /\ visited' = visited \cup {v} \cup adjacency[v]
    /\ cluster' = cluster \cup {v}
    /\ queue' = (queue \ {v}) \cup (adjacency[v] \ visited')
    /\ UNCHANGED <<tool, adjacency, clusters, bridgeVars>>

GrowCluster(v) ==
    /\ v \in queue
    /\ visited' = visited \cup {v} /\ cluster' = cluster \cup {v}
    /\ queue' = (queue \ {v}) \cup (adjacency[v] \ visited')
    /\ UNCHANGED <<tool, adjacency, clusters, bridgeVars>>

EndCluster ==
    /\ cluster # {} /\ queue = {}
    /\ clusters' = clusters \cup {cluster} /\ cluster' = {}
    /\ UNCHANGED <<tool, adjacency, visited, queue, bridgeVars>>

\* The number of internal edges, the pairs they are divided by, and whether
\* the cluster is in the answer for a given minimum.
InternalEdges(c) ==
    {{e[1], e[2]} : e \in {e \in c \X c : e[2] \in adjacency[e[1]]
                                           /\ e[1] # e[2]}}

PossibleEdges(c) == (Cardinality(c) * (Cardinality(c) - 1)) \div 2

AnsweredClusters(min) == {c \in clusters : Cardinality(c) >= min}

(***************************************************************************)
(* find_bridge_notes                                                       *)
(***************************************************************************)

Lesser(m, n) == IF m <= n THEN m ELSE n

\* The note is discovered: its number, and its neighbours on the stack.
Discover(v, from, below) ==
    /\ clock' = clock + 1
    /\ discovery' = With(discovery, v, clock + 1)
    /\ low' = With(low, v, clock + 1)
    /\ parent' = With(parent, v, from)
    /\ stack' = Append(below, <<v, Ascending(adjacency[v])>>)

StartSearch(v) ==
    /\ tool = "bridges" /\ stack = <<>>
    /\ Linked \ DOMAIN discovery # {} /\ v = Min(Linked \ DOMAIN discovery)
    /\ Discover(v, Root, stack)
    /\ UNCHANGED <<tool, adjacency, clusterVars, childCount, separatedCount,
                   scores>>

\* The next neighbour of the note on top of the stack.
VisitNeighbour ==
    /\ stack # <<>> /\ Last(stack)[2] # <<>>
    /\ LET v == Last(stack)[1]
           w == Head(Last(stack)[2])
           rest == <<v, Tail(Last(stack)[2])>>
       IN  IF w \notin DOMAIN discovery
           THEN /\ childCount' = [childCount EXCEPT ![v] = @ + 1]
                /\ Discover(w, v, Append(Front(stack), rest))
           ELSE /\ stack' = Append(Front(stack), rest)
                /\ low' = IF w # parent[v]
                          THEN [low EXCEPT ![v] = Lesser(@, discovery[w])]
                          ELSE low
                /\ UNCHANGED <<childCount, clock, discovery, parent>>
    /\ UNCHANGED <<tool, adjacency, clusterVars, separatedCount, scores>>

\* Defect: a branch that reaches the parent itself is not counted.
CutsOff(v) == low[v] > discovery[parent[v]]

\* Nothing below v reaches above v's parent, which is not the root.
Separates(v) == /\ parent[parent[v]] # Root
                /\ low[v] >= discovery[parent[v]]

\* All neighbours were visited: the note leaves the stack.
LeaveNote ==
    /\ stack # <<>> /\ Last(stack)[2] = <<>>
    /\ LET v == Last(stack)[1]
           p == parent[v]
       IN  IF p = Root
           THEN /\ scores' = IF childCount[v] > 1
                             THEN With(scores, v, childCount[v] - 1)
                             ELSE scores
                /\ UNCHANGED <<low, separatedCount>>
           ELSE /\ low' = [low EXCEPT ![p] = Lesser(@, low[v])]
                /\ separatedCount' = IF Separates(v)
                     THEN [separatedCount EXCEPT ![p] = @ + 1]
                     ELSE separatedCount
                /\ scores' = IF separatedCount[v] > 0
                             THEN With(scores, v, separatedCount[v])
                             ELSE scores
    /\ stack' = Front(stack)
    /\ UNCHANGED <<tool, adjacency, clusterVars, discovery, parent,
                   childCount, clock>>

GraphNext ==
    \/ \E v \in Vertices : StartCluster(v) \/ GrowCluster(v) \/ StartSearch(v)
    \/ EndCluster \/ VisitNeighbour \/ LeaveNote

GraphSpec == GraphInit /\ [][GraphNext]_graphVars

(***************************************************************************)
(* Properties                                                              *)
(***************************************************************************)

\* What a walk along edges of the notes in s reaches from v.
Reach(v, s) ==
    LET reach[k \in 0..Cardinality(Vertices)] ==
          IF k = 0 THEN {v} \cap s
          ELSE reach[k - 1] \cup
                 (s \cap UNION {adjacency[w] : w \in reach[k - 1]})
    IN  reach[Cardinality(Vertices)]

Components(s) == {Reach(v, s) : v \in s}

ClustersDone == queue = {} /\ cluster = {} /\ Linked \subseteq visited

\* find_link_clusters: every cluster is a connected component of the linked
\* notes, all of them are there at the end, each once and never split, and
\* the density of none exceeds one.
ClustersAreComponents ==
    tool = "clusters" =>
      /\ clusters \subseteq Components(Linked)
      /\ \A c \in clusters :
            Cardinality(InternalEdges(c)) <= PossibleEdges(c)
      /\ ClustersDone => \A min \in MinSizes : AnsweredClusters(min) =
            {c \in Components(Linked) : Cardinality(c) >= min}

BridgesDone == stack = <<>> /\ DOMAIN discovery = Linked

\* find_bridge_notes: "Removing an articulation point increases the number
\* of connected components" - the notes found are exactly those whose
\* removal does, and the score is the number of components it adds.
BridgesAreCuts ==
    tool = "bridges" /\ BridgesDone =>
      LET added(v) == Cardinality(Components(Linked \ {v}))
          before == Cardinality(Components(Linked))
      IN  /\ DOMAIN scores = {v \in Linked : added(v) > before}
          /\ \A v \in DOMAIN scores : scores[v] = added(v) - before

\* Both graph searches compute what they are named for.
GraphAnswersCorrect == ClustersAreComponents /\ BridgesAreCuts

=============================================================================
