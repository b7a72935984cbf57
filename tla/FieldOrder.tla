----------------------------- MODULE FieldOrder -----------------------------
(***************************************************************************)
(* DependencyResolver: finds the order in which the computed fields of a   *)
(* schema are computed, or that there is none.  A depth-first search looks *)
(* for a cycle, then Kahn's algorithm sorts the fields.  Both go through   *)
(* sets of names, so the order in which they come to them is left open.    *)
(*                                                                         *)
(* A definition called a mutant is a plausible mistake in the definition   *)
(* that follows it; no formula uses it.  Some property fails with it.      *)
(***************************************************************************)
EXTENDS Integers, Sequences, FiniteSets

CONSTANTS
  Field,  (* the computed fields                                           *)
  Graph   (* the dependency graphs: which fields a field depends on        *)

ASSUME FieldAssumption ==
  /\ IsFiniteSet(Field)
  /\ Graph \subseteq [Field -> SUBSET Field]

VARIABLES
  graph,    (* _build_dependency_graph: the fields a field depends on      *)
  phase,    (* search, sort; circular and unresolved are the two errors    *)
  color,    (* colors of the search                                        *)
  path,     (* the calls of dfs in progress, and the neighbours they have  *)
            (* still to visit                                              *)
  inDegree, (* in_degree                                                   *)
  queue,    (* the members of the queue                                    *)
  result    (* the order                                                   *)

orderVars == <<graph, phase, color, path, inDegree, queue, result>>

OrderInit ==
  /\ graph \in Graph
  /\ phase = "search"
  /\ color = [n \in Field |-> "white"]
  /\ path = <<>>
  /\ inDegree = [n \in Field |-> 0]
  /\ queue = {}
  /\ result = <<>>

Sorted == {result[i] : i \in DOMAIN result}
Top == path[Len(path)]

-----------------------------------------------------------------------------
(* _detect_circular_dependencies                                           *)

Begin(n) == [node |-> n, rest |-> graph[n]]

(* The search begins at each field that was not visited.                   *)
StartSearch(n) ==
  /\ phase = "search" /\ path = <<>>
  /\ color[n] = "white"
  /\ color' = [color EXCEPT ![n] = "gray"]
  /\ path' = <<Begin(n)>>
  /\ UNCHANGED <<graph, phase, inDegree, queue, result>>

Skipped(n) == [path EXCEPT ![Len(path)].rest = @ \ {n}]

(* Mutant: whatever was visited is passed over.                            *)
FollowUnvisited(n) ==
  /\ phase = "search" /\ path # <<>>
  /\ n \in Top.rest
  /\ IF color[n] = "white"
     THEN /\ color' = [color EXCEPT ![n] = "gray"]
          /\ path' = Append(Skipped(n), Begin(n))
     ELSE path' = Skipped(n) /\ UNCHANGED color
  /\ UNCHANGED <<graph, phase, inDegree, queue, result>>

(* dfs of a neighbour: one in progress closes a cycle, one that has ended  *)
(* is left alone, others are visited.                                      *)
Follow(n) ==
  /\ phase = "search" /\ path # <<>>
  /\ n \in Top.rest
  /\ \/ /\ color[n] = "gray"
        /\ phase' = "circular"
        /\ UNCHANGED <<color, path>>
     \/ /\ color[n] = "black"
        /\ path' = Skipped(n)
        /\ UNCHANGED <<color, phase>>
     \/ /\ color[n] = "white"
        /\ color' = [color EXCEPT ![n] = "gray"]
        /\ path' = Append(Skipped(n), Begin(n))
        /\ UNCHANGED phase
  /\ UNCHANGED <<graph, inDegree, queue, result>>

FinishField ==
  /\ phase = "search" /\ path # <<>>
  /\ Top.rest = {}
  /\ color' = [color EXCEPT ![Top.node] = "black"]
  /\ path' = SubSeq(path, 1, Len(path) - 1)
  /\ UNCHANGED <<graph, phase, inDegree, queue, result>>

-----------------------------------------------------------------------------
(* _topological_sort                                                       *)

BeginSort ==
  /\ phase = "search" /\ path = <<>>
  /\ \A n \in Field : color[n] = "black"
  /\ phase' = "sort"
  /\ inDegree' = [n \in Field |-> Cardinality(graph[n])]
  /\ queue' = {n \in Field : graph[n] = {}}
  /\ UNCHANGED <<graph, color, path, result>>

(* Mutant: a field is ready when one of its dependencies is computed.      *)
TakeFieldEarly(n) ==
  /\ phase = "sort" /\ n \in queue
  /\ result' = Append(result, n)
  /\ inDegree' = [m \in Field |-> IF n \in graph[m] THEN inDegree[m] - 1 ELSE inDegree[m]]
  /\ queue' = (queue \ {n}) \cup {m \in Field : n \in graph[m] /\ inDegree[m] = Cardinality(graph[m])}
  /\ UNCHANGED <<graph, phase, color, path>>

TakeField(n) ==
  /\ phase = "sort" /\ n \in queue
  /\ result' = Append(result, n)
  /\ inDegree' = [m \in Field |-> IF n \in graph[m] THEN inDegree[m] - 1 ELSE inDegree[m]]
  /\ queue' = (queue \ {n}) \cup {m \in Field : n \in graph[m] /\ inDegree'[m] = 0}
  /\ UNCHANGED <<graph, phase, color, path>>

EndSort ==
  /\ phase = "sort" /\ queue = {}
  /\ phase' = IF Len(result) = Cardinality(Field) THEN "resolved" ELSE "unresolved"
  /\ UNCHANGED <<graph, color, path, inDegree, queue, result>>

OrderNext ==
  \/ FinishField \/ BeginSort \/ EndSort
  \/ \E n \in Field : StartSearch(n) \/ Follow(n) \/ TakeField(n)

OrderSpec == OrderInit /\ [][OrderNext]_orderVars

-----------------------------------------------------------------------------
OrderTypeOK ==
  /\ graph \in Graph
  /\ phase \in {"search", "sort", "circular", "resolved", "unresolved"}
  /\ color \in [Field -> {"white", "gray", "black"}]
  /\ path \in Seq([node : Field, rest : SUBSET Field])
  /\ inDegree \in [Field -> Nat]
  /\ queue \subseteq Field
  /\ result \in Seq(Field)

(* Each field comes once, after all that it depends on.                    *)
InOrder ==
  /\ \A i, j \in DOMAIN result : result[i] = result[j] => i = j
  /\ \A i \in DOMAIN result : \A n \in graph[result[i]] :
       \E j \in 1 .. (i - 1) : result[j] = n
  /\ phase = "resolved" => Sorted = Field

(* A cycle: fields each of which depends on one of them.                   *)
Circular == \E S \in SUBSET Field : S # {} /\ \A n \in S : graph[n] \cap S # {}

(* A schema is refused as circular only if it is, and sorted only if it is *)
(* not; so the sort never fails, as a comment in it says: "This shouldn't  *)
(* happen if circular dependency detection worked".                        *)
CyclesFound ==
  /\ phase = "circular" => Circular
  /\ phase \in {"sort", "resolved"} => ~Circular
  /\ phase # "unresolved"

(* What resolve answers, for every graph: an order that respects it, or    *)
(* that it has a cycle, whichever is true.                                 *)
OrderRight == InOrder /\ CyclesFound
=============================================================================
