------------------------------ MODULE CallGraph ------------------------------
(***************************************************************************)
(* get_call_trace: CallGraphBuilder collects the functions that an entry   *)
(* point calls, directly and through others, and the paths of these calls; *)
(* CycleDetector then finds the cycles and breaks each at one call, with   *)
(* the NetworkX library or with a search of its own.                       *)
(*                                                                         *)
(* The calls that a function makes, which the code reads off the text of   *)
(* the files with regular expressions, are given in an order: the search   *)
(* depends on it.  Conditions, pages and timing are left out.              *)
(*                                                                         *)
(* A definition called a mutant is a plausible mistake in the definition   *)
(* that follows it; no formula uses it.  Some property fails with it.      *)
(***************************************************************************)
EXTENDS Integers, Sequences, FiniteSets, SequencesExt

CONSTANTS
  Function,  (* the functions of the files                                 *)
  EntryPoint,  (* the function that is traced                              *)
  MaxDepth   (* bound on max_depth                                         *)

ASSUME CallGraphAssumption == EntryPoint \in Function /\ MaxDepth \in Nat \ {0}

VARIABLES
  callees,    (* what _find_calls_in_function finds: all calls, in order   *)
  depth,      (* max_depth                                                 *)
  callGraph,  (* call_graph: the calls of the functions looked at          *)
  paths,      (* the execution paths                                       *)
  cycles,     (* detected_cycles                                           *)
  broken,     (* broken_edges                                              *)
  networkx,   (* whether the library is there                              *)
  traceStage  (* how far get_call_trace is                                 *)

callVars == <<callees, depth, callGraph, paths, cycles, broken, networkx, traceStage>>

(* The calls in the body of a function: which, and in what order.          *)
Orders == UNION {SetToSeqs(S) : S \in SUBSET Function}

(* What the patterns find in the files.                                    *)
CallsRead == [Function -> Orders]

CallGraphInit ==
  /\ callees \in CallsRead /\ depth \in 1..MaxDepth /\ networkx \in BOOLEAN
  /\ callGraph = <<>> /\ paths = {} /\ cycles = {} /\ broken = {} /\ traceStage = "start"

-----------------------------------------------------------------------------
(* _build_graph_recursive: a function is looked at when some path of calls *)
(* without repetition leads to it in fewer steps than the limit.           *)
RECURSIVE LookedAt(_, _)
LookedAt(f, visited) ==
  IF Cardinality(visited) >= depth \/ f \in visited THEN {}
  ELSE {f} \cup UNION {LookedAt(g, visited \cup {f}) : g \in ToSet(callees[f]) \ {f}}

Built == [f \in LookedAt(EntryPoint, {}) |-> callees[f]]

(* Mutant: the limit is taken to be one call less.                         *)
AtLimitEarly(path) == Len(path) >= depth

AtLimit(path) == Len(path) > depth

(* _generate_execution_paths: a path ends with a function that calls none, *)
(* with one that is on it already, or at the limit.                        *)
RECURSIVE PathsFrom(_, _, _)
PathsFrom(graph, f, path) ==
  LET here == Append(path, f)
      ended == {p \in {here} : Len(p) > 1}
  IN  IF AtLimit(path) THEN {p \in {path} : Len(p) > 1}
      ELSE IF f \notin DOMAIN graph \/ graph[f] = <<>> THEN ended
      ELSE UNION {IF g \in ToSet(here) THEN {Append(here, g)} ELSE PathsFrom(graph, g, here) :
                    g \in ToSet(graph[f])}

BuildCallGraph ==
  /\ traceStage = "start" /\ traceStage' = "built"
  /\ callGraph' = Built
  /\ paths' = PathsFrom(Built, EntryPoint, <<>>)
  /\ UNCHANGED <<callees, depth, cycles, broken, networkx>>

-----------------------------------------------------------------------------
Successors(graph, f) == IF f \in DOMAIN graph THEN graph[f] ELSE <<>>
EdgesOf(graph) == {<<f, g>> \in (DOMAIN graph) \X Function : g \in ToSet(graph[f])}
StepsOf(path) == {<<path[i], path[i + 1]>> : i \in 1..(Len(path) - 1)}

(* _dfs_cycle_detection: a cycle is found at a call of a function that the *)
(* search has not left; its recursion stack is the path.  The search from  *)
(* the entry point visits all, since the graph was built from there.       *)
RECURSIVE Visit(_, _, _)
Visit(found, f, path) ==
  LET here == Append(path, f)
      next(acc, g) ==
        IF g \notin acc.visited THEN Visit(acc, g, here)
        ELSE IF g \notin ToSet(here) THEN acc
        ELSE LET loop == SubSeq(here, SelectInSeq(here, LAMBDA h : h = g), Len(here))
             IN  [acc EXCEPT !.cycles = @ \cup {StepsOf(Append(loop, g))}, !.last = @ \cup {<<f, g>>}]
  IN  FoldLeft(next, [found EXCEPT !.visited = @ \cup {f}], Successors(callGraph, f))

SearchResult == Visit([visited |-> {}, cycles |-> {}, last |-> {}], EntryPoint, <<>>)

(* simple_cycles of the library, without the function that a cycle begins  *)
(* with: any.                                                              *)
SimpleCycles ==
  {c \in {StepsOf(Append(p, p[1])) : p \in Orders \ {<<>>}} : c \subseteq EdgesOf(callGraph)}

(* The sets with one call of every cycle.                                  *)
OneOfEach(S) == FoldSet(LAMBDA c, sets : {B \cup {e} : B \in sets, e \in c}, {{}}, S)

WithoutCalls(graph, removed) ==
  [f \in DOMAIN graph |-> SelectSeq(graph[f], LAMBDA g : <<f, g>> \notin removed)]

(* Mutant: with the library, one call is removed for all cycles.           *)
DetectCyclesOnce ==
  /\ traceStage = "built" /\ traceStage' = "detected"
  /\ \/ /\ networkx /\ cycles' = SimpleCycles
        /\ broken' \in {IF S = {} THEN {} ELSE {CHOOSE e \in S : TRUE} : S \in {UNION SimpleCycles}}
     \/ ~networkx /\ cycles' = SearchResult.cycles /\ broken' = SearchResult.last
  /\ callGraph' = WithoutCalls(callGraph, broken')
  /\ UNCHANGED <<callees, depth, paths, networkx>>

(* detect_and_break_cycles: of every cycle the call back to its beginning  *)
(* is removed, unless that was done for another one.  Placeholders for the *)
(* calls that were removed are left out.                                   *)
DetectCycles ==
  /\ traceStage = "built" /\ traceStage' = "detected"
  /\ \/ networkx /\ cycles' = SimpleCycles /\ broken' \in OneOfEach(SimpleCycles)
     \/ ~networkx /\ cycles' = SearchResult.cycles /\ broken' = SearchResult.last
  /\ callGraph' = WithoutCalls(callGraph, broken')
  /\ UNCHANGED <<callees, depth, paths, networkx>>

(* restore_cycles                                                          *)
RestoreCycles ==
  /\ traceStage = "detected" /\ traceStage' = "restored"
  /\ callGraph' = [f \in DOMAIN callGraph |->
                 callGraph[f] \o SetToSeq({g \in Function : <<f, g>> \in broken} \ ToSet(callGraph[f]))]
  /\ broken' = {}
  /\ UNCHANGED <<callees, depth, paths, cycles, networkx>>

CallNext == BuildCallGraph \/ DetectCycles \/ RestoreCycles

CallSpec == CallGraphInit /\ [][CallNext]_callVars

-----------------------------------------------------------------------------
Reaches(graph, f, g) ==
  LET reach[n \in 0..Cardinality(Function)] ==
        IF n = 0 THEN ToSet(Successors(graph, f))
        ELSE reach[n - 1] \cup UNION {ToSet(Successors(graph, h)) : h \in reach[n - 1]}
  IN  g \in reach[Cardinality(Function)]

(* Breaking the cycles leaves none, takes away only calls that are on one, *)
(* and reports a cycle just if there was one; restoring brings all back.   *)
CyclesBroken ==
  /\ traceStage = "detected" =>
       /\ \A f \in DOMAIN callGraph : ~Reaches(callGraph, f, f)
       /\ \A e \in broken : Reaches(Built, e[2], e[1])
       /\ cycles = {} <=> \A f \in DOMAIN Built : ~Reaches(Built, f, f)
  /\ traceStage = "restored" => EdgesOf(callGraph) = EdgesOf(Built)

(* Every call of the graph is on an execution path, every path follows     *)
(* calls of the graph from the entry point, and goes on while it can: it   *)
(* ends with a function that calls none, with one it had before, or when   *)
(* it is as long as the limit allows.                                      *)
CallsTraced ==
  traceStage = "built" =>
    /\ UNION {StepsOf(p) : p \in paths} = EdgesOf(callGraph)
    /\ \A p \in paths :
         /\ p[1] = EntryPoint
         /\ Len(p) > depth \/ Successors(callGraph, Last(p)) = <<>> \/ Last(p) \in ToSet(Front(p))

(* What get_call_trace relies on: both.                                    *)
TraceSound == CyclesBroken /\ CallsTraced

(* _calculate_max_depth                                                    *)
RECURSIVE DepthFrom(_, _)
DepthFrom(f, visited) ==
  IF f \in visited THEN Cardinality(visited)
  ELSE FoldSet(LAMBDA g, m : LET d == DepthFrom(g, visited \cup {f}) IN IF d > m THEN d ELSE m,
               Cardinality(visited), ToSet(Successors(callGraph, f)))

(* "Should respect max_depth" (test_cycle_detection.py): refuted.          *)
DepthRespected == traceStage = "built" => DepthFrom(EntryPoint, {}) <= depth
=============================================================================
