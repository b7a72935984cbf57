---------------------------- MODULE Composition ----------------------------
(***************************************************************************)
(* WorkflowLoader, which finds a workflow by its name in the directory of  *)
(* the project or of the user, and WorkflowComposer, which keeps account   *)
(* of the workflows that workflows include.  The composer answers with a   *)
(* step for the agent; the agent starts the included workflow, and reports *)
(* its end, if it does.                                                    *)
(*                                                                         *)
(* A file is what its name inside, its validity and its include steps are; *)
(* validation is Validator's subject.  A running workflow performs its     *)
(* include steps one after the other.  The mapping of inputs and outputs   *)
(* is left out.  Ids of inclusions are made of the step's id and the time  *)
(* in seconds; ids of workflows are different from them, so that the       *)
(* search for cycles, which goes from workflows to inclusions, never gets  *)
(* further than the inclusions of the workflow it starts from.             *)
(*                                                                         *)
(* A definition called a mutant is a plausible mistake in the definition   *)
(* that follows it; no formula uses it.  Some property fails with it.      *)
(***************************************************************************)
EXTENDS Integers, Sequences, FiniteSets, SequencesExt, FiniteSetsExt

CONSTANTS
  FlowName,      (* names of workflow files                                *)
  Libraries,     (* the contents the two directories may have              *)
  NoFile, NoId,
  MaxInstances,  (* bound on the workflows that are started                *)
  MaxSeconds,    (* bound on the time                                      *)
  MaxAge         (* max_age_seconds of the clean-up                        *)

IncludeStep == [id : Nat \cup {NoId}, workflow : FlowName]
FlowFile == [name : FlowName, valid : BOOLEAN, steps : Seq(IncludeStep)]

ASSUME CompositionAssumption ==
  /\ \A l \in Libraries : l \in [{"project", "global"} -> [FlowName -> FlowFile \cup {NoFile}]]
  /\ NoId \notin Nat \X Nat
  /\ MaxInstances \in Nat /\ MaxSeconds \in Nat /\ MaxAge \in Nat

VARIABLES
  library,     (* for project and global and every file name, its content  *)
  seconds,     (* the time                                                 *)
  instances,   (* the workflows started: their name, next step, the        *)
               (* inclusion they wait for and the one they were started by *)
  contexts,    (* _included_workflows                                      *)
  inclusions,  (* _inclusion_graph                                         *)
  handed       (* history: the inclusions that were answered with a step   *)

compositionVars == <<library, seconds, instances, contexts, inclusions, handed>>

-----------------------------------------------------------------------------
(* The loader.                                                             *)

IsFile(source, f) == library[source][f] # NoFile

(* The project's file, even if it is not valid, hides the user's.          *)
Chosen(f) == IF IsFile("project", f) THEN "project" ELSE "global"

Loads(f) == IsFile(Chosen(f), f) /\ library[Chosen(f)][f].valid

Loaded(f) == library[Chosen(f)][f]

(* A step without an id is called step_0, step_1 and so on, by its place;  *)
(* of these ids only the number is kept.                                   *)
StepId(steps, i) == IF steps[i].id = NoId THEN i - 1 ELSE steps[i].id

(* list_available_workflows, by the names inside the files                 *)
ListedIn(source) == {f \in FlowName : IsFile(source, f) /\ library[source][f].valid}
Available ==
  LET local == {[name |-> library["project"][f].name, source |-> "project", file |-> f] :
                  f \in ListedIn("project")}
      other == {[name |-> library["global"][f].name, source |-> "global", file |-> f] :
                  f \in ListedIn("global")}
  IN  local \cup {w \in other : \A v \in local : v.name # w.name}

-----------------------------------------------------------------------------
CompositionInit ==
  /\ library \in Libraries
  /\ seconds = 1 /\ instances = <<>> /\ contexts = <<>> /\ inclusions = <<>> /\ handed = {}

Waiting(w) == instances[w].waits # NoId
StepsOf(w) == Loaded(instances[w].name).steps
Left(w) == ~Waiting(w) /\ ~instances[w].ended /\ instances[w].at <= Len(StepsOf(w))
Included(w) == IF w \in DOMAIN inclusions THEN inclusions[w] ELSE {}

(* Somebody starts a workflow.                                             *)
StartWorkflow ==
  /\ Len(instances) < MaxInstances
  /\ \E f \in FlowName :
       /\ Loads(f)
       /\ instances' = Append(instances, [name |-> f, at |-> 1, waits |-> NoId, by |-> 0,
                                          ended |-> FALSE])
  /\ UNCHANGED <<library, seconds, contexts, inclusions, handed>>

(* _would_create_cycle: one of the inclusions of this workflow, and so of  *)
(* no other, has the same name.                                            *)
WouldCreateCycle(w, name) ==
  \E i \in Included(w) : i \in DOMAIN contexts /\ contexts[i].workflow = name

(* A step that is refused fails, and the workflow goes on.                 *)
Refused(w) ==
  /\ Left(w)
  /\ LET name == StepsOf(w)[instances[w].at].workflow
     IN  WouldCreateCycle(w, name) \/ ~Loads(name)
  /\ instances' = [instances EXCEPT ![w].at = @ + 1]
  /\ UNCHANGED <<library, seconds, contexts, inclusions, handed>>

(* Mutant: the inclusion is not added to those of the workflow.            *)
WithoutGraph(w, id) == inclusions

With(w, id) ==
  [v \in DOMAIN inclusions \cup {w} |-> Included(v) \cup (IF v = w THEN {id} ELSE {})]

(* An inclusion takes the place of another one of the same id.             *)
Include(w) ==
  /\ Left(w)
  /\ LET steps == StepsOf(w)
         at == instances[w].at
         id == <<StepId(steps, at), seconds>>
         name == steps[at].workflow
     IN  /\ ~WouldCreateCycle(w, name) /\ Loads(name)
         /\ contexts' = [i \in DOMAIN contexts \cup {id} |->
                           IF i = id
                           THEN [parent |-> w, workflow |-> name, status |-> "pending", end |-> 0]
                           ELSE contexts[i]]
         /\ inclusions' = With(w, id)
         /\ handed' = handed \cup {[id |-> id, parent |-> w, workflow |-> name]}
         /\ instances' = [instances EXCEPT ![w].waits = id]
  /\ UNCHANGED <<library, seconds>>

(* The agent starts the workflow it was told to.                           *)
StartIncluded(w) ==
  /\ Waiting(w) /\ Len(instances) < MaxInstances
  /\ ~\E v \in DOMAIN instances : instances[v].by = w /\ ~instances[v].ended
  /\ \E h \in handed :
       /\ h.id = instances[w].waits /\ h.parent = w
       /\ instances' = Append(instances, [name |-> h.workflow, at |-> 1, waits |-> NoId, by |-> w,
                                          ended |-> FALSE])
  /\ UNCHANGED <<library, seconds, contexts, inclusions, handed>>

(* The agent reports that it has ended, well or not.  The parent goes on,  *)
(* also if there is no such inclusion.                                     *)
CompleteIncluded(v) ==
  LET w == instances[v].by
      id == instances[w].waits
  IN  /\ w # 0 /\ Waiting(w) /\ ~instances[v].ended
      /\ ~Waiting(v) /\ instances[v].at > Len(StepsOf(v))
      /\ \E status \in {"completed", "failed"} :
           contexts' = [i \in DOMAIN contexts |->
                          IF i = id THEN [contexts[i] EXCEPT !.status = status, !.end = seconds]
                          ELSE contexts[i]]
      /\ instances' = [instances EXCEPT ![v].ended = TRUE, ![w].waits = NoId, ![w].at = @ + 1]
      /\ UNCHANGED <<library, seconds, inclusions, handed>>

(* Mutant: inclusions that have not ended, whose end is 0, are old.        *)
OldOrPending == {i \in DOMAIN contexts : seconds - contexts[i].end > MaxAge}

Old == {i \in DOMAIN contexts :
          contexts[i].status \in {"completed", "failed"} /\ seconds - contexts[i].end > MaxAge}

(* The inclusion is removed from those of the workflow its context names.  *)
CleanUp ==
  /\ Old # {}
  /\ contexts' = [i \in DOMAIN contexts \ Old |-> contexts[i]]
  /\ inclusions' = [w \in DOMAIN inclusions |->
                      {i \in inclusions[w] : i \notin Old \/ contexts[i].parent # w}]
  /\ UNCHANGED <<library, seconds, instances, handed>>

Second == /\ seconds < MaxSeconds /\ seconds' = seconds + 1
          /\ UNCHANGED <<library, instances, contexts, inclusions, handed>>

CompositionNext ==
  \/ StartWorkflow \/ CleanUp \/ Second
  \/ \E w \in DOMAIN instances : Include(w) \/ Refused(w) \/ StartIncluded(w) \/ CompleteIncluded(w)

CompositionSpec == CompositionInit /\ [][CompositionNext]_compositionVars

-----------------------------------------------------------------------------
OneOfItsId(h) == \A g \in handed : g.id = h.id => g = h

(* The composer's two tables agree, whatever inclusions are made, ended    *)
(* and cleaned up in between: an inclusion that is remembered is one of    *)
(* its parent's, and one whose id no other has taken is remembered until   *)
(* the agent has reported its end; among a workflow's inclusions that are  *)
(* remembered and have kept their ids, no name comes twice.                *)
InclusionsKept ==
  /\ \A i \in DOMAIN contexts : i \in Included(contexts[i].parent)
  /\ \A h \in handed :
       OneOfItsId(h) /\ instances[h.parent].waits = h.id =>
         /\ h.id \in DOMAIN contexts
         /\ contexts[h.id].parent = h.parent /\ contexts[h.id].workflow = h.workflow
         /\ contexts[h.id].status = "pending"
  /\ \A g, h \in handed :
       /\ OneOfItsId(g) /\ OneOfItsId(h) /\ g.parent = h.parent /\ g.workflow = h.workflow
       /\ {g.id, h.id} \subseteq DOMAIN contexts
       => g = h

(* The workflows that w was started by, directly or not                    *)
Ancestors(w) ==
  {v \in DOMAIN instances :
     \A S \in SUBSET DOMAIN instances :
       (\A u \in S \cup {w} : instances[u].by \in S \cup {0}) => v \in S}

(* By hand: no workflow is started by an inclusion in itself.              *)
NoCircularInclusion ==
  \A w \in DOMAIN instances : \A v \in Ancestors(w) : instances[v].name # instances[w].name

(* By hand: the context of an inclusion that is waited for is its own.     *)
ContextsOwn ==
  \A w \in DOMAIN instances :
    Waiting(w) => /\ instances[w].waits \in DOMAIN contexts
                  /\ contexts[instances[w].waits].parent = w

(* By hand: a workflow that has ended can be included again.               *)
EndedForgotten ==
  \A w \in DOMAIN instances :
    Left(w) => LET name == StepsOf(w)[instances[w].at].workflow
               IN  WouldCreateCycle(w, name) =>
                     \E i \in Included(w) : i \in DOMAIN contexts /\ contexts[i].status = "pending"

(* By hand: every workflow that is listed can be loaded by its name, from  *)
(* where it is listed.                                                     *)
ListedLoad == library # <<>> =>
  \A a \in Available : a.name \in FlowName /\ Loads(a.name) /\ Chosen(a.name) = a.source
=============================================================================
