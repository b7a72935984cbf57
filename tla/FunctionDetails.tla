-------------------------- MODULE FunctionDetails --------------------------
(***************************************************************************)
(* get_function_details: which files are searched, the analysis of every   *)
(* function in every one of them, alone or by BatchProcessor, and the one  *)
(* page that is answered; and the two other ways to ask for several        *)
(* functions, process_batch_request and analyze_multiple_functions.        *)
(*                                                                         *)
(* What FunctionAnalyzer makes of a function in a file is one of: it is    *)
(* missing, found, flawed (found, with errors of its types) or it raises   *)
(* (an exception in the analysis).  A missing function is returned as None *)
(* where a pair is expected, and so it is an exception that the callers    *)
(* recognise by its text.  The process may come near its memory limit at   *)
(* any function of a batch.  The resolver never reads its type_cache, so   *)
(* that the shared types of a batch and the cache that a raising analysis  *)
(* leaves behind change nothing.                                           *)
(*                                                                         *)
(* A definition called a mutant is a plausible mistake in the definition   *)
(* that follows it; no formula uses it.  Some property fails with it.      *)
(***************************************************************************)
EXTENDS Integers, Sequences, FiniteSets, SequencesExt, FiniteSetsExt

CONSTANTS
  FnName,        (* names of functions, numbers in their order             *)
  FnFile,        (* the files, some of which may not exist                 *)
  TestFile,      (* those find_references takes for tests                  *)
  Analyses,      (* the projects: what is found of a function in a file    *)
  FnRequests,    (* what is asked for                                      *)
  FewNames,      (* 10: more are a batch, and are cut into pages           *)
  PageNames,     (* how many functions max_tokens has room for             *)
  MaxSearched,   (* 50 in the search of everything                         *)
  Everywhere     (* in place of file_paths: None                           *)

ASSUME RequestAssumption ==
  /\ IsFiniteSet(FnFile) /\ MaxSearched \in Nat
  /\ \A r \in FnRequests :
       /\ r.names \in Seq(FnName)
       /\ IF r.files = Everywhere THEN r.names # <<>> ELSE r.files \in Seq(FnFile)

VARIABLES
  analysis,      (* what is made of a function in a file; all is "gone"    *)
                 (* in a file that does not exist                          *)
  asking,        (* the request                                            *)
  searched,      (* valid_files                                            *)
  next,          (* the next function of the list                          *)
  details,       (* results: for the names so far, the files it is in      *)
  problems,      (* errors that will be returned                           *)
  lost,          (* history: errors that BatchProcessor keeps to itself    *)
  response,      (* the response                                           *)
  phase

detailVars == <<analysis, asking, searched, next, details, problems, lost, response, phase>>

NoDetails == [functions |-> <<>>, success |-> FALSE, more |-> FALSE]

DetailsInit ==
  /\ analysis \in Analyses /\ asking \in FnRequests
  /\ searched = <<>> /\ next = 1 /\ details = <<>> /\ problems = {} /\ lost = {}
  /\ response = NoDetails /\ phase = "asked"

Outcome(n, f) == analysis[f][n]
HasFile(f) == \E n \in FnName : Outcome(n, f) # "gone"
OnDisk == {f \in FnFile : HasFile(f)}

-----------------------------------------------------------------------------
(* Where to search.                                                        *)

(* find_references: a file mentions the functions it has.  Tests are left  *)
(* out.                                                                    *)
Mentioning(n) == {f \in OnDisk \ TestFile : Outcome(n, f) # "missing"}

(* Those files of a list that are in a set                                 *)
Chosen(files, set) ==
  FoldLeft(LAMBDA chosen, f : IF f \in set THEN Append(chosen, f) ELSE chosen, <<>>, files)

(* Where no file is named, the files that mention the first function; if   *)
(* there are none, the first files of the project.  The order is that of a *)
(* set, or of the directories.                                             *)
SearchLists ==
  IF asking.files # Everywhere THEN {asking.files}
  ELSE IF asking.names # <<>> /\ Mentioning(asking.names[1]) # {}
       THEN SetToSeqs(Mentioning(asking.names[1]))
       ELSE {SubSeq(s, 1, Min({MaxSearched, Len(s)})) : s \in SetToSeqs(OnDisk)}

(* A file that does not exist is an error, and the others are searched.    *)
Search ==
  /\ phase = "asked" /\ asking.way = "details"
  /\ \E files \in SearchLists :
       /\ searched' = Chosen(files, OnDisk)
       /\ problems' = {[code |-> "NOT_FOUND", file |-> f] : f \in ToSet(files) \ OnDisk}
  /\ IF searched' = <<>>
     THEN phase' = "answered" /\ response' = NoDetails
     ELSE /\ phase' = IF asking.batch \/ Len(asking.names) > FewNames THEN "batch" ELSE "single"
          /\ UNCHANGED response
  /\ UNCHANGED <<analysis, asking, next, details, lost>>

-----------------------------------------------------------------------------
(* The analysis of the next function.                                      *)

Yields(n) == Chosen(searched, {f \in FnFile : Outcome(n, f) \in {"found", "flawed"}})

(* Mutant: the search for a function ends in the first file that has it.   *)
WithFirst(n) ==
  [m \in DOMAIN details \cup {n} |->
     (IF m \in DOMAIN details THEN details[m] ELSE <<>>)
       \o (IF m = n /\ Yields(n) # <<>> THEN <<Yields(n)[1]>> ELSE <<>>)]

(* A name has an entry as soon as its turn comes; a name that is listed    *)
(* twice has everything twice.                                             *)
With(n) ==
  [m \in DOMAIN details \cup {n} |->
     (IF m \in DOMAIN details THEN details[m] ELSE <<>>)
       \o (IF m = n THEN Yields(n) ELSE <<>>)]

ErrorsOf(n) ==
  {[code |-> Outcome(n, f), file |-> f] :
     f \in {g \in ToSet(searched) : Outcome(n, g) \in {"flawed", "raises"}}}

MoreNames == next <= Len(asking.names)

Single ==
  /\ phase = "single" /\ MoreNames
  /\ details' = With(asking.names[next])
  /\ problems' = problems \cup ErrorsOf(asking.names[next])
  /\ next' = next + 1
  /\ UNCHANGED <<analysis, asking, searched, lost, response, phase>>

(* _process_all_function_instances, whose caller never sees the errors     *)
Batch ==
  /\ phase = "batch" /\ MoreNames
  /\ details' = With(asking.names[next])
  /\ lost' = lost \cup ErrorsOf(asking.names[next])
  /\ next' = next + 1
  /\ UNCHANGED <<analysis, asking, searched, problems, response, phase>>

(* Memory is above the limit, and still after a collection: the name whose *)
(* turn it is has an entry without functions, those after it have none.    *)
BatchStops ==
  LET n == asking.names[next]
  IN  /\ phase = "batch" /\ MoreNames
      /\ details' = [m \in DOMAIN details \cup {n} |->
                       IF m \in DOMAIN details THEN details[m] ELSE <<>>]
      /\ lost' = lost \cup {[code |-> "MEMORY_LIMIT_EXCEEDED", file |-> "batch_processor"]}
      /\ next' = Len(asking.names) + 1
      /\ UNCHANGED <<analysis, asking, searched, problems, response, phase>>

-----------------------------------------------------------------------------
(* The names on the first page, the only one: the cursor is always None    *)
(* and page is not used.                                                   *)
FirstPage ==
  IF Cardinality(DOMAIN details) <= FewNames THEN DOMAIN details
  ELSE {n \in DOMAIN details : Cardinality({m \in DOMAIN details : m < n}) < PageNames}

FoundAny == \E n \in DOMAIN details : details[n] # <<>>

(* An analysis that falls back forgives errors of types if it has found    *)
(* something.                                                              *)
Succeeds ==
  IF asking.fallback /\ FoundAny THEN \A e \in problems : e.code = "flawed"
  ELSE FoundAny \/ problems = {}

(* Without any name there is no total, which is an error.                  *)
Respond ==
  /\ phase \in {"single", "batch"} /\ ~MoreNames
  /\ response' = IF details = <<>> THEN NoDetails
                 ELSE [functions |-> [n \in FirstPage |-> details[n]],
                       success |-> Succeeds,
                       more |-> FirstPage # DOMAIN details]
  /\ problems' = problems \cup IF details # <<>> THEN {}
                               ELSE {[code |-> "ANALYSIS_ERROR", file |-> "none"]}
  /\ phase' = "answered"
  /\ UNCHANGED <<analysis, asking, searched, next, details, lost>>

(* process_batch_request: every chunk is processed, and then its three     *)
(* results cannot be unpacked into two; without names the chunks have no   *)
(* size.                                                                   *)
BatchRequest ==
  /\ phase = "asked" /\ asking.way = "request"
  /\ problems' = IF asking.names = <<>> THEN {[code |-> "ValueError", file |-> "none"]}
                 ELSE {[code |-> "BATCH_ERROR", file |-> "batch_processor"]}
  /\ phase' = "answered" /\ response' = NoDetails
  /\ UNCHANGED <<analysis, asking, searched, next, details, lost>>

(* analyze_multiple_functions: the first file where there is a pair, be it *)
(* of an error and no function                                             *)
Several ==
  /\ phase = "asked" /\ asking.way = "several" /\ asking.files # Everywhere
  /\ LET There(n) ==
           Chosen(asking.files, {f \in OnDisk : Outcome(n, f) # "missing"})
         names == {n \in ToSet(asking.names) : There(n) # <<>>}
     IN  response' = [functions |-> [n \in names |-> <<There(n)[1]>>],
                      success |-> TRUE, more |-> FALSE]
  /\ phase' = "answered"
  /\ UNCHANGED <<analysis, asking, searched, next, details, problems, lost>>

DetailsNext == \/ Search \/ Single \/ Batch \/ BatchStops \/ Respond
               \/ BatchRequest \/ Several

DetailsSpec == DetailsInit /\ [][DetailsNext]_detailVars

-----------------------------------------------------------------------------
DetailsAnswered ==
  phase = "answered" /\ asking.way = "details" /\ searched # <<>> /\ asking.names # <<>>
Stopped == \E e \in lost : e.code = "MEMORY_LIMIT_EXCEEDED"
Times(n) == Cardinality({i \in DOMAIN asking.names : asking.names[i] = n})

(* A batch that is not stopped answers what single analyses would: every   *)
(* name asked for is in the answer, or there is more than this page; and   *)
(* what a name has are the searched files that define it, each as often as *)
(* the name was asked for, in the order of the search.  A stopped batch    *)
(* never has a function in a file that does not define it, and loses only  *)
(* names from some place in the list on.  A response without success has   *)
(* an error to show.                                                       *)
DetailsComplete ==
  DetailsAnswered =>
    /\ ~Stopped /\ ~response.more => DOMAIN response.functions = ToSet(asking.names)
    /\ ~Stopped =>
         \A n \in DOMAIN response.functions :
           /\ Len(response.functions[n]) = Times(n) * Len(Yields(n))
           /\ \A i \in DOMAIN response.functions[n] :
                response.functions[n][i] = Yields(n)[((i - 1) % Len(Yields(n))) + 1]
    /\ \A n \in DOMAIN response.functions : ToSet(response.functions[n]) \subseteq ToSet(Yields(n))
    /\ Stopped =>
         \E k \in DOMAIN asking.names : DOMAIN details = ToSet(SubSeq(asking.names, 1, k))
    /\ ~response.success => problems # {}

(* By hand: an analysis that failed is reported.                           *)
FailuresReported == DetailsAnswered => lost = {}

(* By hand: every function asked for is in the answer.                     *)
NamesAnswered == DetailsAnswered => ToSet(asking.names) \subseteq DOMAIN response.functions

(* By hand: without file_paths the whole project is searched.              *)
ProjectSearched ==
  DetailsAnswered /\ asking.files = Everywhere /\ ~Stopped =>
    \A n \in DOMAIN response.functions, f \in OnDisk :
      Outcome(n, f) = "found" => f \in ToSet(response.functions[n])

(* By hand: a batch request for functions that are there returns some.     *)
RequestsAnswered ==
  phase = "answered" /\ asking.way = "request" /\ asking.files # Everywhere =>
    ((\E n \in ToSet(asking.names), f \in ToSet(asking.files) : Outcome(n, f) = "found")
      => response.functions # <<>>)

(* By hand: analyze_multiple_functions returns functions that are found.   *)
SeveralFound ==
  phase = "answered" /\ asking.way = "several" =>
    \A n \in DOMAIN response.functions :
      Outcome(n, response.functions[n][1]) \in {"found", "flawed"}
=============================================================================
