---------------------------- MODULE ProjectTools ----------------------------
(***************************************************************************)
(* The tools of the filesystem and build servers that answer with a list,  *)
(* and the pages their lists are cut into (utils/pagination.py).  A tool   *)
(* does all its work again for every page; the project may be edited       *)
(* before the client asks for the next one.                                *)
(*                                                                         *)
(* An item is a path, a file with its content, an issue or a result; the   *)
(* project is the sequence in which the file system or the linter returns  *)
(* them.  sort_key has the key of an item: different for every path        *)
(* and every result, but only the file and the line of an issue.  Tokens   *)
(* are counted in units; lint commands and their output are abstracted to  *)
(* whether they die, find nothing or find the issues.                      *)
(*                                                                         *)
(* A definition called a mutant is a plausible mistake in the definition   *)
(* that follows it; no formula uses it.  Some property fails with it.      *)
(***************************************************************************)
EXTENDS Integers, Sequences, FiniteSets, SequencesExt, FiniteSetsExt

CONSTANTS
  Item,          (* what there may be in the project, numbers              *)
  Tokens,        (* the tokens of every item                               *)
  Overhead,      (* the tokens of an answer without its items              *)
  MaxTokens,     (* max_tokens                                             *)
  FewItems,      (* 10 in simplify_cursor_pagination                       *)
  OddItems,      (* items in directories that are left out                 *)
  PatternItems,  (* for every pattern asked for, the items it matches      *)
  IssueKeys,     (* the keys issues may have                               *)
  LinterStates,  (* what may become of the three linters                   *)
  MaxProjectEdits,
  MaxPages       (* bound on the pages a client asks for                   *)

ASSUME ToolsAssumption ==
  /\ IsFiniteSet(Item) /\ Item \subseteq Nat /\ Tokens \in [Item -> Nat]
  /\ Overhead \in Nat /\ MaxTokens \in Nat /\ FewItems \in Nat
  /\ IssueKeys \subseteq [Item -> Nat]

VARIABLES
  tool,       (* the tool the client uses                                  *)
  project,    (* the items, in the order in which they are found           *)
  sort_key,   (* what sort_key returns for every item                      *)
  linters,    (* what becomes of the linters                               *)
  requested,  (* the files the client asks read_files for                  *)
  cursor,     (* next_cursor of the last answer                            *)
  page,       (* the last answer                                           *)
  received,   (* history: the items of all answers                         *)
  asked,      (* how often the client has asked                            *)
  stayed,     (* history: the items that were there all the time           *)
  projectEdits

toolVars == <<tool, project, sort_key, linters, requested, cursor, page, received, asked,
              stayed, projectEdits>>

NoCursor == -1
NoPage == [items |-> <<>>, more |-> TRUE, failed |-> FALSE]
Failed == [items |-> <<>>, more |-> FALSE, failed |-> TRUE]

ProjectOrders == UNION {SetToSeqs(s) : s \in SUBSET Item}

ToolsInit ==
  /\ tool \in {"list_files", "read_files", "lint_project", "run_test_suite"}
  /\ project \in ProjectOrders
  /\ sort_key \in IF tool = "lint_project" THEN IssueKeys ELSE {[i \in Item |-> i]}
  /\ linters \in IF tool = "lint_project" THEN LinterStates
                 ELSE {[next |-> "none", standards |-> "none", eslint |-> "none"]}
  /\ requested = ToSet(project) /\ stayed = ToSet(project)
  /\ cursor = NoCursor /\ page = NoPage /\ received = <<>>
  /\ asked = 0 /\ projectEdits = 0

-----------------------------------------------------------------------------
(* The pages.                                                              *)

(* sorted is stable: what it puts before the item at position i.           *)
SortedBefore(items, i) ==
  {j \in DOMAIN items : \/ sort_key[items[j]] < sort_key[items[i]]
                        \/ sort_key[items[j]] = sort_key[items[i]] /\ j < i}

Sorted(items) ==
  [n \in DOMAIN items |->
     items[CHOOSE i \in DOMAIN items : Cardinality(SortedBefore(items, i)) = n - 1]]

Cost(items) == FoldLeft(LAMBDA cost, i : cost + Tokens[i], Overhead, items)

(* Mutant: the page after the one that contains the cursor's item.         *)
PositionBefore(items, c) ==
  IF \E i \in DOMAIN items : sort_key[items[i]] = c
  THEN Min({i \in DOMAIN items : sort_key[items[i]] = c}) - 1 ELSE 0

(* How many items come before the page: the first item that has the cursor *)
(* is the last of them; without one, the list starts again.                *)
Position(items, c) ==
  IF \E i \in DOMAIN items : sort_key[items[i]] = c
  THEN Min({i \in DOMAIN items : sort_key[items[i]] = c}) ELSE 0

(* The binary search for the last item of the page, between two bounds.    *)
OptimalEnd(items, start) ==
  LET Search[b \in (0 .. Len(items)) \X (0 .. Len(items))] ==
        LET mid == (b[1] + b[2] + 1) \div 2
        IN  IF b[1] >= b[2] THEN b[1]
            ELSE IF Cost(SubSeq(items, start + 1, mid)) <= MaxTokens
                 THEN Search[<<mid, b[2]>>] ELSE Search[<<b[1], mid - 1>>]
  IN  Max({Search[<<Min({start + 1, Len(items)}), Len(items)>>], start + 1})

Paginate(items, c) ==
  LET sorted == Sorted(items)
      start == Position(sorted, c)
      end == OptimalEnd(sorted, start)
  IN  IF items = <<>> \/ start >= Len(items)
      THEN [items |-> <<>>, more |-> FALSE, failed |-> FALSE]
      ELSE [items |-> SubSeq(sorted, start + 1, end), more |-> end < Len(items),
            failed |-> FALSE]

(* A few items are returned whatever the cursor and their size.            *)
Simplified(items, c) ==
  IF Len(items) <= FewItems
  THEN [items |-> Sorted(items), more |-> FALSE, failed |-> FALSE]
  ELSE Paginate(items, c)

(* The cursor of the last item, if there is more.                          *)
Answer(answer) ==
  /\ page' = answer
  /\ cursor' = IF answer.more THEN sort_key[Last(answer.items)] ELSE NoCursor
  /\ received' = received \o answer.items
  /\ asked' = asked + 1
  /\ UNCHANGED <<tool, project, sort_key, linters, requested, stayed, projectEdits>>

-----------------------------------------------------------------------------
(* What each tool puts into its list.                                      *)

(* A path matched by several patterns is listed once, sorted.              *)
FilesFound ==
  Sorted(SetToSeq({i \in ToSet(project) \ OddItems :
                     \E p \in DOMAIN PatternItems : i \in PatternItems[p]}))

ListFiles == tool = "list_files" /\ Answer(Simplified(FilesFound, cursor))

(* One file that is not there fails the whole call.                        *)
ReadFiles ==
  /\ tool = "read_files"
  /\ Answer(IF requested \subseteq ToSet(project)
            THEN Simplified(Sorted(SetToSeq(requested)), cursor) ELSE Failed)

(* The tests end, or there is no command for them, or they run out of      *)
(* time.                                                                   *)
RunTestSuite ==
  /\ tool = "run_test_suite"
  /\ Answer(Simplified(project, cursor)) \/ Answer(Failed)

(* The linter of Next.js, then the generated configuration, then ESLint:   *)
(* the next one is tried as long as there are no issues.  ESLint needs a   *)
(* configuration, and its death is an error.  The handler of the second    *)
(* one's death looks at the output of the last command that ended; when    *)
(* none has, it dies itself, and so does the call.                         *)
LintFails ==
  /\ linters.next # "issues"
  /\ \/ linters.standards = "dies" /\ linters.next # "clean"
     \/ linters.standards # "issues" /\ linters.eslint \in {"none", "dies"}

Issues == IF "issues" \in {linters[l] : l \in DOMAIN linters} THEN project ELSE <<>>

LintProject ==
  /\ tool = "lint_project"
  /\ Answer(IF LintFails THEN Failed ELSE Simplified(Issues, cursor))

(* The client asks for pages until there are no more.                      *)
AskTool == /\ page.more /\ asked < MaxPages
           /\ ListFiles \/ ReadFiles \/ RunTestSuite \/ LintProject

(* Somebody adds an item somewhere or takes one away between two pages.    *)
EditProject ==
  /\ asked > 0 /\ page.more /\ projectEdits < MaxProjectEdits
  /\ \/ \E i \in Item \ ToSet(project), at \in 1 .. Len(project) + 1 :
          project' = InsertAt(project, at, i)
     \/ \E at \in DOMAIN project : project' = RemoveAt(project, at)
  /\ stayed' = stayed \cap ToSet(project')
  /\ projectEdits' = projectEdits + 1
  /\ UNCHANGED <<tool, sort_key, linters, requested, cursor, page, received, asked>>

ToolsNext == AskTool \/ EditProject

ToolsSpec == ToolsInit /\ [][ToolsNext]_toolVars

-----------------------------------------------------------------------------
Ended == asked > 0 /\ ~page.more /\ ~page.failed
KeysDiffer == \A i, j \in Item : sort_key[i] = sort_key[j] => i = j

(* What the tool lists now.                                                *)
Listed ==
  CASE tool = "list_files" -> FilesFound
    [] tool = "read_files" -> Sorted(SetToSeq(requested))
    [] tool = "lint_project" -> Sorted(Issues)
    [] tool = "run_test_suite" -> Sorted(project)

(* Where keys differ, the client that follows the cursors to the end has   *)
(* received every item that was there all the time, however the project    *)
(* was edited: the cursor's item gone, the list become short, new items    *)
(* before the cursor.  If nobody edited it, the pages are what is listed,  *)
(* each item once and in order, every page has an item, and more than one  *)
(* only as long as they fit; and another one would not have fitted.        *)
PagesComplete ==
  KeysDiffer =>
    /\ Ended => stayed \cap ToSet(Listed) \subseteq ToSet(received)
    /\ projectEdits = 0 /\ asked > 0 /\ ~page.failed =>
         /\ IsPrefix(received, Listed)
         /\ Ended => received = Listed
         /\ page.more =>
              /\ page.items # <<>>
              /\ Len(page.items) > 1 => Cost(page.items) <= MaxTokens
              /\ Cost(Append(page.items, Listed[Len(received) + 1])) > MaxTokens

(* By hand: no item is received twice.                                     *)
NoneTwice == Len(received) = Cardinality(ToSet(received))

(* By hand: what a client receives at once has at most max_tokens.         *)
ResponsesFit == page.items # <<>> => Cost(page.items) <= MaxTokens

(* By hand: the pages come to an end before there are more than items.     *)
PagesEnd == projectEdits = 0 => asked <= Cardinality(Item)

(* By hand: where ESLint works, lint_project answers.                      *)
LintAnswers ==
  tool = "lint_project" /\ linters.eslint \in {"clean", "issues"} => ~page.failed
=============================================================================
