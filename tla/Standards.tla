------------------------------ MODULE Standards ------------------------------
(***************************************************************************)
(* The standards server: coding standards registered in files, an index of *)
(* them that is kept in memory for a while, and sessions that give a rule  *)
(* in full once and refer to it from then on.                              *)
(*                                                                         *)
(* A tool writes several files one after the other, and the server may be  *)
(* killed between two of them, or within one.  The tools run one at a time.*)
(* Each rule belongs to one standard; the order in which rules are         *)
(* offered, which depends on priorities and on what was seen, is left      *)
(* open.  A rule costs two tokens in full and one as a reference.          *)
(* Grouping is left out: rules that were compressed cannot be turned back  *)
(* into the objects it needs.                                              *)
(*                                                                         *)
(* A definition called a mutant is a plausible mistake in the definition   *)
(* that follows it; no formula uses it.  Some property fails with it.      *)
(***************************************************************************)
EXTENDS Integers, Sequences, FiniteSets, SequencesExt

CONSTANTS
  Standard, Rule, Client,
  StandardOf,   (* the standard of a rule                                  *)
  Like,         (* the standards whose rules are taken for those of a      *)
                (* standard: register asks that their names begin with its *)
                (* id, delete that they contain it                         *)
  MaxChanges,   (* bound on the changes of the standards                   *)
  MaxBudget     (* bound on the tokens of an answer                        *)

ASSUME StandardsAssumption ==
  /\ IsFiniteSet(Rule)
  /\ StandardOf \in [Rule -> Standard]
  /\ Like \in [Standard -> SUBSET Standard] /\ \A s \in Standard : s \in Like[s]
  /\ MaxChanges \in Nat /\ MaxBudget \in Nat

VARIABLES
  metadata,  (* the standards with a metadata.json                         *)
  hints,     (* of each rule the version of its hint file, 0 if none       *)
  lintRules, (* the standards with a file in eslint/rules                  *)
  plugin,    (* the standards whose rule files eslint-plugin-aromcp.js has *)
  manifest,  (* the standards that the manifest has                        *)
  index,     (* index.json: <<>> or <<standards>>                          *)
  pending,   (* what the running tool has still to do                      *)
  indexCache,  (* _index_cache: <<>> or <<standards>>                      *)
  loaded,    (* loaded_rule_ids of the sessions that hints_for_file uses   *)
  toolSessions,  (* the sessions that the session tools have               *)
  given,     (* of each session the version of a rule it was given in full *)
  cleared,   (* the sessions cleared since they last asked                 *)
  reply,     (* the last answer of hints_for_file                          *)
  interrupted, (* the standards for which a tool was killed, or that a     *)
               (* manifest lost, not registered or deleted since           *)
  changes

diskVars == <<metadata, hints, lintRules, plugin, manifest, index>>
clientVars == <<loaded, toolSessions, given, cleared, reply>>
standardVars == <<diskVars, pending, indexCache, clientVars, interrupted, changes>>

NoReply == [offered |-> {}, full |-> {}, references |-> {}, omitted |-> {},
            due |-> {}, doubtful |-> {}, fresh |-> FALSE]

StandardsInit ==
  /\ metadata = {} /\ hints = [r \in Rule |-> 0] /\ lintRules = {} /\ plugin = {}
  /\ manifest = {} /\ index = <<>> /\ pending = <<>> /\ indexCache = <<>>
  /\ loaded = [c \in Client |-> {}] /\ toolSessions = {}
  /\ given = [c \in Client |-> [r \in Rule |-> 0]] /\ cleared = {} /\ reply = NoReply
  /\ interrupted = {} /\ changes = 0

-----------------------------------------------------------------------------
RulesOf(s) == {r \in Rule : StandardOf[r] = s}

Step(name, s, r) == [name |-> name, standard |-> s, rule |-> r]
AnyRule == CHOOSE r \in Rule : TRUE
Steps(names, s) == [i \in 1..Len(names) |-> Step(names[i], s, AnyRule)]

ChangeFiles(steps) ==
  /\ pending = <<>> /\ changes < MaxChanges
  /\ pending' = steps /\ changes' = changes + 1
  /\ UNCHANGED <<diskVars, indexCache, clientVars>>

Cleared == <<"clear", "unlint">>

(* Mutant: the index is built, but the one in memory is kept.              *)
IndexedKept == <<"index">>

Indexed == <<"index", "invalidate">>

(* register_impl                                                           *)
Register(s) ==
  /\ ChangeFiles(Steps(Cleared \o <<"metadata", "list">> \o Indexed, s))
  /\ interrupted' = interrupted \ {s}

(* delete_impl                                                             *)
Delete(s) ==
  /\ ChangeFiles(Steps(Cleared \o <<"unlist">> \o Indexed, s))
  /\ interrupted' = interrupted \ {s}

(* add_hint_impl: with a rule_id that the caller chooses, and may use      *)
(* again with another text when the standard has been registered anew.     *)
AddHint(r) ==
  LET s == StandardOf[r]
  IN  /\ s \in manifest /\ hints[r] = 0
      /\ ChangeFiles(<<Step("hint", s, r)>> \o Steps(Indexed, s))
      /\ UNCHANGED interrupted

Linted(s) ==
  /\ ChangeFiles(Steps(<<"lint", "plugin">> \o Indexed, s))
  /\ UNCHANGED interrupted

(* add_rule_impl looks for the standard in the manifest, update_rule_impl  *)
(* for its metadata.                                                       *)
AddRule(s) == s \in manifest /\ Linted(s)
UpdateRule(s) == s \in metadata /\ Linted(s)

-----------------------------------------------------------------------------
(* The next write of the running tool, by the function of _storage.py or   *)
(* of the tool that does it.                                               *)
Writing(name, s) ==
  /\ pending # <<>> /\ Head(pending).name = name /\ Head(pending).standard = s
  /\ pending' = Tail(pending)
  /\ UNCHANGED <<clientVars, interrupted, changes>>

(* The directory of the standard goes, with its hints and its metadata.    *)
ClearHints(s) ==
  /\ Writing("clear", s)
  /\ metadata' = metadata \ {s}
  /\ hints' = [r \in Rule |-> IF r \in RulesOf(s) THEN 0 ELSE hints[r]]
  /\ UNCHANGED <<lintRules, plugin, manifest, index, indexCache>>

DeleteEslintRules(s) ==
  /\ Writing("unlint", s) /\ lintRules' = lintRules \ Like[s]
  /\ UNCHANGED <<metadata, hints, plugin, manifest, index, indexCache>>

SaveStandardMetadata(s) ==
  /\ Writing("metadata", s) /\ metadata' = metadata \cup {s}
  /\ UNCHANGED <<hints, lintRules, plugin, manifest, index, indexCache>>

SaveHint(s) ==
  /\ Writing("hint", s) /\ hints' = [hints EXCEPT ![Head(pending).rule] = changes]
  /\ UNCHANGED <<metadata, lintRules, plugin, manifest, index, indexCache>>

SaveRule(s) ==
  /\ Writing("lint", s) /\ lintRules' = lintRules \cup {s}
  /\ UNCHANGED <<metadata, hints, plugin, manifest, index, indexCache>>

(* Only the tools that add rules call this one.                            *)
UpdateEslintConfig(s) ==
  /\ Writing("plugin", s) /\ plugin' = lintRules
  /\ UNCHANGED <<metadata, hints, lintRules, manifest, index, indexCache>>

SaveManifest(s) ==
  /\ \/ Writing("list", s) /\ manifest' = manifest \cup {s}
     \/ Writing("unlist", s) /\ manifest' = manifest \ {s}
  /\ UNCHANGED <<metadata, hints, lintRules, plugin, index, indexCache>>

(* The index lists what has metadata.                                      *)
BuildIndex(s) ==
  /\ Writing("index", s) /\ index' = <<metadata>>
  /\ UNCHANGED <<metadata, hints, lintRules, plugin, manifest, indexCache>>

InvalidateIndexCache(s) ==
  /\ Writing("invalidate", s) /\ indexCache' = <<>>
  /\ UNCHANGED diskVars

Write ==
  \E s \in Standard :
    \/ ClearHints(s) \/ DeleteEslintRules(s) \/ SaveStandardMetadata(s) \/ SaveHint(s)
    \/ SaveRule(s) \/ UpdateEslintConfig(s) \/ SaveManifest(s) \/ BuildIndex(s)
    \/ InvalidateIndexCache(s)

(* A file is emptied before it is written, and one that is not whole is    *)
(* read as if it were not there.                                           *)
IndexOpen == pending # <<>> /\ Head(pending).name = "index"
ManifestOpen ==
  /\ pending # <<>>
  /\ \/ Head(pending).name = "list"
     \/ Head(pending).name = "unlist" /\ Head(pending).standard \in manifest

(* The process is killed, at work or not, and started again.  Metadata and *)
(* hints are written where there were none; what an index or a manifest    *)
(* listed is lost with it.                                                 *)
Kill ==
  /\ index' = index \/ (IndexOpen /\ index' = <<>>)
  /\ manifest' = manifest \/ (ManifestOpen /\ manifest' = {})
  /\ interrupted' = interrupted \cup (manifest \ manifest')
                      \cup {s \in Standard : pending # <<>> /\ Head(pending).standard = s}
  /\ pending' = <<>> /\ indexCache' = <<>>
  /\ loaded' = [c \in Client |-> {}] /\ toolSessions' = {}
  /\ UNCHANGED <<metadata, hints, lintRules, plugin, given, cleared, reply, changes>>

(* The index in memory has become older than _cache_ttl.                   *)
Expire ==
  /\ indexCache # <<>> /\ indexCache' = <<>>
  /\ UNCHANGED <<diskVars, pending, clientVars, interrupted, changes>>

-----------------------------------------------------------------------------
(* _get_cached_index, load_index: an index that is missing is built.       *)
IndexRead == IF index = <<>> THEN <<metadata>> ELSE index
IndexUsed == IF indexCache = <<>> THEN IndexRead ELSE indexCache

(* Mutant: a rule counts as loaded also when there was no room for it.     *)
TakenUnseen(acc, r, budget) ==
  LET seen == r \in acc.loaded
      tokens == acc.tokens + (IF seen THEN 1 ELSE 2)
  IN  CASE tokens > budget /\ seen -> acc
        [] tokens > budget /\ ~seen -> [acc EXCEPT !.omitted = @ \cup {r}, !.loaded = @ \cup {r}]
        [] tokens <= budget /\ seen -> [acc EXCEPT !.tokens = tokens, !.references = @ \cup {r}]
        [] OTHER -> [acc EXCEPT !.tokens = tokens, !.full = @ \cup {r}, !.loaded = @ \cup {r}]

(* compress_rule_batch, with SessionState.add_rule: a rule that does not   *)
(* fit is skipped, and named unless the session has it.                    *)
Taken(acc, r, budget) ==
  LET seen == r \in acc.loaded
      tokens == acc.tokens + (IF seen THEN 1 ELSE 2)
  IN  CASE tokens > budget /\ seen -> acc
        [] tokens > budget /\ ~seen -> [acc EXCEPT !.omitted = @ \cup {r}]
        [] tokens <= budget /\ seen -> [acc EXCEPT !.tokens = tokens, !.references = @ \cup {r}]
        [] OTHER -> [acc EXCEPT !.tokens = tokens, !.full = @ \cup {r}, !.loaded = @ \cup {r}]

(* hints_for_file_impl for a file to which some standards are relevant.    *)
HintsForFile(c, relevant, budget) ==
  LET offered == {r \in Rule : StandardOf[r] \in IndexUsed[1] \cap metadata \cap relevant /\ hints[r] # 0}
      start == [tokens |-> 0, full |-> {}, references |-> {}, omitted |-> {}, loaded |-> loaded[c]]
  IN  /\ pending = <<>>
      /\ \E order \in SetToSeqs(offered) :
           LET end == FoldLeft(LAMBDA acc, r : Taken(acc, r, budget), start, order)
           IN  /\ loaded' = [loaded EXCEPT ![c] = end.loaded]
               /\ reply' = [offered |-> offered, full |-> end.full, references |-> end.references,
                            omitted |-> end.omitted, fresh |-> c \in cleared, doubtful |-> interrupted,
                            due |-> {r \in Rule : StandardOf[r] \in manifest \cap relevant /\ hints[r] # 0}]
               /\ given' = [given EXCEPT ![c] = [r \in Rule |-> IF r \in end.full THEN hints[r] ELSE @[r]]]
      /\ indexCache' = IndexUsed /\ index' = IF indexCache = <<>> THEN IndexRead ELSE index
      /\ cleared' = cleared \ {c}
      /\ UNCHANGED <<metadata, hints, lintRules, plugin, manifest, pending, toolSessions, interrupted, changes>>

(* analyze_context                                                         *)
AnalyzeContext(c) ==
  /\ pending = <<>> /\ toolSessions' = toolSessions \cup {c}
  /\ UNCHANGED <<diskVars, pending, indexCache, loaded, given, cleared, reply, interrupted, changes>>

(* clear_session and cleanup_stale_sessions: on a SessionManager of their  *)
(* own, which hints_for_file does not use.                                 *)
ClearSession(who) ==
  /\ pending = <<>> /\ toolSessions' = toolSessions \ who /\ cleared' = cleared \cup who
  /\ UNCHANGED <<diskVars, pending, indexCache, loaded, given, reply, interrupted, changes>>

CleanupStale ==
  /\ \E stale \in SUBSET toolSessions \ {{}} : toolSessions' = toolSessions \ stale
  /\ UNCHANGED <<diskVars, pending, indexCache, loaded, given, cleared, reply, interrupted, changes>>

StandardsNext ==
  \/ \E s \in Standard : Register(s) \/ Delete(s) \/ AddRule(s) \/ UpdateRule(s)
  \/ \E r \in Rule : AddHint(r)
  \/ Write \/ Kill \/ Expire \/ CleanupStale
  \/ \E c \in Client : AnalyzeContext(c) \/ ClearSession({c})
  \/ ClearSession(toolSessions)
  \/ \E c \in Client, relevant \in SUBSET Standard, budget \in 0..MaxBudget : HintsForFile(c, relevant, budget)

StandardsSpec == StandardsInit /\ [][StandardsNext]_standardVars

-----------------------------------------------------------------------------
(* What a session gets as a reference it has been given in full before,    *)
(* and what there was no room for it can still get.                        *)
ReferencesKnown ==
  \A c \in Client : \A r \in loaded[c] : given[c][r] # 0

(* A session is offered the rules of all registered standards that are     *)
(* relevant, and no others, whatever was registered, deleted or kept in    *)
(* memory before, and wherever the server was killed, within a file or     *)
(* between two: only standards that it was working on then, or that were   *)
(* lost with a manifest it was writing, may be missing, or come back,      *)
(* until they are registered or deleted again.                             *)
AnswersCurrent ==
  \A r \in Rule : StandardOf[r] \notin reply.doubtful => (r \in reply.offered <=> r \in reply.due)

(* Both: what hints_for_file answers can be relied on.                     *)
HintsRight == ReferencesKnown /\ AnswersCurrent

(* The same for all standards: refuted.                                    *)
RegisteredAppear == reply.offered = reply.due

(* "Resetting hint context" (clear_session): what was shown can appear     *)
(* again.  Refuted.                                                        *)
ClearedAppear == reply.fresh => reply.references = {}

(* A reference stands for the rule as it is now: refuted.                  *)
ReferencesCurrent ==
  \A c \in Client : \A r \in loaded[c] : hints[r] # 0 => given[c][r] = hints[r]

(* The plugin can load the rules that it lists: refuted.                   *)
PluginLoads == pending = <<>> => plugin \subseteq lintRules

(* Deleting a standard leaves the rules of the others: refuted.            *)
OthersKept ==
  [][\A s \in Standard : pending # <<>> /\ s \in lintRules \ lintRules' => Head(pending).standard = s]_standardVars
=============================================================================
