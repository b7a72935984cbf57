---------------------------- MODULE MCControlFlow ----------------------------
(***************************************************************************)
(* Workflows for model checking ControlFlow.  A step id is a sequence of   *)
(* components; <<"w", "0">> stands for the generated id "w.body.0", and an *)
(* id of one component for one written in the workflow.                    *)
(***************************************************************************)
EXTENDS ControlFlow, TLC

None == <<>>

Plain(kind) == [kind |-> kind, body |-> <<>>, orelse |-> <<>>, limit |-> 0,
                items |-> {}, fails |-> FALSE, templated |-> FALSE]
Client == Plain("mcp_call")
Message == Plain("user_message")
Server == Plain("shell_command")
Faulty(d) == [d EXCEPT !.fails = TRUE]
Templated(d) == [d EXCEPT !.templated = TRUE]
If(then, else) == [Plain("conditional") EXCEPT !.body = then, !.orelse = else]
While(max, body) == [Plain("while_loop") EXCEPT !.limit = max, !.body = body]
Foreach(n, body) == [Plain("foreach") EXCEPT !.items = n, !.body = body]

(* Nested loops: a foreach over a while loop over a foreach.               *)
NestedDef ==
  <<"m">>                :> Message @@
  <<"o">>                :> Foreach({1, 2}, <<<<"o", "0">>, <<"o", "1">>>>) @@
  <<"o", "0">>           :> While(2, <<<<"i">>, <<"o", "0", "1">>>>) @@
  <<"i">>                :> Foreach({1, 3}, <<<<"i", "0">>, <<"i", "1">>>>) @@
  <<"i", "0">>           :> If(<<<<"i", "0", "0">>>>, <<<<"i", "0", "1">>>>) @@
  <<"i", "0", "0">>      :> Client @@
  <<"i", "0", "1">>      :> Plain("continue") @@
  <<"i", "1">>           :> Message @@
  <<"o", "0", "1">>      :> Server @@
  <<"o", "1">>           :> Message @@
  <<"w">>                :> Plain("wait_step") @@
  <<"end">>              :> Client
NestedMain == <<<<"m">>, <<"o">>, <<"w">>, <<"end">>>>

(* The hypothesis of the theorems about nested loops: this workflow has it.*)
ASSUME NestedIsStructured == Main = NestedMain => Structured

(* Everything else, with one loop at a time: break and continue, lists of  *)
(* no items, failures, templates that are replaced too early.              *)
FlowDef ==
  <<"m">>         :> Message @@
  <<"p">>         :> Faulty(Plain("parallel_foreach")) @@
  <<"f">>         :> Faulty(Foreach({0, 3}, <<<<"c">>, <<"fc">>, <<"f", "2">>>>)) @@
  <<"c">>         :> If(<<<<"c", "0">>>>, <<<<"d">>>>) @@
  <<"c", "0">>    :> Plain("break") @@
  <<"d">>         :> Faulty(If(<<<<"d", "0">>>>, <<>>)) @@
  <<"d", "0">>    :> Plain("continue") @@
  <<"fc">>        :> Message @@
  <<"f", "2">>    :> Client @@
  <<"out">>       :> Plain("break") @@
  <<"t">>         :> Templated(Faulty(While(2, <<<<"s">>, <<"t", "1">>>>))) @@
  <<"s">>         :> Templated(Faulty(If(<<<<"g">>>>, <<>>))) @@
  <<"g">>         :> Templated(Faulty(Foreach({1}, <<>>))) @@
  <<"t", "1">>    :> Faulty(Server) @@
  <<"b">>         :> While(2, <<<<"b", "0">>, <<"b", "1">>>>) @@
  <<"b", "0">>    :> If(<<<<"b", "0", "0">>>>, <<>>) @@
  <<"b", "0", "0">> :> Plain("break") @@
  <<"b", "1">>    :> Plain("unknown") @@
  <<"skip">>      :> Plain("continue")
FlowMain == <<<<"out">>, <<"skip">>, <<"m">>, <<"t">>, <<"p">>, <<"f">>, <<"b">>>>

(* The hypothesis of the theorem about break: this workflow has it.        *)
ASSUME FlowBreaksHold == Main = FlowMain => BreaksHold

(* A foreach over a foreach whose body ends with break.                    *)
InnerBreakDef ==
  <<"f">>           :> Foreach({2}, <<<<"f", "0">>>>) @@
  <<"f", "0">>      :> Foreach({2}, <<<<"f", "0", "0">>>>) @@
  <<"f", "0", "0">> :> Plain("break")
InnerBreakMain == <<<<"f">>>>

(* A while loop with break, and an id of its own for the step after it.    *)
BreakDef ==
  <<"w">>      :> While(2, <<<<"w", "0">>, <<"work">>>>) @@
  <<"w", "0">> :> Plain("break") @@
  <<"work">>   :> Client
BreakMain == <<<<"w">>>>

(* The documented form of a while loop: its condition is a template.       *)
TemplatedDef ==
  <<"w">>      :> Templated(While(2, <<<<"w", "0">>>>)) @@
  <<"w", "0">> :> Client
TemplatedMain == <<<<"w">>>>
=============================================================================
