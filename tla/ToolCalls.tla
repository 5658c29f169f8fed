------------------------------ MODULE ToolCalls ------------------------------
(***************************************************************************)
(* ToolCallProcessor (internal/engine/tool_processor.go): a response's     *)
(* tool calls are resolved one after the other when there are at most two  *)
(* and by one goroutine each otherwise, every goroutine writing its own    *)
(* slot of two slices.  Arguments are functions from parameters to values; *)
(* validation is module SchemaSynthesis.                                   *)
(***************************************************************************)
EXTENDS Integers, Sequences, FiniteSets, SequencesExt

VARIABLES tools,          \* the agent's tool definitions, in order
          calls,          \* the scenario's tool calls
          fails,          \* whether error injection would draw a failure, per call
          results, errs,  \* the slices the goroutines fill
          finished,       \* goroutines done, in completion order
          answer          \* what ProcessToolCalls returned
vars == <<tools, calls, fails, results, errs, finished, answer>>

NoAnswer == [done |-> FALSE, results |-> << >>, err |-> 0]
Empty == [tool |-> "", error |-> "", rule |-> 0]

Init == /\ results = [i \in DOMAIN calls |-> Empty] /\ errs = [i \in DOMAIN calls |-> ""]
        /\ finished = << >> /\ answer = NoAnswer

\* A later tool of the same name replaces an earlier one.
indexTools(name) == LET named == {i \in DOMAIN tools : tools[i].name = name}
                    IN  IF named = {} THEN 0 ELSE CHOOSE i \in named : \A j \in named : j <= i
matchArgs(match, args) ==
  DOMAIN match # {} /\ \A k \in DOMAIN match : k \in DOMAIN args /\ args[k] = match[k]
\* The index of the rule that answers: the first that matches, else the last
\* default, else none.
resolveToolResponse(rules, args) ==
  LET hits == {i \in DOMAIN rules : ~rules[i].default /\ matchArgs(rules[i].match, args)}
      defs == {i \in DOMAIN rules : rules[i].default}
  IN  CASE hits # {} -> CHOOSE i \in hits : \A j \in hits : i <= j
        [] hits = {} /\ defs # {} -> CHOOSE i \in defs : \A j \in defs : j <= i
        [] OTHER -> 0
\* The result of call i and the error beside it; only a missing tool is fatal.
processOne(i) ==
  LET t == indexTools(calls[i].name)
      rule == resolveToolResponse(tools[t].rules, calls[i].args)
      Res(error, r) == [Empty EXCEPT !.tool = calls[i].name, !.error = error, !.rule = r]
  IN  CASE t = 0 -> [result |-> Res("TOOL_NOT_FOUND", 0), err |-> "fatal"]
        [] t # 0 /\ tools[t].validate /\ ~calls[i].valid -> [result |-> Res("INVALID_PARAMETERS", 0), err |-> "validation"]
        [] t # 0 /\ ~(tools[t].validate /\ ~calls[i].valid) /\ fails[i] -> [result |-> Res("INJECTED_ERROR", 0), err |-> ""]
        [] OTHER -> [result |-> Res(IF rule # 0 /\ tools[t].rules[rule].error THEN "RULE_ERROR" ELSE "", rule), err |-> ""]
FirstFatalByCompletion(es) == IF \E k \in DOMAIN finished : es[finished[k]] = "fatal"
                              THEN finished[CHOOSE k \in DOMAIN finished : es[finished[k]] = "fatal"
                                              /\ \A j \in 1..(k - 1) : es[finished[j]] # "fatal"] ELSE 0
\* The call whose fatal error is reported: the first in index order.
FirstFatal(es) == LET bad == {i \in DOMAIN es : es[i] = "fatal"}
                  IN  IF bad = {} THEN 0 ELSE CHOOSE i \in bad : \A j \in bad : i <= j

Inline == [i \in DOMAIN calls |-> processOne(i)]
\* At most two calls: in this goroutine.
ProcessInline ==
  /\ ~answer.done /\ Len(calls) <= 2
  /\ answer' = [done |-> TRUE, results |-> [i \in DOMAIN calls |-> Inline[i].result],
                err |-> FirstFatal([i \in DOMAIN calls |-> Inline[i].err])]
  /\ UNCHANGED <<tools, calls, fails, results, errs, finished>>
\* More: goroutine i resolves its call and fills its slot.
Goroutine(i) ==
  /\ Len(calls) > 2 /\ i \notin Range(finished)
  /\ results' = [results EXCEPT ![i] = processOne(i).result]
  /\ errs' = [errs EXCEPT ![i] = processOne(i).err]
  /\ finished' = Append(finished, i)
  /\ UNCHANGED <<tools, calls, fails, answer>>
\* wg.Wait, then the errors are collected.
Collect ==
  /\ ~answer.done /\ Len(calls) > 2 /\ Len(finished) = Len(calls)
  /\ answer' = [done |-> TRUE, results |-> results, err |-> FirstFatal(errs)]
  /\ UNCHANGED <<tools, calls, fails, results, errs, finished>>
Next == ProcessInline \/ Collect \/ \E i \in DOMAIN calls : Goroutine(i)

\* Resolving tool calls concurrently answers what resolving them in order does:
\* result i is that of call i, whatever finished first, and the error reported is
\* that of the first missing tool in call order.
OrderIndependent ==
  answer.done => /\ answer.results = [i \in DOMAIN calls |-> Inline[i].result]
                 /\ \A i \in 1..(answer.err - 1) : indexTools(calls[i].name) # 0
                 /\ answer.err = 0 <=> \A i \in DOMAIN calls : indexTools(calls[i].name) # 0
=============================================================================
