------------------------------ MODULE ToolCall ------------------------------
(***************************************************************************)
(* One tool call, from preflight to its toolOutcome: BeforeToolCall, the   *)
(* handler, AfterToolCall and the budget of the summary.  Both batch       *)
(* modules take the outcome of a call as one step; this module is what     *)
(* happens in it.  A tool comes from Raw, or from Typed, which decodes the *)
(* arguments before it calls the handler it was given and makes a result of*)
(* the summary alone.  A text is its length in bytes.  The length of an    *)
(* error message is arbitrary: it quotes names and errors of other parties.*)
(***************************************************************************)
EXTENDS Naturals

CONSTANTS DefaultMax,   \* DefaultMaxSummarySize
          MaxLen        \* bound: length of a text

ASSUME ToolCallAssumption ==
  /\ DefaultMax \in Nat \ {0}
  /\ MaxLen \in Nat \ {0}

Text == 0..MaxLen
ErrorText == 1..MaxLen

Result == [summary : Text, content : Text, hint : BOOLEAN, stop : BOOLEAN]

\* Result{Summary: ...}: the fields left out are zero.
Synthetic(text) == [summary |-> text, content |-> 0, hint |-> FALSE, stop |-> FALSE]
Nothing == Synthetic(0)

\* Result.effectiveSummary: Summary wins over the deprecated Content.
Effective(r) == IF r.summary # 0 THEN r.summary ELSE r.content

VARIABLES
  known,        \* the name is in the registry
  toolMax,      \* AgentTool.MaxSummarySize; 0 stands for every value <= 0
  typed,        \* the tool was built by Typed
  args,         \* "none" (empty or null), or whether they fit Typed's input type
  cfgMax,       \* Config.DefaultMaxSummarySize, likewise
  pc,
  result,
  isError,
  ran,          \* history: the handler did not run, succeeded or failed
  hook,         \* history: what AfterToolCall did
  handlerGave,  \* history: the handler's result
  hookGave      \* history: the override

vars == <<known, toolMax, typed, args, cfgMax, pc, result, isError, ran, hook, handlerGave, hookGave>>
callVars == <<known, toolMax, typed, args, cfgMax>>

Init ==
  /\ known \in BOOLEAN
  /\ toolMax \in Text
  /\ typed \in BOOLEAN
  /\ args \in {"none", "fit", "misfit"}
  /\ cfgMax \in Text
  /\ pc = "before"
  /\ result = Nothing
  /\ isError = FALSE
  /\ ran = "no"
  /\ hook = "absent"
  /\ handlerGave = Nothing
  /\ hookGave = Nothing

\* The budget, resolved once for the handler's result and for an override.
MaxSize ==
  IF known /\ toolMax > 0 THEN toolMax
  ELSE IF cfgMax > 0 THEN cfgMax ELSE DefaultMax

SummaryOnly(r) == r.summary > MaxSize
OverBudget(r) == Effective(r) > MaxSize

-----------------------------------------------------------------------------
BeforeToolCallFails ==
  /\ pc = "before"
  /\ pc' = "aborted"
  /\ UNCHANGED <<callVars, result, isError, ran, hook, handlerGave, hookGave>>

\* The result of a call whose handler does not run, or fails.
ErrorResult(text) ==
  /\ result' = Synthetic(text)
  /\ isError' = TRUE
  /\ pc' = "after"
  /\ UNCHANGED <<callVars, hook, handlerGave, hookGave>>

\* BeforeToolCall skips the call; an empty message is replaced by a default.
Block == pc = "before" /\ (\E text \in ErrorText : ErrorResult(text)) /\ UNCHANGED ran

UnknownTool ==
  /\ pc = "before"
  /\ ~known
  /\ \E text \in ErrorText : ErrorResult(text)
  /\ UNCHANGED ran

\* Typed's wrapper takes no arguments for the zero value of its input type.
Decodes == typed => args # "misfit"

DecodeFails ==
  /\ pc = "before"
  /\ known
  /\ ~Decodes
  /\ \E text \in ErrorText : ErrorResult(text)
  /\ UNCHANGED ran

\* err.Error() may be empty.
HandlerFails ==
  /\ pc = "before"
  /\ known
  /\ Decodes
  /\ \E text \in Text : ErrorResult(text)
  /\ ran' = "failed"

HandlerReturns ==
  /\ pc = "before"
  /\ known
  /\ Decodes
  /\ result' \in IF typed THEN {Synthetic(text) : text \in Text} ELSE Result
  /\ handlerGave' = result'
  /\ ran' = "ok"
  /\ pc' = "after"
  /\ UNCHANGED <<callVars, isError, hook, hookGave>>

\* There is no AfterToolCall hook, or it returns nothing.
NoOverride ==
  /\ pc = "after"
  /\ pc' = "budget"
  /\ UNCHANGED <<callVars, result, isError, ran, hook, handlerGave, hookGave>>

KeepFields(text) == [result EXCEPT !.summary = text]
HookFailure(text) == Synthetic(text)

AfterToolCallFails ==
  /\ pc = "after"
  /\ \E text \in ErrorText : result' = HookFailure(text)
  /\ isError' = TRUE
  /\ hook' = "failed"
  /\ pc' = "budget"
  /\ UNCHANGED <<callVars, ran, handlerGave, hookGave>>

ClearVerdict == isError' = FALSE
KeepVerdict == UNCHANGED isError

\* The override replaces the result, not the verdict.
AfterToolCallOverrides ==
  /\ pc = "after"
  /\ result' \in Result
  /\ hookGave' = result'
  /\ hook' = "override"
  /\ KeepVerdict
  /\ pc' = "budget"
  /\ UNCHANGED <<callVars, ran, handlerGave>>

KeepStop(text) == [result EXCEPT !.summary = text, !.content = 0]
BudgetFailure(text) ==
  [summary |-> text, content |-> 0, hint |-> result.hint, stop |-> FALSE]

Enforce ==
  /\ pc = "budget"
  /\ OverBudget(result)
  /\ \E text \in ErrorText : result' = BudgetFailure(text)
  /\ isError' = TRUE
  /\ pc' = "overBudget"
  /\ UNCHANGED <<callVars, ran, hook, handlerGave, hookGave>>

WithinBudget ==
  /\ pc = "budget"
  /\ ~OverBudget(result)
  /\ pc' = "done"
  /\ UNCHANGED <<callVars, result, isError, ran, hook, handlerGave, hookGave>>

Ended == pc \in {"done", "overBudget", "aborted"}
Finished == Ended /\ UNCHANGED vars

Next ==
  \/ BeforeToolCallFails \/ Block \/ UnknownTool \/ DecodeFails \/ HandlerFails \/ HandlerReturns
  \/ NoOverride \/ AfterToolCallFails \/ AfterToolCallOverrides
  \/ Enforce \/ WithinBudget \/ Finished

Spec == Init /\ [][Next]_vars

-----------------------------------------------------------------------------
\* The type invariant of the call's state.
TypeOK ==
  /\ known \in BOOLEAN
  /\ toolMax \in Text
  /\ typed \in BOOLEAN
  /\ args \in {"none", "fit", "misfit"}
  /\ cfgMax \in Text
  /\ pc \in {"before", "after", "budget", "done", "overBudget", "aborted"}
  /\ result \in Result
  /\ isError \in BOOLEAN
  /\ ran \in {"no", "ok", "failed"}
  /\ hook \in {"absent", "override", "failed"}
  /\ handlerGave \in Result
  /\ hookGave \in Result

\* Whoever speaks last before the budget check decides: the override if the hook
\* made one, else the handler if it succeeded and the hook did not fail; else
\* only the loop's own error text is left.
LastWord ==
  IF hook = "override" THEN hookGave
  ELSE IF ran = "ok" /\ hook = "absent" THEN handlerGave
  ELSE Nothing

\* The run stops early only with consent: a call asks for it only if the party
\* with the last word did, and its summary was within the budget. No internal
\* error of the loop passes a Terminate on.
TerminateNeedsConsent ==
  Ended => (result.stop <=> pc = "done" /\ LastWord.stop)

\* The hint outlives the budget check and nothing else: it is the hint of the
\* party with the last word, never that of a result that was replaced.
HintFollowsPayload ==
  pc \in {"done", "overBudget"} => result.hint = LastWord.hint

\* Nothing over budget reaches the model, the log or the event except the loop's
\* own complaint, not even an override or the deprecated Content field.
OverBudgetNeverShown ==
  /\ pc = "done" => Effective(result) <= MaxSize
  /\ pc = "overBudget" =>
       isError /\ ~result.stop /\ (OverBudget(LastWord) \/ LastWord = Nothing)

\* The call is reported as an error exactly if it was skipped or unknown, its
\* arguments do not decode, or the handler, the hook or the budget check failed; an override does not absolve.
FailureIsError ==
  pc \in {"done", "overBudget"} =>
    (isError <=> ran # "ok" \/ hook = "failed" \/ pc = "overBudget")
=============================================================================
