--------------------------- MODULE ToolCallProofs ---------------------------
(***************************************************************************)
(* Proofs about ToolCall, for every budget and every bound on the length   *)
(* of texts.  The inductive invariant adds to the type invariant what the  *)
(* result is until the budget check has judged it.                         *)
(***************************************************************************)
EXTENDS ToolCall, TLAPS

\* The result is the one of the party with the last word, or the loop's own text.
OwnedResult ==
  /\ pc \in {"before", "after"} => hook = "absent"
  /\ pc = "before" => ran = "no" /\ ~isError /\ result = Nothing
  /\ pc \in {"after", "budget", "done"} =>
       /\ isError <=> ran # "ok" \/ hook = "failed"
       /\ result = LastWord \/ LastWord = Nothing
       /\ result.stop = LastWord.stop
       /\ result.hint = LastWord.hint
  /\ pc = "done" => Effective(result) <= MaxSize
  /\ pc = "overBudget" =>
       /\ isError
       /\ ~result.stop
       /\ result.hint = LastWord.hint
       /\ OverBudget(LastWord) \/ LastWord = Nothing
  /\ pc = "aborted" => ~result.stop

IInv == TypeOK /\ OwnedResult

\* The zero result, and the loop's own, are results that ask for nothing.
LEMMA SyntheticType ==
  ASSUME NEW text \in Text
  PROVE  /\ Synthetic(text) \in Result
         /\ ~Synthetic(text).stop
         /\ ~Synthetic(text).hint
BY ToolCallAssumption DEF ToolCallAssumption, Synthetic, Result, Text

\* The same, of the result that has nothing in it.
LEMMA NothingType ==
  /\ Nothing \in Result
  /\ ~Nothing.stop
  /\ ~Nothing.hint
BY ToolCallAssumption, SyntheticType DEF ToolCallAssumption, Nothing, Text

\* A call starts in the invariant.
LEMMA InitIInv == Init => IInv
<1> SUFFICES ASSUME Init PROVE IInv
  OBVIOUS
<1> QED
  BY NothingType DEF Init, IInv, TypeOK, OwnedResult

\* Every step keeps the types.
LEMMA TypeOKStep == TypeOK /\ [Next]_vars => TypeOK'
<1> SUFFICES ASSUME TypeOK, [Next]_vars PROVE TypeOK'
  OBVIOUS
<1> USE DEF callVars
<1>1. CASE BeforeToolCallFails
  BY <1>1 DEF BeforeToolCallFails, TypeOK
<1>2. ASSUME NEW text \in Text, ErrorResult(text), ran' \in {"no", "ok", "failed"}
      PROVE  TypeOK'
  BY <1>2, SyntheticType DEF ErrorResult, TypeOK
<1>3. CASE Block \/ UnknownTool \/ DecodeFails \/ HandlerFails
  <2>1. ErrorText \subseteq Text
    BY DEF ErrorText, Text
  <2>2. CASE Block
    BY <1>2, <2>1, <2>2 DEF Block, TypeOK
  <2>3. CASE UnknownTool
    BY <1>2, <2>1, <2>3 DEF UnknownTool, TypeOK
  <2>4. CASE DecodeFails
    BY <1>2, <2>1, <2>4 DEF DecodeFails, TypeOK
  <2>5. CASE HandlerFails
    BY <1>2, <2>5 DEF HandlerFails
  <2> QED
    BY <1>3, <2>2, <2>3, <2>4, <2>5
<1>4. CASE HandlerReturns
  <2>1. result' \in Result
    BY <1>4, SyntheticType DEF HandlerReturns
  <2> QED
    BY <1>4, <2>1 DEF HandlerReturns, TypeOK
<1>5. CASE NoOverride
  BY <1>5 DEF NoOverride, TypeOK
<1>6. CASE AfterToolCallFails
  <2>1. result' \in Result
    BY <1>6, SyntheticType DEF AfterToolCallFails, HookFailure, ErrorText, Text
  <2> QED
    BY <1>6, <2>1 DEF AfterToolCallFails, TypeOK
<1>7. CASE AfterToolCallOverrides
  BY <1>7 DEF AfterToolCallOverrides, KeepVerdict, TypeOK
<1>8. CASE Enforce
  <2>1. ASSUME NEW text \in ErrorText PROVE BudgetFailure(text) \in Result
    BY ToolCallAssumption
    DEF ToolCallAssumption, BudgetFailure, Result, ErrorText, Text, TypeOK
  <2>2. result' \in Result
    BY <1>8, <2>1 DEF Enforce
  <2> QED
    BY <1>8, <2>2 DEF Enforce, TypeOK
<1>9. CASE WithinBudget
  BY <1>9 DEF WithinBudget, TypeOK
<1>10. CASE UNCHANGED vars
  BY <1>10 DEF vars, TypeOK
<1> QED
  BY <1>1, <1>3, <1>4, <1>5, <1>6, <1>7, <1>8, <1>9, <1>10 DEF Next, Finished

\* Every step keeps the result with the party that had the last word.
LEMMA OwnedResultStep == IInv /\ [Next]_vars => OwnedResult'
<1> SUFFICES ASSUME IInv, [Next]_vars PROVE OwnedResult'
  OBVIOUS
<1> USE DEF IInv, callVars
<1>1. CASE BeforeToolCallFails
  BY <1>1, NothingType DEF BeforeToolCallFails, OwnedResult
<1>2. ASSUME pc = "before", NEW text \in Text, ErrorResult(text), ran' # "ok"
      PROVE  OwnedResult'
  <2>1. result'.stop = FALSE /\ result'.hint = FALSE
    BY <1>2 DEF ErrorResult, Synthetic
  <2>2. hook' = "absent" /\ LastWord' = Nothing
    BY <1>2 DEF ErrorResult, OwnedResult, LastWord, Nothing, Synthetic
  <2>3. Nothing.stop = FALSE /\ Nothing.hint = FALSE
    BY DEF Nothing, Synthetic
  <2>4. pc' = "after" /\ isError' = TRUE
    BY <1>2 DEF ErrorResult
  <2> QED
    BY <1>2, <2>1, <2>2, <2>3, <2>4 DEF OwnedResult
<1>3. CASE Block \/ UnknownTool \/ DecodeFails \/ HandlerFails
  <2>1. ErrorText \subseteq Text
    BY DEF ErrorText, Text
  <2>2. CASE Block
    BY <1>2, <2>1, <2>2 DEF Block, OwnedResult
  <2>3. CASE UnknownTool
    BY <1>2, <2>1, <2>3 DEF UnknownTool, OwnedResult
  <2>4. CASE DecodeFails
    BY <1>2, <2>1, <2>4 DEF DecodeFails, OwnedResult
  <2>5. CASE HandlerFails
    BY <1>2, <2>5 DEF HandlerFails
  <2> QED
    BY <1>3, <2>2, <2>3, <2>4, <2>5
<1>4. CASE HandlerReturns
  <2>1. hook' = "absent" /\ ran' = "ok" /\ pc' = "after" /\ ~isError'
    BY <1>4 DEF HandlerReturns, OwnedResult
  <2>2. LastWord' = result'
    BY <1>4, <2>1 DEF HandlerReturns, LastWord
  <2> QED
    BY <2>1, <2>2 DEF OwnedResult
<1>5. CASE NoOverride
  BY <1>5 DEF NoOverride, OwnedResult, LastWord
<1>6. CASE AfterToolCallFails
  <2>1. result'.stop = FALSE /\ result'.hint = FALSE
    BY <1>6 DEF AfterToolCallFails, HookFailure, Synthetic
  <2>2. LastWord' = Nothing /\ Nothing.stop = FALSE /\ Nothing.hint = FALSE
    BY <1>6 DEF AfterToolCallFails, LastWord, Nothing, Synthetic
  <2> QED
    BY <1>6, <2>1, <2>2 DEF AfterToolCallFails, OwnedResult
<1>7. CASE AfterToolCallOverrides
  <2>1. LastWord' = result'
    BY <1>7 DEF AfterToolCallOverrides, LastWord
  <2>2. isError' = isError /\ ran' = ran /\ pc' = "budget" /\ hook' = "override"
    BY <1>7 DEF AfterToolCallOverrides, KeepVerdict
  <2>3. isError <=> ran # "ok"
    BY <1>7 DEF AfterToolCallOverrides, OwnedResult
  <2> QED
    BY <2>1, <2>2, <2>3 DEF OwnedResult
<1>8. CASE Enforce
  <2>1. LastWord' = LastWord /\ MaxSize' = MaxSize
    BY <1>8 DEF Enforce, LastWord, MaxSize
  <2>2. result'.stop = FALSE /\ result'.hint = result.hint
    BY <1>8 DEF Enforce, BudgetFailure
  <2>3. OverBudget(LastWord) \/ LastWord = Nothing
    BY <1>8 DEF Enforce, OwnedResult
  <2>4. (OverBudget(LastWord) \/ LastWord = Nothing)'
    BY <2>1, <2>3 DEF OverBudget
  <2>5. result.hint = LastWord.hint
    BY <1>8 DEF Enforce, OwnedResult
  <2> QED
    BY <1>8, <2>1, <2>2, <2>4, <2>5 DEF Enforce, OwnedResult
<1>9. CASE WithinBudget
  <2>1. LastWord' = LastWord /\ MaxSize' = MaxSize
    BY <1>9 DEF WithinBudget, LastWord, MaxSize
  <2>2. Effective(result) \in Nat /\ MaxSize \in Nat
    BY ToolCallAssumption DEF ToolCallAssumption, TypeOK, Effective, MaxSize, Result, Text
  <2>3. Effective(result') <= MaxSize'
    BY <1>9, <2>1, <2>2 DEF WithinBudget, OverBudget
  <2> QED
    BY <1>9, <2>1, <2>3 DEF WithinBudget, OwnedResult
<1>10. CASE UNCHANGED vars
  <2>1. LastWord' = LastWord /\ MaxSize' = MaxSize
    BY <1>10 DEF vars, LastWord, MaxSize
  <2> QED
    BY <1>10, <2>1 DEF vars, OwnedResult, OverBudget
<1> QED
  BY <1>1, <1>3, <1>4, <1>5, <1>6, <1>7, <1>8, <1>9, <1>10 DEF Next, Finished

\* The invariant holds in every state of a call.
LEMMA Inductive == Spec => []IInv
<1>1. IInv /\ [Next]_vars => IInv'
  BY TypeOKStep, OwnedResultStep DEF IInv
<1> QED
  BY InitIInv, <1>1, PTL DEF Spec

\* Type correctness of a call.
THEOREM CallTypeCorrect == Spec => []TypeOK
<1>1. IInv => TypeOK
  BY DEF IInv
<1> QED
  BY Inductive, <1>1, PTL

\* No call ends its run early without the consent of the party that had the last
\* word on its result, whatever failed on the way.
THEOREM StopIsWanted == Spec => []TerminateNeedsConsent
<1>1. IInv => TerminateNeedsConsent
  BY NothingType DEF IInv, TypeOK, OwnedResult, TerminateNeedsConsent, Ended, Result
<1> QED
  BY Inductive, <1>1, PTL

\* What goes to the model, the log and the consumer is within the budget, or is
\* the loop's own complaint.
THEOREM BudgetHolds == Spec => []OverBudgetNeverShown
<1>1. IInv => OverBudgetNeverShown
  BY DEF IInv, OwnedResult, OverBudgetNeverShown
<1> QED
  BY Inductive, <1>1, PTL

\* A hint is shown exactly if the party with the last word gave it.
THEOREM HintIsGiven == Spec => []HintFollowsPayload
<1>1. IInv => HintFollowsPayload
  BY DEF IInv, OwnedResult, HintFollowsPayload
<1> QED
  BY Inductive, <1>1, PTL

\* A call is reported as an error exactly if something went wrong with it.
THEOREM VerdictIsHonest == Spec => []FailureIsError
<1>1. IInv => FailureIsError
  BY DEF IInv, OwnedResult, FailureIsError
<1> QED
  BY Inductive, <1>1, PTL
=============================================================================
