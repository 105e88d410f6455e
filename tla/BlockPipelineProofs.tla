------------------------ MODULE BlockPipelineProofs -------------------------
(***************************************************************************)
(* Every step of the block pipeline keeps the invariants on statuses and   *)
(* on the channels between the stages, for every DAG, every assignment of  *)
(* faults and every sequence of submissions; and its stages implement      *)
(* TaskManager.                                                            *)
(***************************************************************************)
EXTENDS PipelineInvariants, TLAPS

\* The SMT solver is given a minute for each leaf that names no other prover.
USE SMTT(60)

-----------------------------------------------------------------------------
\* What process_header comes to depends on whether the block has a status.
LEMMA HeaderVerdicts ==
    ASSUME NEW b \in Block, NEW k, NEW v \in HeaderOutcomes(b, k), status[b] \in Statuses
    PROVE  /\ v \in Results \cup {"accepted"}
           /\ v \in {"accepted", "RuleError"} => status[b] = "none"
           /\ v \in Known => status[b] # "none"
<1>1. ParentsVerdict(b) \in {"InvalidParent", "MissingParents", "accepted"}
  BY DEF ParentsVerdict
<1>2. ContextOutcome(b, k) \in {"InvalidParent", "MissingParents", "RuleError", "accepted"}
  BY <1>1 DEF ContextOutcome
<1>3. IsolationOutcomes(b) \subseteq {"RuleError", "accepted"}
  BY DEF IsolationOutcomes
<1>4. ValidationOutcomes(b, k) \subseteq {"InvalidParent", "MissingParents", "RuleError", "accepted"}
  BY <1>2, <1>3 DEF ValidationOutcomes
<1>5. CASE status[b] = "none"
  <2>1. HeaderOutcomes(b, k) = ValidationOutcomes(b, k)
    BY <1>5 DEF HeaderOutcomes, Known, HasBody
  <2> QED BY <1>4, <1>5, <2>1 DEF Results, Errors, Known, HasBody
<1>6. CASE status[b] = "Invalid"
  BY <1>6 DEF HeaderOutcomes, Results, Errors, Known, HasBody
<1>7. CASE status[b] \in Known
  BY <1>7 DEF HeaderOutcomes, Results, Errors, Known, HasBody
<1> QED BY <1>5, <1>6, <1>7 DEF Statuses

\* What process_body comes to for a block that has a header.
LEMMA BodyVerdicts ==
    ASSUME NEW b \in Block, NEW k, status[b] \in Statuses, status[b] # "none"
    PROVE  /\ BodyVerdict(b, k) \in Results \cup {"accepted"}
           /\ BodyVerdict(b, k) = "RuleError" => status[b] = "HeaderOnly" /\ BodyFault[b] # "none"
           /\ BodyVerdict(b, k) = "accepted" =>
                 status[b] = "HeaderOnly" /\ (k # "trusted" => ~ParentBodyMissing(b))
<1>1. /\ ValidateBodyVerdict(b, k) \in {"RuleError", "accepted", "MissingParents"}
      /\ ValidateBodyVerdict(b, k) = "RuleError" => BodyFault[b] # "none"
      /\ ValidateBodyVerdict(b, k) = "accepted" /\ k # "trusted" => ~ParentBodyMissing(b)
  BY DEF ValidateBodyVerdict
<1>2. CASE status[b] = "HeaderOnly"
  BY <1>1, <1>2 DEF BodyVerdict, Results, Errors, Known, HasBody
<1>3. CASE status[b] # "HeaderOnly"
  BY <1>3 DEF BodyVerdict, Statuses, Results, Errors, Known, HasBody
<1> QED BY <1>2, <1>3

\* The task of a body closure is the head of the queue of its block, so that the block was
\* forwarded and has a header.
LEMMA BodyClosureHasHeader ==
    ASSUME StatusInv, StageInv, NEW b \in bTaken
    PROVE  b \in Block /\ status[b] \in Statuses \ {"none"}
BY DEF StatusInv, StoreTypes, ForwardInv, StageInv

-----------------------------------------------------------------------------
\* A step that leaves statuses, outcomes and the body stage's channel alone.
LEMMA FrameStatus ==
    ASSUME StatusInv, UNCHANGED <<status, hRes, bRes, bSent>>
    PROVE  StatusInv' /\ Advances
BY DEF StatusInv, StoreTypes, ClosureInv, ForwardInv, OnlyFaultyMarkedInvalid, Advances

\* process_header up to its commit writes a status only for a failed post_pow_validation.
LEMMA ValidateHeaderStatus ==
    ASSUME StatusInv, NEW b \in Block, ValidateHeader(b)
    PROVE  StatusInv' /\ Advances
<1>1. PICK v \in HeaderOutcomes(b, kind[Head(hQueue[b])]) :
         /\ hRes' = [hRes EXCEPT ![b] = v]
         /\ status' = IF v = "RuleError" /\ HeaderFault[b] = "post_pow"
                      THEN [status EXCEPT ![b] = "Invalid"] ELSE status
  BY ZenonT(60) DEF ValidateHeader
<1>2. UNCHANGED <<bRes, bSent>>
  BY DEF ValidateHeader, bVars
<1>3. /\ v \in Results \cup {"accepted"}
      /\ v \in {"accepted", "RuleError"} => status[b] = "none"
      /\ v \in Known => status[b] # "none"
  BY HeaderVerdicts DEF StatusInv, StoreTypes
<1>4. StoreTypes'
  BY <1>1, <1>2, <1>3 DEF StatusInv, StoreTypes, Statuses
<1>5. CASE status' = status
  <2>1. ClosureInv'
    BY <1>1, <1>2, <1>3, <1>5 DEF StatusInv, StoreTypes, ClosureInv
  <2> QED BY <1>2, <1>4, <1>5, <2>1 DEF StatusInv, ForwardInv, OnlyFaultyMarkedInvalid, Advances
<1>6. CASE v = "RuleError" /\ HeaderFault[b] = "post_pow"
  <2>1. status' = [status EXCEPT ![b] = "Invalid"] /\ status[b] = "none"
    BY <1>1, <1>3, <1>6
  <2>2. ClosureInv'
    BY <1>1, <1>2, <1>6, <2>1 DEF StatusInv, StoreTypes, ClosureInv, Known, HasBody
  <2>3. ForwardInv'
    BY <1>2, <2>1 DEF StatusInv, StoreTypes, ForwardInv
  <2>4. OnlyFaultyMarkedInvalid'
    BY <1>6, <2>1 DEF StatusInv, StoreTypes, OnlyFaultyMarkedInvalid
  <2>5. Advances
    BY <2>1 DEF StatusInv, StoreTypes, Advances
  <2> QED BY <1>4, <2>2, <2>3, <2>4, <2>5 DEF StatusInv
<1> QED BY <1>1, <1>5, <1>6

\* commit_header finds the status store as process_header saw it.
LEMMA CommitHeaderStatus ==
    ASSUME StatusInv, NEW b \in Block, CommitHeader(b)
    PROVE  StatusInv' /\ Advances
<1>1. /\ status[b] = "none" /\ status' = [status EXCEPT ![b] = "HeaderOnly"]
      /\ hRes' = [hRes EXCEPT ![b] = "HeaderOnly"] /\ UNCHANGED <<bRes, bSent>>
  BY DEF CommitHeader, StatusInv, ClosureInv, bVars
<1>2. StoreTypes'
  BY <1>1 DEF StatusInv, StoreTypes, Statuses, Results, Known
<1>3. ClosureInv'
  BY <1>1 DEF StatusInv, StoreTypes, ClosureInv
<1>4. ForwardInv'
  BY <1>1 DEF StatusInv, StoreTypes, ForwardInv
<1>5. OnlyFaultyMarkedInvalid'
  BY <1>1 DEF StatusInv, StoreTypes, OnlyFaultyMarkedInvalid
<1>6. Advances
  BY <1>1 DEF StatusInv, StoreTypes, Advances
<1> QED BY <1>2, <1>3, <1>4, <1>5, <1>6 DEF StatusInv

\* The callback forwards no task whose block has no header.
LEMMA EndHeaderStatus ==
    ASSUME StatusInv, StageInv, NEW b \in Block, EndHeader(b)
    PROVE  StatusInv' /\ Advances
<1>1. /\ UNCHANGED <<status, bRes>> /\ hRes' = [hRes EXCEPT ![b] = "none"]
      /\ bSent' = bSent \/ (bSent' = Append(bSent, b) /\ hRes[b] \notin Errors)
  BY DEF EndHeader, stores, AnswersAtHeader, B!Send
<1>2. bSent \in Seq(Block \cup {ExitMsg})
  BY DEF StageInv
<1>3. hRes[b] \notin Errors => status[b] # "none"
  BY DEF EndHeader, Results, StatusInv, ClosureInv
<1>4. ForwardInv'
  BY <1>1, <1>2, <1>3 DEF StatusInv, ForwardInv
<1>5. StoreTypes' /\ ClosureInv'
  BY <1>1 DEF StatusInv, StoreTypes, ClosureInv, Known, HasBody
<1> QED BY <1>1, <1>4, <1>5 DEF StatusInv, OnlyFaultyMarkedInvalid, Advances

\* process_body up to its commit marks a block invalid for a fault of its own.
LEMMA ValidateBodyStatus ==
    ASSUME StatusInv, StageInv, NEW b \in Block, ValidateBody(b)
    PROVE  StatusInv' /\ Advances
<1> DEFINE v == BodyVerdict(b, kind[fwd[Head(bQueue[b])]])
<1>1. /\ bRes' = [bRes EXCEPT ![b] = v] /\ UNCHANGED <<hRes, bSent>>
      /\ status' = IF v = "RuleError" THEN [status EXCEPT ![b] = "Invalid"] ELSE status
  BY DEF ValidateBody, MarksInvalid, bVars
<1>2. status[b] \in Statuses \ {"none"}
  BY BodyClosureHasHeader DEF ValidateBody
<1>3. /\ v \in Results \cup {"accepted"}
      /\ v = "RuleError" => status[b] = "HeaderOnly" /\ BodyFault[b] # "none"
      /\ v = "accepted" => status[b] = "HeaderOnly"
  BY <1>2, BodyVerdicts
<1> HIDE DEF v
<1>4. StoreTypes'
  BY <1>1, <1>3 DEF StatusInv, StoreTypes, Statuses
<1>5. CASE v # "RuleError"
  <2>1. ClosureInv'
    BY <1>1, <1>3, <1>5 DEF StatusInv, StoreTypes, ClosureInv
  <2> QED BY <1>1, <1>4, <1>5, <2>1 DEF StatusInv, ForwardInv, OnlyFaultyMarkedInvalid, Advances
<1>6. CASE v = "RuleError"
  <2>1. /\ status' = [status EXCEPT ![b] = "Invalid"]
        /\ status[b] = "HeaderOnly" /\ BodyFault[b] # "none"
    BY <1>1, <1>3, <1>6
  <2>2. ClosureInv'
    BY <1>1, <1>6, <2>1 DEF StatusInv, StoreTypes, ClosureInv
  <2>3. ForwardInv'
    BY <1>1, <2>1 DEF StatusInv, StoreTypes, ForwardInv
  <2>4. OnlyFaultyMarkedInvalid'
    BY <2>1 DEF StatusInv, StoreTypes, OnlyFaultyMarkedInvalid
  <2>5. Advances
    BY <2>1 DEF StatusInv, StoreTypes, Advances
  <2> QED BY <1>4, <2>2, <2>3, <2>4, <2>5 DEF StatusInv
<1> QED BY <1>5, <1>6

\* commit_body finds the block header-only, as process_body saw it.
LEMMA CommitBodyStatus ==
    ASSUME StatusInv, NEW b \in Block, CommitBody(b)
    PROVE  StatusInv' /\ Advances
<1>1. /\ status[b] = "HeaderOnly" /\ status' = [status EXCEPT ![b] = "Pending"]
      /\ bRes' = [bRes EXCEPT ![b] = "Pending"] /\ UNCHANGED <<hRes, bSent>>
  BY DEF CommitBody, StatusInv, ClosureInv, bVars
<1>2. StoreTypes'
  BY <1>1 DEF StatusInv, StoreTypes, Statuses, Results, Known, HasBody
<1>3. ClosureInv'
  BY <1>1 DEF StatusInv, StoreTypes, ClosureInv
<1>4. ForwardInv'
  BY <1>1 DEF StatusInv, StoreTypes, ForwardInv
<1>5. OnlyFaultyMarkedInvalid'
  BY <1>1 DEF StatusInv, StoreTypes, OnlyFaultyMarkedInvalid
<1>6. Advances
  BY <1>1 DEF StatusInv, StoreTypes, Advances
<1> QED BY <1>2, <1>3, <1>4, <1>5, <1>6 DEF StatusInv

\* resolve_virtual decides about pending blocks only.
LEMMA VirtualResolveStatus ==
    ASSUME StatusInv, VirtualResolve
    PROVE  StatusInv' /\ Advances
<1>1. PICK verified \in [{b \in Block : status[b] = "Pending"} -> {"Pending", "Valid", "Disqualified"}] :
         status' = [b \in Block |-> IF status[b] = "Pending" THEN verified[b] ELSE status[b]]
  BY ZenonT(60) DEF VirtualResolve
<1>2. /\ UNCHANGED <<hRes, bRes, bSent>>
      /\ \A b \in Block : \/ status'[b] = status[b]
                          \/ status[b] = "Pending" /\ status'[b] \in {"Valid", "Disqualified"}
  BY <1>1 DEF VirtualResolve, bVars
<1>3. StoreTypes'
  BY <1>1, <1>2 DEF StatusInv, StoreTypes, Statuses, Known, HasBody
<1>4. ClosureInv' /\ ForwardInv'
  BY <1>2 DEF StatusInv, ClosureInv, ForwardInv
<1>5. OnlyFaultyMarkedInvalid' /\ Advances
  BY <1>2 DEF StatusInv, OnlyFaultyMarkedInvalid, Advances
<1> QED BY <1>3, <1>4, <1>5 DEF StatusInv

\* Every step keeps the invariant and moves statuses forward only.
LEMMA StatusStep ==
    ASSUME StatusInv, StageInv, [Next]_vars
    PROVE  StatusInv' /\ Advances
<1>1. ASSUME NEW offer \in Offered, Submit(offer[1], offer[2])
      PROVE  UNCHANGED <<status, hRes, bRes, bSent>>
  BY <1>1 DEF Submit, stores, bVars
<1>2. CASE SignalExit \/ HeaderReceive \/ BodyWorker \/ VirtualReceive
  <2>1. UNCHANGED <<status, hRes, bRes, bSent>>
    BY ZenonT(60), <1>2 DEF SignalExit, HeaderReceive, BodyWorker, BodyReceive, BodyPassExit, VirtualReceive, stores, bVars
  <2> QED BY <2>1, FrameStatus
<1>3. CASE HeaderPassExit
  <2>1. UNCHANGED <<status, hRes, bRes>> /\ bSent' = Append(bSent, ExitMsg)
    BY <1>3 DEF HeaderPassExit, stores, B!Send
  <2>2. bSent \in Seq(Block \cup {ExitMsg})
    BY DEF StageInv
  <2>3. ForwardInv'
    BY <2>1, <2>2, ExitAssumption DEF StatusInv, ForwardInv
  <2> QED BY <2>1, <2>3 DEF StatusInv, StoreTypes, ClosureInv, OnlyFaultyMarkedInvalid, Advances
<1>4. ASSUME NEW b \in Block, HeaderTryBegin(b) \/ BodyTryBegin(b)
      PROVE  UNCHANGED <<status, hRes, bRes, bSent>>
  BY <1>4 DEF HeaderTryBegin, BodyTryBegin, stores, bVars
<1>5. ASSUME NEW b \in Block, EndBody(b)
      PROVE  StatusInv' /\ Advances
  <2>1. UNCHANGED <<status, hRes, bSent>> /\ bRes' = [bRes EXCEPT ![b] = "none"]
    BY <1>5 DEF EndBody, stores
  <2> QED BY <2>1 DEF StatusInv, StoreTypes, ClosureInv, ForwardInv, OnlyFaultyMarkedInvalid, Advances
<1>6. CASE UNCHANGED vars
  <2>1. UNCHANGED <<status, hRes, bRes, bSent>>
    BY <1>6 DEF vars, stores, bVars
  <2> QED BY <2>1, FrameStatus
<1> QED BY <1>1, <1>2, <1>3, <1>4, <1>5, <1>6, FrameStatus, ValidateHeaderStatus, CommitHeaderStatus,
           EndHeaderStatus, ValidateBodyStatus, CommitBodyStatus, VirtualResolveStatus
        DEF Next, HeaderWorker, VirtualWorker, HeaderClosure, BodyClosure

-----------------------------------------------------------------------------
\* The stages and their task managers.

\* The state of the header stage's manager is written by submissions, its own worker and
\* its own closures only.
LEMMA HStep == [Next]_vars => [H!Next]_(H!vars)
<1> SUFFICES ASSUME [Next]_vars PROVE [H!Next]_(H!vars)
  OBVIOUS
<1>1. ASSUME NEW offer \in Offered, Submit(offer[1], offer[2]) PROVE H!Next
  <2>1. offer[1] \in Block
    BY OfferedAssumption
  <2> QED BY <1>1, <2>1 DEF Submit, H!Next, H!Submit
<1>2. CASE SignalExit
  BY <1>2 DEF SignalExit, H!Next, H!Submit
<1>3. CASE HeaderWorker
  BY <1>3 DEF HeaderWorker, HeaderReceive, HeaderPassExit, H!Next, H!WorkerStep
<1>4. CASE BodyWorker \/ VirtualWorker
  BY <1>4 DEF BodyWorker, BodyReceive, BodyPassExit, VirtualWorker, VirtualReceive, VirtualResolve, hVars, H!vars
<1>5. ASSUME NEW b \in Block, HeaderTryBegin(b) \/ EndHeader(b) PROVE H!Next
  BY <1>5 DEF HeaderTryBegin, EndHeader, H!Next, H!ClosureStep
<1>6. ASSUME NEW b \in Block, ValidateHeader(b) \/ CommitHeader(b) \/ BodyClosure(b) PROVE UNCHANGED H!vars
  BY ZenonT(60), <1>6 DEF ValidateHeader, CommitHeader, BodyClosure,
     BodyTryBegin, ValidateBody, CommitBody, EndBody, hVars, H!vars
<1>7. CASE UNCHANGED vars
  BY <1>7 DEF vars, hVars, H!vars
<1> QED BY <1>1, <1>2, <1>3, <1>4, <1>5, <1>6, <1>7 DEF Next, HeaderClosure

\* The body stage is sent tasks by the closures of the header stage, and Exit by its
\* worker.
LEMMA BStep == [Next]_vars => [B!Next]_(B!vars)
<1> SUFFICES ASSUME [Next]_vars PROVE [B!Next]_(B!vars)
  OBVIOUS
<1>1. ASSUME NEW offer \in Offered, Submit(offer[1], offer[2]) PROVE UNCHANGED B!vars
  BY <1>1 DEF Submit, bVars, B!vars
<1>2. CASE SignalExit \/ HeaderReceive \/ VirtualWorker
  BY <1>2 DEF SignalExit, HeaderReceive, VirtualWorker, VirtualReceive, VirtualResolve, bVars, B!vars
<1>3. CASE HeaderPassExit
  BY <1>3 DEF HeaderPassExit, B!Next, B!Submit
<1>4. CASE BodyWorker
  BY <1>4 DEF BodyWorker, BodyReceive, BodyPassExit, BodyExits, B!Next, B!WorkerStep
<1>5. ASSUME NEW b \in Block, EndHeader(b) PROVE B!Next \/ UNCHANGED B!vars
  BY <1>5 DEF EndHeader, B!Next, B!Submit, B!vars
<1>6. ASSUME NEW b \in Block, BodyTryBegin(b) \/ EndBody(b) PROVE B!Next
  BY <1>6 DEF BodyTryBegin, EndBody, B!Next, B!ClosureStep
<1>7. ASSUME NEW b \in Block,
             HeaderTryBegin(b) \/ ValidateHeader(b) \/ CommitHeader(b) \/ ValidateBody(b) \/ CommitBody(b)
      PROVE  UNCHANGED B!vars
  BY <1>7 DEF HeaderTryBegin, ValidateHeader, CommitHeader, ValidateBody, CommitBody, bVars, B!vars
<1>8. CASE UNCHANGED vars
  BY <1>8 DEF vars, bVars, B!vars
<1> QED BY <1>1, <1>2, <1>3, <1>4, <1>5, <1>6, <1>7, <1>8 DEF Next, HeaderWorker, HeaderClosure, BodyClosure

\* Both stages of the pipeline implement the task manager: register, try_begin and end
\* are all that header and body processors do to it.
THEOREM StagesImplementTaskManager == Spec => StagesAreTaskManagers
<1>1. Init => H!Init /\ B!Init
  BY DEF Init
<1> QED BY <1>1, HStep, BStep, PTL DEF Spec, H!Spec, B!Spec, StagesAreTaskManagers

-----------------------------------------------------------------------------
\* Submissions and forwards keep the links.
LEMMA LinkStep ==
    ASSUME LinkInv, StageInv, [Next]_vars
    PROVE  LinkInv'
<1>0. hSent \in Seq(Block \cup {ExitMsg}) /\ bSent \in Seq(Block \cup {ExitMsg})
  BY DEF StageInv
<1>1. ASSUME UNCHANGED <<hSent, bSent, kind, fwd>> PROVE LinkInv'
  BY <1>1 DEF LinkInv
<1>2. ASSUME NEW offer \in Offered, Submit(offer[1], offer[2]) PROVE LinkInv'
  <2>1. offer[1] \in Block /\ offer[2] \in TaskKinds
    BY OfferedAssumption
  <2>2. /\ hSent' = Append(hSent, offer[1]) /\ kind' = Append(kind, offer[2])
        /\ UNCHANGED <<bSent, fwd>>
    BY <1>2 DEF Submit, H!Send, bVars
  <2>3. kind' \in Seq(Kinds) /\ Len(kind') = Len(hSent')
    BY <1>0, <2>1, <2>2 DEF LinkInv, Kinds
  <2>4. \A i \in DOMAIN hSent' : hSent'[i] \in Block <=> kind'[i] # "exit"
    BY <1>0, <2>1, <2>2 DEF LinkInv, TaskKinds
  <2>5. \A i \in DOMAIN hSent : i \in DOMAIN hSent' /\ hSent'[i] = hSent[i]
    BY <1>0, <2>1, <2>2
  <2> QED BY <2>2, <2>3, <2>4, <2>5 DEF LinkInv
<1>3. CASE SignalExit
  <2>1. hSent' = Append(hSent, ExitMsg) /\ kind' = Append(kind, "exit") /\ UNCHANGED <<bSent, fwd>>
    BY <1>3 DEF SignalExit, H!Send, bVars
  <2>2. \A i \in DOMAIN hSent : i \in DOMAIN hSent' /\ hSent'[i] = hSent[i]
    BY <1>0, <2>1
  <2>3. kind' \in Seq(Kinds) /\ Len(kind') = Len(hSent')
    BY <1>0, <2>1 DEF LinkInv, Kinds
  <2>4. \A i \in DOMAIN hSent' : hSent'[i] \in Block <=> kind'[i] # "exit"
    BY <1>0, <2>1, ExitAssumption DEF LinkInv
  <2> QED BY <2>1, <2>2, <2>3, <2>4 DEF LinkInv
<1>4. CASE HeaderPassExit
  <2>1. bSent' = Append(bSent, ExitMsg) /\ fwd' = Append(fwd, 0) /\ UNCHANGED <<hSent, kind>>
    BY <1>4 DEF HeaderPassExit, B!Send
  <2>2. fwd' \in Seq(Nat) /\ Len(fwd') = Len(bSent')
    BY <1>0, <2>1 DEF LinkInv
  <2>3. \A i \in DOMAIN bSent' : bSent'[i] \in Block =>
           i \in DOMAIN bSent /\ bSent'[i] = bSent[i] /\ fwd'[i] = fwd[i]
    BY <1>0, <2>1, ExitAssumption DEF LinkInv
  <2> QED BY <2>1, <2>2, <2>3 DEF LinkInv
<1>5. ASSUME NEW b \in Block, EndHeader(b) PROVE LinkInv'
  <2>1. UNCHANGED <<hSent, kind>> /\ b \in hTaken
    BY ZenonT(60), <1>5 DEF EndHeader, H!End
  <2>2. CASE UNCHANGED <<bSent, fwd>>
    BY <1>1, <2>1, <2>2
  <2>3. CASE bSent' = Append(bSent, b) /\ fwd' = Append(fwd, Head(hQueue[b]))
    <3>1. Head(hQueue[b]) \in DOMAIN hSent /\ hSent[Head(hQueue[b])] = b /\ Head(hQueue[b]) \in Nat
      BY <2>1, <1>0 DEF StageInv
    <3>2. fwd' \in Seq(Nat) /\ Len(fwd') = Len(bSent')
      BY <1>0, <2>3, <3>1 DEF LinkInv
    <3>3. \A i \in DOMAIN bSent' :
             \/ i \in DOMAIN bSent /\ bSent'[i] = bSent[i] /\ fwd'[i] = fwd[i]
             \/ bSent'[i] = b /\ fwd'[i] = Head(hQueue[b])
      BY <1>0, <2>3, <3>1 DEF LinkInv
    <3> QED BY ZenonT(60), <2>1, <3>1, <3>2, <3>3 DEF LinkInv
  <2> QED BY <1>5, <2>2, <2>3 DEF EndHeader, B!Send
<1>6. CASE HeaderReceive \/ BodyWorker \/ VirtualWorker
  BY <1>1, <1>6 DEF HeaderReceive, BodyWorker, BodyReceive, BodyPassExit, VirtualWorker, VirtualReceive,
     VirtualResolve, hVars, bVars
<1>7. ASSUME NEW b \in Block,
             HeaderTryBegin(b) \/ ValidateHeader(b) \/ CommitHeader(b) \/ BodyClosure(b)
      PROVE  LinkInv'
  BY ZenonT(60), <1>1, <1>7 DEF HeaderTryBegin, ValidateHeader, CommitHeader, BodyClosure, BodyTryBegin, ValidateBody,
     CommitBody, EndBody, hVars, bVars
<1>8. CASE UNCHANGED vars
  BY <1>1, <1>8 DEF vars, hVars, bVars
<1> QED BY <1>2, <1>3, <1>4, <1>5, <1>6, <1>7, <1>8 DEF Next, HeaderWorker, HeaderClosure

\* What has a header keeps it, and the channel of the header stage only grows.
LEMMA HasStatusKept ==
    ASSUME StatusInv, StageInv, [Next]_vars, Advances, NEW t, HasStatus(t)
    PROVE  HasStatus(t)'
<1>1. hSent' = hSent \/ \E msg \in Block \cup {ExitMsg} : hSent' = Append(hSent, msg)
  BY HStep DEF H!Next, H!Submit, H!Send, H!WorkerStep, H!ClosureStep, H!vars
<1>2. hSent \in Seq(Block \cup {ExitMsg})
  BY DEF StageInv
<1>3. t \in DOMAIN hSent' /\ hSent'[t] = hSent[t]
  BY <1>1, <1>2 DEF HasStatus
<1>4. status'[hSent[t]] # "none"
  BY DEF Advances, HasStatus
<1> QED BY <1>3, <1>4 DEF HasStatus

\* EndBody sends the virtual processor tasks of blocks with a header only.
LEMMA VirtualStep ==
    ASSUME VirtualInv, LinkInv, StatusInv, StageInv, [Next]_vars
    PROVE  VirtualInv'
<1>1. Advances
  BY StatusStep
<1>2. \A t : HasStatus(t) => HasStatus(t)'
  BY <1>1, HasStatusKept
<1>3. ASSUME UNCHANGED vVars PROVE VirtualInv'
  BY <1>2, <1>3 DEF VirtualInv, vVars
<1>4. ASSUME NEW t \in Nat, t # 0 => HasStatus(t), vSent' = Append(vSent, t), UNCHANGED <<vRecv, vBatch>>
      PROVE  VirtualInv'
  <2>1. vSent' \in Seq(Nat) /\ vRecv' \in Nat /\ vBatch' \in Seq(Nat)
    BY <1>4 DEF VirtualInv
  <2>2. \A i \in DOMAIN vSent' : vSent'[i] = t \/ (i \in DOMAIN vSent /\ vSent'[i] = vSent[i])
    BY <1>4 DEF VirtualInv
  <2> QED BY <1>2, <1>4, <2>1, <2>2 DEF VirtualInv
<1>5. CASE BodyPassExit
  BY <1>4, <1>5 DEF BodyPassExit
<1>6. ASSUME NEW b \in Block, EndBody(b) PROVE VirtualInv'
  <2> DEFINE t == fwd[Head(bQueue[b])]
  <2>1. b \in bTaken
    BY <1>6 DEF EndBody, B!End
  <2>2. Head(bQueue[b]) \in DOMAIN bSent /\ bSent[Head(bQueue[b])] = b
    BY <2>1 DEF StageInv
  <2>3. t \in DOMAIN hSent /\ hSent[t] = b
    BY <2>2 DEF LinkInv
  <2>4. status[b] # "none"
    BY <2>1, BodyClosureHasHeader
  <2>5. hSent \in Seq(Block \cup {ExitMsg})
    BY DEF StageInv
  <2>6. t \in Nat /\ HasStatus(t)
    BY <2>3, <2>4, <2>5 DEF HasStatus
  <2>7. UNCHANGED <<vRecv, vBatch>> /\ (vSent' = vSent \/ vSent' = Append(vSent, t))
    BY <1>6 DEF EndBody
  <2> HIDE DEF t
  <2>8. CASE vSent' = vSent
    BY <1>2, <2>7, <2>8 DEF VirtualInv
  <2> QED BY <1>4, <2>6, <2>7, <2>8
<1>7. CASE VirtualReceive
  <2>1. vSent' = vSent /\ vRecv < Len(vSent)
    BY <1>7 DEF VirtualReceive
  <2>2. CASE vBatch' = vBatch /\ vRecv' = vRecv + 1
    BY <1>2, <2>1, <2>2 DEF VirtualInv
  <2>3. CASE vBatch' = SubSeq(vSent, vRecv + 1, Len(vSent)) /\ vRecv' = Len(vSent)
    <3>1. vBatch' \in Seq(Nat) /\ vRecv' \in Nat
      BY <2>1, <2>3 DEF VirtualInv
    <3>2. \A i \in DOMAIN vBatch' : vRecv + i \in DOMAIN vSent /\ vBatch'[i] = vSent[vRecv + i]
      BY <2>1, <2>3 DEF VirtualInv
    <3> QED BY <1>2, <2>1, <3>1, <3>2 DEF VirtualInv
  <2> QED BY <1>7, <2>2, <2>3 DEF VirtualReceive
<1>8. CASE VirtualResolve
  <2>1. vBatch' = <<>> /\ UNCHANGED <<vSent, vRecv>>
    BY <1>8 DEF VirtualResolve
  <2> QED BY <1>2, <2>1 DEF VirtualInv
<1>9. ASSUME NEW offer \in Offered, Submit(offer[1], offer[2]) PROVE UNCHANGED vVars
  BY <1>9 DEF Submit
<1>10. CASE SignalExit \/ HeaderWorker \/ BodyReceive
  BY <1>3, <1>10 DEF SignalExit, HeaderWorker, HeaderReceive, HeaderPassExit, BodyReceive
<1>11. ASSUME NEW b \in Block,
              HeaderClosure(b) \/ BodyTryBegin(b) \/ ValidateBody(b) \/ CommitBody(b)
       PROVE  UNCHANGED vVars
  BY ZenonT(60), <1>11 DEF HeaderClosure, HeaderTryBegin, ValidateHeader, CommitHeader, EndHeader,
     BodyTryBegin, ValidateBody, CommitBody
<1>12. CASE UNCHANGED vars
  BY <1>3, <1>12 DEF vars
<1> QED BY <1>3, <1>5, <1>6, <1>7, <1>8, <1>9, <1>10, <1>11, <1>12
        DEF Next, BodyWorker, VirtualWorker, BodyClosure

=============================================================================
