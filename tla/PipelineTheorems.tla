-------------------------- MODULE PipelineTheorems --------------------------
(***************************************************************************)
(* What is proved of BlockPipeline.  The stages implement TaskManager, so  *)
(* what TaskManagerProofs proves holds of both; HP and BP name its         *)
(* definitions for them.                                                   *)
(***************************************************************************)
EXTENDS BlockPipelineProofs, PipelineOrderProofs

\* The SMT solver is given a minute for each leaf that names no other prover.
USE SMTT(60)

\* A step that adds no body keeps everything about bodies.
LEMMA SameBodies ==
    ASSUME TipsInv, UNCHANGED <<kind, tips>>,
           \A b \in Block : status'[b] \in HasBody <=> status[b] \in HasBody,
           \A b \in Block : bRes'[b] = "accepted" => bRes[b] = "accepted" \/ ~ParentBodyMissing(b)
    PROVE  TipsInv'
<1>1. \A b \in Block : ~ParentBodyMissing(b) => ~ParentBodyMissing(b)'
  BY ParentsAssumption DEF ParentBodyMissing
<1>2. BodiesAreClosed'
  BY ParentsAssumption DEF TipsInv, BodiesAreClosed
<1>3. TipsAreMaximal'
  BY ParentsAssumption DEF TipsInv, TipsAreMaximal
<1> QED BY <1>1, <1>2, <1>3 DEF TipsInv

\* commit_body and add_tip_batch.
LEMMA CommitBodyTips ==
    ASSUME TipsInv, StatusInv, NEW b \in Block, CommitBody(b)
    PROVE  TipsInv'
<1>1. /\ status[b] = "HeaderOnly" /\ status' = [status EXCEPT ![b] = "Pending"]
      /\ bRes' = [bRes EXCEPT ![b] = "Pending"] /\ UNCHANGED kind
      /\ tips' = (tips \ Parents[b]) \cup {b} /\ ~ParentBodyMissing(b)
  BY DEF CommitBody, NewTips, StatusInv, ClosureInv, TipsInv
<1>2. \A c \in Block : status'[c] \in HasBody <=> c = b \/ status[c] \in HasBody
  BY <1>1 DEF StatusInv, StoreTypes, HasBody
<1>3. status[b] \notin HasBody /\ \A p \in Parents[b] : status[p] \in HasBody
  BY <1>1 DEF HasBody, ParentBodyMissing
<1>4. BodiesAreClosed'
  BY <1>2, <1>3, ParentsAssumption DEF TipsInv, BodiesAreClosed
<1>5. \A c \in Block : status[c] \in HasBody => b \notin Parents[c]
  BY <1>3 DEF TipsInv, BodiesAreClosed
<1>6. b \notin Parents[b]
  BY <1>3
<1>7. TipsAreMaximal'
  BY <1>1, <1>2, <1>3, <1>5, <1>6, ParentsAssumption DEF TipsInv, TipsAreMaximal
<1>8. \A c \in Block : bRes'[c] = "accepted" => ~ParentBodyMissing(c)'
  <2> SUFFICES ASSUME NEW c \in Block, bRes'[c] = "accepted" PROVE ~ParentBodyMissing(c)'
    OBVIOUS
  <2>1. ~ParentBodyMissing(c)
    BY <1>1 DEF TipsInv, StatusInv, StoreTypes
  <2> QED BY <2>1, <1>2, ParentsAssumption DEF ParentBodyMissing
<1> QED BY <1>1, <1>4, <1>7, <1>8 DEF TipsInv

\* Every step keeps the tips right when no task is trusted.
LEMMA TipsStep ==
    ASSUME NoTrusted, TipsInv, LinkInv, StatusInv, StageInv, [Next]_vars
    PROVE  TipsInv'
<1>1. ASSUME UNCHANGED <<kind, tips, status, bRes>> PROVE TipsInv'
  BY <1>1, SameBodies
<1>2. ASSUME NEW offer \in Offered, Submit(offer[1], offer[2]) PROVE TipsInv'
  <2>1. kind' = Append(kind, offer[2]) /\ offer[2] # "trusted" /\ UNCHANGED <<tips, status, bRes>>
    BY <1>2 DEF Submit, stores, NoTrusted
  <2>2. \A i \in DOMAIN kind' : kind'[i] # "trusted"
    BY <2>1, OfferedAssumption DEF LinkInv, TipsInv, Kinds
  <2> QED BY <2>1, <2>2 DEF TipsInv, ParentBodyMissing, BodiesAreClosed, TipsAreMaximal
<1>3. CASE HeaderWorker \/ BodyWorker \/ VirtualReceive
  BY <1>1, <1>3 DEF HeaderWorker, HeaderReceive, HeaderPassExit, BodyWorker, BodyReceive,
     BodyPassExit, VirtualReceive, stores
<1>4. ASSUME NEW b \in Block, HeaderTryBegin(b) \/ EndHeader(b) \/ BodyTryBegin(b) PROVE TipsInv'
  BY <1>1, <1>4 DEF HeaderTryBegin, EndHeader, BodyTryBegin, stores
<1>5. ASSUME NEW b \in Block, ValidateHeader(b) PROVE TipsInv'
  <2>1. PICK v \in HeaderOutcomes(b, kind[Head(hQueue[b])]) :
           status' = IF v = "RuleError" /\ HeaderFault[b] = "post_pow"
                     THEN [status EXCEPT ![b] = "Invalid"] ELSE status
    BY <1>5 DEF ValidateHeader
  <2>2. v = "RuleError" => status[b] = "none"
    BY HeaderVerdicts DEF StatusInv, StoreTypes
  <2>3. \A c \in Block : status'[c] \in HasBody <=> status[c] \in HasBody
    BY <2>1, <2>2 DEF StatusInv, StoreTypes, HasBody
  <2>4. UNCHANGED <<kind, tips, bRes>>
    BY <1>5 DEF ValidateHeader
  <2> QED BY ZenonT(60), <2>3, <2>4, SameBodies
<1>6. ASSUME NEW b \in Block, CommitHeader(b) PROVE TipsInv'
  <2>1. /\ status[b] = "none" /\ status' = [status EXCEPT ![b] = "HeaderOnly"]
        /\ UNCHANGED <<kind, tips, bRes>>
    BY <1>6 DEF CommitHeader, StatusInv, ClosureInv
  <2>2. \A c \in Block : status'[c] \in HasBody <=> status[c] \in HasBody
    BY <2>1 DEF StatusInv, StoreTypes, HasBody
  <2> QED BY <2>1, <2>2, SameBodies
<1>7. ASSUME NEW b \in Block, ValidateBody(b) PROVE TipsInv'
  <2> DEFINE k == kind[fwd[Head(bQueue[b])]]
             v == BodyVerdict(b, k)
  <2>1. /\ bRes' = [bRes EXCEPT ![b] = v] /\ UNCHANGED <<kind, tips>> /\ b \in bTaken
        /\ status' = IF v = "RuleError" THEN [status EXCEPT ![b] = "Invalid"] ELSE status
    BY <1>7 DEF ValidateBody, MarksInvalid
  <2>2. status[b] \in Statuses \ {"none"}
    BY <2>1, BodyClosureHasHeader
  <2>3. k # "trusted"
    BY <2>1 DEF StageInv, LinkInv, TipsInv
  <2>4. /\ v = "RuleError" => status[b] = "HeaderOnly"
        /\ v = "accepted" => ~ParentBodyMissing(b)
    BY <2>2, <2>3, BodyVerdicts
  <2> HIDE DEF v
  <2>5. \A c \in Block : status'[c] \in HasBody <=> status[c] \in HasBody
    BY <2>1, <2>4 DEF StatusInv, StoreTypes, HasBody
  <2>6. \A c \in Block : bRes'[c] = "accepted" => bRes[c] = "accepted" \/ ~ParentBodyMissing(c)
    BY <2>1, <2>4 DEF StatusInv, StoreTypes
  <2> QED BY <2>1, <2>5, <2>6, SameBodies
<1>8. ASSUME NEW b \in Block, EndBody(b) PROVE TipsInv'
  <2>1. bRes' = [bRes EXCEPT ![b] = "none"] /\ UNCHANGED <<kind, tips, status>>
    BY <1>8 DEF EndBody, stores
  <2>2. \A c \in Block : bRes'[c] = "accepted" => bRes[c] = "accepted"
    BY <2>1 DEF StatusInv, StoreTypes
  <2> QED BY <2>1, <2>2, SameBodies
<1>9. CASE VirtualResolve
  <2>1. PICK verified \in [{b \in Block : status[b] = "Pending"} -> {"Pending", "Valid", "Disqualified"}] :
           status' = [b \in Block |-> IF status[b] = "Pending" THEN verified[b] ELSE status[b]]
    BY ZenonT(60), <1>9 DEF VirtualResolve
  <2>2. \A c \in Block : status'[c] \in HasBody <=> status[c] \in HasBody
    BY <2>1 DEF HasBody
  <2>3. UNCHANGED <<kind, tips, bRes>>
    BY <1>9 DEF VirtualResolve
  <2> QED BY <2>2, <2>3, SameBodies
<1>10. CASE UNCHANGED vars
  BY <1>1, <1>10 DEF vars, stores
<1>11. CASE SignalExit
  <2>1. kind' = Append(kind, "exit") /\ UNCHANGED <<tips, status, bRes>>
    BY <1>11 DEF SignalExit, stores
  <2>2. \A i \in DOMAIN kind' : kind'[i] # "trusted"
    BY <2>1 DEF LinkInv, TipsInv, Kinds
  <2> QED BY <2>1, <2>2 DEF TipsInv, ParentBodyMissing, BodiesAreClosed, TipsAreMaximal
<1> QED BY <1>2, <1>3, <1>4, <1>5, <1>6, <1>7, <1>8, <1>9, <1>10, <1>11, CommitBodyTips
        DEF Next, VirtualWorker, HeaderClosure, BodyClosure

\* process_genesis leaves the pipeline in a state with the invariants.
LEMMA InitStatus == Init => StatusInv
BY DEF Init, StatusInv, StoreTypes, Statuses, ClosureInv, ForwardInv, OnlyFaultyMarkedInvalid,
       Known, HasBody, B!Init

\* No channel has a message.
LEMMA InitChannels == Init => LinkInv /\ VirtualInv
BY DEF Init, LinkInv, VirtualInv, H!Init, B!Init

\* Genesis is the only block with a body, and the only tip.
LEMMA InitTips == Init => TipsInv
<1> SUFFICES ASSUME Init PROVE TipsInv
  OBVIOUS
<1>1. /\ \A b \in Block : status[b] \in HasBody <=> b = Genesis
      /\ tips = {Genesis} /\ kind = <<>> /\ \A b \in Block : bRes[b] = "none"
  BY DEF Init, HasBody
<1>2. BodiesAreClosed
  BY <1>1, GenesisAssumption DEF BodiesAreClosed
<1>3. TipsAreMaximal
  BY <1>1, GenesisAssumption DEF TipsAreMaximal
<1> QED BY <1>1, <1>2, <1>3 DEF TipsInv

\* The virtual worker finds a status for every task it answers.
LEMMA AnsweredHaveStatus ==
    ASSUME VirtualInv, NEW t \in Answered(vBatch)
    PROVE  status[hSent[t]] # "none"
<1>1. PICK i \in DOMAIN vBatch : t = vBatch[i] /\ \A l \in 1..i : vBatch[l] # 0
  BY DEF Answered
<1>2. i \in 1..i
  BY DEF VirtualInv
<1> QED BY <1>1, <1>2 DEF VirtualInv, HasStatus

\* Nothing has been submitted or answered at first.
LEMMA InitAnswers == Init => AnswerInv /\ BodyAnswerInv /\ LostInv
<1> SUFFICES ASSUME Init PROVE AnswerInv /\ BodyAnswerInv /\ LostInv
  OBVIOUS
<1>1. /\ hSent = <<>> /\ bSent = <<>> /\ kind = <<>> /\ fwd = <<>> /\ hDone = {}
      /\ blockRes = [t \in Task |-> "none"]
  BY DEF Init, H!Init, B!Init
<1>2. AnswerTypes
  <2>1. Tasks = {}
    BY <1>1 DEF Tasks
  <2> QED BY ZenonT(60), <1>1, <2>1 DEF AnswerTypes
<1>3. EndedInv /\ ForwardedInv /\ BehindInv
  BY <1>1 DEF EndedInv, ForwardedInv, BehindInv, Tasks
<1>4. BodyAnswerInv /\ LostInv
  BY <1>1 DEF Init, BodyAnswerInv, LostInv, Tasks, HasBody
<1> QED BY <1>2, <1>3, <1>4 DEF AnswerInv

-----------------------------------------------------------------------------
HP == INSTANCE TaskManagerProofs WITH
        sent <- hSent, recv <- hRecv, worker <- hWorker, queue <- hQueue,
        taken <- hTaken, deps <- hDeps, spawned <- hSpawned, done <- hDone

-----------------------------------------------------------------------------
\* H and HP are two names of the same definitions.
LEMMA HSame == (H!Init <=> HP!Init) /\ (H!Next <=> HP!Next) /\ (UNCHANGED H!vars <=> UNCHANGED HP!vars)
<1>1. H!Init <=> HP!Init
  BY DEF H!Init, HP!Init
<1>2. H!Submit <=> HP!Submit
  BY DEF H!Submit, HP!Submit, H!Send, HP!Send
<1>3. H!Pending = HP!Pending
  BY DEF H!Pending, HP!Pending
<1>4. H!WorkerStep <=> HP!WorkerStep
  BY <1>3 DEF H!WorkerStep, HP!WorkerStep, H!Register, HP!Register, H!PushBack, HP!PushBack,
     H!OpensGroup, HP!OpensGroup, H!ReceiveExit, HP!ReceiveExit, H!WaitForIdle, HP!WaitForIdle,
     H!Parks, HP!Parks, H!PassExit, HP!PassExit
<1>5. ASSUME NEW b \in Block PROVE H!ClosureStep(b) <=> HP!ClosureStep(b)
  <2>1. H!TryBeginDefer(b) <=> HP!TryBeginDefer(b)
    BY <1>3 DEF H!TryBeginDefer, HP!TryBeginDefer, H!PendingParents, HP!PendingParents
  <2>2. H!TryBeginTake(b) <=> HP!TryBeginTake(b)
    BY <1>3 DEF H!TryBeginTake, HP!TryBeginTake, H!PendingParents, HP!PendingParents
  <2>3. H!End(b) <=> HP!End(b)
    <3>1. H!LastTask(b) <=> HP!LastTask(b)
      BY DEF H!LastTask, HP!LastTask
    <3>2. H!NextTasks(b) = HP!NextTasks(b)
      BY DEF H!NextTasks, HP!NextTasks, H!LastTask, HP!LastTask
    <3>3. ASSUME NEW c \in Block
          PROVE  H!Occurrences(H!NextTasks(b), c) = HP!Occurrences(HP!NextTasks(b), c)
      <4>1. H!Occurrences(H!NextTasks(b), c) = HP!Occurrences(H!NextTasks(b), c)
        BY Zenon DEF H!Occurrences, HP!Occurrences, H!Cardinality, HP!Cardinality
      <4> QED BY <4>1, <3>2
    <3>4. H!SignalsIdle(b) <=> HP!SignalsIdle(b)
      BY <1>3, <3>1 DEF H!SignalsIdle, HP!SignalsIdle
    <3>5. H!Ended(b) = HP!Ended(b)
      BY DEF H!Ended, HP!Ended
    <3> QED BY <3>1, <3>3, <3>4, <3>5 DEF H!End, HP!End
  <2> QED BY <2>1, <2>2, <2>3 DEF H!ClosureStep, HP!ClosureStep
<1>6. UNCHANGED H!vars <=> UNCHANGED HP!vars
  BY DEF H!vars, HP!vars
<1> QED BY <1>1, <1>2, <1>4, <1>5, <1>6 DEF H!Next, HP!Next

\* The inductive invariant of the task manager holds of the header stage,
LEMMA HeaderStageInvariant == Spec => []HP!IInv
<1>1. Init => HP!Init
  BY HSame DEF Init
<1>2. [Next]_vars => [HP!Next]_(HP!vars)
  BY HStep, HSame
<1>3. HP!Spec => []HP!IInv
  BY HP!Invariant, ParentsAssumption, AcyclicAssumption, ExitAssumption
<1> QED BY <1>1, <1>2, <1>3, PTL DEF Spec, HP!Spec

BP == INSTANCE TaskManagerProofs WITH
        sent <- bSent, recv <- bRecv, worker <- bWorker, queue <- bQueue,
        taken <- bTaken, deps <- bDeps, spawned <- bSpawned, done <- bDone

\* The same for B and BP.
LEMMA BSame == (B!Init <=> BP!Init) /\ (B!Next <=> BP!Next) /\ (UNCHANGED B!vars <=> UNCHANGED BP!vars)
<1>1. B!Init <=> BP!Init
  BY DEF B!Init, BP!Init
<1>2. B!Submit <=> BP!Submit
  BY DEF B!Submit, BP!Submit, B!Send, BP!Send
<1>3. B!Pending = BP!Pending
  BY DEF B!Pending, BP!Pending
<1>4. B!WorkerStep <=> BP!WorkerStep
  BY <1>3 DEF B!WorkerStep, BP!WorkerStep, B!Register, BP!Register, B!PushBack, BP!PushBack,
     B!OpensGroup, BP!OpensGroup, B!ReceiveExit, BP!ReceiveExit, B!WaitForIdle, BP!WaitForIdle,
     B!Parks, BP!Parks, B!PassExit, BP!PassExit
<1>5. ASSUME NEW b \in Block PROVE B!ClosureStep(b) <=> BP!ClosureStep(b)
  <2>1. B!TryBeginDefer(b) <=> BP!TryBeginDefer(b)
    BY <1>3 DEF B!TryBeginDefer, BP!TryBeginDefer, B!PendingParents, BP!PendingParents
  <2>2. B!TryBeginTake(b) <=> BP!TryBeginTake(b)
    BY <1>3 DEF B!TryBeginTake, BP!TryBeginTake, B!PendingParents, BP!PendingParents
  <2>3. B!End(b) <=> BP!End(b)
    <3>1. B!LastTask(b) <=> BP!LastTask(b)
      BY DEF B!LastTask, BP!LastTask
    <3>2. B!NextTasks(b) = BP!NextTasks(b)
      BY DEF B!NextTasks, BP!NextTasks, B!LastTask, BP!LastTask
    <3>3. ASSUME NEW c \in Block
          PROVE  B!Occurrences(B!NextTasks(b), c) = BP!Occurrences(BP!NextTasks(b), c)
      <4>1. B!Occurrences(B!NextTasks(b), c) = BP!Occurrences(B!NextTasks(b), c)
        BY Zenon DEF B!Occurrences, BP!Occurrences, B!Cardinality, BP!Cardinality
      <4> QED BY <4>1, <3>2
    <3>4. B!SignalsIdle(b) <=> BP!SignalsIdle(b)
      BY <1>3, <3>1 DEF B!SignalsIdle, BP!SignalsIdle
    <3>5. B!Ended(b) = BP!Ended(b)
      BY DEF B!Ended, BP!Ended
    <3> QED BY <3>1, <3>3, <3>4, <3>5 DEF B!End, BP!End
  <2> QED BY <2>1, <2>2, <2>3 DEF B!ClosureStep, BP!ClosureStep
<1>6. UNCHANGED B!vars <=> UNCHANGED BP!vars
  BY DEF B!vars, BP!vars
<1> QED BY <1>1, <1>2, <1>4, <1>5, <1>6 DEF B!Next, BP!Next

\* and of the body stage.
LEMMA BodyStageInvariant == Spec => []BP!IInv
<1>1. Init => BP!Init
  BY BSame DEF Init
<1>2. [Next]_vars => [BP!Next]_(BP!vars)
  BY BStep, BSame
<1>3. BP!Spec => []BP!IInv
  BY BP!Invariant, ParentsAssumption, AcyclicAssumption, ExitAssumption
<1> QED BY <1>1, <1>2, <1>3, PTL DEF Spec, BP!Spec

\* So every closure that has begun works on the front task of its block.
LEMMA StageInvariant == Spec => []StageInv
<1>1. ASSUME HP!IInv, NEW b \in hTaken
      PROVE  b \in Block /\ Head(hQueue[b]) \in DOMAIN hSent /\ hSent[Head(hQueue[b])] = b
  <2>1. /\ b \in Block /\ hQueue \in [Block -> Seq(Nat)] /\ hQueue[b] # <<>>
        /\ hSent \in Seq(Block \cup {ExitMsg}) /\ hRecv \in 0..Len(hSent)
    BY <1>1 DEF HP!IInv, HP!TypeOK, HP!ExpectsHold
  <2>2. 1 \in DOMAIN hQueue[b] /\ Head(hQueue[b]) = hQueue[b][1]
    BY <2>1
  <2>3. hQueue[b][1] \in 1..hRecv /\ hSent[hQueue[b][1]] = b
    BY <1>1, <2>1, <2>2 DEF HP!IInv, HP!QueueInv
  <2> QED BY <2>1, <2>2, <2>3
<1>2. ASSUME BP!IInv, NEW b \in bTaken
      PROVE  b \in Block /\ Head(bQueue[b]) \in DOMAIN bSent /\ bSent[Head(bQueue[b])] = b
  <2>1. /\ b \in Block /\ bQueue \in [Block -> Seq(Nat)] /\ bQueue[b] # <<>>
        /\ bSent \in Seq(Block \cup {ExitMsg}) /\ bRecv \in 0..Len(bSent)
    BY <1>2 DEF BP!IInv, BP!TypeOK, BP!ExpectsHold
  <2>2. 1 \in DOMAIN bQueue[b] /\ Head(bQueue[b]) = bQueue[b][1]
    BY <2>1
  <2>3. bQueue[b][1] \in 1..bRecv /\ bSent[bQueue[b][1]] = b
    BY <1>2, <2>1, <2>2 DEF BP!IInv, BP!QueueInv
  <2> QED BY <2>1, <2>2, <2>3
<1>3. HP!IInv /\ BP!IInv =>
         hSent \in Seq(Block \cup {ExitMsg}) /\ bSent \in Seq(Block \cup {ExitMsg})
  BY DEF HP!IInv, HP!TypeOK, BP!IInv, BP!TypeOK
<1>4. HP!IInv /\ BP!IInv => StageInv
  BY <1>1, <1>2, <1>3 DEF StageInv
<1> QED BY <1>4, HeaderStageInvariant, BodyStageInvariant, PTL

\* The front task of a taken block has not ended, and the tasks of its parents have.
LEMMA StageOrderInvariant == Spec => []StageOrder
<1>1. ASSUME HP!IInv
      PROVE  /\ hDone \subseteq DOMAIN hSent /\ hQueue \in [Block -> Seq(Nat)] /\ hRecv \in Nat
             /\ \A b \in hTaken : /\ hQueue[b] # <<>> /\ Head(hQueue[b]) \notin hDone
                                  /\ \A u \in 1..Head(hQueue[b]) : hSent[u] \in Parents[b] => u \in hDone
  <2>1. /\ hQueue \in [Block -> Seq(Nat)] /\ hTaken \subseteq Block
        /\ hSent \in Seq(Block \cup {ExitMsg}) /\ hRecv \in 0..Len(hSent) /\ hRecv \in Nat
    BY <1>1 DEF HP!IInv, HP!TypeOK
  <2>2. hDone \subseteq 1..hRecv
    BY <1>1 DEF HP!IInv, HP!ReceivedInv
  <2>3. ASSUME NEW b \in hTaken PROVE hQueue[b] # <<>> /\ Head(hQueue[b]) \notin hDone
    <3>1. b \in Block /\ hQueue[b] # <<>>
      BY <1>1, <2>1 DEF HP!IInv, HP!ExpectsHold
    <3>2. 1 \in DOMAIN hQueue[b] /\ Head(hQueue[b]) = hQueue[b][1]
      BY <2>1, <3>1
    <3> QED BY <1>1, <3>1, <3>2 DEF HP!IInv, HP!QueueInv
  <2>4. \A b \in hTaken : \A u \in 1..Head(hQueue[b]) : hSent[u] \in Parents[b] => u \in hDone
    BY <1>1, <2>1 DEF HP!IInv, HP!ParentsFirst
  <2> QED BY <2>1, <2>2, <2>3, <2>4
<1>2. ASSUME BP!IInv
      PROVE  /\ bDone \subseteq DOMAIN bSent /\ bQueue \in [Block -> Seq(Nat)] /\ bRecv \in Nat
             /\ \A b \in bTaken : /\ bQueue[b] # <<>> /\ Head(bQueue[b]) \notin bDone
                                  /\ \A u \in 1..Head(bQueue[b]) : bSent[u] \in Parents[b] => u \in bDone
  <2>1. /\ bQueue \in [Block -> Seq(Nat)] /\ bTaken \subseteq Block
        /\ bSent \in Seq(Block \cup {ExitMsg}) /\ bRecv \in 0..Len(bSent) /\ bRecv \in Nat
    BY <1>2 DEF BP!IInv, BP!TypeOK
  <2>2. bDone \subseteq 1..bRecv
    BY <1>2 DEF BP!IInv, BP!ReceivedInv
  <2>3. ASSUME NEW b \in bTaken PROVE bQueue[b] # <<>> /\ Head(bQueue[b]) \notin bDone
    <3>1. b \in Block /\ bQueue[b] # <<>>
      BY <1>2, <2>1 DEF BP!IInv, BP!ExpectsHold
    <3>2. 1 \in DOMAIN bQueue[b] /\ Head(bQueue[b]) = bQueue[b][1]
      BY <2>1, <3>1
    <3> QED BY <1>2, <3>1, <3>2 DEF BP!IInv, BP!QueueInv
  <2>4. \A b \in bTaken : \A u \in 1..Head(bQueue[b]) : bSent[u] \in Parents[b] => u \in bDone
    BY <1>2, <2>1 DEF BP!IInv, BP!ParentsFirst
  <2> QED BY <2>1, <2>2, <2>3, <2>4
<1>3. HP!IInv /\ BP!IInv => StageOrder
  BY <1>1, <1>2 DEF StageOrder
<1> QED BY <1>3, HeaderStageInvariant, BodyStageInvariant, PTL

-----------------------------------------------------------------------------
\* The invariants of the pipeline hold throughout.
LEMMA PipelineInvariant == Spec => [](StatusInv /\ LinkInv /\ VirtualInv)
<1>1. StatusInv /\ LinkInv /\ VirtualInv /\ StageInv /\ [Next]_vars => (StatusInv /\ LinkInv /\ VirtualInv)'
  BY StatusStep, LinkStep, VirtualStep
<1> QED BY <1>1, InitStatus, InitChannels, StageInvariant, PTL DEF Spec

\* Statuses only move forward, for every DAG and whatever the closures of both stages and
\* the virtual processor do at the same time: no commit_header, commit_body or mark as
\* invalid acts on a status that another thread has changed since it was read.
THEOREM StatusesAdvance == Spec => StatusOnlyAdvances
<1>1. StatusInv /\ StageInv /\ [Next]_vars => [Advances]_vars
  BY StatusStep
<1> QED BY <1>1, PipelineInvariant, StageInvariant, PTL DEF Spec, StatusOnlyAdvances

\* A block is marked invalid only for a fault of its own.
THEOREM InvalidIsDeserved == Spec => []OnlyFaultyMarkedInvalid
<1>1. StatusInv => OnlyFaultyMarkedInvalid
  BY DEF StatusInv
<1> QED BY <1>1, PipelineInvariant, PTL

\* No unwrap and no expectation of the pipeline fails, for every DAG and whatever is
\* submitted: closures find their groups and tasks, process_body finds the status that the
\* header stage wrote, and so does the virtual worker when it answers.
THEOREM PipelineNeverPanics == Spec => []NoPanic
<1>1. HP!IInv => H!ExpectsHold
  BY DEF HP!IInv, HP!ExpectsHold, H!ExpectsHold
<1>2. BP!IInv => B!ExpectsHold
  BY DEF BP!IInv, BP!ExpectsHold, B!ExpectsHold
<1>3. HP!IInv /\ BP!IInv /\ StageInv /\ StatusInv /\ VirtualInv => NoPanic
  BY <1>1, <1>2, BodyClosureHasHeader, AnsweredHaveStatus DEF NoPanic
<1> QED BY <1>3, PipelineInvariant, StageInvariant, HeaderStageInvariant, BodyStageInvariant, PTL

\* The body tips are the blocks with a body and no child with a body, for every DAG and
\* every interleaving of body closures, as long as no task is trusted: add_tip_batch is
\* right because bodies are committed parents first.
THEOREM TipsStayMaximal == NoTrusted => (Spec => []TipsAreMaximal)
<1> SUFFICES ASSUME NoTrusted PROVE Spec => []TipsAreMaximal
  OBVIOUS
<1>1. TipsInv /\ LinkInv /\ StatusInv /\ StageInv /\ [Next]_vars => TipsInv'
  BY TipsStep
<1>2. TipsInv => TipsAreMaximal
  BY DEF TipsInv
<1> QED BY <1>1, <1>2, InitTips, PipelineInvariant, StageInvariant, PTL DEF Spec

\* A task is answered MissingParents only if, for some parent, no task submitted before it
\* brought in the body: for every DAG and every sequence of submissions, a client that
\* submits parents first need not wait for answers (as IBD does not).  A parent still on
\* its way through either stage is never reported as missing.
THEOREM NeverSpuriouslyMissing == Spec => []NoSpuriousMissing
<1>1. /\ AnswerInv /\ BodyAnswerInv /\ LostInv /\ StatusInv /\ LinkInv /\ LinkInv' /\ StageInv /\ StageInv'
      /\ StageOrder /\ [Next]_vars
      => (AnswerInv /\ BodyAnswerInv /\ LostInv)'
  <2> SUFFICES ASSUME AnswerInv, BodyAnswerInv, LostInv, StatusInv, LinkInv, LinkInv', StageInv, StageInv',
                      StageOrder, [Next]_vars
               PROVE  (AnswerInv /\ BodyAnswerInv /\ LostInv)'
    OBVIOUS
  <2>1. AnswerInv' /\ Final
    BY AnswerStep
  <2>2. Advances
    BY StatusStep
  <2>3. BodyAnswerInv'
    BY <2>1, <2>2, BodyAnswerStep
  <2>4. LostInv'
    BY <2>1, LostStep
  <2> QED BY <2>1, <2>3, <2>4
<1>2. LinkInv /\ StageInv /\ LostInv => NoSpuriousMissing
  <2> SUFFICES ASSUME LinkInv, StageInv, LostInv PROVE NoSpuriousMissing
    OBVIOUS
  <2> QED BY ZenonT(60), SubmittedAreTasks DEF LostInv, Lost, NoSpuriousMissing
<1> QED BY <1>1, <1>2, InitAnswers, PipelineInvariant, StageInvariant, StageOrderInvariant, PTL DEF Spec
=============================================================================
