--------------------------- MODULE BlockPipeline ---------------------------
(***************************************************************************)
(* The block-processing pipeline of a consensus instance:                  *)
(*                                                                         *)
(*   submit --> header stage --> body stage --> virtual stage --> (exit)   *)
(*                                                                         *)
(* The header and the body stage are two instances of TaskManager.  This   *)
(* module adds what they do to the stores: process_header and process_body *)
(* (the status of each block, the body tips), the callbacks that answer    *)
(* the two result channels of a task or forward it, the virtual worker     *)
(* that collects what waits in its channel, resolves the virtual state     *)
(* once and answers, and the way Exit travels down the pipeline.           *)
(*                                                                         *)
(* A task is named by its position in the header stage's channel.          *)
(***************************************************************************)
EXTENDS Naturals, Sequences, FiniteSets

CONSTANTS Block, Parents, ExitMsg, Genesis,
          HeaderFault,  \* of each block: "none", or what its header fails at:
                        \* "isolation", "relations" (a parent is an ancestor
                        \* of another), "pre_pow", "post_pow", or "transient"
                        \* (a check in isolation that may pass later on: the
                        \* timestamp or the DAA score is too far ahead)
          BodyFault,    \* of each block: "none", "isolation" or "context"
          Offered,      \* what clients submit: pairs of a block and a task kind
          MaxTasks      \* bound: nothing is submitted behind so many messages

VARIABLES
    hSent, hRecv, hWorker, hQueue, hTaken, hDeps, hSpawned, hDone,
    bSent, bRecv, bWorker, bQueue, bTaken, bDeps, bSpawned, bDone,
    kind,      \* of each message of the first channel: its kind
    fwd,       \* the task behind each message of the body stage's channel
    hRes,      \* outcome so far of the header closure of each block
    bRes,      \* outcome so far of the body closure of each block
    vSent,     \* everything sent to the virtual processor: tasks and Exit
    vRecv,     \* how many of these it has received
    vWorker,   \* where the virtual worker is
    vBatch,    \* the messages it collected
    status,    \* the statuses store
    tips,      \* the body tips store
    blockRes,  \* what was sent on block_result_transmitter, by task
    virtRes    \* what was sent on virtual_state_result_transmitter, by task

hVars == <<hSent, hRecv, hWorker, hQueue, hTaken, hDeps, hSpawned, hDone>>
bVars == <<bSent, bRecv, bWorker, bQueue, bTaken, bDeps, bSpawned, bDone>>
vVars == <<vSent, vRecv, vWorker, vBatch>>
stores == <<status, tips>>
answers == <<blockRes, virtRes>>
vars == <<hVars, bVars, vVars, stores, answers, kind, fwd, hRes, bRes>>

H == INSTANCE TaskManager WITH
        sent <- hSent, recv <- hRecv, worker <- hWorker, queue <- hQueue,
        taken <- hTaken, deps <- hDeps, spawned <- hSpawned, done <- hDone

B == INSTANCE TaskManager WITH
        sent <- bSent, recv <- bRecv, worker <- bWorker, queue <- bQueue,
        taken <- bTaken, deps <- bDeps, spawned <- bSpawned, done <- bDone

\* A full block, a header-only block, a block whose transactions do not match
\* the merkle root of its header, or a full trusted block.
TaskKinds == {"full", "header", "malleated", "trusted"}
Kinds == TaskKinds \cup {"exit"}

\* Hashes commit to the parents, and genesis has none; clients submit blocks.
ASSUME ParentsAssumption == Parents \in [Block -> SUBSET Block]
ASSUME AcyclicAssumption ==
    \A S \in SUBSET Block : S # {} => \E b \in S : Parents[b] \cap S = {}
ASSUME GenesisAssumption == Genesis \in Block /\ Parents[Genesis] = {}
ASSUME ExitAssumption == ExitMsg \notin Block
ASSUME OfferedAssumption == Offered \subseteq Block \X TaskKinds
ASSUME MaxTasksAssumption == MaxTasks \in Nat

HasBody == {"Pending", "Valid", "Disqualified"}
Known == HasBody \cup {"HeaderOnly"}
Errors == {"KnownInvalid", "MissingParents", "InvalidParent", "BadMerkleRoot", "RuleError"}
Results == Known \cup Errors

Task == 1..MaxTasks

\* The stores and channels hold what their types say; in particular a closure of
\* the body stage never meets a status its match does not name.
TypeOK ==
    /\ H!TypeOK /\ B!TypeOK
    /\ kind \in Seq(Kinds)
    /\ fwd \in Seq(Task \cup {0})
    /\ hRes \in [Block -> Results \cup {"none", "accepted"}]
    /\ bRes \in [Block -> Results \cup {"none", "accepted"}]
    /\ vSent \in Seq(Task \cup {0})
    /\ vRecv \in 0..Len(vSent)
    /\ vWorker \in {"receiving", "resolving", "exited"}
    /\ vBatch \in Seq(Task \cup {0})
    /\ status \in [Block -> Known \cup {"none", "Invalid"}]
    /\ tips \subseteq Block
    /\ blockRes \in [Task -> Results \cup {"none"}]
    /\ virtRes \in [Task -> Results \cup {"none"}]

\* process_genesis has run in all three processors.
Init ==
    /\ H!Init /\ B!Init
    /\ kind = <<>> /\ fwd = <<>>
    /\ hRes = [b \in Block |-> "none"] /\ bRes = [b \in Block |-> "none"]
    /\ vSent = <<>> /\ vRecv = 0 /\ vWorker = "receiving" /\ vBatch = <<>>
    /\ status = [b \in Block |-> IF b = Genesis THEN "Valid" ELSE "none"]
    /\ tips = {Genesis}
    /\ blockRes = [t \in Task |-> "none"] /\ virtRes = [t \in Task |-> "none"]

-----------------------------------------------------------------------------
\* Submission

\* validate_and_insert_block_impl: a message with the two result senders.  It is
\* sent whatever was sent before, so a task may be sent behind Exit.
Submit(b, k) ==
    /\ Len(hSent) < MaxTasks
    /\ H!Send(b)
    /\ kind' = Append(kind, k)
    /\ UNCHANGED <<hRecv, hWorker, hQueue, hTaken, hDeps, hSpawned, hDone>>
    /\ UNCHANGED <<bVars, vVars, stores, answers, fwd, hRes, bRes>>

\* signal_exit.  A second Exit would stay in the channel behind the first.
SignalExit ==
    /\ ExitMsg \notin {hSent[i] : i \in DOMAIN hSent}
    /\ H!Send(ExitMsg)
    /\ kind' = Append(kind, "exit")
    /\ UNCHANGED <<hRecv, hWorker, hQueue, hTaken, hDeps, hSpawned, hDone>>
    /\ UNCHANGED <<bVars, vVars, stores, answers, fwd, hRes, bRes>>

-----------------------------------------------------------------------------
\* The header stage

HeaderReceive ==
    /\ H!Register \/ H!ReceiveExit \/ H!WaitForIdle
    /\ UNCHANGED <<hSent, bVars, vVars, stores, answers, kind, fwd, hRes, bRes>>

HeaderPassExit ==
    /\ H!PassExit
    /\ B!Send(ExitMsg)
    /\ fwd' = Append(fwd, 0)
    /\ UNCHANGED <<bRecv, bWorker, bQueue, bTaken, bDeps, bSpawned, bDone>>
    /\ UNCHANGED <<hSent, vVars, stores, answers, kind, hRes, bRes>>

HeaderTryBegin(b) ==
    /\ H!TryBeginDefer(b) \/ H!TryBeginTake(b)
    /\ UNCHANGED <<hSent, bVars, vVars, stores, answers, kind, fwd, hRes, bRes>>

\* check_parents_exist: an invalid parent is reported before missing ones.
ParentsVerdict(b) ==
    CASE \E p \in Parents[b] : status[p] = "Invalid" -> "InvalidParent"
      [] \E p \in Parents[b] : status[p] = "none"    -> "MissingParents"
      [] OTHER                                       -> "accepted"

\* validate_header, validate_trusted_header: trusted headers are validated in
\* isolation only.
IsolationOutcomes(b) ==
    CASE HeaderFault[b] = "isolation" -> {"RuleError"}
      [] HeaderFault[b] = "transient" -> {"RuleError", "accepted"}
      [] OTHER                        -> {"accepted"}
ContextOutcome(b, k) ==
    CASE k = "trusted"                    -> "accepted"
      [] ParentsVerdict(b) # "accepted"   -> ParentsVerdict(b)
      [] HeaderFault[b] \in {"relations", "pre_pow", "post_pow"} -> "RuleError"
      [] OTHER                            -> "accepted"
ValidationOutcomes(b, k) ==
    {IF o = "accepted" THEN ContextOutcome(b, k) ELSE o : o \in IsolationOutcomes(b)}

\* What process_header may come to before the commit, for a task of b of kind k.
\* The variant does not look up the status first.
HeaderOutcomesUncached(b, k) == ValidationOutcomes(b, k)
HeaderOutcomes(b, k) ==
    CASE status[b] = "Invalid" -> {"KnownInvalid"}
      [] status[b] \in Known   -> {status[b]}
      [] status[b] = "none"    -> ValidationOutcomes(b, k)

\* A failure of post_pow_validation, and only that one, marks the block invalid.
ValidateHeader(b) ==
    /\ b \in hTaken
    /\ hRes[b] = "none"
    /\ \E verdict \in HeaderOutcomes(b, kind[Head(hQueue[b])]) :
       /\ hRes' = [hRes EXCEPT ![b] = verdict]
       /\ status' = IF verdict = "RuleError" /\ HeaderFault[b] = "post_pow"
                    THEN [status EXCEPT ![b] = "Invalid"] ELSE status
    /\ UNCHANGED <<hVars, bVars, vVars, tips, answers, kind, fwd, bRes>>

\* commit_header, commit_trusted_header
CommitHeader(b) ==
    /\ hRes[b] = "accepted"
    /\ hRes' = [hRes EXCEPT ![b] = "HeaderOnly"]
    /\ status' = [status EXCEPT ![b] = "HeaderOnly"]
    /\ UNCHANGED <<hVars, bVars, vVars, tips, answers, kind, fwd, bRes>>

\* The closure reports to the task manager; the callback answers both result
\* channels, or forwards the task to the body stage.  The variant forwards a
\* task whose header was rejected.
ForwardsErrors(res, k) == k = "header"
AnswersAtHeader(res, k) == res \in Errors \/ k = "header"

EndHeader(b) ==
    /\ hRes[b] \in Results
    /\ H!End(b)
    /\ LET t == Head(hQueue[b]) IN
       IF AnswersAtHeader(hRes[b], kind[t])
       THEN /\ blockRes' = [blockRes EXCEPT ![t] = hRes[b]]
            /\ virtRes' = [virtRes EXCEPT ![t] = hRes[b]]
            /\ UNCHANGED <<bSent, fwd>>
       ELSE /\ B!Send(b)
            /\ fwd' = Append(fwd, t)
            /\ UNCHANGED answers
    /\ hRes' = [hRes EXCEPT ![b] = "none"]
    /\ UNCHANGED <<bRecv, bWorker, bQueue, bTaken, bDeps, bSpawned, bDone>>
    /\ UNCHANGED <<hSent, vVars, stores, kind, bRes>>

-----------------------------------------------------------------------------
\* The body stage

BodyReceive ==
    /\ B!Register \/ B!ReceiveExit \/ B!WaitForIdle
    /\ UNCHANGED <<hVars, bSent, vVars, stores, answers, kind, fwd, hRes, bRes>>

\* The variant passes Exit on without waiting for the closures.
BodyExitsAtOnce ==
    /\ bWorker = "draining" /\ bWorker' = "exited"
    /\ UNCHANGED <<bRecv, bQueue, bTaken, bDeps, bSpawned, bDone>>
BodyExits == B!PassExit

BodyPassExit ==
    /\ BodyExits
    /\ vSent' = Append(vSent, 0)
    /\ UNCHANGED <<hVars, bSent, vRecv, vWorker, vBatch, stores, answers, kind, fwd, hRes, bRes>>

BodyTryBegin(b) ==
    /\ B!TryBeginDefer(b) \/ B!TryBeginTake(b)
    /\ UNCHANGED <<hVars, bSent, vVars, stores, answers, kind, fwd, hRes, bRes>>

\* check_parent_bodies_exist
ParentBodyMissing(b) == \E p \in Parents[b] : status[p] \notin HasBody

\* validate_body behind the check of the merkle root: a trusted body is validated
\* in isolation only.
ValidateBodyVerdict(b, k) ==
    CASE BodyFault[b] = "isolation" -> "RuleError"
      [] BodyFault[b] # "isolation" /\ k = "trusted" -> "accepted"
      [] BodyFault[b] # "isolation" /\ k # "trusted" ->
            IF ParentBodyMissing(b) THEN "MissingParents"
            ELSE IF BodyFault[b] = "context" THEN "RuleError" ELSE "accepted"

\* process_body up to the commit.
BodyVerdict(b, k) ==
    CASE status[b] = "Invalid" -> "KnownInvalid"
      [] status[b] \in HasBody -> status[b]
      [] status[b] = "HeaderOnly" /\ k = "malleated" -> "BadMerkleRoot"
      [] status[b] = "HeaderOnly" /\ k # "malleated" -> ValidateBodyVerdict(b, k)

\* Errors after which the block may still arrive whole keep it header-only; the
\* variant marks the block invalid after any error.
MarksAlways(verdict) == verdict \in {"RuleError", "MissingParents", "BadMerkleRoot"}
MarksInvalid(verdict) == verdict = "RuleError"

ValidateBody(b) ==
    /\ b \in bTaken
    /\ bRes[b] = "none"
    /\ LET verdict == BodyVerdict(b, kind[fwd[Head(bQueue[b])]]) IN
       /\ bRes' = [bRes EXCEPT ![b] = verdict]
       /\ status' = IF MarksInvalid(verdict)
                    THEN [status EXCEPT ![b] = "Invalid"] ELSE status
    /\ UNCHANGED <<hVars, bVars, vVars, tips, answers, kind, fwd, hRes>>

\* add_tip_batch: the parents are no longer tips; the variant keeps them.
TipsWithParents(b) == tips \cup {b}
NewTips(b) == (tips \ Parents[b]) \cup {b}

CommitBody(b) ==
    /\ bRes[b] = "accepted"
    /\ bRes' = [bRes EXCEPT ![b] = "Pending"]
    /\ status' = [status EXCEPT ![b] = "Pending"]
    /\ tips' = NewTips(b)
    /\ UNCHANGED <<hVars, bVars, vVars, answers, kind, fwd, hRes>>

EndBody(b) ==
    /\ bRes[b] \in Results
    /\ B!End(b)
    /\ LET t == fwd[Head(bQueue[b])] IN
       /\ blockRes' = [blockRes EXCEPT ![t] = bRes[b]]
       /\ IF bRes[b] \in Errors \/ kind[t] = "trusted"
          THEN virtRes' = [virtRes EXCEPT ![t] = bRes[b]] /\ UNCHANGED vSent
          ELSE vSent' = Append(vSent, t) /\ UNCHANGED virtRes
    /\ bRes' = [bRes EXCEPT ![b] = "none"]
    /\ UNCHANGED <<hVars, bSent, vRecv, vWorker, vBatch, stores, kind, fwd, hRes>>

-----------------------------------------------------------------------------
\* The virtual stage

\* The worker receives a message and collects all that wait behind it.
VirtualReceive ==
    /\ vWorker = "receiving"
    /\ vRecv < Len(vSent)
    /\ IF vSent[vRecv + 1] = 0
       THEN vRecv' = vRecv + 1 /\ vWorker' = "exited" /\ UNCHANGED vBatch
       ELSE /\ vBatch' = SubSeq(vSent, vRecv + 1, Len(vSent))
            /\ vRecv' = Len(vSent)
            /\ vWorker' = "resolving"
    /\ UNCHANGED <<hVars, bVars, vSent, stores, answers, kind, fwd, hRes, bRes>>

\* The tasks of the batch that are answered: those in front of Exit.  The
\* variant answers the message that woke the worker only.
AnsweredFirst(batch) == {batch[i] : i \in DOMAIN batch \cap {1}}
Answered(batch) ==
    {batch[i] : i \in {j \in DOMAIN batch : \A l \in 1..j : batch[l] # 0}}

\* resolve_virtual verifies some of the blocks that wait for it (which ones, and
\* how, is the subject of VirtualState); then every task of the batch in front
\* of Exit is answered with the status of its block.
VirtualResolve ==
    /\ vWorker = "resolving"
    /\ \E verified \in [{b \in Block : status[b] = "Pending"} ->
                            {"Pending", "Valid", "Disqualified"}] :
        LET new == [b \in Block |-> IF status[b] = "Pending" THEN verified[b]
                                    ELSE status[b]]
        IN /\ status' = new
           /\ virtRes' = [t \in Task |-> IF t \in Answered(vBatch) THEN new[hSent[t]]
                                         ELSE virtRes[t]]
    /\ vBatch' = <<>>
    /\ vWorker' = IF 0 \in {vBatch[i] : i \in DOMAIN vBatch} THEN "exited" ELSE "receiving"
    /\ UNCHANGED <<hVars, bVars, vSent, vRecv, tips, blockRes, kind, fwd, hRes, bRes>>

-----------------------------------------------------------------------------
HeaderWorker == HeaderReceive \/ HeaderPassExit
BodyWorker == BodyReceive \/ BodyPassExit
VirtualWorker == VirtualReceive \/ VirtualResolve
HeaderClosure(b) == HeaderTryBegin(b) \/ ValidateHeader(b) \/ CommitHeader(b) \/ EndHeader(b)
BodyClosure(b) == BodyTryBegin(b) \/ ValidateBody(b) \/ CommitBody(b) \/ EndBody(b)

Next ==
    \/ \E offer \in Offered : Submit(offer[1], offer[2])
    \/ SignalExit
    \/ HeaderWorker \/ BodyWorker \/ VirtualWorker
    \/ \E b \in Block : HeaderClosure(b) \/ BodyClosure(b)

\* Each stage has a thread of its own; the closures share a pool that runs all
\* of them eventually, since none of them waits for another.
Fairness ==
    /\ WF_vars(HeaderWorker) /\ WF_vars(BodyWorker) /\ WF_vars(VirtualWorker)
    /\ \A b \in Block : WF_vars(HeaderClosure(b)) /\ WF_vars(BodyClosure(b))

Spec == Init /\ [][Next]_vars
FairSpec == Spec /\ Fairness

-----------------------------------------------------------------------------
\* Properties

Submitted == {t \in DOMAIN kind : kind[t] # "exit"}

\* The tasks that no Exit was sent in front of.  A task sent behind Exit stays in
\* the channel: it is received by nobody and has no answer.
InTime == {t \in Submitted : \A u \in 1..t : hSent[u] # ExitMsg}

\* Each stage is a TaskManager: what is proved of TaskManager holds of both.
StagesAreTaskManagers == H!Spec /\ B!Spec

\* No unwrap or panic of the pipeline is reached: the expectations of the two
\* task managers hold, process_body finds the status its header stage wrote
\* (`get(..).unwrap()', "unexpected block status"), and so does the virtual
\* worker when it answers.
NoPanic ==
    /\ H!ExpectsHold /\ B!ExpectsHold
    /\ \A b \in bTaken : status[b] # "none"
    /\ \A t \in Answered(vBatch) : status[hSent[t]] # "none"

\* A client may submit blocks without waiting for answers, parents first, as IBD
\* does: a task is answered MissingParents only if for some parent no task
\* submitted before it brought in the body.
NoSpuriousMissing ==
    \A t \in Submitted : kind[t] = "full" /\ blockRes[t] = "MissingParents" =>
        \E p \in Parents[hSent[t]] :
            ~\E u \in 1..(t - 1) : hSent[u] = p /\ blockRes[u] \in HasBody

\* The body tips are the blocks with a body that have no child with a body.
TipsAreMaximal ==
    LET bodies == {b \in Block : status[b] \in HasBody} IN
    tips = {b \in bodies : \A c \in bodies : b \notin Parents[c]}

\* Bodies are added parents first, so the blocks with a body form a sub-DAG, and
\* no parent of such a block is invalid.
BodiesAreClosed ==
    \A b \in Block : status[b] \in HasBody =>
        \A p \in Parents[b] : status[p] \in HasBody

\* A block is marked invalid only for a fault of its own: not because it arrived
\* before its parents, nor because somebody sent it with other transactions.
OnlyFaultyMarkedInvalid ==
    \A b \in Block : status[b] = "Invalid" =>
        HeaderFault[b] = "post_pow" \/ BodyFault[b] # "none"

Advances ==
    \A b \in Block : status'[b] = status[b] \/ <<status[b], status'[b]>> \in
         {<<"none", "HeaderOnly">>, <<"none", "Invalid">>, <<"HeaderOnly", "Invalid">>,
          <<"HeaderOnly", "Pending">>, <<"Pending", "Valid">>,
          <<"Pending", "Disqualified">>}

\* A status only advances: a header, then a body, then the verdict of the virtual
\* processor; invalid is final, and a block that has a body never becomes
\* invalid or header-only again.
StatusOnlyAdvances == [][Advances]_vars

\* Every task gets both its answers, unless it was sent behind Exit: Exit does not
\* overtake a task on its way through the channels and the batches.
EveryTaskAnswered ==
    \A t \in Task : t \in InTime ~> blockRes[t] # "none" /\ virtRes[t] # "none"

\* Exit reaches the end of the pipeline.
ExitGetsThrough == (ExitMsg \in {hSent[i] : i \in DOMAIN hSent}) ~> vWorker = "exited"
=============================================================================
