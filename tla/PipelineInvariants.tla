------------------------- MODULE PipelineInvariants -------------------------
(***************************************************************************)
(* What the stages of the block pipeline keep true between them: on        *)
(* statuses, on the channels between the stages, on tips, and on answers.  *)
(***************************************************************************)
EXTENDS BlockPipeline

-----------------------------------------------------------------------------
\* Statuses and what the closures found

Statuses == Known \cup {"none", "Invalid"}

\* What the pipeline needs of its two task managers: a closure that has begun works on
\* the front task of its block, a message of the channel.
StageInv ==
    /\ hSent \in Seq(Block \cup {ExitMsg}) /\ bSent \in Seq(Block \cup {ExitMsg})
    /\ \A b \in hTaken : /\ b \in Block /\ Head(hQueue[b]) \in DOMAIN hSent
                         /\ hSent[Head(hQueue[b])] = b
    /\ \A b \in bTaken : /\ b \in Block /\ Head(bQueue[b]) \in DOMAIN bSent
                         /\ bSent[Head(bQueue[b])] = b

\* What the stores and the closures hold.
StoreTypes ==
    /\ status \in [Block -> Statuses]
    /\ hRes \in [Block -> Results \cup {"none", "accepted"}]
    /\ bRes \in [Block -> Results \cup {"none", "accepted"}]

\* A header closure that is about to commit is the first to do so, one that found or wrote
\* a header left a status, and a body closure that is about to commit has a header and no
\* body: no other closure gets between the check and the commit.
ClosureInv ==
    \A b \in Block : /\ hRes[b] = "accepted" => status[b] = "none"
                     /\ hRes[b] \in Known => status[b] # "none"
                     /\ bRes[b] = "accepted" => status[b] = "HeaderOnly"

\* Only blocks with a header are forwarded to the body stage.
ForwardInv == \A i \in DOMAIN bSent : bSent[i] \in Block => status[bSent[i]] # "none"

StatusInv == StoreTypes /\ ClosureInv /\ ForwardInv /\ OnlyFaultyMarkedInvalid

-----------------------------------------------------------------------------
\* The channels between the stages

\* Every message in the channel of the header stage has a kind, which tells Exit from the
\* blocks, and every block in the channel of the body stage has a task of its own.
LinkInv ==
    /\ kind \in Seq(Kinds) /\ Len(kind) = Len(hSent)
    /\ \A i \in DOMAIN hSent : hSent[i] \in Block <=> kind[i] # "exit"
    /\ fwd \in Seq(Nat) /\ Len(fwd) = Len(bSent)
    /\ \A i \in DOMAIN bSent : bSent[i] \in Block =>
          fwd[i] \in DOMAIN hSent /\ hSent[fwd[i]] = bSent[i]

\* The tasks that go to the virtual processor are of blocks with a header.
HasStatus(t) == t \in DOMAIN hSent /\ hSent[t] \in Block /\ status[hSent[t]] # "none"
VirtualInv ==
    /\ vSent \in Seq(Nat) /\ vRecv \in Nat /\ vBatch \in Seq(Nat)
    /\ \A i \in DOMAIN vSent : vSent[i] # 0 => HasStatus(vSent[i])
    /\ \A i \in DOMAIN vBatch : vBatch[i] # 0 => HasStatus(vBatch[i])

-----------------------------------------------------------------------------
\* Bodies and tips

\* Clients that sync by relay submit no trusted tasks; only IBD from a pruning point does.
NoTrusted == \A offer \in Offered : offer[2] # "trusted"

\* The bodies of the parents are there when a body is committed, not only when they were
\* looked up.
TipsInv ==
    /\ \A i \in DOMAIN kind : kind[i] # "trusted"
    /\ \A b \in Block : bRes[b] = "accepted" => ~ParentBodyMissing(b)
    /\ BodiesAreClosed /\ TipsAreMaximal

-----------------------------------------------------------------------------
\* Answers

\* What the order of answers needs of the two task managers: the front task of a block has
\* not ended, and the tasks of its parents received before it have.
StageOrder ==
    /\ hDone \subseteq DOMAIN hSent /\ bDone \subseteq DOMAIN bSent
    /\ hQueue \in [Block -> Seq(Nat)] /\ bQueue \in [Block -> Seq(Nat)] /\ hRecv \in Nat /\ bRecv \in Nat
    /\ \A b \in hTaken : /\ hQueue[b] # <<>> /\ Head(hQueue[b]) \notin hDone
                         /\ \A u \in 1..Head(hQueue[b]) : hSent[u] \in Parents[b] => u \in hDone
    /\ \A b \in bTaken : /\ bQueue[b] # <<>> /\ Head(bQueue[b]) \notin bDone
                         /\ \A u \in 1..Head(bQueue[b]) : bSent[u] \in Parents[b] => u \in bDone

Tasks == {t \in DOMAIN hSent : hSent[t] \in Block}

AnswerTypes ==
    /\ blockRes \in [Task -> Results \cup {"none"}]
    /\ Tasks \subseteq Task

\* A task that ends in the header stage is answered or forwarded, and not before.
EndedInv ==
    /\ \A t \in Task : t \notin hDone => blockRes[t] = "none"
    /\ \A t \in Tasks : t \in hDone =>
          blockRes[t] # "none" \/ \E i \in DOMAIN bSent : fwd[i] = t /\ bSent[i] = hSent[t]

\* It is forwarded once, and then answered when it ends in the body stage.
ForwardedInv ==
    /\ \A i \in DOMAIN bSent : bSent[i] \in Block => fwd[i] \in hDone
    /\ \A i, j \in DOMAIN bSent : bSent[i] \in Block /\ bSent[j] \in Block /\ fwd[i] = fwd[j] => i = j
    /\ \A i \in DOMAIN bSent : bSent[i] \in Block => (i \in bDone <=> blockRes[fwd[i]] # "none")

\* In the channel of the body stage it is behind the tasks of its parents submitted before
\* it, as far as they are not answered yet.
BehindInv ==
    \A i \in DOMAIN bSent : bSent[i] \in Block =>
        \A u \in 1..fwd[i] : hSent[u] \in Parents[bSent[i]] =>
            blockRes[u] # "none" \/ \E j \in 1..(i - 1) : bSent[j] = hSent[u] /\ fwd[j] = u

AnswerInv == AnswerTypes /\ EndedInv /\ ForwardedInv /\ BehindInv

\* An answer is never replaced.
Final == \A t \in Task : blockRes[t] # "none" => blockRes'[t] = blockRes[t]

\* Whoever is told that a body is there may rely on it.
BodyAnswerInv ==
    /\ \A b \in Block : hRes[b] \in HasBody \/ bRes[b] \in HasBody => status[b] \in HasBody
    /\ \A t \in Tasks : blockRes[t] \in HasBody => status[hSent[t]] \in HasBody

\* All tasks of some parent submitted before task t are answered, and none brought the body.
Lost(t) == \E p \in Parents[hSent[t]] :
              \A u \in 1..(t - 1) : hSent[u] = p => blockRes[u] \notin HasBody \cup {"none"}

\* A task fails for missing parents only if it is lost, from the moment it is validated.
LostInv ==
    /\ \A b \in Block : hRes[b] = "MissingParents" => b \in hTaken /\ Lost(Head(hQueue[b]))
    /\ \A b \in Block : bRes[b] = "MissingParents" => b \in bTaken /\ Lost(fwd[Head(bQueue[b])])
    /\ \A t \in Tasks : blockRes[t] = "MissingParents" => Lost(t)
=============================================================================
