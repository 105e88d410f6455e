------------------------ MODULE PipelineOrderProofs -------------------------
(***************************************************************************)
(* The order of the answers: each stage processes parents first and a task *)
(* is forwarded when it ends, so the body stage is sent parents first as   *)
(* well, an answer is final, and a block fails for missing parents only    *)
(* when they are lost.                                                     *)
(***************************************************************************)
EXTENDS PipelineInvariants, TLAPS

\* The SMT solver is given a minute for each leaf that names no other prover.
USE SMTT(60)

-----------------------------------------------------------------------------
\* Tasks of blocks have a place among the answers.
LEMMA TasksAreTasks ==
    ASSUME AnswerInv
    PROVE  Tasks \subseteq Task
BY DEF AnswerInv, AnswerTypes

\* What was submitted are the tasks of blocks.
LEMMA SubmittedAreTasks ==
    ASSUME LinkInv, StageInv
    PROVE  Submitted \subseteq Tasks
BY DEF LinkInv, StageInv, Submitted, Tasks

\* A submission adds a task without an answer.
LEMMA SubmitAnswers ==
    ASSUME AnswerInv, LinkInv, StageInv, StageOrder,
           NEW offer \in Offered, Submit(offer[1], offer[2])
    PROVE  AnswerInv' /\ Final
<1>1. offer[1] \in Block /\ offer[2] \in TaskKinds
  BY OfferedAssumption
<1>2. /\ hSent' = Append(hSent, offer[1]) /\ Len(hSent) < MaxTasks
      /\ UNCHANGED <<bSent, fwd, hDone, bDone, blockRes>>
  BY DEF Submit, H!Send, bVars, answers
<1>3. hSent' \in Seq(Block \cup {ExitMsg})
  BY <1>1, <1>2 DEF StageInv
<1>4. \A i \in DOMAIN hSent : i \in DOMAIN hSent' /\ hSent'[i] = hSent[i]
  BY <1>1, <1>2 DEF StageInv
<1>5. Len(hSent') = Len(hSent) + 1 /\ hSent'[Len(hSent) + 1] = offer[1]
  BY <1>1, <1>2 DEF StageInv
<1>6. \A t \in DOMAIN hSent' : t \in 1..MaxTasks
  BY <1>2, <1>3, <1>5, MaxTasksAssumption DEF StageInv
<1>7. AnswerTypes'
  BY <1>2, <1>6 DEF AnswerInv, AnswerTypes, Tasks, Task
<1>8. EndedInv'
  <2>1. \A t \in Tasks' : t \in hDone => t \in Tasks /\ hSent'[t] = hSent[t]
    BY <1>4 DEF Tasks, StageOrder
  <2>2. ASSUME NEW t \in Tasks', t \in hDone
        PROVE  blockRes[t] # "none" \/ \E i \in DOMAIN bSent : fwd[i] = t /\ bSent[i] = hSent'[t]
    <3>1. t \in Tasks /\ hSent'[t] = hSent[t]
      BY <2>1, <2>2
    <3> QED BY <2>2, <3>1 DEF AnswerInv, EndedInv
  <2>3. \A t \in Task : t \notin hDone' => blockRes'[t] = "none"
    BY <1>2 DEF AnswerInv, EndedInv
  <2> QED BY ZenonT(60), <1>2, <2>2, <2>3 DEF EndedInv
<1>9. ForwardedInv'
  BY <1>2 DEF AnswerInv, ForwardedInv
<1>10. BehindInv'
  <2>1. \A i \in DOMAIN bSent : bSent[i] \in Block =>
           fwd[i] \in DOMAIN hSent /\ \A u \in 1..fwd[i] : hSent'[u] = hSent[u]
    BY <1>4 DEF LinkInv, StageInv
  <2> QED BY <1>2, <2>1 DEF AnswerInv, BehindInv
<1> QED BY <1>2, <1>7, <1>8, <1>9, <1>10 DEF AnswerInv, Final

\* signal_exit adds no task.
LEMMA SignalExitAnswers ==
    ASSUME AnswerInv, LinkInv, StageInv, StageOrder, SignalExit
    PROVE  AnswerInv' /\ Final
<1>1. hSent' = Append(hSent, ExitMsg) /\ UNCHANGED <<bSent, fwd, hDone, bDone, blockRes>>
  BY DEF SignalExit, H!Send, bVars, answers
<1>2. \A i \in DOMAIN hSent : i \in DOMAIN hSent' /\ hSent'[i] = hSent[i]
  BY <1>1 DEF StageInv
<1>3. \A i \in DOMAIN hSent' : i \in DOMAIN hSent \/ hSent'[i] = ExitMsg
  BY <1>1 DEF StageInv
<1>4. Tasks' = Tasks /\ \A t \in Tasks : hSent'[t] = hSent[t]
  BY <1>2, <1>3, ExitAssumption DEF Tasks
<1>5. AnswerTypes'
  BY <1>1, <1>4 DEF AnswerInv, AnswerTypes
<1>6. EndedInv'
  <2>1. \A t \in Task : t \notin hDone' => blockRes'[t] = "none"
    BY <1>1 DEF AnswerInv, EndedInv
  <2>2. ASSUME NEW t \in Tasks, t \in hDone
        PROVE  blockRes[t] # "none" \/ \E i \in DOMAIN bSent : fwd[i] = t /\ bSent[i] = hSent'[t]
    BY <1>4, <2>2 DEF AnswerInv, EndedInv
  <2> QED BY ZenonT(60), <1>1, <1>4, <2>1, <2>2 DEF EndedInv
<1>7. ForwardedInv'
  BY <1>1 DEF AnswerInv, ForwardedInv
<1>8. BehindInv'
  <2>1. \A i \in DOMAIN bSent : bSent[i] \in Block =>
           fwd[i] \in DOMAIN hSent /\ \A u \in 1..fwd[i] : hSent'[u] = hSent[u]
    <3>1. DOMAIN hSent = 1..Len(hSent) /\ Len(hSent) \in Nat
      BY DEF StageInv
    <3>2. \A i \in DOMAIN bSent : bSent[i] \in Block => fwd[i] \in DOMAIN hSent
      BY DEF LinkInv
    <3> QED BY <1>2, <3>1, <3>2
  <2> QED BY <1>1, <2>1 DEF AnswerInv, BehindInv
<1> QED BY <1>1, <1>5, <1>6, <1>7, <1>8 DEF AnswerInv, Final

\* Exit in the channel of the body stage stands for no task.
LEMMA PassExitAnswers ==
    ASSUME AnswerInv, LinkInv, StageInv, StageOrder, HeaderPassExit
    PROVE  AnswerInv' /\ Final
<1>1. /\ bSent' = Append(bSent, ExitMsg) /\ fwd' = Append(fwd, 0)
      /\ UNCHANGED <<hSent, hDone, bDone, blockRes>>
  BY DEF HeaderPassExit, B!Send, H!PassExit, answers
<1>2. \A i \in DOMAIN bSent : i \in DOMAIN bSent' /\ bSent'[i] = bSent[i] /\ fwd'[i] = fwd[i]
  BY <1>1 DEF StageInv, LinkInv
<1>3. \A i \in DOMAIN bSent' : bSent'[i] \in Block => i \in DOMAIN bSent
  BY <1>1, ExitAssumption DEF StageInv
<1>4. AnswerTypes'
  BY <1>1 DEF AnswerInv, AnswerTypes, Tasks
<1>5. EndedInv'
  <2>1. \A t \in Task : t \notin hDone' => blockRes'[t] = "none"
    BY <1>1 DEF AnswerInv, EndedInv
  <2>2. ASSUME NEW t \in Tasks, t \in hDone, blockRes[t] = "none"
        PROVE  \E i \in DOMAIN bSent' : fwd'[i] = t /\ bSent'[i] = hSent[t]
    <3>1. PICK i \in DOMAIN bSent : fwd[i] = t /\ bSent[i] = hSent[t]
      BY <2>2 DEF AnswerInv, EndedInv
    <3> QED BY <1>2, <3>1
  <2>3. Tasks' = Tasks
    BY <1>1 DEF Tasks
  <2> QED BY ZenonT(60), <1>1, <2>1, <2>2, <2>3 DEF EndedInv
<1>6. ForwardedInv'
  <2>1. \A i \in DOMAIN bSent' : bSent'[i] \in Block =>
           i \in DOMAIN bSent /\ bSent[i] \in Block /\ fwd'[i] = fwd[i]
    BY <1>2, <1>3
  <2>2. \A i \in DOMAIN bSent' : bSent'[i] \in Block => fwd'[i] \in hDone
    BY <2>1 DEF AnswerInv, ForwardedInv
  <2>3. \A i, j \in DOMAIN bSent' : bSent'[i] \in Block /\ bSent'[j] \in Block /\ fwd'[i] = fwd'[j] => i = j
    BY <2>1 DEF AnswerInv, ForwardedInv
  <2>4. \A i \in DOMAIN bSent' : bSent'[i] \in Block => (i \in bDone <=> blockRes[fwd'[i]] # "none")
    BY <2>1 DEF AnswerInv, ForwardedInv
  <2> QED BY ZenonT(60), <1>1, <2>2, <2>3, <2>4 DEF ForwardedInv
<1>7. BehindInv'
  <2>1. ASSUME NEW i \in DOMAIN bSent, NEW j \in 1..(i - 1)
        PROVE  bSent'[j] = bSent[j] /\ fwd'[j] = fwd[j]
    BY <1>2 DEF StageInv
  <2>2. ASSUME NEW i \in DOMAIN bSent', bSent'[i] \in Block, NEW u \in 1..fwd'[i],
               hSent'[u] \in Parents[bSent'[i]], ~(blockRes'[u] # "none")
        PROVE  \E j \in 1..(i - 1) : bSent'[j] = hSent'[u] /\ fwd'[j] = u
    <3>1. i \in DOMAIN bSent /\ bSent[i] \in Block /\ u \in 1..fwd[i] /\ hSent[u] \in Parents[bSent[i]]
      BY ZenonT(60), <1>1, <1>2, <1>3, <2>2
    <3>2. PICK j \in 1..(i - 1) : bSent[j] = hSent[u] /\ fwd[j] = u
      BY <1>1, <2>2, <3>1 DEF AnswerInv, BehindInv
    <3> QED BY ZenonT(60), <1>1, <2>1, <3>1, <3>2
  <2> QED BY <2>2 DEF BehindInv
<1> QED BY <1>1, <1>4, <1>5, <1>6, <1>7 DEF AnswerInv, Final

\* Being behind the parents in the channel lasts as long as answers do.
LEMMA BehindKept ==
    ASSUME AnswerInv, LinkInv, StageInv, Final, UNCHANGED <<hSent, bSent, fwd>>
    PROVE  BehindInv'
<1> SUFFICES ASSUME NEW i \in DOMAIN bSent, bSent[i] \in Block, NEW u \in 1..fwd[i],
                    hSent[u] \in Parents[bSent[i]], blockRes'[u] = "none"
             PROVE  \E j \in 1..(i - 1) : bSent[j] = hSent[u] /\ fwd[j] = u
  BY DEF BehindInv
<1>1. u \in DOMAIN hSent /\ hSent[u] \in Block
  BY ParentsAssumption DEF LinkInv, StageInv
<1>2. u \in Task
  BY <1>1, TasksAreTasks DEF Tasks
<1>3. blockRes[u] = "none"
  BY <1>2 DEF Final
<1> QED BY <1>3 DEF AnswerInv, BehindInv

\* A header closure that answers its task is the first to do so.
LEMMA HeaderAnswers ==
    ASSUME AnswerInv, LinkInv, StageInv, StageOrder, NEW b \in hTaken, NEW r \in Results,
           hDone' = hDone \cup {Head(hQueue[b])},
           blockRes' = [blockRes EXCEPT ![Head(hQueue[b])] = r],
           UNCHANGED <<hSent, bSent, fwd, bDone>>
    PROVE  AnswerInv' /\ Final
<1> DEFINE t0 == Head(hQueue[b])
<1>1. t0 \in Tasks /\ t0 \in Task /\ t0 \notin hDone
  BY TasksAreTasks DEF StageInv, StageOrder, Tasks
<1>2. r # "none"
  BY DEF Results, Known, HasBody, Errors
<1>3. /\ blockRes' \in [Task -> Results \cup {"none"}] /\ blockRes'[t0] = r
      /\ \A t \in Task : t # t0 => blockRes'[t] = blockRes[t]
  BY <1>1 DEF AnswerInv, AnswerTypes
<1>4. Tasks' = Tasks
  BY DEF Tasks
<1>5. AnswerTypes'
  BY <1>3, <1>4 DEF AnswerInv, AnswerTypes
<1>6. EndedInv'
  <2>1. \A t \in Task : t \notin hDone' => blockRes'[t] = "none"
    BY <1>3 DEF AnswerInv, EndedInv
  <2>2. ASSUME NEW t \in Tasks, t \in hDone'
        PROVE  blockRes'[t] # "none" \/ \E i \in DOMAIN bSent : fwd[i] = t /\ bSent[i] = hSent[t]
    BY <1>2, <1>3, <2>2, TasksAreTasks DEF AnswerInv, EndedInv
  <2> QED BY <1>4, <2>1, <2>2 DEF EndedInv
<1>7. ForwardedInv'
  <2>1. \A i \in DOMAIN bSent : bSent[i] \in Block =>
           fwd[i] \in hDone /\ fwd[i] # t0 /\ fwd[i] \in Task
    BY <1>1, TasksAreTasks DEF AnswerInv, ForwardedInv, LinkInv, Tasks
  <2>2. \A i \in DOMAIN bSent : bSent[i] \in Block => (i \in bDone <=> blockRes'[fwd[i]] # "none")
    BY <1>3, <2>1 DEF AnswerInv, ForwardedInv
  <2>3. \A i \in DOMAIN bSent : bSent[i] \in Block => fwd[i] \in hDone'
    BY <2>1
  <2>4. \A i, j \in DOMAIN bSent : bSent[i] \in Block /\ bSent[j] \in Block /\ fwd[i] = fwd[j] => i = j
    BY DEF AnswerInv, ForwardedInv
  <2> QED BY <2>2, <2>3, <2>4 DEF ForwardedInv
<1>8. \A t \in Task : blockRes[t] # "none" => blockRes'[t] = blockRes[t]
  BY <1>1, <1>3 DEF AnswerInv, EndedInv
<1>9. BehindInv'
  BY <1>8, BehindKept DEF Final
<1> QED BY <1>5, <1>6, <1>7, <1>8, <1>9 DEF AnswerInv, Final

\* A header closure that forwards its task puts it behind the tasks of the parents: those
\* have ended, so they were answered or forwarded.
LEMMA HeaderForwards ==
    ASSUME AnswerInv, LinkInv, StageInv, StageOrder, NEW b \in hTaken,
           hDone' = hDone \cup {Head(hQueue[b])}, NEW n \in Nat \ {0},
           DOMAIN bSent = 1..(n - 1), DOMAIN bSent' = 1..n, bSent'[n] = b, fwd'[n] = Head(hQueue[b]),
           \A i \in 1..(n - 1) : bSent'[i] = bSent[i] /\ fwd'[i] = fwd[i],
           UNCHANGED <<hSent, blockRes, bDone>>
    PROVE  AnswerInv' /\ Final
<1> DEFINE t0 == Head(hQueue[b])
<1>1. t0 \in Tasks /\ t0 \in Task /\ t0 \in Nat /\ t0 \notin hDone /\ b \in Block /\ hSent[t0] = b
  BY TasksAreTasks DEF StageInv, StageOrder, Tasks
<1>2. n \in DOMAIN bSent' /\ bSent'[n] = b /\ fwd'[n] = t0
  OBVIOUS
<1>3. \A i \in DOMAIN bSent : i \in DOMAIN bSent' /\ bSent'[i] = bSent[i] /\ fwd'[i] = fwd[i]
  OBVIOUS
<1>4. Tasks' = Tasks
  BY DEF Tasks
<1>5. AnswerTypes'
  BY <1>4 DEF AnswerInv, AnswerTypes
<1>6. EndedInv'
  <2>1. \A t \in Task : t \notin hDone' => blockRes'[t] = "none"
    BY DEF AnswerInv, EndedInv
  <2>2. ASSUME NEW t \in Tasks, t \in hDone', blockRes[t] = "none"
        PROVE  \E i \in DOMAIN bSent' : fwd'[i] = t /\ bSent'[i] = hSent[t]
    <3>1. CASE t = t0
      BY <1>1, <1>2, <3>1
    <3>2. CASE t \in hDone
      <4>1. PICK i \in DOMAIN bSent : fwd[i] = t /\ bSent[i] = hSent[t]
        BY <2>2, <3>2 DEF AnswerInv, EndedInv
      <4> QED BY <1>3, <4>1
    <3> QED BY <2>2, <3>1, <3>2
  <2> QED BY <1>4, <2>1, <2>2 DEF EndedInv
<1>7. ForwardedInv'
  <2>1. \A i \in DOMAIN bSent' : i # n =>
           i \in DOMAIN bSent /\ bSent'[i] = bSent[i] /\ fwd'[i] = fwd[i]
    BY <1>2, <1>3
  <2>2. \A i \in DOMAIN bSent' : bSent'[i] \in Block /\ i # n => fwd'[i] \in hDone /\ fwd'[i] # t0
    BY <1>1, <2>1 DEF AnswerInv, ForwardedInv
  <2>3. \A i \in DOMAIN bSent' : bSent'[i] \in Block => fwd'[i] \in hDone'
    BY <1>2, <2>2
  <2>4. \A i, j \in DOMAIN bSent' : bSent'[i] \in Block /\ bSent'[j] \in Block /\ fwd'[i] = fwd'[j] => i = j
    <3>1. ASSUME NEW i \in DOMAIN bSent', NEW j \in DOMAIN bSent', i # n, j # n,
                 bSent'[i] \in Block, bSent'[j] \in Block, fwd'[i] = fwd'[j]
          PROVE  i = j
      BY <2>1, <3>1 DEF AnswerInv, ForwardedInv
    <3> QED BY <1>2, <2>2, <3>1
  <2>5. ASSUME NEW i \in DOMAIN bSent', bSent'[i] \in Block
        PROVE  i \in bDone <=> blockRes[fwd'[i]] # "none"
    <3>1. CASE i = n
      <4>1. n \notin bDone
        BY <1>2 DEF StageOrder
      <4>2. blockRes[t0] = "none"
        BY <1>1 DEF AnswerInv, EndedInv
      <4> QED BY <1>2, <3>1, <4>1, <4>2
    <3>2. CASE i # n
      BY <2>1, <2>5, <3>2 DEF AnswerInv, ForwardedInv
    <3> QED BY <3>1, <3>2
  <2> QED BY <2>3, <2>4, <2>5 DEF ForwardedInv
<1>8. BehindInv'
  <2> SUFFICES ASSUME NEW i \in DOMAIN bSent', bSent'[i] \in Block, NEW u \in 1..fwd'[i],
                      hSent[u] \in Parents[bSent'[i]], blockRes[u] = "none"
               PROVE  \E j \in 1..(i - 1) : bSent'[j] = hSent[u] /\ fwd'[j] = u
    BY DEF BehindInv
  <2>1. CASE i = n
    <3>1. u \in 1..t0 /\ hSent[u] \in Parents[b]
      BY <1>2, <2>1
    <3>2. u \in hDone
      BY <3>1 DEF StageOrder
    <3>3. u \in Tasks
      BY <1>1, <3>1, ParentsAssumption DEF Tasks, StageInv
    <3>4. PICK j \in DOMAIN bSent : fwd[j] = u /\ bSent[j] = hSent[u]
      BY <3>2, <3>3 DEF AnswerInv, EndedInv
    <3> QED BY <1>2, <1>3, <2>1, <3>4
  <2>2. CASE i # n
    <3>1. i \in DOMAIN bSent /\ bSent'[i] = bSent[i] /\ fwd'[i] = fwd[i]
      BY <1>2, <1>3, <2>2
    <3>2. PICK j \in 1..(i - 1) : bSent[j] = hSent[u] /\ fwd[j] = u
      BY <3>1 DEF AnswerInv, BehindInv
    <3>3. j \in DOMAIN bSent
      BY <1>2, <3>1, <3>2
    <3> QED BY <1>3, <3>2, <3>3
  <2> QED BY <2>1, <2>2
<1> QED BY <1>5, <1>6, <1>7, <1>8 DEF AnswerInv, Final

\* A body closure answers a task that was forwarded and not answered.
LEMMA BodyAnswers ==
    ASSUME AnswerInv, LinkInv, StageInv, StageOrder, NEW b \in bTaken, NEW r \in Results,
           bDone' = bDone \cup {Head(bQueue[b])},
           blockRes' = [blockRes EXCEPT ![fwd[Head(bQueue[b])]] = r],
           UNCHANGED <<hSent, bSent, fwd, hDone>>
    PROVE  AnswerInv' /\ Final
<1> DEFINE j0 == Head(bQueue[b])
           t0 == fwd[j0]
<1>1. j0 \in DOMAIN bSent /\ bSent[j0] \in Block /\ j0 \notin bDone
  BY DEF StageInv, StageOrder
<1>2. t0 \in Tasks /\ t0 \in Task /\ t0 \in hDone /\ blockRes[t0] = "none"
  BY <1>1, TasksAreTasks DEF AnswerInv, ForwardedInv, LinkInv, Tasks
<1>3. r # "none"
  BY DEF Results, Known, HasBody, Errors
<1>4. /\ blockRes' \in [Task -> Results \cup {"none"}] /\ blockRes'[t0] = r
      /\ \A t \in Task : t # t0 => blockRes'[t] = blockRes[t]
  BY <1>2 DEF AnswerInv, AnswerTypes
<1>5. Tasks' = Tasks
  BY DEF Tasks
<1>6. AnswerTypes'
  BY <1>4, <1>5 DEF AnswerInv, AnswerTypes
<1>7. EndedInv'
  <2>1. \A t \in Task : t \notin hDone => blockRes'[t] = "none"
    BY <1>2, <1>4 DEF AnswerInv, EndedInv
  <2>2. ASSUME NEW t \in Tasks, t \in hDone
        PROVE  blockRes'[t] # "none" \/ \E i \in DOMAIN bSent : fwd[i] = t /\ bSent[i] = hSent[t]
    BY <1>3, <1>4, <2>2, TasksAreTasks DEF AnswerInv, EndedInv
  <2> QED BY <1>5, <2>1, <2>2 DEF EndedInv
<1>8. ForwardedInv'
  <2>1. ASSUME NEW i \in DOMAIN bSent, bSent[i] \in Block
        PROVE  i \in bDone' <=> blockRes'[fwd[i]] # "none"
    <3>1. CASE i = j0
      BY <1>3, <1>4, <3>1
    <3>2. CASE i # j0
      <4>1. fwd[i] # t0 /\ fwd[i] \in Task
        BY ZenonT(60), <1>1, <2>1, <3>2, TasksAreTasks DEF AnswerInv, ForwardedInv, LinkInv, Tasks
      <4>2. i \in bDone <=> blockRes[fwd[i]] # "none"
        BY <2>1 DEF AnswerInv, ForwardedInv
      <4> QED BY <1>4, <3>2, <4>1, <4>2
    <3> QED BY <3>1, <3>2
  <2>2. \A i \in DOMAIN bSent : bSent[i] \in Block => fwd[i] \in hDone
    BY DEF AnswerInv, ForwardedInv
  <2>3. \A i, j \in DOMAIN bSent : bSent[i] \in Block /\ bSent[j] \in Block /\ fwd[i] = fwd[j] => i = j
    BY DEF AnswerInv, ForwardedInv
  <2> QED BY <2>1, <2>2, <2>3 DEF ForwardedInv
<1>9. Final
  BY <1>2, <1>4 DEF Final
<1>10. BehindInv'
  BY <1>9, BehindKept
<1> QED BY <1>6, <1>7, <1>8, <1>9, <1>10 DEF AnswerInv

\* Every step keeps the invariant on answers, and no step replaces an answer.
LEMMA AnswerStep ==
    ASSUME AnswerInv, LinkInv, StageInv, StageOrder, [Next]_vars
    PROVE  AnswerInv' /\ Final
<1>1. ASSUME UNCHANGED <<hSent, hDone, bSent, bDone, fwd, blockRes>> PROVE AnswerInv' /\ Final
  <2>1. AnswerTypes' /\ EndedInv' /\ ForwardedInv'
    BY <1>1 DEF AnswerInv, AnswerTypes, EndedInv, ForwardedInv, Tasks
  <2>2. BehindInv'
    BY <1>1 DEF AnswerInv, BehindInv
  <2> QED BY <1>1, <2>1, <2>2 DEF AnswerInv, Final
<1>2. ASSUME NEW offer \in Offered, Submit(offer[1], offer[2]) PROVE AnswerInv' /\ Final
  BY <1>2, SubmitAnswers
<1>3. CASE SignalExit
  BY <1>3, SignalExitAnswers
<1>4. CASE HeaderPassExit
  BY <1>4, PassExitAnswers
<1>5. ASSUME NEW b \in Block, EndHeader(b) PROVE AnswerInv' /\ Final
  <2>1. /\ b \in hTaken /\ hRes[b] \in Results /\ hDone' = hDone \cup {Head(hQueue[b])}
        /\ UNCHANGED <<hSent, bDone>>
    BY <1>5 DEF EndHeader, H!End, H!Ended
  <2>2. CASE blockRes' = [blockRes EXCEPT ![Head(hQueue[b])] = hRes[b]] /\ UNCHANGED <<bSent, fwd>>
    BY ZenonT(60), <2>1, <2>2, HeaderAnswers
  <2>3. CASE bSent' = Append(bSent, b) /\ fwd' = Append(fwd, Head(hQueue[b])) /\ UNCHANGED blockRes
    <3> DEFINE n == Len(bSent) + 1
    <3>1. Head(hQueue[b]) \in Nat /\ b \in Block \cup {ExitMsg}
      BY <2>1 DEF StageInv
    <3>2. /\ n \in Nat \ {0} /\ DOMAIN bSent = 1..(n - 1) /\ DOMAIN bSent' = 1..n
          /\ bSent'[n] = b /\ fwd'[n] = Head(hQueue[b])
      BY <2>3, <3>1 DEF StageInv, LinkInv
    <3>3. \A i \in 1..(n - 1) : bSent'[i] = bSent[i] /\ fwd'[i] = fwd[i]
      BY <2>3, <3>1 DEF StageInv, LinkInv
    <3> HIDE DEF n
    <3> QED BY ZenonT(60), <2>1, <2>3, <3>2, <3>3, HeaderForwards
  <2> QED BY <1>5, <2>2, <2>3 DEF EndHeader, B!Send, answers
<1>6. ASSUME NEW b \in Block, EndBody(b) PROVE AnswerInv' /\ Final
  <2>1. /\ b \in bTaken /\ bRes[b] \in Results /\ bDone' = bDone \cup {Head(bQueue[b])}
        /\ blockRes' = [blockRes EXCEPT ![fwd[Head(bQueue[b])]] = bRes[b]]
        /\ UNCHANGED <<hSent, bSent, fwd, hDone>>
    BY ZenonT(60), <1>6 DEF EndBody, B!End, B!Ended, hVars
  <2> QED BY ZenonT(60), <2>1, BodyAnswers
<1>7. CASE HeaderReceive \/ BodyWorker \/ VirtualWorker
  BY ZenonT(60), <1>1, <1>7 DEF HeaderReceive, H!Register, H!ReceiveExit, H!WaitForIdle, BodyWorker, BodyReceive,
     B!Register, B!ReceiveExit, B!WaitForIdle, BodyPassExit, BodyExits, B!PassExit, VirtualWorker,
     VirtualReceive, VirtualResolve, hVars, bVars, answers
<1>8. ASSUME NEW b \in Block, HeaderTryBegin(b) \/ ValidateHeader(b) \/ CommitHeader(b)
                              \/ BodyTryBegin(b) \/ ValidateBody(b) \/ CommitBody(b)
      PROVE  AnswerInv' /\ Final
  BY ZenonT(60), <1>1, <1>8 DEF HeaderTryBegin, H!TryBeginDefer, H!TryBeginTake, ValidateHeader, CommitHeader,
     BodyTryBegin, B!TryBeginDefer, B!TryBeginTake, ValidateBody, CommitBody, hVars, bVars, answers
<1>9. CASE UNCHANGED vars
  BY <1>1, <1>9 DEF vars, hVars, bVars, answers
<1> QED BY <1>2, <1>3, <1>4, <1>5, <1>6, <1>7, <1>8, <1>9
     DEF Next, HeaderWorker, HeaderClosure, BodyClosure

-----------------------------------------------------------------------------
\* A task that a header closure works on stays the front task of its block until it ends.
LEMMA HeaderFrontKept ==
    ASSUME StageInv, StageOrder, [Next]_vars, NEW b \in hTaken, ~EndHeader(b)
    PROVE  b \in hTaken' /\ Head(hQueue'[b]) = Head(hQueue[b])
<1>0. b \in Block /\ hQueue[b] \in Seq(Nat) /\ hQueue[b] # <<>>
  BY DEF StageInv, StageOrder
<1>1. ASSUME UNCHANGED <<hQueue, hTaken>> PROVE b \in hTaken' /\ Head(hQueue'[b]) = Head(hQueue[b])
  BY <1>1
<1>2. CASE H!Register
  <2>1. /\ hTaken' = hTaken /\ hRecv + 1 \in Nat
        /\ hQueue' = [hQueue EXCEPT ![hSent[hRecv + 1]] = Append(@, hRecv + 1)]
    BY <1>2 DEF H!Register, H!PushBack, StageOrder
  <2>2. hQueue'[b] = hQueue[b] \/ hQueue'[b] = Append(hQueue[b], hRecv + 1)
    BY <1>0, <2>1 DEF StageOrder
  <2>3. Head(Append(hQueue[b], hRecv + 1)) = Head(hQueue[b])
    BY <1>0, <2>1
  <2> QED BY <2>1, <2>2, <2>3
<1>3. ASSUME NEW c \in Block, H!TryBeginTake(c) PROVE b \in hTaken' /\ Head(hQueue'[b]) = Head(hQueue[b])
  BY <1>3 DEF H!TryBeginTake
<1>4. ASSUME NEW c \in Block, EndHeader(c) PROVE b \in hTaken' /\ Head(hQueue'[b]) = Head(hQueue[b])
  <2>1. c # b
    BY <1>4
  <2>2. hTaken' = hTaken \ {c} /\ hQueue' = [hQueue EXCEPT ![c] = Tail(@)]
    BY ZenonT(60), <1>4 DEF EndHeader, H!End
  <2> QED BY <1>0, <2>1, <2>2 DEF StageOrder
<1>5. CASE HeaderReceive
  BY <1>1, <1>2, <1>5 DEF HeaderReceive, H!ReceiveExit, H!WaitForIdle
<1>6. ASSUME NEW c \in Block, HeaderTryBegin(c) PROVE b \in hTaken' /\ Head(hQueue'[b]) = Head(hQueue[b])
  BY <1>1, <1>3, <1>6 DEF HeaderTryBegin, H!TryBeginDefer
<1>7. CASE \/ \E offer \in Offered : Submit(offer[1], offer[2])
           \/ SignalExit \/ HeaderPassExit \/ BodyWorker \/ VirtualWorker \/ UNCHANGED vars
  BY ZenonT(60), <1>1, <1>7 DEF Submit, SignalExit, HeaderPassExit, H!PassExit, BodyWorker, BodyReceive, BodyPassExit,
     VirtualWorker, VirtualReceive, VirtualResolve, vars, hVars
<1>8. ASSUME NEW c \in Block, ValidateHeader(c) \/ CommitHeader(c) \/ BodyClosure(c)
      PROVE  b \in hTaken' /\ Head(hQueue'[b]) = Head(hQueue[b])
  BY ZenonT(60), <1>1, <1>8 DEF ValidateHeader, CommitHeader, BodyClosure, BodyTryBegin, ValidateBody, CommitBody,
     EndBody, hVars
<1> QED BY <1>4, <1>5, <1>6, <1>7, <1>8 DEF Next, HeaderWorker, HeaderClosure

\* The same for a body closure, and the task behind the message is the same.
LEMMA BodyFrontKept ==
    ASSUME StageInv, StageOrder, LinkInv, [Next]_vars, NEW b \in bTaken, ~EndBody(b)
    PROVE  /\ b \in bTaken' /\ Head(bQueue'[b]) = Head(bQueue[b])
           /\ fwd'[Head(bQueue[b])] = fwd[Head(bQueue[b])]
<1> DEFINE Kept == b \in bTaken' /\ Head(bQueue'[b]) = Head(bQueue[b])
<1>0. b \in Block /\ bQueue[b] \in Seq(Nat) /\ bQueue[b] # <<>> /\ Head(bQueue[b]) \in DOMAIN fwd
  BY DEF StageInv, StageOrder, LinkInv
<1>1. ASSUME UNCHANGED <<bQueue, bTaken>> PROVE Kept
  BY <1>1
<1>2. ASSUME B!Register PROVE Kept
  <2>1. /\ bTaken' = bTaken /\ bRecv + 1 \in Nat
        /\ bQueue' = [bQueue EXCEPT ![bSent[bRecv + 1]] = Append(@, bRecv + 1)]
    BY <1>2 DEF B!Register, B!PushBack, StageOrder
  <2>2. bQueue'[b] = bQueue[b] \/ bQueue'[b] = Append(bQueue[b], bRecv + 1)
    BY <1>0, <2>1 DEF StageOrder
  <2>3. Head(Append(bQueue[b], bRecv + 1)) = Head(bQueue[b])
    BY <1>0, <2>1
  <2> QED BY <2>1, <2>2, <2>3
<1>3. ASSUME NEW c \in Block, B!TryBeginTake(c) PROVE Kept
  BY <1>3 DEF B!TryBeginTake
<1>4. ASSUME NEW c \in Block, EndBody(c) PROVE Kept
  <2>1. c # b
    BY <1>4
  <2>2. bTaken' = bTaken \ {c} /\ bQueue' = [bQueue EXCEPT ![c] = Tail(@)]
    BY ZenonT(60), <1>4 DEF EndBody, B!End
  <2> QED BY <1>0, <2>1, <2>2 DEF StageOrder
<1>5. ASSUME BodyReceive PROVE Kept
  BY <1>1, <1>2, <1>5 DEF BodyReceive, B!ReceiveExit, B!WaitForIdle
<1>6. ASSUME NEW c \in Block, BodyTryBegin(c) PROVE Kept
  BY <1>1, <1>3, <1>6 DEF BodyTryBegin, B!TryBeginDefer
<1>7. ASSUME \/ \E offer \in Offered : Submit(offer[1], offer[2])
             \/ SignalExit \/ HeaderWorker \/ BodyPassExit \/ VirtualWorker \/ UNCHANGED vars
      PROVE  Kept
  BY ZenonT(60), <1>1, <1>7 DEF Submit, SignalExit, HeaderWorker, HeaderReceive, HeaderPassExit, BodyPassExit,
     BodyExits, B!PassExit, VirtualWorker, VirtualReceive, VirtualResolve, vars, bVars
<1>8. ASSUME NEW c \in Block, ValidateBody(c) \/ CommitBody(c) \/ HeaderClosure(c)
      PROVE  Kept
  BY ZenonT(60), <1>1, <1>8 DEF ValidateBody, CommitBody, HeaderClosure, HeaderTryBegin, ValidateHeader, CommitHeader,
     EndHeader, bVars
<1>9. Kept
  BY <1>4, <1>5, <1>6, <1>7, <1>8 DEF Next, BodyWorker, BodyClosure
<1>10. fwd' = fwd \/ \E t \in Nat : fwd' = Append(fwd, t)
  <2>1. ASSUME NEW c \in Block, EndHeader(c) PROVE fwd' = fwd \/ fwd' = Append(fwd, Head(hQueue[c]))
    BY <2>1 DEF EndHeader
  <2>2. ASSUME NEW c \in Block, EndHeader(c) PROVE Head(hQueue[c]) \in Nat
    <3>1. c \in hTaken
      BY ZenonT(60), <2>2 DEF EndHeader, H!End
    <3>2. hQueue[c] \in Seq(Nat) /\ hQueue[c] # <<>>
      BY ZenonT(60), <2>2, <3>1 DEF StageOrder
    <3> QED BY <3>2
  <2>3. CASE HeaderPassExit
    BY <2>3 DEF HeaderPassExit
  <2>4. CASE \/ \E offer \in Offered : Submit(offer[1], offer[2])
             \/ SignalExit \/ HeaderReceive \/ BodyWorker \/ VirtualWorker \/ UNCHANGED vars
    BY ZenonT(60), <2>4 DEF Submit, SignalExit, HeaderReceive, BodyWorker, BodyReceive, BodyPassExit,
       VirtualWorker, VirtualReceive, VirtualResolve, vars
  <2>5. ASSUME NEW c \in Block, BodyClosure(c) \/ HeaderTryBegin(c) \/ ValidateHeader(c) \/ CommitHeader(c)
        PROVE  fwd' = fwd
    BY ZenonT(60), <2>5 DEF BodyClosure, BodyTryBegin, ValidateBody, CommitBody, EndBody, HeaderTryBegin,
       ValidateHeader, CommitHeader
  <2> QED BY <2>1, <2>2, <2>3, <2>4, <2>5 DEF Next, HeaderWorker, HeaderClosure
<1>11. fwd'[Head(bQueue[b])] = fwd[Head(bQueue[b])]
  <2>1. fwd \in Seq(Nat)
    BY DEF LinkInv
  <2>2. \A t \in Nat : \A i \in DOMAIN fwd : Append(fwd, t)[i] = fwd[i]
    BY <2>1
  <2> QED BY <1>0, <1>10, <2>2
<1> QED BY <1>9, <1>11

\* The channel of the header stage only grows.
LEMMA SentKept ==
    ASSUME StageInv, [Next]_vars
    PROVE  /\ \A i \in DOMAIN hSent : i \in DOMAIN hSent' /\ hSent'[i] = hSent[i]
           /\ Tasks \subseteq Tasks'
<1>1. hSent' = hSent \/ \E msg \in Block \cup {ExitMsg} : hSent' = Append(hSent, msg)
  <2>1. ASSUME NEW offer \in Offered, Submit(offer[1], offer[2])
        PROVE  hSent' = Append(hSent, offer[1]) /\ offer[1] \in Block
    BY ZenonT(60), <2>1, OfferedAssumption DEF Submit, H!Send
  <2>2. CASE SignalExit
    BY ZenonT(60), <2>2 DEF SignalExit, H!Send
  <2>3. CASE HeaderWorker \/ BodyWorker \/ VirtualWorker \/ UNCHANGED vars
    BY ZenonT(60), <2>3 DEF HeaderWorker, HeaderReceive, HeaderPassExit, BodyWorker, BodyReceive, BodyPassExit,
       VirtualWorker, VirtualReceive, VirtualResolve, vars, hVars
  <2>4. ASSUME NEW b \in Block, HeaderClosure(b) \/ BodyClosure(b) PROVE hSent' = hSent
    BY ZenonT(60), <2>4 DEF HeaderClosure, HeaderTryBegin, ValidateHeader, CommitHeader, EndHeader, BodyClosure,
       BodyTryBegin, ValidateBody, CommitBody, EndBody, hVars
  <2> QED BY ZenonT(60), <2>1, <2>2, <2>3, <2>4 DEF Next
<1>2. \A i \in DOMAIN hSent : i \in DOMAIN hSent' /\ hSent'[i] = hSent[i]
  BY <1>1 DEF StageInv
<1> QED BY <1>2 DEF Tasks

\* An answer comes from the closure of the header or of the body.
LEMMA AnswerFrom ==
    ASSUME AnswerInv, [Next]_vars, NEW t \in Task, blockRes'[t] # blockRes[t]
    PROVE  \/ \E b \in hTaken : EndHeader(b) /\ t = Head(hQueue[b]) /\ blockRes'[t] = hRes[b]
           \/ \E b \in bTaken : EndBody(b) /\ t = fwd[Head(bQueue[b])] /\ blockRes'[t] = bRes[b]
<1>0. blockRes \in [Task -> Results \cup {"none"}]
  BY DEF AnswerInv, AnswerTypes
<1>1. ASSUME NEW b \in Block, EndHeader(b)
      PROVE  b \in hTaken /\ t = Head(hQueue[b]) /\ blockRes'[t] = hRes[b]
  <2>1. b \in hTaken
    BY ZenonT(60), <1>1 DEF EndHeader, H!End
  <2>2. blockRes' = blockRes \/ blockRes' = [blockRes EXCEPT ![Head(hQueue[b])] = hRes[b]]
    BY <1>1 DEF EndHeader, answers
  <2> QED BY <1>0, <2>1, <2>2
<1>2. ASSUME NEW b \in Block, EndBody(b)
      PROVE  b \in bTaken /\ t = fwd[Head(bQueue[b])] /\ blockRes'[t] = bRes[b]
  <2>1. b \in bTaken
    BY ZenonT(60), <1>2 DEF EndBody, B!End
  <2>2. blockRes' = [blockRes EXCEPT ![fwd[Head(bQueue[b])]] = bRes[b]]
    BY ZenonT(60), <1>2 DEF EndBody
  <2> QED BY <1>0, <2>1, <2>2
<1>3. ~(\/ \E offer \in Offered : Submit(offer[1], offer[2])
        \/ SignalExit \/ HeaderWorker \/ BodyWorker \/ VirtualWorker \/ UNCHANGED vars)
  BY ZenonT(60) DEF Submit, SignalExit, HeaderWorker, HeaderReceive, HeaderPassExit, BodyWorker, BodyReceive,
     BodyPassExit, VirtualWorker, VirtualReceive, VirtualResolve, vars, answers
<1>4. ASSUME NEW b \in Block, HeaderTryBegin(b) \/ ValidateHeader(b) \/ CommitHeader(b)
                              \/ BodyTryBegin(b) \/ ValidateBody(b) \/ CommitBody(b)
      PROVE  FALSE
  BY ZenonT(60), <1>4 DEF HeaderTryBegin, ValidateHeader, CommitHeader, BodyTryBegin, ValidateBody,
     CommitBody, answers
<1> QED BY ZenonT(60), <1>1, <1>2, <1>3, <1>4 DEF Next, HeaderClosure, BodyClosure

\* The task of a closure is a task of its block.
LEMMA ClosureTasks ==
    ASSUME StageInv, LinkInv
    PROVE  /\ \A b \in hTaken : Head(hQueue[b]) \in Tasks /\ hSent[Head(hQueue[b])] = b
           /\ \A b \in bTaken : fwd[Head(bQueue[b])] \in Tasks /\ hSent[fwd[Head(bQueue[b])]] = b
BY ZenonT(60) DEF StageInv, LinkInv, Tasks

\* A task has no answer when it is submitted.
LEMMA NewUnanswered ==
    ASSUME AnswerInv, AnswerInv', LinkInv, LinkInv', StageInv, StageInv', StageOrder, [Next]_vars,
           NEW t \in Tasks', blockRes'[t] # "none"
    PROVE  t \in Tasks
<1>1. t \in Task
  BY DEF AnswerInv, AnswerTypes, Task
<1>2. CASE blockRes'[t] = blockRes[t]
  <2>1. t \in hDone
    BY <1>1, <1>2 DEF AnswerInv, EndedInv
  <2>2. t \in DOMAIN hSent
    BY <2>1 DEF StageOrder
  <2> QED BY <2>2, SentKept DEF Tasks
<1>3. CASE blockRes'[t] # blockRes[t]
  BY ZenonT(60), <1>1, <1>3, AnswerFrom, ClosureTasks
<1> QED BY <1>2, <1>3

\* Once lost, a task stays lost: the answers it was lost by are final.
LEMMA LostKept ==
    ASSUME AnswerInv, LinkInv, StageInv, Final, [Next]_vars, NEW t \in Tasks, Lost(t)
    PROVE  \E p \in Parents[hSent'[t]] :
              \A u \in 1..(t - 1) : hSent'[u] = p => blockRes'[u] \notin HasBody \cup {"none"}
<1>1. PICK p \in Parents[hSent[t]] :
         \A u \in 1..(t - 1) : hSent[u] = p => blockRes[u] \notin HasBody \cup {"none"}
  BY DEF Lost
<1>2. t \in DOMAIN hSent /\ hSent'[t] = hSent[t] /\ p \in Block
  BY SentKept, ParentsAssumption DEF Tasks
<1>3. ASSUME NEW u \in 1..(t - 1), hSent'[u] = p
      PROVE  blockRes'[u] \notin HasBody \cup {"none"}
  <2>1. u \in DOMAIN hSent /\ hSent[u] = p
    BY <1>2, <1>3, SentKept DEF StageInv
  <2>2. u \in Task
    BY <1>2, <2>1, TasksAreTasks DEF Tasks
  <2> QED BY <1>1, <2>1, <2>2 DEF Final
<1> QED BY <1>2, <1>3

-----------------------------------------------------------------------------
\* process_header reports missing parents only when a parent has no header, and a body
\* only when there is one.
LEMMA HeaderReports ==
    ASSUME NEW b \in Block, NEW k, NEW v \in HeaderOutcomes(b, k), status[b] \in Statuses
    PROVE  /\ v = "MissingParents" => \E p \in Parents[b] : status[p] = "none"
           /\ v \in HasBody => status[b] \in HasBody
<1>1. CASE status[b] = "none"
  <2>1. HeaderOutcomes(b, k) = ValidationOutcomes(b, k)
    BY <1>1 DEF HeaderOutcomes, Known, HasBody
  <2>2. ParentsVerdict(b) \in {"InvalidParent", "MissingParents", "accepted"}
    BY DEF ParentsVerdict
  <2>3. IsolationOutcomes(b) \subseteq {"RuleError", "accepted"}
    BY DEF IsolationOutcomes
  <2>4. v = "RuleError" \/ v = ContextOutcome(b, k)
    BY <2>1, <2>3 DEF ValidationOutcomes
  <2>5. ContextOutcome(b, k) \in {"accepted", "RuleError"} \/ ContextOutcome(b, k) = ParentsVerdict(b)
    BY <2>2 DEF ContextOutcome
  <2>6. ParentsVerdict(b) = "MissingParents" => \E p \in Parents[b] : status[p] = "none"
    BY DEF ParentsVerdict
  <2> QED BY <2>2, <2>4, <2>5, <2>6 DEF HasBody
<1>2. CASE status[b] = "Invalid"
  BY <1>2 DEF HeaderOutcomes, Known, HasBody
<1>3. CASE status[b] \in Known
  BY <1>3 DEF HeaderOutcomes, Known, HasBody
<1> QED BY <1>1, <1>2, <1>3 DEF Statuses

\* process_body reports missing parents only when a parent has no body, and a body only
\* when there is one.
LEMMA BodyReports ==
    ASSUME NEW b \in Block, NEW k, status[b] \in Statuses \ {"none"}
    PROVE  /\ BodyVerdict(b, k) = "MissingParents" => \E p \in Parents[b] : status[p] \notin HasBody
           /\ BodyVerdict(b, k) \in HasBody => status[b] \in HasBody
<1>1. /\ ValidateBodyVerdict(b, k) \in {"RuleError", "accepted", "MissingParents"}
      /\ ValidateBodyVerdict(b, k) = "MissingParents" => ParentBodyMissing(b)
  BY DEF ValidateBodyVerdict
<1>2. CASE status[b] = "Invalid"
  BY <1>2 DEF BodyVerdict, HasBody
<1>3. CASE status[b] \in HasBody
  BY <1>3 DEF BodyVerdict, HasBody
<1>4. CASE status[b] = "HeaderOnly"
  <2>1. BodyVerdict(b, k) \in {"BadMerkleRoot", ValidateBodyVerdict(b, k)}
    BY <1>4 DEF BodyVerdict, HasBody
  <2> QED BY <1>1, <2>1 DEF ParentBodyMissing, HasBody
<1> QED BY <1>2, <1>3, <1>4 DEF Statuses, Known

\* Only the closure of a block changes its outcome so far: in the header stage
LEMMA HResFrom ==
    ASSUME [Next]_vars, hRes' # hRes
    PROVE  \E c \in Block : ValidateHeader(c) \/ CommitHeader(c) \/ EndHeader(c)
<1>1. ~(\/ \E offer \in Offered : Submit(offer[1], offer[2])
        \/ SignalExit \/ HeaderWorker \/ BodyWorker \/ VirtualWorker \/ UNCHANGED vars)
  BY ZenonT(60) DEF Submit, SignalExit, HeaderWorker, HeaderReceive, HeaderPassExit, BodyWorker, BodyReceive,
     BodyPassExit, VirtualWorker, VirtualReceive, VirtualResolve, vars
<1>2. ASSUME NEW b \in Block, HeaderTryBegin(b) \/ BodyClosure(b)
      PROVE  FALSE
  BY ZenonT(60), <1>2 DEF HeaderTryBegin, BodyClosure, BodyTryBegin, ValidateBody, CommitBody, EndBody
<1> QED BY <1>1, <1>2 DEF Next, HeaderClosure

\* and in the body stage.
LEMMA BResFrom ==
    ASSUME [Next]_vars, bRes' # bRes
    PROVE  \E c \in Block : ValidateBody(c) \/ CommitBody(c) \/ EndBody(c)
<1>1. ~(\/ \E offer \in Offered : Submit(offer[1], offer[2])
        \/ SignalExit \/ HeaderWorker \/ BodyWorker \/ VirtualWorker \/ UNCHANGED vars)
  BY ZenonT(60) DEF Submit, SignalExit, HeaderWorker, HeaderReceive, HeaderPassExit, BodyWorker, BodyReceive,
     BodyPassExit, VirtualWorker, VirtualReceive, VirtualResolve, vars
<1>2. ASSUME NEW b \in Block, BodyTryBegin(b) \/ HeaderClosure(b)
      PROVE  FALSE
  BY ZenonT(60), <1>2 DEF BodyTryBegin, HeaderClosure, HeaderTryBegin, ValidateHeader, CommitHeader, EndHeader
<1> QED BY <1>1, <1>2 DEF Next, BodyClosure

\* What closures and answers say about bodies stays true: a body is never removed.
LEMMA BodyAnswerStep ==
    ASSUME BodyAnswerInv, AnswerInv, AnswerInv', LinkInv, LinkInv', StageInv, StageInv', StageOrder,
           StatusInv, Advances, [Next]_vars
    PROVE  BodyAnswerInv'
<1>1. \A b \in Block : status[b] \in HasBody => status'[b] \in HasBody
  BY DEF Advances, HasBody
<1>2. ASSUME NEW b \in Block, hRes'[b] \in HasBody PROVE status'[b] \in HasBody
  <2>1. CASE hRes[b] \in HasBody
    BY <1>1, <2>1 DEF BodyAnswerInv
  <2>2. CASE hRes'[b] # hRes[b]
    <3>1. ASSUME NEW c \in Block, ValidateHeader(c) PROVE status[b] \in HasBody
      <4>1. PICK v \in HeaderOutcomes(c, kind[Head(hQueue[c])]) : hRes' = [hRes EXCEPT ![c] = v]
        BY ZenonT(60), <3>1 DEF ValidateHeader
      <4>2. b = c /\ v \in HasBody
        BY <1>2, <2>2, <4>1 DEF StatusInv, StoreTypes
      <4> QED BY <4>1, <4>2, HeaderReports DEF StatusInv, StoreTypes
    <3>2. ASSUME NEW c \in Block, CommitHeader(c) \/ EndHeader(c) PROVE FALSE
      BY <1>2, <2>2, <3>2 DEF CommitHeader, EndHeader, StatusInv, StoreTypes, HasBody
    <3> QED BY <1>1, <2>2, <3>1, <3>2, HResFrom
  <2> QED BY <1>2, <2>1, <2>2
<1>3. ASSUME NEW b \in Block, bRes'[b] \in HasBody PROVE status'[b] \in HasBody
  <2>1. CASE bRes[b] \in HasBody
    BY <1>1, <2>1 DEF BodyAnswerInv
  <2>2. CASE bRes'[b] # bRes[b]
    <3>1. ASSUME NEW c \in Block, ValidateBody(c) PROVE status[b] \in HasBody
      <4>1. /\ bRes' = [bRes EXCEPT ![c] = BodyVerdict(c, kind[fwd[Head(bQueue[c])]])]
            /\ c \in bTaken
        BY <3>1 DEF ValidateBody
      <4>2. b = c /\ BodyVerdict(c, kind[fwd[Head(bQueue[c])]]) \in HasBody
        BY <1>3, <2>2, <4>1 DEF StatusInv, StoreTypes
      <4>3. status[c] \in Statuses \ {"none"}
        BY ZenonT(60), <4>1 DEF StatusInv, StoreTypes, ForwardInv, StageInv
      <4> QED BY <4>2, <4>3, BodyReports
    <3>2. ASSUME NEW c \in Block, CommitBody(c) PROVE status'[b] \in HasBody
      BY <1>3, <2>2, <3>2 DEF CommitBody, StatusInv, StoreTypes, HasBody
    <3>3. ASSUME NEW c \in Block, EndBody(c) PROVE FALSE
      BY ZenonT(60), <1>3, <2>2, <3>3 DEF EndBody, StatusInv, StoreTypes, HasBody
    <3> QED BY <1>1, <2>2, <3>1, <3>2, <3>3, BResFrom
  <2> QED BY <1>3, <2>1, <2>2
<1>4. ASSUME NEW t \in Tasks', blockRes'[t] \in HasBody PROVE status'[hSent'[t]] \in HasBody
  <2>1. t \in Tasks /\ hSent'[t] = hSent[t] /\ hSent[t] \in Block /\ t \in Task
    <3>1. t \in Tasks
      BY <1>4, NewUnanswered DEF HasBody
    <3> QED BY <3>1, SentKept, TasksAreTasks DEF Tasks
  <2>2. CASE blockRes'[t] = blockRes[t]
    BY <1>1, <1>4, <2>1, <2>2 DEF BodyAnswerInv
  <2>3. CASE blockRes'[t] # blockRes[t]
    <3>1. hRes[hSent[t]] \in HasBody \/ bRes[hSent[t]] \in HasBody
      BY <1>4, <2>1, <2>3, AnswerFrom, ClosureTasks
    <3> QED BY <1>1, <2>1, <3>1 DEF BodyAnswerInv
  <2> QED BY <2>2, <2>3
<1> QED BY ZenonT(60), <1>2, <1>3, <1>4 DEF BodyAnswerInv

-----------------------------------------------------------------------------
\* A task whose header finds a parent missing is lost: the tasks of that parent have all
\* ended, and none of them was forwarded.
LEMMA HeaderLost ==
    ASSUME AnswerInv, BodyAnswerInv, LinkInv, StageInv, StageOrder, StatusInv,
           NEW b \in hTaken, NEW p \in Parents[b], status[p] = "none"
    PROVE  Lost(Head(hQueue[b]))
<1> DEFINE t == Head(hQueue[b])
<1>1. b \in Block /\ p \in Block /\ t \in DOMAIN hSent /\ hSent[t] = b /\ t \in Nat
  BY ParentsAssumption DEF StageInv
<1>2. ASSUME NEW u \in 1..(t - 1), hSent[u] = p PROVE blockRes[u] \notin HasBody \cup {"none"}
  <2>1. u \in Tasks
    BY <1>1, <1>2 DEF Tasks, StageInv
  <2>2. u \in hDone
    <3>1. u \in 1..Head(hQueue[b]) /\ hSent[u] \in Parents[b]
      BY <1>1, <1>2
    <3> QED BY <3>1 DEF StageOrder
  <2>3. \A i \in DOMAIN bSent : bSent[i] # p
    BY <1>1 DEF StatusInv, ForwardInv
  <2>4. blockRes[u] # "none"
    BY <1>2, <2>1, <2>2, <2>3 DEF AnswerInv, EndedInv
  <2>5. blockRes[u] \notin HasBody
    BY <1>2, <2>1 DEF BodyAnswerInv, HasBody
  <2> QED BY <2>4, <2>5
<1> QED BY <1>1, <1>2 DEF Lost

\* A task whose body finds the body of a parent missing is lost: the tasks of that parent
\* were answered by the header stage, or are in front of it in the channel and have ended.
LEMMA BodyLost ==
    ASSUME AnswerInv, BodyAnswerInv, LinkInv, StageInv, StageOrder, StatusInv,
           NEW b \in bTaken, NEW p \in Parents[b], status[p] \notin HasBody
    PROVE  Lost(fwd[Head(bQueue[b])])
<1> DEFINE i == Head(bQueue[b])
           t == fwd[i]
<1>1. /\ b \in Block /\ p \in Block /\ i \in DOMAIN bSent /\ bSent[i] = b /\ i \in Nat
      /\ t \in DOMAIN hSent /\ hSent[t] = b /\ t \in Nat
  BY ParentsAssumption DEF StageInv, LinkInv
<1>2. ASSUME NEW u \in 1..(t - 1), hSent[u] = p PROVE blockRes[u] \notin HasBody \cup {"none"}
  <2>1. u \in Tasks
    BY <1>1, <1>2 DEF Tasks, StageInv
  <2>2. ASSUME NEW j \in 1..(i - 1), bSent[j] = p, fwd[j] = u PROVE blockRes[u] # "none"
    <3>1. j \in bDone
      <4>1. j \in 1..Head(bQueue[b]) /\ bSent[j] \in Parents[b]
        BY <1>1, <2>2
      <4> QED BY <4>1 DEF StageOrder
    <3>2. j \in DOMAIN bSent
      BY <3>1 DEF StageOrder
    <3> QED BY <1>1, <2>2, <3>1, <3>2 DEF AnswerInv, ForwardedInv
  <2>3. u \in 1..fwd[i] /\ hSent[u] \in Parents[bSent[i]]
    BY <1>1, <1>2
  <2>4. blockRes[u] # "none"
    BY <1>1, <1>2, <2>2, <2>3 DEF AnswerInv, BehindInv
  <2>5. blockRes[u] \notin HasBody
    BY <1>2, <2>1 DEF BodyAnswerInv
  <2> QED BY <2>4, <2>5
<1> QED BY <1>1, <1>2 DEF Lost

\* No step lets a task that is not lost fail for missing parents.
LEMMA LostStep ==
    ASSUME LostInv, BodyAnswerInv, AnswerInv, AnswerInv', Final, LinkInv, LinkInv', StageInv, StageInv',
           StageOrder, StatusInv, [Next]_vars
    PROVE  LostInv'
<1> DEFINE LostNext(t) == \E p \in Parents[hSent'[t]] :
              \A u \in 1..(t - 1) : hSent'[u] = p => blockRes'[u] \notin HasBody \cup {"none"}
<1>1. \A t \in Tasks : Lost(t) => LostNext(t)
  BY LostKept
<1> HIDE DEF LostNext
<1>2. ASSUME NEW b \in Block, hRes'[b] = "MissingParents"
      PROVE  b \in hTaken' /\ LostNext(Head(hQueue'[b]))
  <2>1. b \in hTaken /\ Lost(Head(hQueue[b]))
    <3>1. CASE hRes[b] = "MissingParents"
      BY ZenonT(60), <3>1 DEF LostInv
    <3>2. CASE hRes[b] # "MissingParents"
      <4>1. PICK c \in Block : ValidateHeader(c) \/ CommitHeader(c) \/ EndHeader(c)
        BY <1>2, <3>2, HResFrom
      <4>2. ~CommitHeader(c) /\ ~EndHeader(c)
        BY <1>2, <3>2 DEF CommitHeader, EndHeader, StatusInv, StoreTypes
      <4>3. PICK v \in HeaderOutcomes(c, kind[Head(hQueue[c])]) : hRes' = [hRes EXCEPT ![c] = v]
        BY ZenonT(60), <4>1, <4>2 DEF ValidateHeader
      <4>4. b = c /\ v = "MissingParents" /\ b \in hTaken
        BY <1>2, <3>2, <4>1, <4>2, <4>3 DEF ValidateHeader, StatusInv, StoreTypes
      <4>5. \E p \in Parents[b] : status[p] = "none"
        BY ZenonT(60), <4>3, <4>4, HeaderReports DEF StatusInv, StoreTypes
      <4> QED BY ZenonT(60), <4>4, <4>5, HeaderLost
    <3> QED BY ZenonT(60), <3>1, <3>2
  <2>2. ~EndHeader(b)
    BY <1>2 DEF EndHeader, StatusInv, StoreTypes
  <2> QED BY <1>1, <2>1, <2>2, HeaderFrontKept, ClosureTasks
<1>3. ASSUME NEW b \in Block, bRes'[b] = "MissingParents"
      PROVE  b \in bTaken' /\ LostNext(fwd'[Head(bQueue'[b])])
  <2>1. b \in bTaken /\ Lost(fwd[Head(bQueue[b])])
    <3>1. CASE bRes[b] = "MissingParents"
      BY ZenonT(60), <3>1 DEF LostInv
    <3>2. CASE bRes[b] # "MissingParents"
      <4>1. PICK c \in Block : ValidateBody(c) \/ CommitBody(c) \/ EndBody(c)
        BY <1>3, <3>2, BResFrom
      <4>2. ~CommitBody(c) /\ ~EndBody(c)
        BY ZenonT(60), <1>3, <3>2 DEF CommitBody, EndBody, StatusInv, StoreTypes
      <4>3. /\ bRes' = [bRes EXCEPT ![c] = BodyVerdict(c, kind[fwd[Head(bQueue[c])]])]
            /\ c \in bTaken
        BY ZenonT(60), <4>1, <4>2 DEF ValidateBody
      <4>4. b = c /\ BodyVerdict(b, kind[fwd[Head(bQueue[b])]]) = "MissingParents"
        <5>1. bRes \in [Block -> Results \cup {"none", "accepted"}]
          BY ZenonT(60) DEF StatusInv, StoreTypes
        <5> QED BY <1>3, <3>2, <4>3, <5>1
      <4>5. status[b] \in Statuses \ {"none"}
        BY <4>3, <4>4 DEF StatusInv, StoreTypes, ForwardInv, StageInv
      <4>6. \E p \in Parents[b] : status[p] \notin HasBody
        BY ZenonT(60), <4>4, <4>5, BodyReports
      <4> QED BY ZenonT(60), <4>3, <4>4, <4>6, BodyLost
    <3> QED BY ZenonT(60), <3>1, <3>2
  <2>2. ~EndBody(b)
    BY <1>3 DEF EndBody, StatusInv, StoreTypes
  <2> QED BY ZenonT(60), <1>1, <2>1, <2>2, BodyFrontKept, ClosureTasks
<1>4. ASSUME NEW t \in Tasks', blockRes'[t] = "MissingParents" PROVE LostNext(t)
  <2>1. t \in Tasks /\ t \in Task
    BY <1>4, NewUnanswered, TasksAreTasks
  <2>2. CASE blockRes'[t] = blockRes[t]
    BY <1>1, <1>4, <2>1, <2>2 DEF LostInv
  <2>3. CASE blockRes'[t] # blockRes[t]
    <3>1. ASSUME NEW b \in hTaken, t = Head(hQueue[b]), blockRes'[t] = hRes[b] PROVE Lost(t)
      <4>1. b \in Block
        BY DEF StageInv
      <4> QED BY <1>4, <3>1, <4>1 DEF LostInv
    <3>2. ASSUME NEW b \in bTaken, t = fwd[Head(bQueue[b])], blockRes'[t] = bRes[b] PROVE Lost(t)
      <4>1. b \in Block
        BY DEF StageInv
      <4> QED BY <1>4, <3>2, <4>1 DEF LostInv
    <3>3. Lost(t)
      BY ZenonT(60), <2>1, <2>3, <3>1, <3>2, AnswerFrom
    <3> QED BY <1>1, <2>1, <3>3
  <2> QED BY <2>2, <2>3
<1> QED BY ZenonT(60), <1>2, <1>3, <1>4 DEF LostInv, Lost, LostNext

=============================================================================
