------------------------- MODULE TaskManagerProofs -------------------------
(***************************************************************************)
(* Proofs about TaskManager, for every set of blocks, every DAG and every  *)
(* sequence of messages.                                                   *)
(***************************************************************************)
EXTENDS TaskManager, FiniteSetTheorems, TLAPS

\* The SMT solver is given a minute for each leaf that names no other prover.
USE SMTT(60)

\* The tasks of a group were received, carry its hash, have not ended, and are
\* queued in the order of the channel.
QueueInv ==
    \A b \in Block : \A k \in DOMAIN queue[b] :
        /\ queue[b][k] \in 1..recv
        /\ sent[queue[b][k]] = b
        /\ queue[b][k] \notin done
        /\ \A l \in DOMAIN queue[b] : k < l => queue[b][k] < queue[b][l]

\* A task that was received has ended or is still queued in its group.
ReceivedInv ==
    /\ done \subseteq 1..recv
    /\ \A i \in 1..recv : sent[i] \in Block =>
          i \in done \/ \E k \in DOMAIN queue[sent[i]] : queue[sent[i]][k] = i

\* A block waits only behind a direct parent whose group is pending.
DepsInv ==
    \A p \in Block : \A i \in DOMAIN deps[p] :
        p \in Parents[deps[p][i]] /\ queue[p] # <<>>

\* The worker goes past wait_for_idle only with an empty map.
WorkerInv == worker \in {"woken", "exited"} => Pending = {}

IInv ==
    /\ TypeOK
    /\ ExpectsHold
    /\ OneOwner
    /\ QueueInv
    /\ ReceivedInv
    /\ DepsInv
    /\ WorkerInv
    /\ ParentsFirst
    /\ SameHashInOrder

USE ParentsAssumption, ExitAssumption

-----------------------------------------------------------------------------
\* Spawning the dependents of a group spawns one closure per member when the
\* list holds no hash twice.
LEMMA OccurrencesOnce ==
    ASSUME NEW hashes \in Seq(Block), NEW b \in Block,
           \A i, j \in DOMAIN hashes : hashes[i] = hashes[j] => i = j
    PROVE  /\ (\E i \in DOMAIN hashes : hashes[i] = b) => Occurrences(hashes, b) = 1
           /\ ~(\E i \in DOMAIN hashes : hashes[i] = b) => Occurrences(hashes, b) = 0
<1>1. ASSUME NEW i \in DOMAIN hashes, hashes[i] = b
      PROVE  Occurrences(hashes, b) = 1
  <2>1. {k \in DOMAIN hashes : hashes[k] = b} = {i}
    BY <1>1
  <2>. QED  BY ZenonT(60), <2>1, FS_Singleton DEF Occurrences
<1>2. ASSUME ~(\E i \in DOMAIN hashes : hashes[i] = b)
      PROVE  Occurrences(hashes, b) = 0
  <2>1. {k \in DOMAIN hashes : hashes[k] = b} = {}
    BY <1>2
  <2>. QED  BY ZenonT(60), <2>1, FS_EmptySet DEF Occurrences
<1>. QED  BY <1>1, <1>2

LEMMA InitIInv == Init => IInv
<1>. SUFFICES ASSUME Init PROVE IInv
  OBVIOUS
<1>1. TypeOK
  BY DEF Init, TypeOK
<1>2. OneOwner /\ ExpectsHold
  BY DEF Init, OneOwner, DepsDistinct, ExpectsHold, Waits
<1>3. QueueInv /\ ReceivedInv /\ DepsInv
  BY DEF Init, QueueInv, ReceivedInv, DepsInv
<1>4. WorkerInv /\ ParentsFirst /\ SameHashInOrder
  BY DEF Init, WorkerInv, ParentsFirst, SameHashInOrder
<1>. QED  BY <1>1, <1>2, <1>3, <1>4 DEF IInv

\* The channel's history only grows, so what the invariant says of received
\* messages survives a send.
LEMMA SubmitIInv == IInv /\ Submit => IInv'
<1>. SUFFICES ASSUME IInv, Submit PROVE IInv'
  OBVIOUS
<1>. USE DEF IInv
<1>0. PICK msg \in Block \cup {ExitMsg} : sent' = Append(sent, msg)
  BY DEF Submit, Send
<1>1. /\ Len(sent') = Len(sent) + 1
      /\ \A i \in 1..Len(sent) : sent'[i] = sent[i]
      /\ UNCHANGED <<recv, worker, queue, taken, deps, spawned, done>>
  BY <1>0 DEF TypeOK, Submit
<1>2. TypeOK'
  BY <1>0, <1>1 DEF TypeOK
<1>3. (ExpectsHold /\ OneOwner /\ DepsInv /\ WorkerInv)'
  <2>1. (ExpectsHold /\ DepsInv /\ WorkerInv)'
    BY <1>1 DEF ExpectsHold, DepsInv, WorkerInv, Pending
  <2>2. OneOwner'
    <3>1. \A b \in Block : Waits(b)' <=> Waits(b)
      BY <1>1 DEF Waits
    <3>2. DepsDistinct'
      BY <1>1 DEF OneOwner, DepsDistinct
    <3>. QED  BY <1>1, <3>1, <3>2 DEF OneOwner
  <2>. QED  BY <2>1, <2>2
<1>4. \A i \in 1..recv : i \in 1..Len(sent) /\ sent'[i] = sent[i]
  <2>1. recv \in Nat /\ Len(sent) \in Nat /\ recv <= Len(sent)
    BY DEF TypeOK
  <2>. QED  BY <1>1, <2>1
<1>5. QueueInv'
  <2>. SUFFICES ASSUME NEW b \in Block, NEW k \in DOMAIN queue[b]
                PROVE  /\ queue[b][k] \in 1..recv
                       /\ sent'[queue[b][k]] = b
                       /\ queue[b][k] \notin done
                       /\ \A l \in DOMAIN queue[b] : k < l => queue[b][k] < queue[b][l]
    BY <1>1 DEF QueueInv
  <2>. QED  BY <1>4 DEF QueueInv
<1>6. ReceivedInv'
  <2>. SUFFICES ASSUME NEW i \in 1..recv, sent'[i] \in Block
                PROVE  i \in done \/ \E k \in DOMAIN queue[sent'[i]] : queue[sent'[i]][k] = i
    BY <1>1 DEF ReceivedInv
  <2>. QED  BY <1>4 DEF ReceivedInv
<1>7. ParentsFirst'
  <2>. SUFFICES ASSUME NEW b \in Block, b \in taken, NEW u \in 1..Head(queue[b]),
                       sent'[u] \in Parents[b]
                PROVE  u \in done
    BY <1>1 DEF ParentsFirst
  <2>1. queue[b] # <<>> /\ queue[b] \in Seq(Nat)
    BY DEF ExpectsHold, TypeOK
  <2>2. Head(queue[b]) \in 1..recv
    BY <2>1 DEF QueueInv
  <2>3. u \in 1..recv
    BY <2>2 DEF TypeOK
  <2>. QED  BY <1>4, <2>3 DEF ParentsFirst
<1>8. SameHashInOrder'
  <2>. SUFFICES ASSUME NEW i \in done, NEW j \in 1..i, sent'[j] = sent'[i]
                PROVE  j \in done
    BY <1>1 DEF SameHashInOrder
  <2>1. i \in 1..recv /\ j \in 1..recv
    BY DEF ReceivedInv, TypeOK
  <2>. QED  BY <1>4, <2>1 DEF SameHashInOrder
<1>. QED  BY <1>2, <1>3, <1>5, <1>6, <1>7, <1>8

\* Receiving a task appends it to its group; a new group gets its first owner,
\* a group that is there keeps the one it has.
LEMMA RegisterIInv == IInv /\ Register /\ UNCHANGED sent => IInv'
<1>. SUFFICES ASSUME IInv, Register, UNCHANGED sent PROVE IInv'
  OBVIOUS
<1>. USE DEF IInv
<1>. DEFINE n == recv + 1
            c == sent[n]
<1>1. /\ n \in 1..Len(sent) /\ n \in Nat /\ c \in Block
      /\ recv' = n
      /\ queue' = [queue EXCEPT ![c] = Append(@, n)]
      /\ spawned' = IF queue[c] = <<>> THEN [spawned EXCEPT ![c] = @ + 1] ELSE spawned
      /\ UNCHANGED <<sent, worker, taken, deps, done>>
      /\ worker = "receiving"
  <2>1. n \in 1..Len(sent) /\ n \in Nat /\ c \in Block
    BY DEF Register, TypeOK
  <2>. QED  BY <2>1 DEF Register, PushBack, OpensGroup
<1>. HIDE DEF n, c
<1>2. TypeOK'
  BY <1>1 DEF TypeOK, n
<1>3. /\ queue'[c] = Append(queue[c], n) /\ queue'[c] # <<>>
      /\ DOMAIN queue'[c] = DOMAIN queue[c] \cup {Len(queue[c]) + 1}
      /\ \A k \in DOMAIN queue[c] : queue'[c][k] = queue[c][k] /\ k < Len(queue[c]) + 1
      /\ queue'[c][Len(queue[c]) + 1] = n
      /\ \A b \in Block \ {c} : queue'[b] = queue[b]
      /\ Len(queue[c]) + 1 \in Nat
      /\ DOMAIN queue[c] \subseteq Nat
  <2>1. queue[c] \in Seq(Nat) /\ queue'[c] = Append(queue[c], n)
    BY <1>1 DEF TypeOK
  <2>2. /\ Len(queue[c]) \in Nat /\ Len(queue'[c]) = Len(queue[c]) + 1
        /\ DOMAIN queue[c] = 1..Len(queue[c])
        /\ DOMAIN queue'[c] = 1..Len(queue[c]) + 1
    BY <1>1, <2>1
  <2>3. DOMAIN queue'[c] = DOMAIN queue[c] \cup {Len(queue[c]) + 1}
    BY <2>2
  <2>4. /\ \A k \in DOMAIN queue[c] : queue'[c][k] = queue[c][k] /\ k < Len(queue[c]) + 1
        /\ queue'[c][Len(queue[c]) + 1] = n
    BY <1>1, <2>1, <2>2
  <2>5. \A b \in Block \ {c} : queue'[b] = queue[b]
    BY <1>1 DEF TypeOK
  <2>6. queue'[c] # <<>> /\ DOMAIN queue[c] \subseteq Nat
    BY <2>1, <2>2
  <2>. QED  BY <2>1, <2>2, <2>3, <2>4, <2>5, <2>6
<1>4. \A i \in 1..recv : i \in 1..n /\ i # n /\ i < n
  BY DEF n, TypeOK
<1>5. OneOwner' /\ ExpectsHold'
  <2>0. DepsDistinct'
    BY <1>1 DEF OneOwner, DepsDistinct
  <2>1. \A b \in Block : Waits(b)' <=> Waits(b)
    BY <1>1 DEF Waits
  <2>2. \A b \in Block \ {c} : spawned'[b] = spawned[b]
    BY <1>1 DEF TypeOK
  <2>3. CASE queue[c] = <<>>
    <3>1. spawned[c] = 0 /\ c \notin taken /\ ~Waits(c)
      BY <2>3, <1>1 DEF OneOwner
    <3>2. spawned'[c] = 1
      BY <3>1, <2>3, <1>1 DEF TypeOK
    <3>. QED  BY <1>1, <1>3, <2>0, <2>1, <2>2, <3>1, <3>2 DEF OneOwner, ExpectsHold
  <2>4. CASE queue[c] # <<>>
    <3>1. spawned' = spawned
      BY <2>4, <1>1
    <3>. QED  BY <1>1, <1>3, <2>0, <2>1, <2>4, <3>1 DEF OneOwner, ExpectsHold
  <2>. QED  BY <2>3, <2>4
<1>6. QueueInv'
  <2>1. ASSUME NEW b \in Block, NEW k \in DOMAIN queue'[b]
        PROVE  /\ queue'[b][k] \in 1..n
               /\ sent[queue'[b][k]] = b
               /\ queue'[b][k] \notin done
    <3>1. CASE k \in DOMAIN queue[b] /\ queue'[b][k] = queue[b][k]
      BY <3>1, <1>4 DEF QueueInv
    <3>2. CASE b = c /\ k = Len(queue[c]) + 1
      <4>1. queue'[b][k] = n
        BY <3>2, <1>3
      <4>2. n \notin done
        BY <1>4 DEF ReceivedInv
      <4>. QED  BY <4>1, <4>2, <1>1, <3>2 DEF c
    <3>. QED  BY <1>3, <3>1, <3>2
  <2>2. ASSUME NEW b \in Block, NEW k \in DOMAIN queue'[b], NEW l \in DOMAIN queue'[b], k < l
        PROVE  queue'[b][k] < queue'[b][l]
    <3>1. CASE b # c
      BY <1>3, <2>2, <3>1 DEF QueueInv
    <3>2. CASE b = c /\ l \in DOMAIN queue[c]
      <4>1. k \in DOMAIN queue[c]
        BY <1>3, <2>2, <3>2
      <4>. QED  BY <1>3, <2>2, <3>2, <4>1 DEF QueueInv
    <3>3. CASE b = c /\ l = Len(queue[c]) + 1
      <4>1. k \in DOMAIN queue[c]
        BY <1>3, <2>2, <3>3
      <4>. QED  BY <1>1, <1>3, <1>4, <3>3, <4>1 DEF QueueInv
    <3>. QED  BY <1>3, <3>1, <3>2, <3>3
  <2>. QED  BY <1>1, <2>1, <2>2 DEF QueueInv
<1>7. ReceivedInv'
  <2>1. done' \subseteq 1..recv'
    BY <1>1, <1>4 DEF ReceivedInv
  <2>2. ASSUME NEW i \in 1..n, sent[i] \in Block
        PROVE  i \in done \/ \E k \in DOMAIN queue'[sent[i]] : queue'[sent[i]][k] = i
    <3>1. CASE i = n
      BY <1>3, <3>1 DEF c
    <3>2. CASE i \in 1..recv
      <4>1. i \in done \/ \E k \in DOMAIN queue[sent[i]] : queue[sent[i]][k] = i
        BY <2>2, <3>2 DEF ReceivedInv
      <4>. QED  BY <4>1, <1>3, <2>2
    <3>. QED  BY <3>1, <3>2 DEF n, TypeOK
  <2>. QED  BY <1>1, <2>1, <2>2 DEF ReceivedInv
<1>8. DepsInv'
  BY ZenonT(60), <1>1, <1>3 DEF DepsInv, TypeOK
<1>9. WorkerInv'
  BY <1>1 DEF WorkerInv
<1>10. ParentsFirst'
  <2>. SUFFICES ASSUME NEW b \in Block, b \in taken, NEW u \in 1..Head(queue'[b]),
                       sent[u] \in Parents[b]
                PROVE  u \in done
    BY <1>1 DEF ParentsFirst
  <2>1. Head(queue'[b]) = Head(queue[b])
    <3>1. queue[b] # <<>> /\ queue[b] \in Seq(Nat)
      BY DEF ExpectsHold, TypeOK
    <3>. QED  BY <1>1, <1>3, <3>1
  <2>. QED  BY <2>1 DEF ParentsFirst
<1>11. SameHashInOrder'
  BY <1>1 DEF SameHashInOrder
<1>. QED  BY <1>2, <1>5, <1>6, <1>7, <1>8, <1>9, <1>10, <1>11

\* The worker's other steps leave the map alone.
LEMMA ExitIInv ==
    IInv /\ (ReceiveExit \/ WaitForIdle \/ PassExit) /\ UNCHANGED sent => IInv'
<1>. SUFFICES ASSUME IInv, ReceiveExit \/ WaitForIdle \/ PassExit, UNCHANGED sent
              PROVE  IInv'
  OBVIOUS
<1>. USE DEF IInv
<1>1. /\ UNCHANGED <<sent, queue, taken, deps, spawned, done>>
      /\ recv' = recv \/ (recv' = recv + 1 /\ recv + 1 \in 1..Len(sent) /\ sent[recv + 1] = ExitMsg)
  BY DEF ReceiveExit, WaitForIdle, PassExit, TypeOK
<1>2. TypeOK'
  BY <1>1 DEF ReceiveExit, WaitForIdle, PassExit, TypeOK
<1>3. (ExpectsHold /\ OneOwner /\ DepsInv /\ ParentsFirst /\ SameHashInOrder)'
  <2>1. \A b \in Block : Waits(b)' <=> Waits(b)
    BY <1>1 DEF Waits
  <2>2. OneOwner'
    BY <1>1, <2>1 DEF OneOwner, DepsDistinct
  <2>3. (ExpectsHold /\ DepsInv /\ ParentsFirst /\ SameHashInOrder)'
    BY <1>1 DEF ExpectsHold, DepsInv, ParentsFirst, SameHashInOrder
  <2>. QED  BY <2>2, <2>3
<1>4. \A i \in 1..recv : i \in 1..recv'
  BY <1>1 DEF TypeOK
<1>5. QueueInv'
  BY <1>1, <1>4 DEF QueueInv
<1>6. ReceivedInv'
  <2>1. \A i \in 1..recv' : i \in 1..recv \/ sent[i] = ExitMsg
    BY <1>1 DEF TypeOK
  <2>. QED  BY <1>1, <1>4, <2>1 DEF ReceivedInv
<1>7. WorkerInv'
  BY <1>1 DEF WorkerInv, Pending, Parks, ReceiveExit, WaitForIdle, PassExit
<1>. QED  BY <1>2, <1>3, <1>5, <1>6, <1>7

\* A deferred block moves from the pool to the dependents of a pending parent.
LEMMA TryBeginDeferIInv ==
    ASSUME NEW b \in Block, IInv, TryBeginDefer(b), UNCHANGED sent
    PROVE  IInv'
<1>. USE DEF IInv
<1>1. PICK p \in PendingParents(b) : deps' = [deps EXCEPT ![p] = Append(@, b)]
  BY ZenonT(60) DEF TryBeginDefer
<1>2. /\ p \in Block /\ p \in Parents[b] /\ queue[p] # <<>>
      /\ spawned[b] = 1 /\ b \notin taken /\ ~Waits(b) /\ queue[b] # <<>>
      /\ spawned' = [spawned EXCEPT ![b] = 0]
      /\ UNCHANGED <<sent, recv, worker, queue, taken, done>>
  <2>1. p \in Block /\ p \in Parents[b] /\ queue[p] # <<>>
    BY <1>1 DEF PendingParents, Pending
  <2>2. spawned[b] = 1
    BY DEF TryBeginDefer, OneOwner
  <2>3. b \notin taken /\ ~Waits(b) /\ queue[b] # <<>>
    BY <2>2 DEF OneOwner
  <2>4. spawned' = [spawned EXCEPT ![b] = 0]
    BY <2>2 DEF TryBeginDefer
  <2>. QED  BY <2>1, <2>2, <2>3, <2>4 DEF TryBeginDefer
<1>3. TypeOK'
  BY <1>1, <1>2 DEF TypeOK
<1>4. /\ DOMAIN deps'[p] = DOMAIN deps[p] \cup {Len(deps[p]) + 1}
      /\ \A i \in DOMAIN deps[p] : deps'[p][i] = deps[p][i] /\ i # Len(deps[p]) + 1
      /\ deps'[p][Len(deps[p]) + 1] = b
      /\ \A q \in Block \ {p} : deps'[q] = deps[q]
  <2>1. deps[p] \in Seq(Block) /\ deps \in [Block -> Seq(Block)]
    BY <1>2 DEF TypeOK
  <2>2. deps'[p] = Append(deps[p], b) /\ \A q \in Block \ {p} : deps'[q] = deps[q]
    BY <1>1, <1>2, <2>1
  <2>. QED  BY <2>1, <2>2
<1>5. \A x \in Block : Waits(x)' <=> Waits(x) \/ x = b
  BY <1>2, <1>4 DEF Waits
<1>6. ASSUME NEW q \in Block, NEW i \in DOMAIN deps'[q]
      PROVE  \/ i \in DOMAIN deps[q] /\ deps'[q][i] = deps[q][i] /\ deps[q][i] # b
             \/ q = p /\ i = Len(deps[p]) + 1 /\ deps'[q][i] = b
  BY <1>2, <1>4 DEF Waits
<1>7. OneOwner' /\ ExpectsHold'
  <2>1. \A x \in Block : spawned'[x] = IF x = b THEN 0 ELSE spawned[x]
    BY <1>2 DEF TypeOK
  <2>2. DepsDistinct'
    <3>. SUFFICES ASSUME NEW q \in Block, NEW r \in Block,
                         NEW i \in DOMAIN deps'[q], NEW j \in DOMAIN deps'[r],
                         deps'[q][i] = deps'[r][j]
                  PROVE  q = r /\ i = j
      BY DEF DepsDistinct
    <3>. QED  BY <1>6 DEF OneOwner, DepsDistinct
  <2>. QED  BY <1>2, <1>5, <2>1, <2>2 DEF OneOwner, ExpectsHold
<1>8. DepsInv'
  BY <1>2, <1>6 DEF DepsInv
<1>9. (QueueInv /\ ReceivedInv /\ WorkerInv /\ ParentsFirst /\ SameHashInOrder)'
  BY <1>2 DEF QueueInv, ReceivedInv, WorkerInv, Pending, ParentsFirst, SameHashInOrder
<1>. QED  BY <1>3, <1>7, <1>8, <1>9

\* A block whose task is taken has no pending parent, so every task of a parent
\* that was received has ended.
LEMMA TryBeginTakeIInv ==
    ASSUME NEW b \in Block, IInv, TryBeginTake(b), UNCHANGED sent
    PROVE  IInv'
<1>. USE DEF IInv
<1>1. /\ PendingParents(b) = {}
      /\ spawned[b] = 1 /\ b \notin taken /\ ~Waits(b) /\ queue[b] # <<>>
      /\ spawned' = [spawned EXCEPT ![b] = 0]
      /\ taken' = taken \cup {b}
      /\ UNCHANGED <<sent, recv, worker, queue, deps, done>>
  <2>1. spawned[b] = 1
    BY DEF TryBeginTake, OneOwner
  <2>2. b \notin taken /\ ~Waits(b) /\ queue[b] # <<>>
    BY <2>1 DEF OneOwner
  <2>3. spawned' = [spawned EXCEPT ![b] = 0]
    BY <2>1 DEF TryBeginTake
  <2>. QED  BY <2>1, <2>2, <2>3 DEF TryBeginTake
<1>2. TypeOK'
  BY <1>1 DEF TypeOK
<1>3. /\ \A x \in Block : spawned'[x] = IF x = b THEN 0 ELSE spawned[x]
      /\ \A x \in Block \ {b} : x \in taken' <=> x \in taken
      /\ b \in taken'
      /\ \A x \in Block : Waits(x)' <=> Waits(x)
  BY <1>1 DEF TypeOK, Waits
<1>4. OneOwner' /\ ExpectsHold'
  <2>1. DepsDistinct'
    BY <1>1 DEF OneOwner, DepsDistinct
  <2>. QED  BY <1>1, <1>3, <2>1 DEF OneOwner, ExpectsHold
<1>5. (QueueInv /\ ReceivedInv /\ DepsInv /\ WorkerInv /\ SameHashInOrder)'
  BY <1>1 DEF QueueInv, ReceivedInv, DepsInv, WorkerInv, Pending, SameHashInOrder
<1>6. ParentsFirst'
  <2>. SUFFICES ASSUME NEW x \in Block, x \in taken', NEW u \in 1..Head(queue[x]),
                       sent[u] \in Parents[x]
                PROVE  u \in done
    BY <1>1 DEF ParentsFirst
  <2>1. CASE x # b
    BY <1>3, <2>1 DEF ParentsFirst
  <2>2. CASE x = b
    <3>1. queue[b] \in Seq(Nat)
      BY DEF TypeOK
    <3>2. Head(queue[b]) \in 1..recv
      BY <1>1, <3>1 DEF QueueInv
    <3>3. u \in 1..recv
      BY <3>2, <2>2 DEF TypeOK
    <3>4. sent[u] \in Block /\ queue[sent[u]] = <<>>
      BY <1>1, <2>2 DEF PendingParents, Pending
    <3>. QED  BY <3>3, <3>4 DEF ReceivedInv
  <2>. QED  BY <2>1, <2>2
<1>. QED  BY <1>2, <1>4, <1>5, <1>6

\* Ending a task hands its group, or each of its dependents, back to the pool.
LEMMA EndIInv ==
    ASSUME NEW b \in Block, IInv, End(b), UNCHANGED sent
    PROVE  IInv'
<1>. USE DEF IInv
<1>. DEFINE t == Head(queue[b])
<1>1. /\ b \in taken /\ queue[b] # <<>> /\ spawned[b] = 0 /\ ~Waits(b)
      /\ queue[b] \in Seq(Nat) /\ deps[b] \in Seq(Block)
      /\ queue' = [queue EXCEPT ![b] = Tail(@)]
      /\ taken' = taken \ {b}
      /\ done' = done \cup {t}
      /\ UNCHANGED <<sent, recv>>
  BY DEF End, Ended, ExpectsHold, OneOwner, TypeOK
<1>2. /\ t \in 1..recv /\ t \in Nat /\ sent[t] = b
      /\ \A k \in DOMAIN queue[b] : queue[b][k] = t \/ t < queue[b][k]
      /\ \A k \in DOMAIN Tail(queue[b]) :
             k + 1 \in DOMAIN queue[b] /\ Tail(queue[b])[k] = queue[b][k + 1] /\ k \in Nat
      /\ \A k \in DOMAIN queue[b] : k = 1 \/ \E l \in DOMAIN Tail(queue[b]) : l + 1 = k
      /\ queue[b][1] = t
      /\ \A k \in DOMAIN Tail(queue[b]) : t < Tail(queue[b])[k]
  <2>1. /\ queue[b][1] = t /\ 1 \in DOMAIN queue[b]
        /\ \A k \in DOMAIN queue[b] : k = 1 \/ \E l \in DOMAIN Tail(queue[b]) : l + 1 = k
        /\ \A k \in DOMAIN Tail(queue[b]) :
               k + 1 \in DOMAIN queue[b] /\ Tail(queue[b])[k] = queue[b][k + 1] /\ k \in Nat
    <3>. DEFINE q == queue[b]
    <3>1. q \in Seq(Nat) /\ q # <<>>
      BY <1>1
    <3>. HIDE DEF q
    <3>2. /\ DOMAIN q = 1..Len(q) /\ Len(q) \in Nat /\ Len(q) > 0
          /\ DOMAIN Tail(q) = 1..(Len(q) - 1)
          /\ \A k \in 1..(Len(q) - 1) : Tail(q)[k] = q[k + 1]
      BY <3>1
    <3>3. \A k \in DOMAIN q : k = 1 \/ (k - 1 \in DOMAIN Tail(q) /\ (k - 1) + 1 = k)
      BY <3>2
    <3>4. q[1] = Head(q)
      BY <3>1
    <3>. QED  BY <3>2, <3>3, <3>4 DEF q
  <2>2. t \in 1..recv /\ sent[t] = b /\ t \in Nat
    BY <2>1 DEF QueueInv
  <2>3. \A k \in DOMAIN queue[b] : k = 1 \/ 1 < k
    BY <1>1
  <2>4. \A k \in DOMAIN queue[b] : queue[b][k] = t \/ t < queue[b][k]
    BY <2>1, <2>3 DEF QueueInv
  <2>5. \A k \in DOMAIN Tail(queue[b]) : 1 < k + 1
    BY <1>1, <2>1
  <2>6. \A k \in DOMAIN Tail(queue[b]) : t < Tail(queue[b])[k]
    BY <2>1, <2>5 DEF QueueInv
  <2>. QED  BY <2>1, <2>2, <2>4, <2>6
<1>3. /\ queue'[b] = Tail(queue[b])
      /\ \A x \in Block \ {b} : queue'[x] = queue[x] /\ (x \in taken' <=> x \in taken)
      /\ b \notin taken'
      /\ Tail(queue[b]) \in Seq(Nat)
  BY <1>1 DEF TypeOK
<1>. HIDE DEF t
<1>4. OneOwner' /\ DepsInv' /\ spawned' \in [Block -> Nat] /\ deps' \in [Block -> Seq(Block)]
  <2>1. CASE Tail(queue[b]) # <<>>
    <3>1. /\ \A x \in Block : spawned'[x] = IF x = b THEN 1 ELSE spawned[x]
          /\ spawned' \in [Block -> Nat]
          /\ deps' = deps
      <4>1. /\ spawned' = [x \in Block |-> spawned[x] + Occurrences(<<b>>, x)]
            /\ deps' = deps
        BY <2>1 DEF End, NextTasks, LastTask
      <4>2. \A x \in Block : Occurrences(<<b>>, x) = IF x = b THEN 1 ELSE 0
        <5>1. /\ <<b>> \in Seq(Block) /\ DOMAIN <<b>> = {1} /\ <<b>>[1] = b
              /\ \A i, j \in DOMAIN <<b>> : <<b>>[i] = <<b>>[j] => i = j
          OBVIOUS
        <5>2. ASSUME NEW x \in Block
              PROVE  /\ (\E i \in DOMAIN <<b>> : <<b>>[i] = x) => Occurrences(<<b>>, x) = 1
                     /\ ~(\E i \in DOMAIN <<b>> : <<b>>[i] = x) => Occurrences(<<b>>, x) = 0
          BY ZenonT(60), <5>1, OccurrencesOnce
        <5>. QED  BY <5>1, <5>2
      <4>3. spawned \in [Block -> Nat] /\ spawned[b] = 0
        BY <1>1 DEF TypeOK
      <4>. QED  BY <4>1, <4>2, <4>3
    <3>2. \A x \in Block : Waits(x)' <=> Waits(x)
      BY <3>1 DEF Waits
    <3>3. DepsDistinct'
      BY <3>1 DEF OneOwner, DepsDistinct
    <3>4. OneOwner'
      BY ZenonT(60), <1>1, <1>3, <2>1, <3>1, <3>2, <3>3 DEF OneOwner
    <3>5. DepsInv'
      BY ZenonT(60), <1>3, <2>1, <3>1 DEF DepsInv
    <3>. QED  BY <3>1, <3>4, <3>5 DEF TypeOK
  <2>2. CASE Tail(queue[b]) = <<>>
    <3>1. /\ deps' = [deps EXCEPT ![b] = <<>>]
          /\ spawned' = [x \in Block |-> spawned[x] + Occurrences(deps[b], x)]
      BY <2>2 DEF End, NextTasks, LastTask
    <3>. DEFINE R == {deps[b][i] : i \in DOMAIN deps[b]}
    <3>2. \A i, j \in DOMAIN deps[b] : deps[b][i] = deps[b][j] => i = j
      BY DEF OneOwner, DepsDistinct
    <3>3. \A x \in Block : /\ x \in R => Occurrences(deps[b], x) = 1
                           /\ x \notin R => Occurrences(deps[b], x) = 0
      <4>1. \A x \in Block : x \in R <=> \E i \in DOMAIN deps[b] : deps[b][i] = x
        OBVIOUS
      <4>2. \A x \in Block :
                /\ (\E i \in DOMAIN deps[b] : deps[b][i] = x) => Occurrences(deps[b], x) = 1
                /\ ~(\E i \in DOMAIN deps[b] : deps[b][i] = x) => Occurrences(deps[b], x) = 0
        BY <1>1, <3>2, OccurrencesOnce
      <4>. QED  BY <4>1, <4>2
    <3>4. \A x \in Block : x \in R => Waits(x)
      BY DEF Waits
    <3>5. \A x \in Block : /\ x \in R => spawned'[x] = 1
                           /\ x \notin R => spawned'[x] = spawned[x]
      <4>. SUFFICES ASSUME NEW x \in Block
                    PROVE  /\ x \in R => spawned'[x] = 1
                           /\ x \notin R => spawned'[x] = spawned[x]
        OBVIOUS
      <4>. HIDE DEF R
      <4>1. spawned'[x] = spawned[x] + Occurrences(deps[b], x) /\ spawned[x] \in Nat
        BY <3>1 DEF TypeOK
      <4>2. x \in R => spawned[x] = 0
        BY <3>4 DEF OneOwner
      <4>. QED  BY <3>3, <4>1, <4>2
    <3>6. /\ DOMAIN deps'[b] = {}
          /\ \A q \in Block \ {b} : deps'[q] = deps[q]
          /\ deps' \in [Block -> Seq(Block)]
      BY <3>1 DEF TypeOK
    <3>7. ASSUME NEW x \in Block
          PROVE  Waits(x)' <=> Waits(x) /\ x \notin R
      <4>1. ASSUME Waits(x)' PROVE Waits(x) /\ x \notin R
        <5>1. PICK q \in Block : \E i \in DOMAIN deps'[q] : deps'[q][i] = x
          BY <4>1 DEF Waits
        <5>2. q # b
          BY <3>6, <5>1
        <5>3. PICK i \in DOMAIN deps[q] : deps[q][i] = x
          BY ZenonT(60), <3>6, <5>1, <5>2
        <5>. QED  BY <5>2, <5>3 DEF Waits, OneOwner, DepsDistinct
      <4>2. ASSUME Waits(x), x \notin R PROVE Waits(x)'
        BY ZenonT(60), <3>6, <4>2 DEF Waits
      <4>. QED  BY <4>1, <4>2
    <3>. HIDE DEF R
    <3>8. spawned' \in [Block -> Nat]
      <4>1. ASSUME NEW x \in Block PROVE spawned'[x] \in Nat
        <5>1. spawned'[x] = 1 \/ spawned'[x] = spawned[x]
          BY <3>5
        <5>. QED  BY <5>1 DEF TypeOK
      <4>. QED  BY <3>1, <4>1
    <3>9. queue'[b] = <<>> /\ spawned'[b] = 0 /\ ~Waits(b)'
      <4>1. b \notin R
        BY <1>1, <3>4
      <4>2. spawned'[b] = spawned[b]
        BY <3>5, <4>1
      <4>3. Waits(b)' <=> Waits(b) /\ b \notin R
        BY <3>7
      <4>. QED  BY ZenonT(60), <1>1, <1>3, <2>2, <4>2, <4>3
    <3>10. DepsInv'
      BY ZenonT(60), <1>3, <3>6 DEF DepsInv
    <3>11. OneOwner'
      <4>1. ASSUME NEW x \in Block PROVE spawned'[x] \in {0, 1}
        <5>1. spawned'[x] = 1 \/ spawned'[x] = spawned[x]
          BY <3>5
        <5>. QED  BY <5>1 DEF OneOwner
      <4>2. ASSUME NEW x \in Block
            PROVE  /\ queue'[x] # <<>> <=> (spawned'[x] = 1 \/ x \in taken' \/ Waits(x)')
                   /\ ~(spawned'[x] = 1 /\ x \in taken')
                   /\ Waits(x)' => spawned'[x] = 0 /\ x \notin taken'
        <5>1. CASE x = b
          BY <1>3, <3>9, <5>1
        <5>2. CASE x # b
          <6>1. /\ queue'[x] = queue[x] /\ (x \in taken' <=> x \in taken)
                /\ x \in R => Waits(x) /\ spawned'[x] = 1
                /\ x \notin R => spawned'[x] = spawned[x]
                /\ Waits(x)' <=> Waits(x) /\ x \notin R
            BY <1>3, <3>4, <3>5, <3>7, <5>2
          <6>. QED  BY <6>1 DEF OneOwner
        <5>. QED  BY <5>1, <5>2
      <4>3. DepsDistinct'
        <5>1. ASSUME NEW p \in Block, NEW i \in DOMAIN deps'[p]
              PROVE  i \in DOMAIN deps[p] /\ deps'[p][i] = deps[p][i]
          BY ZenonT(60), <3>6
        <5>. QED  BY <5>1 DEF OneOwner, DepsDistinct
      <4>. QED  BY <4>1, <4>2, <4>3 DEF OneOwner
    <3>. QED  BY <3>6, <3>8, <3>10, <3>11
  <2>. QED  BY <2>1, <2>2
<1>5. TypeOK'
  <2>1. queue' \in [Block -> Seq(Nat)] /\ taken' \subseteq Block /\ done' \subseteq Nat
    BY <1>1, <1>2, <1>3 DEF TypeOK
  <2>2. worker' \in {"receiving", "draining", "parked", "woken", "exited"}
    BY DEF TypeOK, End
  <2>. QED  BY <1>1, <1>4, <2>1, <2>2 DEF TypeOK
<1>6. ExpectsHold'
  BY <1>3, <1>4 DEF OneOwner, ExpectsHold
<1>7. QueueInv'
  <2>1. ASSUME NEW k \in DOMAIN queue'[b]
        PROVE  /\ queue'[b][k] \in 1..recv /\ sent[queue'[b][k]] = b
               /\ queue'[b][k] \notin done'
               /\ \A l \in DOMAIN queue'[b] : k < l => queue'[b][k] < queue'[b][l]
    <3>1. /\ k + 1 \in DOMAIN queue[b] /\ queue'[b][k] = queue[b][k + 1]
          /\ t < queue[b][k + 1]
      BY <1>2, <1>3
    <3>2. queue[b][k + 1] # t
      BY <1>2, <3>1 DEF QueueInv
    <3>3. ASSUME NEW l \in DOMAIN queue'[b], k < l
          PROVE  queue'[b][k] < queue'[b][l]
      <4>1. l + 1 \in DOMAIN queue[b] /\ queue'[b][l] = queue[b][l + 1] /\ l \in Nat /\ k \in Nat
        BY <1>2, <1>3
      <4>2. k + 1 < l + 1
        BY <3>3, <4>1
      <4>. QED  BY <3>1, <4>1, <4>2 DEF QueueInv
    <3>. QED  BY <1>1, <3>1, <3>2, <3>3 DEF QueueInv
  <2>2. ASSUME NEW x \in Block \ {b}, NEW k \in DOMAIN queue[x]
        PROVE  queue[x][k] # t
    BY <1>2 DEF QueueInv
  <2>. QED  BY <1>1, <1>3, <2>1, <2>2 DEF QueueInv
<1>8. ReceivedInv'
  <2>1. done' \subseteq 1..recv'
    BY <1>1, <1>2 DEF ReceivedInv
  <2>2. ASSUME NEW i \in 1..recv, sent[i] \in Block
        PROVE  i \in done' \/ \E k \in DOMAIN queue'[sent[i]] : queue'[sent[i]][k] = i
    <3>1. CASE i \in done'
      BY <3>1
    <3>2. CASE i \notin done'
      <4>1. i # t /\ i \notin done
        BY <1>1, <3>2
      <4>2. PICK k \in DOMAIN queue[sent[i]] : queue[sent[i]][k] = i
        BY <2>2, <4>1 DEF ReceivedInv
      <4>3. CASE sent[i] = b
        <5>1. k # 1
          BY <1>2, <4>1, <4>2, <4>3
        <5>2. PICK l \in DOMAIN Tail(queue[b]) : l + 1 = k
          BY <1>2, <4>2, <4>3, <5>1
        <5>3. l \in DOMAIN queue'[b] /\ queue'[b][l] = queue[b][k]
          BY <1>2, <1>3, <5>2
        <5>. QED  BY <4>2, <4>3, <5>3
      <4>. QED  BY <1>3, <2>2, <4>2, <4>3
    <3>. QED  BY <3>1, <3>2
  <2>. QED  BY <1>1, <2>1, <2>2 DEF ReceivedInv
<1>9. WorkerInv'
  <2>1. worker \notin {"woken", "exited"}
    BY <1>1 DEF WorkerInv, Pending
  <2>2. worker' = IF worker = "parked" /\ Tail(queue[b]) = <<>> /\ Pending = {b}
                  THEN "woken" ELSE worker
    BY DEF End, SignalsIdle, LastTask
  <2>3. CASE worker' \in {"woken", "exited"}
    <3>1. Pending = {b} /\ queue'[b] = <<>>
      BY <1>3, <2>1, <2>2, <2>3
    <3>. QED  BY <1>3, <3>1 DEF WorkerInv, Pending
  <2>. QED  BY <2>3 DEF WorkerInv
<1>10. ParentsFirst'
  BY <1>1, <1>3 DEF ParentsFirst
<1>11. SameHashInOrder'
  <2>. SUFFICES ASSUME NEW i \in done', NEW j \in 1..i, sent[j] = sent[i]
                PROVE  j \in done'
    BY <1>1 DEF SameHashInOrder
  <2>1. CASE i \in done
    BY <1>1, <2>1 DEF SameHashInOrder
  <2>2. CASE i = t
    <3>1. j \in 1..recv /\ sent[j] = b /\ ~(t < j)
      BY <1>2, <2>2 DEF TypeOK
    <3>2. j \in done \/ \E k \in DOMAIN queue[b] : queue[b][k] = j
      BY <3>1 DEF ReceivedInv
    <3>. QED  BY ZenonT(60), <1>1, <1>2, <3>1, <3>2
  <2>. QED  BY <1>1, <2>1, <2>2
<1>. QED  BY <1>4, <1>5, <1>6, <1>7, <1>8, <1>9, <1>10, <1>11

LEMMA NextIInv == IInv /\ [Next]_vars => IInv'
<1>. SUFFICES ASSUME IInv, [Next]_vars PROVE IInv'
  OBVIOUS
<1>1. CASE Submit
  BY <1>1, SubmitIInv
<1>2. CASE WorkerStep
  BY <1>2, RegisterIInv, ExitIInv DEF WorkerStep
<1>3. ASSUME NEW b \in Block, ClosureStep(b) PROVE IInv'
  BY <1>3, TryBeginDeferIInv, TryBeginTakeIInv, EndIInv DEF ClosureStep
<1>4. CASE UNCHANGED vars
  <2>1. UNCHANGED <<sent, recv, worker, queue, taken, deps, spawned, done>>
    BY <1>4 DEF vars
  <2>2. TypeOK' /\ ExpectsHold' /\ OneOwner'
    BY <2>1 DEF IInv, TypeOK, ExpectsHold, OneOwner, Waits, DepsDistinct
  <2>3. QueueInv' /\ ReceivedInv' /\ DepsInv' /\ WorkerInv'
    BY <2>1 DEF IInv, QueueInv, ReceivedInv, DepsInv, WorkerInv, Pending
  <2>4. ParentsFirst' /\ SameHashInOrder'
    BY <2>1 DEF IInv, ParentsFirst, SameHashInOrder
  <2>. QED  BY <2>2, <2>3, <2>4 DEF IInv
<1>. QED  BY <1>1, <1>2, <1>3, <1>4 DEF Next

THEOREM Invariant == Spec => []IInv
<1>. QED  BY InitIInv, NextIInv, PTL DEF Spec

-----------------------------------------------------------------------------
\* Every variable of the manager keeps its type.
THEOREM TypeCorrect == Spec => []TypeOK
<1>1. IInv => TypeOK
  BY DEF IInv
<1>. QED  BY <1>1, Invariant, PTL

\* No expect, unwrap or assert of try_begin and end can fail, for any DAG, any
\* number of threads and any sequence of submissions.
THEOREM NoPanic == Spec => []ExpectsHold
<1>1. IInv => ExpectsHold
  BY DEF IInv
<1>. QED  BY <1>1, Invariant, PTL

\* Every pending group has exactly one owner: no group is lost, none is handed
\* to two threads.
THEOREM ExactlyOneOwner == Spec => []OneOwner
<1>1. IInv => OneOwner
  BY DEF IInv
<1>. QED  BY <1>1, Invariant, PTL

\* A block is processed only after the tasks of its parents that were sent
\* before it.
THEOREM ParentsProcessedFirst == Spec => []ParentsFirst
<1>1. IInv => ParentsFirst
  BY DEF IInv
<1>. QED  BY <1>1, Invariant, PTL

\* The tasks of one hash end in the order they were sent.
THEOREM HashOrder == Spec => []SameHashInOrder
<1>1. IInv => SameHashInOrder
  BY DEF IInv
<1>. QED  BY <1>1, Invariant, PTL

\* Dependencies never block the whole stage: among the pending groups one that
\* has no pending parent is in the pool or being processed.
THEOREM DependenciesNeverStick == Spec => []NeverStuck
<1>1. IInv => NeverStuck
  <2>. SUFFICES ASSUME IInv, Pending # {}
                PROVE  \E b \in Block : spawned[b] > 0 \/ b \in taken
    BY DEF NeverStuck
  <2>1. PICK b \in Pending : Parents[b] \cap Pending = {}
    BY ZenonT(60), AcyclicAssumption DEF Pending
  <2>2. b \in Block /\ queue[b] # <<>>
    BY DEF Pending
  <2>3. ~Waits(b)
    BY <2>1, <2>2 DEF IInv, DepsInv, Waits, Pending
  <2>4. spawned[b] = 1 \/ b \in taken
    BY <2>2, <2>3 DEF IInv, OneOwner
  <2>. QED  BY <2>2, <2>4
<1>. QED  BY <1>1, Invariant, PTL

\* wait_for_idle returns only when every task received before Exit has ended.
THEOREM ExitWaitsForAll == Spec => []IdleAtExit
<1>1. IInv => IdleAtExit
  <2>. SUFFICES ASSUME IInv, worker \in {"woken", "exited"}
                PROVE  /\ \A b \in Block : queue[b] = <<>> /\ b \notin taken /\ spawned[b] = 0
                       /\ \A i \in 1..recv : sent[i] \in Block => i \in done
    BY DEF IdleAtExit
  <2>1. \A b \in Block : queue[b] = <<>>
    BY DEF IInv, WorkerInv, Pending
  <2>2. \A b \in Block : b \notin taken /\ spawned[b] = 0
    BY <2>1 DEF IInv, OneOwner
  <2>3. \A i \in 1..recv : sent[i] \in Block => i \in done
    BY <2>1 DEF IInv, ReceivedInv
  <2>. QED  BY <2>1, <2>2, <2>3
<1>. QED  BY <1>1, Invariant, PTL

\* No task ends twice: end pops a received task of its own hash that has not ended, so
\* process_header and process_body run once for each message and report it once.
THEOREM TasksEndOnce == Spec => EndsOnce
<1>1. ASSUME IInv, NEW b \in Block, End(b)
      PROVE  Head(queue[b]) \in (1..recv) \ done /\ sent[Head(queue[b])] = b
  <2>1. queue[b] \in Seq(Nat) /\ queue[b] # <<>>
    BY <1>1 DEF End, IInv, TypeOK, ExpectsHold
  <2>2. 1 \in DOMAIN queue[b] /\ Head(queue[b]) = queue[b][1]
    BY <2>1
  <2>. QED  BY <1>1, <2>2 DEF IInv, QueueInv
<1>2. ASSUME Next PROVE done \subseteq done'
  <2>1. CASE Submit
    BY <2>1 DEF Submit
  <2>2. CASE WorkerStep
    BY <2>2 DEF WorkerStep, Register, ReceiveExit, WaitForIdle, PassExit
  <2>3. ASSUME NEW b \in Block, ClosureStep(b) PROVE done \subseteq done'
    BY <2>3 DEF ClosureStep, TryBeginDefer, TryBeginTake, End
  <2>. QED  BY <1>2, <2>1, <2>2, <2>3 DEF Next
<1>3. IInv /\ [Next]_vars =>
        [/\ done \subseteq done'
         /\ \A b \in Block : End(b) =>
               Head(queue[b]) \in (1..recv) \ done /\ sent[Head(queue[b])] = b]_vars
  BY <1>1, <1>2
<1>. QED  BY <1>3, Invariant, PTL DEF Spec, EndsOnce
=============================================================================
