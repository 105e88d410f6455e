---------------------------- MODULE StoreProofs -----------------------------
(***************************************************************************)
(* What reaches the stores is right.  The diff that is written in place of *)
(* the diffs of many chain blocks leads where they lead, for every set of  *)
(* outpoints and scores.  And the consensus that the management store      *)
(* calls current is never deleted and no directory is built on twice, for  *)
(* any number of staging consensus instances, failed removals and crashes: *)
(* first of the manager alone, then of the node, where its steps are       *)
(* interleaved with those of the consensus instances, of IBD and of the    *)
(* UTXO index, and every step is one of the manager or leaves it alone.    *)
(***************************************************************************)
EXTENDS AccumulatedDiff, UtxoIndex, TLAPS

\* The SMT solver is given a minute for each leaf that names no other prover.
USE SMTT(60)

-----------------------------------------------------------------------------
\* Accumulated diffs

DiffInv == DiffTypeOK /\ Faithful /\ NeverPanics

\* Elements of a collection are determined by their outpoint.
LEMMA CollectionIsMap ==
    ASSUME NEW c \in Collection, NEW x \in c, NEW y \in c, x[1] = y[1]
    PROVE  x = y
BY DEF Collection

\* A diff that fits a UTXO set leads to a UTXO set.
LEMMA ApplyIsCollection ==
    ASSUME NEW set \in Collection, NEW d \in Diff, Fits(set, d)
    PROVE  Apply(set, d) \in Collection
<1>1. Apply(set, d) \in SUBSET Entry
  BY DEF Apply, Collection, Diff
<1>2. ASSUME NEW x \in Apply(set, d), NEW y \in Apply(set, d), x[1] = y[1]
      PROVE  x = y
  BY <1>2 DEF Apply, Collection, Diff, Fits
<1> QED
  BY <1>1, <1>2 DEF Collection

\* A diff that fits the set the accumulated diff leads to passes both sanity
\* checks of with_diff_in_place.
LEMMA ChecksPass ==
    ASSUME NEW set \in Collection, NEW a \in Diff, NEW d \in Diff,
           Fits(set, a), Fits(Apply(set, a), d)
    PROVE  ~DuplicateRemove(a, d) /\ ~DuplicateAdd(a, d)
<1>1. ASSUME NEW x \in d.remove, NEW y \in a.remove, x[1] = y[1], x \notin a.add
      PROVE  FALSE
  <2>1. x \in set /\ x \notin a.remove
    BY <1>1 DEF Fits, Apply
  <2>2. y \in set
    BY DEF Fits
  <2>3. x = y
    BY <1>1, <2>1, <2>2, CollectionIsMap
  <2> QED
    BY <2>1, <2>3
<1>2. ASSUME NEW x \in d.add, NEW y \in a.add, x[1] = y[1], y \notin d.remove
      PROVE  FALSE
  BY <1>2 DEF Fits, Apply
<1> QED
  BY <1>1, <1>2 DEF DuplicateRemove, DuplicateAdd

\* Taking out, by outpoint, entries that a map holds takes out those entries.
LEMMA WithoutOwn ==
    ASSUME NEW c \in Collection, NEW d
    PROVE  Without(c, d \cap c) = c \ d
BY CollectionIsMap DEF Without

\* What accumulates: the entries that leave the base set, and the result of
\* adding and removing entries without regard to outpoints.
Leaving(a, d) == a.remove \cup (d.remove \ a.add)
Sum(a, d) == [add |-> (a.add \ d.remove) \cup (d.add \ Leaving(a, d)),
              remove |-> Leaving(a, d) \ d.add]

\* Entries that leave are entries of the base set.
LEMMA LeavingIsMap ==
    ASSUME NEW set \in Collection, NEW a \in Diff, NEW d \in Diff,
           Fits(set, a), Fits(Apply(set, a), d)
    PROVE  Leaving(a, d) \subseteq set /\ Leaving(a, d) \in Collection
<1>1. Leaving(a, d) \subseteq set
  BY DEF Leaving, Fits, Apply
<1> QED
  BY <1>1 DEF Collection

\* For diffs that fit, with_diff_in_place adds and removes sets of entries.
LEMMA WithDiffIsSum ==
    ASSUME NEW set \in Collection, NEW a \in Diff, NEW d \in Diff,
           Fits(set, a), Fits(Apply(set, a), d)
    PROVE  WithDiff(a, d) = Sum(a, d)
<1> DEFINE rm == Insert(a.remove, d.remove \ a.add)
           ad == Without(a.add, d.remove \cap a.add)
<1>1. rm = Leaving(a, d)
  <2>1. Without(a.remove, d.remove \ a.add) = a.remove
    BY ChecksPass DEF Without, DuplicateRemove
  <2> QED
    BY <2>1 DEF Insert, Leaving
<1>2. ad = a.add \ d.remove
  BY WithoutOwn DEF Diff
<1>3. Insert(ad, d.add \ rm) = ad \cup (d.add \ rm)
  <2>1. \A x \in ad, y \in d.add : y[1] # x[1]
    BY <1>2, ChecksPass DEF DuplicateAdd
  <2>2. Without(ad, d.add \ rm) = ad
    BY <2>1 DEF Without
  <2> QED
    BY <2>2 DEF Insert
<1>4. Without(rm, d.add \cap rm) = rm \ d.add
  BY ZenonT(60), <1>1, LeavingIsMap, WithoutOwn
<1>5. WithDiff(a, d) = [add |-> Insert(ad, d.add \ rm), remove |-> Without(rm, d.add \cap rm)]
  BY DEF WithDiff
<1> QED
  BY ZenonT(60), <1>1, <1>2, <1>3, <1>4, <1>5 DEF Sum

\* The sum of two diffs leads where the one and then the other lead.
LEMMA SumIsFaithful ==
    ASSUME NEW set \in Collection, NEW a \in Diff, NEW d \in Diff,
           Fits(set, a), Fits(Apply(set, a), d)
    PROVE  /\ Sum(a, d) \in Diff
           /\ Fits(set, Sum(a, d))
           /\ Apply(set, Sum(a, d)) = Apply(Apply(set, a), d)
<1> DEFINE end == Apply(Apply(set, a), d)
<1>1. end \in Collection
  BY ApplyIsCollection
<1>2. Sum(a, d).add \subseteq end
  BY DEF Sum, Apply, Fits
<1>3. Sum(a, d).remove \subseteq set
  BY LeavingIsMap DEF Sum
<1>4. Sum(a, d) \in Diff
  BY <1>1, <1>2, <1>3 DEF Diff, Collection, Sum
<1>5. Apply(set, Sum(a, d)) = end
  BY LeavingIsMap DEF Sum, Apply, Fits, Leaving
<1>6. Sum(a, d).add \cap Sum(a, d).remove = {}
  BY DEF Sum, Leaving, Fits, Apply
<1>7. ASSUME NEW x \in Sum(a, d).add, NEW y \in set \ Sum(a, d).remove, x[1] = y[1]
      PROVE  FALSE
  <2>1. x \in end /\ y \in end
    BY <1>2, <1>5 DEF Apply
  <2>2. x = y
    BY <1>1, <1>7, <2>1, CollectionIsMap
  <2>3. x \in set
    BY <2>2
  <2> QED
    BY <2>2, <2>3, <1>5 DEF Sum, Apply, Leaving, Fits
<1> QED
  BY <1>3, <1>4, <1>5, <1>6, <1>7 DEF Fits

\* A transaction that fits passes the checks of add_transaction, and is
\* accumulated like the diff of what it spends and creates.
LEMMA TransactionIsSum ==
    ASSUME NEW set \in Collection, NEW a \in Diff,
           NEW spent \in Collection, NEW created \in Collection,
           Fits(set, a),
           Fits(Apply(set, a), [add |-> created, remove |-> spent])
    PROVE  /\ ~DoubleRemove(a, spent)
           /\ ~DoubleAdd(RemoveEntries(a, spent), created)
           /\ AddEntries(RemoveEntries(a, spent), created)
                = Sum(a, [add |-> created, remove |-> spent])
<1> DEFINE d == [add |-> created, remove |-> spent]
           r == RemoveEntries(a, spent)
<1>1. d \in Diff /\ d.add = created /\ d.remove = spent
  BY DEF Diff
<1>2. ~DuplicateRemove(a, d) /\ ~DuplicateAdd(a, d)
  BY <1>1, ChecksPass
<1>3. r.remove = Leaving(a, d) /\ r.add = a.add \ spent
  BY <1>1, WithoutOwn DEF RemoveEntries, Leaving, Diff
<1>4. ~DoubleRemove(a, spent)
  BY <1>1, <1>2 DEF DoubleRemove, DuplicateRemove
<1>5. ~DoubleAdd(r, created)
  BY <1>1, <1>2, <1>3 DEF DoubleAdd, DuplicateAdd
<1>6. Without(r.remove, created \cap r.remove) = r.remove \ created
  BY <1>1, <1>3, LeavingIsMap, WithoutOwn
<1>7. AddEntries(r, created) = Sum(a, d)
  BY <1>1, <1>3, <1>6 DEF AddEntries, Sum
<1> QED
  BY <1>4, <1>5, <1>7

\* A diff is determined by the two sets it leads between.
LEMMA DiffIsDifference ==
    ASSUME NEW set \in Collection, NEW a \in Diff, Fits(set, a)
    PROVE  a = [add |-> Apply(set, a) \ set, remove |-> set \ Apply(set, a)]
<1>1. a.add \cap set = {}
  BY DEF Fits
<1>2. a.add = Apply(set, a) \ set
  BY <1>1 DEF Apply
<1>3. a.remove = set \ Apply(set, a)
  BY DEF Apply, Fits
<1>4. a = [add |-> a.add, remove |-> a.remove]
  BY DEF Diff
<1> QED
  BY <1>2, <1>3, <1>4

\* Undoing a diff that fits leads back, and the way back fits.
LEMMA ReverseFits ==
    ASSUME NEW set \in Collection, NEW d \in Diff, Fits(set, d)
    PROVE  /\ Reversed(d) \in Diff
           /\ Fits(Apply(set, d), Reversed(d))
           /\ Apply(Apply(set, d), Reversed(d)) = set
<1>1. Reversed(d) \in Diff
  BY DEF Reversed, Diff
<1>2. d.add \cap set = {}
  BY DEF Fits
<1>3. Apply(set, d) \ d.add = set \ d.remove
  BY <1>2 DEF Apply
<1>4. ASSUME NEW x \in d.remove, NEW y \in set \ d.remove PROVE x[1] # y[1]
  BY CollectionIsMap DEF Fits
<1>5. Fits(Apply(set, d), Reversed(d))
  BY <1>3, <1>4 DEF Fits, Apply, Reversed
<1>6. Apply(Apply(set, d), Reversed(d)) = set
  BY <1>3 DEF Apply, Reversed, Fits
<1> QED
  BY <1>1, <1>5, <1>6

\* One step of the accumulated diff, for a diff that fits.
LEMMA ApplyStep ==
    ASSUME DiffInv, NEW d \in Diff, ApplyDiff(d)
    PROVE  DiffInv'
<1> USE DEF DiffInv, DiffTypeOK, Faithful, NeverPanics
<1>1. Fits(base, acc) /\ Apply(base, acc) = current /\ Fits(current, d)
  BY DEF ApplyDiff
<1>2. ~DuplicateRemove(acc, d) /\ ~DuplicateAdd(acc, d)
  BY <1>1, ChecksPass
<1>3. acc' = Sum(acc, d) /\ panicked' = panicked /\ base' = base
  BY <1>1, <1>2, WithDiffIsSum DEF ApplyDiff
<1>4. current' = Apply(current, d) /\ current' \in Collection
  BY <1>1, ApplyIsCollection DEF ApplyDiff
<1> QED
  BY <1>1, <1>3, <1>4, SumIsFaithful

\* One step for a transaction that fits.
LEMMA TransactionStep ==
    ASSUME DiffInv, NEW spent \in Collection, NEW created \in Collection,
           AddTransaction(spent, created)
    PROVE  DiffInv'
<1> USE DEF DiffInv, DiffTypeOK, Faithful, NeverPanics
<1> DEFINE d == [add |-> created, remove |-> spent]
<1>1. d \in Diff
  BY DEF Diff
<1>2. Fits(base, acc) /\ Apply(base, acc) = current /\ Fits(current, d)
  BY DEF AddTransaction
<1>3. acc' = Sum(acc, d) /\ panicked' = panicked /\ base' = base
  BY <1>2, TransactionIsSum DEF AddTransaction
<1>4. current' = Apply(current, d) /\ current' \in Collection
  BY <1>1, <1>2, ApplyIsCollection DEF AddTransaction
<1> QED
  BY <1>1, <1>2, <1>3, <1>4, SumIsFaithful

\* The inductive invariant: the accumulated diff is faithful and the algebra
\* has not refused a diff.
THEOREM DiffInvariant == DiffSpec => []DiffInv
<1>1. DiffInit => DiffInv
  <2> SUFFICES ASSUME DiffInit PROVE DiffInv
    OBVIOUS
  <2>1. {} \in Collection
    BY DEF Collection
  <2> QED
    BY ZenonT(60), <2>1 DEF DiffInit, DiffInv, DiffTypeOK, Faithful, NeverPanics, NoDiff, Diff, Fits, Apply
<1>2. DiffInv /\ [DiffNext]_diffVars => DiffInv'
  <2> SUFFICES ASSUME DiffInv, [DiffNext]_diffVars PROVE DiffInv'
    OBVIOUS
  <2>1. ASSUME NEW d \in Diff, ApplyDiff(d) PROVE DiffInv'
    BY <2>1, ApplyStep
  <2>2. ASSUME NEW d \in Diff, UndoDiff(d) PROVE DiffInv'
    <3>1. Reversed(d) \in Diff
      BY DEF Reversed, Diff
    <3> QED
      BY <2>2, <3>1, ApplyStep DEF UndoDiff
  <2>3. ASSUME NEW spent \in Collection, NEW created \in Collection,
               AddTransaction(spent, created)
        PROVE  DiffInv'
    BY <2>3, TransactionStep
  <2>4. CASE UNCHANGED diffVars
    BY <2>4 DEF diffVars, DiffInv, DiffTypeOK, Faithful, NeverPanics
  <2> QED
    BY <2>1, <2>2, <2>3, <2>4 DEF DiffNext
<1> QED
  BY <1>1, <1>2, PTL DEF DiffSpec

\* The diff that with_diff_in_place and add_transaction accumulate leads from
\* the base UTXO set to the one the single diffs lead to.
THEOREM AccumulatesFaithfully == DiffSpec => []Faithful
<1>1. DiffInv => Faithful
  BY DEF DiffInv
<1> QED
  BY <1>1, DiffInvariant, PTL

\* The sanity checks of the algebra never refuse a diff that fits, so the
\* unwrap calls on its results never panic.
THEOREM AlgebraNeverPanics == DiffSpec => []NeverPanics
<1>1. DiffInv => NeverPanics
  BY DEF DiffInv
<1> QED
  BY <1>1, DiffInvariant, PTL

\* Accumulating the reverse of a diff takes that diff out again.
THEOREM ReorgBackCancels == DiffSpec => []UndoCancels
<1>1. DiffInv => UndoCancels
  <2> SUFFICES ASSUME DiffInv, NEW d \in Diff, Fits(current, d)
               PROVE  /\ Fits(Apply(current, d), Reversed(d))
                      /\ WithDiff(WithDiff(acc, d), Reversed(d)) = acc
    BY DEF UndoCancels
  <2> DEFINE there == WithDiff(acc, d)
             back == WithDiff(there, Reversed(d))
  <2>1. /\ base \in Collection /\ current \in Collection /\ acc \in Diff
        /\ Fits(base, acc) /\ Apply(base, acc) = current
    BY DEF DiffInv, DiffTypeOK, Faithful
  <2>2. /\ Reversed(d) \in Diff
        /\ Fits(Apply(current, d), Reversed(d))
        /\ Apply(Apply(current, d), Reversed(d)) = current
    BY <2>1, ReverseFits
  <2>3. there \in Diff /\ Fits(base, there) /\ Apply(base, there) = Apply(current, d)
    BY <2>1, WithDiffIsSum, SumIsFaithful
  <2>4. back \in Diff /\ Fits(base, back) /\ Apply(base, back) = current
    <3> HIDE DEF there
    <3> QED
      BY <2>1, <2>2, <2>3, WithDiffIsSum, SumIsFaithful
  <2>5. back = [add |-> current \ base, remove |-> base \ current]
    <3> HIDE DEF back
    <3> QED
      BY <2>1, <2>4, DiffIsDifference
  <2>6. acc = [add |-> current \ base, remove |-> base \ current]
    BY <2>1, DiffIsDifference
  <2> QED
    BY <2>2, <2>5, <2>6
<1> QED
  BY <1>1, DiffInvariant, PTL

-----------------------------------------------------------------------------
\* The management store and the directories

PC == {"down", "staging", "staging_dir", "staging_entry", "unstage", "inactive", "sweep",
       "open", "create", "save", "up", "stage", "building", "handlers"}

ManagerTypeOK ==
    /\ meta \in [current : Key \cup {NoKey}, staging : Key \cup {NoKey}, max : Key \cup {NoKey}]
    /\ entries \subseteq Key /\ todo \subseteq Key /\ done \subseteq Key
    /\ dirs \in [Key -> {"none", "part", "whole"}]
    /\ active \in Key \cup {NoKey} /\ staged \in Key \cup {NoKey}
    /\ pc \in PC

\* The keys above max_key_used are free, those at or below it are not reused.
SlotsInv ==
    /\ \A k \in Key : k > meta.max => k \notin entries /\ dirs[k] = "none"
    /\ meta.current <= meta.max /\ meta.staging <= meta.max

\* What each program point knows of the keys it works on.
PointsInv ==
    /\ meta.staging # NoKey => meta.staging # meta.current
    /\ pc \in {"staging_dir", "staging_entry", "unstage"} => meta.staging # NoKey
    /\ pc = "sweep" => meta.current \notin todo \cup done
    /\ pc \in {"create", "save"} => active # NoKey /\ active <= meta.max
    /\ pc = "create" => dirs[active] = "none" /\ meta.current = NoKey
    /\ pc = "save" => dirs[active] = "whole"
    /\ pc \in {"inactive", "sweep", "open", "create", "save"} => meta.staging = NoKey
    /\ pc \in {"stage", "building"} => staged # NoKey /\ staged = meta.staging /\ staged \in entries
    /\ pc = "stage" => dirs[staged] = "none"
    /\ pc = "building" => dirs[staged] = "whole"

ManagerInv == ManagerTypeOK /\ SlotsInv /\ PointsInv /\ CurrentIsWhole /\ NoDirectoryIsReused

\* The invariant holds in an empty management store.
LEMMA ManagerInitial == ManagerInit => ManagerInv
BY MaxKeyAssumption DEF ManagerInit, ManagerInv, ManagerTypeOK, SlotsInv, PointsInv, CurrentIsWhole,
                        NoDirectoryIsReused, Key, NoKey, PC

\* Every write and every file operation of the manager keeps the invariant.
LEMMA ManagerStep == ManagerInv /\ [ManagerNext]_managerVars => ManagerInv'
<1> SUFFICES ASSUME ManagerInv, [ManagerNext]_managerVars PROVE ManagerInv'
    OBVIOUS
<1> USE MaxKeyAssumption DEF ManagerInv, ManagerTypeOK, SlotsInv, PointsInv, CurrentIsWhole,
                             NoDirectoryIsReused, Key, NoKey, PC, Goto, store, memory
<1>1. CASE Start
    BY <1>1 DEF Start
<1>2. CASE ReadStaging
    BY <1>2 DEF ReadStaging
<1>3. CASE RemoveStagingDir
    BY <1>3 DEF RemoveStagingDir
<1>4. CASE DeleteStagingEntry
    BY ZenonT(60), <1>4 DEF DeleteStagingEntry
<1>5. CASE CancelStaging
    BY <1>5 DEF CancelStaging
<1>6. CASE ListInactive
    BY ZenonT(60), <1>6 DEF ListInactive, Finish, Inactive
<1>7. CASE RemoveInactiveDir
  <2>1. ManagerTypeOK'
    <3>1. PICK k \in todo : /\ todo' = todo \ {k}
                            /\ \/ dirs' = [dirs EXCEPT ![k] = "none"] /\ done' = done \cup {k}
                               \/ dirs' = [dirs EXCEPT ![k] = "part"] /\ done' = done
        BY <1>7 DEF RemoveInactiveDir
    <3>2. dirs' \in [Key -> {"none", "part", "whole"}] /\ done' \subseteq Key /\ todo' \subseteq Key
        BY ZenonT(60), <3>1
    <3>3. QED
        BY <1>7, <3>2 DEF RemoveInactiveDir
  <2>2. SlotsInv'
    BY <1>7 DEF RemoveInactiveDir
  <2>3. PointsInv'
    BY <1>7 DEF RemoveInactiveDir
  <2>4. CurrentIsWhole'
    BY <1>7 DEF RemoveInactiveDir
  <2>5. NoDirectoryIsReused'
    BY <1>7 DEF RemoveInactiveDir
  <2>6. QED
    BY <2>1, <2>2, <2>3, <2>4, <2>5
<1>8. CASE DeleteInactiveEntry
    BY ZenonT(60), <1>8 DEF DeleteInactiveEntry, Finish
<1>9. CASE OpenActive
    BY <1>9 DEF OpenActive, CaptureSlot
<1>10. CASE CreateActive
  <2>1. ManagerTypeOK'
    BY <1>10 DEF CreateActive
  <2>2. SlotsInv'
    BY <1>10 DEF CreateActive
  <2>3. PointsInv'
    BY <1>10 DEF CreateActive
  <2>4. CurrentIsWhole'
    BY <1>10 DEF CreateActive
  <2>5. NoDirectoryIsReused'
    BY ZenonT(60), <1>10 DEF CreateActive
  <2>6. QED
    BY <2>1, <2>2, <2>3, <2>4, <2>5
<1>11. CASE SaveActive
    BY <1>11 DEF SaveActive
<1>12. CASE NewStagingEntry
  <2>0. meta.max + 1 \in Key /\ meta'.max = meta.max + 1 /\ meta'.staging = meta.max + 1
        /\ meta'.current = meta.current
    BY <1>12 DEF NewStagingEntry
  <2>1. ManagerTypeOK'
    BY ZenonT(60), <1>12, <2>0 DEF NewStagingEntry
  <2>2. SlotsInv'
    BY <1>12, <2>0 DEF NewStagingEntry
  <2>3. PointsInv'
    BY <1>12, <2>0 DEF NewStagingEntry
  <2>4. CurrentIsWhole'
    BY <1>12, <2>0 DEF NewStagingEntry
  <2>5. NoDirectoryIsReused'
    BY <1>12, <2>0 DEF NewStagingEntry
  <2>6. QED
    BY <2>1, <2>2, <2>3, <2>4, <2>5
<1>13. CASE OpenStaging
    BY ZenonT(60), <1>13 DEF OpenStaging
<1>14. CASE Cancel
    BY <1>14 DEF Cancel
<1>15. CASE Commit
  <2>0. meta'.max = meta.max /\ meta'.staging = NoKey /\ meta'.current = meta.staging
    BY <1>15 DEF Commit
  <2>1. ManagerTypeOK'
    BY ZenonT(60), <1>15, <2>0 DEF Commit
  <2>2. SlotsInv'
    BY <1>15, <2>0 DEF Commit
  <2>3. PointsInv'
    BY <1>15, <2>0 DEF Commit
  <2>4. CurrentIsWhole'
    BY <1>15, <2>0 DEF Commit
  <2>5. NoDirectoryIsReused'
    BY <1>15, <2>0 DEF Commit
  <2>6. QED
    BY <2>1, <2>2, <2>3, <2>4, <2>5
<1>16. CASE HandlersDone
    BY <1>16 DEF HandlersDone
<1>17. CASE CrashManager
    BY <1>17 DEF CrashManager
<1>18. CASE UNCHANGED managerVars
    BY <1>18 DEF managerVars
<1>19. QED
    BY ZenonT(60), <1>1, <1>2, <1>3, <1>4, <1>5, <1>6, <1>7, <1>8, <1>9, <1>10, <1>11, <1>12,
       <1>13, <1>14, <1>15, <1>16, <1>17, <1>18 DEF ManagerNext

\* The invariant holds throughout.
LEMMA ManagerInvariant == ManagerSpec => []ManagerInv
BY ManagerInitial, ManagerStep, PTL DEF ManagerSpec

\* Whatever is staged, committed, cancelled, cut off or fails to be removed, the current
\* consensus keeps its entry and its directory: delete_inactive_consensus_entries and
\* delete_staging_entry never reach it.
THEOREM ManagerKeepsCurrent == ManagerSpec => []CurrentIsWhole
<1>1. ManagerInv => CurrentIsWhole
    BY DEF ManagerInv
<1>2. QED
    BY <1>1, ManagerInvariant, PTL

\* A consensus is never built on the directory of an earlier one, since its key is
\* captured in the metadata before the directory is made.
THEOREM ManagerReusesNothing == ManagerSpec => []NoDirectoryIsReused
<1>1. ManagerInv => NoDirectoryIsReused
    BY DEF ManagerInv
<1>2. QED
    BY <1>1, ManagerInvariant, PTL

-----------------------------------------------------------------------------
\* No step of a consensus, of IBD or of the index writes to the management store, to a
\* directory or to the memory of the manager.
LEMMA NodeStepsAreManagerSteps == [Next]_vars => [ManagerNext]_managerVars
<1> SUFFICES ASSUME [Next]_vars PROVE [ManagerNext]_managerVars
    OBVIOUS
<1>1. CASE Manager
    BY ZenonT(60), <1>1 DEF Manager, ManagerAlone, Staging, ApplyProof, CommitStaging, CommitHandlers, ManagerNext
<1>2. CASE Index
    BY ZenonT(60), <1>2 DEF Index, OpenIndex, TakeNotification, UpdateStep, Resync, WipeTips, WipeSupply, WipeSet,
                CopyEntry, InsertSupply, ResyncDone, ManagerNext
<1>3. CASE Import
    BY ZenonT(60), <1>3 DEF Import, Download, ClearVirtual, CopyVirtual, CommitVirtual, SetStable,
                ImportHandlers, ImportFails
<1>4. CASE (\E k \in Key : Resolve(k)) \/ OldExits
    BY ZenonT(60), <1>4 DEF Resolve, OldExits
<1>5. CASE Crash
    BY ZenonT(60), <1>5 DEF Crash, ManagerNext
<1>6. CASE UNCHANGED vars
    BY ZenonT(60), <1>6 DEF vars
<1>7. QED
    BY <1>1, <1>2, <1>3, <1>4, <1>5, <1>6 DEF Next

\* The node with its index implements the specification of the manager.
THEOREM NodeImplementsManager == Spec => ManagerSpec
<1>1. Init => ManagerInit
    BY DEF Init
<1>2. QED
    BY <1>1, NodeStepsAreManagerSteps, PTL DEF Spec, ManagerSpec

\* However a commit, a cancellation or a start of the node is cut off, and whatever
\* consensus instances, IBD and index do meanwhile, the deletions of the factory never
\* reach the entry or the directory of the current consensus.
THEOREM CurrentSurvives == Spec => []CurrentIsWhole
BY NodeImplementsManager, ManagerKeepsCurrent, PTL

\* No consensus of the node is built on the directory of an earlier one.
THEOREM FreshDirectories == Spec => []NoDirectoryIsReused
BY NodeImplementsManager, ManagerReusesNothing, PTL
=============================================================================
