-------------------------- MODULE AccumulatedDiff --------------------------
(***************************************************************************)
(* The life of an accumulated diff: it starts empty over a base UTXO set,  *)
(* and the diffs of chain blocks, reversed or not, and single transactions *)
(* are applied to it, each of them valid for the UTXO set reached so far.  *)
(***************************************************************************)
EXTENDS UtxoDiff

VARIABLES
    base,      \* the UTXO set the accumulated diff is relative to
    current,   \* the UTXO set the applied diffs lead to
    acc,       \* the accumulated diff
    panicked   \* an unwrap on the result of the algebra failed

diffVars == <<base, current, acc, panicked>>

\* Types: the two states are collections and the accumulated diff is a pair of them,
\* as UtxoDiff and UtxoCollection declare.
DiffTypeOK ==
    /\ base \in Collection /\ current \in Collection
    /\ acc \in Diff
    /\ panicked \in BOOLEAN

DiffInit ==
    /\ base \in Collection
    /\ current = base
    /\ acc = NoDiff
    /\ panicked = FALSE

\* The diff of a chain block, or the reverse of one, is applied.
ApplyDiff(d) ==
    /\ Fits(current, d)
    /\ current' = Apply(current, d)
    /\ IF DuplicateRemove(acc, d) \/ DuplicateAdd(acc, d)
       THEN panicked' = TRUE /\ UNCHANGED acc
       ELSE acc' = WithDiff(acc, d) /\ UNCHANGED panicked
    /\ UNCHANGED base

\* The diff of a chain block is undone.
UndoDiff(d) == ApplyDiff(Reversed(d))

\* A transaction is accepted: its inputs are unspent and its outputs are new.
AddTransaction(spent, created) ==
    /\ Fits(current, [add |-> created, remove |-> spent])
    /\ current' = Apply(current, [add |-> created, remove |-> spent])
    /\ LET removed == RemoveEntries(acc, spent) IN
       IF DoubleRemove(acc, spent) \/ DoubleAdd(removed, created)
       THEN panicked' = TRUE /\ UNCHANGED acc
       ELSE acc' = AddEntries(removed, created) /\ UNCHANGED panicked
    /\ UNCHANGED base

DiffNext ==
    \/ \E d \in Diff : ApplyDiff(d) \/ UndoDiff(d)
    \/ \E spent, created \in Collection : AddTransaction(spent, created)

DiffSpec == DiffInit /\ [][DiffNext]_diffVars

-----------------------------------------------------------------------------
\* Properties

\* The accumulated diff fits the base set and leads from it to the current set:
\* "equal to if the first diff, and then the second diff were applied to the
\* same base UTXO set".  The virtual processor writes it to the database in
\* place of the diffs it stands for.
Faithful == Fits(base, acc) /\ Apply(base, acc) = current

\* No diff that fits is refused by the sanity checks: the unwrap calls of the
\* virtual processor do not panic, however often the chain went back and forth.
NeverPanics == ~panicked

\* A diff and its reverse cancel out: a reorg and the reorg back leave nothing
\* of the first chain in the accumulated diff.
UndoCancels ==
    \A d \in Diff : Fits(current, d) =>
        /\ Fits(Apply(current, d), Reversed(d))
        /\ WithDiff(WithDiff(acc, d), Reversed(d)) = acc
=============================================================================
