------------------------------ MODULE UtxoDiff ------------------------------
(***************************************************************************)
(* The algebra of UTXO diffs.                                              *)
(*                                                                         *)
(* A UTXO entry is told apart from another by its outpoint and by the DAA  *)
(* score of the block that accepted it: the same outpoint is accepted with *)
(* different scores on the two sides of a reorg.  A collection (a hash map *)
(* keyed by outpoint) is a set of entries without two for one outpoint.    *)
(***************************************************************************)
CONSTANTS Outpoint, Score

Entry == Outpoint \X Score
Collection == {c \in SUBSET Entry : \A x, y \in c : x[1] = y[1] => x = y}
Diff == [add : Collection, remove : Collection]
NoDiff == [add |-> {}, remove |-> {}]

\* Insertion into a map overrides, removal goes by the key.
Without(c, d) == {x \in c : \A y \in d : y[1] # x[1]}
Insert(c, d) == Without(c, d) \cup d

-----------------------------------------------------------------------------
\* with_diff_in_place

\* The first of its sanity checks.  The variant does not except an entry that
\* was added before.
DuplicateRemoveStrict(this, other) ==
    \E x \in other.remove, y \in this.remove : x[1] = y[1]
DuplicateRemove(this, other) ==
    \E x \in other.remove, y \in this.remove : x[1] = y[1] /\ x \notin this.add

DuplicateAdd(this, other) ==
    \E x \in other.add, y \in this.add : x[1] = y[1] /\ y \notin other.remove

\* What other removes is taken out of add if it is there, and otherwise joins
\* remove; what it adds is then taken out of remove if it is there, and
\* otherwise joins add.
WithDiff(this, other) ==
    LET remove == Insert(this.remove, other.remove \ this.add)
        add == Without(this.add, other.remove \cap this.add)
    IN [add |-> Insert(add, other.add \ remove),
        remove |-> Without(remove, other.add \cap remove)]

Reversed(d) == [add |-> d.remove, remove |-> d.add]

-----------------------------------------------------------------------------
\* add_transaction: remove_entry for each input, then add_entry for each output

DoubleRemove(this, spent) ==
    \E x \in spent \ this.add, y \in this.remove : x[1] = y[1]

RemoveEntries(this, spent) ==
    [add |-> Without(this.add, spent \cap this.add),
     remove |-> this.remove \cup (spent \ this.add)]

DoubleAdd(this, created) ==
    \E x \in created \ this.remove, y \in this.add : x[1] = y[1]

\* The variant does not look for the entry in remove.
AddEntriesOnly(this, created) ==
    [add |-> this.add \cup created, remove |-> this.remove]
AddEntries(this, created) ==
    [add |-> this.add \cup (created \ this.remove),
     remove |-> Without(this.remove, created \cap this.remove)]

-----------------------------------------------------------------------------
\* What a diff means: the UTXO set it leads to, and when it fits a UTXO set.

Apply(set, d) == (set \ d.remove) \cup d.add

Fits(set, d) ==
    /\ d.remove \subseteq set
    /\ d.add \cap d.remove = {}
    /\ \A x \in d.add, y \in set \ d.remove : x[1] # y[1]
=============================================================================
