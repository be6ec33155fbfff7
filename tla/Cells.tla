-------------------------------- MODULE Cells -------------------------------
(***************************************************************************)
(* The observable cells of src/cell.rs and src/ref_cell.rs.  A cell is a   *)
(* value next to an event, shared by its handles; a change of the value    *)
(* notifies every listener.  Its subscribers are EventStreams, which do    *)
(* what EmitterStreams do: Emitter models both.  The notifications carry   *)
(* no value, so a subscriber that is told of a change reads the cell.      *)
(*                                                                         *)
(* ObservableRefCell is changed through a guard, which announces the       *)
(* change when it is dropped.                                              *)
(***************************************************************************)
EXTENDS Emitter

CONSTANTS Value,        \* what an ObservableCell holds
          MaxHandles,   \* bound: strong handles at a time
          MaxRefs       \* bound: shared borrows at a time

ASSUME BoundsAssumption == MaxHandles \in Nat /\ MaxRefs \in Nat

VARIABLES strong,       \* the handles of the cell; the event is dropped with the last
          value,        \* Cell: the value of an ObservableCell
          guard,        \* the CellRefMut, if there is one, and its flag `mutated`
          refs,         \* the CellRefs
          changes,      \* the changes of the value, counted
          known,        \* the last change each subscriber could read when it was told
          missed        \* the subscribers that had no listener at an announcement

cellVars == <<strong, value, guard, refs, changes, known, missed>>

\* Which value a cell starts with makes no difference.
Initial == CHOOSE v \in Value : TRUE

CellInit ==
    /\ strong = 1
    /\ value = Initial
    /\ guard = "none"
    /\ refs = 0
    /\ changes = 0
    /\ known = [s \in Stream |-> 0]
    /\ missed = {}

\* The changes that can be read: a guard keeps its own to itself.
Readable == IF guard = "mutated" THEN changes - 1 ELSE changes

\* notify(usize::MAX): a subscriber between two listeners misses it.
Announce ==
    /\ Emit
    /\ missed' = missed \cup {s \in Stream : stream[s] = "next"}

\* ObservableCell::set.
Set(v) ==
    /\ strong > 0 /\ v # value
    /\ Announce
    /\ value' = v
    /\ changes' = changes + 1
    /\ UNCHANGED <<strong, guard, refs, known>>

\* ObservableRefCell::borrow, the drop of its CellRef, and borrow_mut; their try_
\* twins differ only in what they do when they cannot borrow.
Borrow ==
    /\ strong > 0 /\ guard = "none" /\ refs < MaxRefs
    /\ refs' = refs + 1
    /\ UNCHANGED <<vars, strong, value, guard, changes, known, missed>>

DropRef ==
    /\ refs > 0
    /\ refs' = refs - 1
    /\ UNCHANGED <<vars, strong, value, guard, changes, known, missed>>

BorrowMut ==
    /\ strong > 0 /\ guard = "none" /\ refs = 0
    /\ guard' = "clean"
    /\ UNCHANGED <<vars, strong, value, refs, changes, known, missed>>

\* CellRefMut::deref_mut; a guard that is written to again stays as it is.
DerefMut ==
    /\ guard = "clean" /\ changes < MaxEmits
    /\ guard' = "mutated"
    /\ changes' = changes + 1
    /\ UNCHANGED <<vars, strong, value, refs, known, missed>>

\* Broken on purpose: the guard of a changed cell goes without a word.
DropGuardQuietly ==
    /\ guard # "none"
    /\ guard' = "none"
    /\ UNCHANGED <<vars, strong, value, refs, changes, known, missed>>

\* CellRefMut::drop.
DropGuard ==
    /\ guard # "none"
    /\ guard' = "none"
    /\ IF guard = "mutated" THEN Announce ELSE UNCHANGED <<vars, missed>>
    /\ UNCHANGED <<strong, value, refs, changes, known>>

\* A weak handle is upgraded.
UpgradeHandle ==
    /\ strong \in 1 .. MaxHandles - 1
    /\ strong' = strong + 1
    /\ UNCHANGED <<vars, value, guard, refs, changes, known, missed>>

\* A handle is dropped; one that lends a borrow cannot be.
DropHandle ==
    /\ strong > (IF guard = "none" /\ refs = 0 THEN 0 ELSE 1)
    /\ strong' = strong - 1
    /\ IF strong = 1 THEN DropEmitter ELSE UNCHANGED vars
    /\ UNCHANGED <<value, guard, refs, changes, known, missed>>

\* The subscribers; one that subscribes or is told of a change reads the cell.
SubscribeCell(s) ==
    /\ Subscribe(s)
    /\ known' = [known EXCEPT ![s] = Readable]
    /\ UNCHANGED <<strong, value, guard, refs, changes, missed>>

Observe(s) ==
    /\ PollItem(s)
    /\ known' = [known EXCEPT ![s] = Readable]
    /\ missed' = missed \ {s}
    /\ UNCHANGED <<strong, value, guard, refs, changes>>

PollCell(s) ==
    \/ Observe(s)
    \/ (PollWait(s) \/ PollNext(s)) /\ UNCHANGED cellVars

DropObserver(s) ==
    /\ DropStream(s)
    /\ known' = [known EXCEPT ![s] = 0]
    /\ missed' = missed \ {s}
    /\ UNCHANGED <<strong, value, guard, refs, changes>>
-----------------------------------------------------------------------------
\* A subscriber that sleeps could read every change that is not still in the hands
\* of a guard, unless a change was announced while it had no listener: several
\* changes may be told as one, and a hand-over may tell of an old one, but none is
\* left untold.
SleepersKnowTheLatestChange == \A s \in asleep \ missed : known[s] = Readable
=============================================================================
