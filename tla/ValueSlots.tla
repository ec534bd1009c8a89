------------------------------ MODULE ValueSlots ------------------------------
(***************************************************************************)
(* Where when_all keeps what its children send.  _merge_completions turns  *)
(* the numbers of values that the children send into offsets, with an      *)
(* exclusive_scan of the array over itself (when_all.hpp,                  *)
(* exclusive_scan.hpp); child i stores its value j in the slot             *)
(* offsets[i] + j of a _lazy_tuple, which remembers the slots that hold an *)
(* object and destroys these (lazy.hpp).  The children store on threads of *)
(* their own, and any copy may throw.  The first child that fails, or      *)
(* whose copy throws, puts its error into a _variant (variant.hpp).  Who   *)
(* is the first is settled in WhenAll.                                     *)
(***************************************************************************)
EXTENDS Naturals, FiniteSets, Functions, SequencesExt, Variant

CONSTANTS
  Children,   \* the number of child senders
  MaxValues   \* bound: a child sends 0..MaxValues values

ASSUME ValueSlotsAssumption ==
  /\ Children \in Nat \ {0}
  /\ MaxValues \in Nat
  /\ "exception_ptr" \in Alternatives

Child == 1..Children
Slot  == 0..(Children * MaxValues)
Raw   == <<0, 0>>                 \* storage without an object

VARIABLES
  sizes,      \* the number of values of each child
  \* exclusive_scan
  offsets,    \* the array, sizes before and offsets after
  first,      \* the element it has come to
  init, tmp,  \* its two accumulators
  step,       \* scan, store, then completed and destroyed
  \* _lazy_tuple
  object,     \* what each slot holds: value j of child i, or Raw
  engaged,    \* _engaged_
  live,       \* the objects constructed and not destroyed (history)
  \* the children
  stored,     \* how many values each has stored
  failed,     \* the children that sent an error, or for which a copy threw
  winner,     \* the first of them, or 0
  delivered   \* the values the receiver was sent

scanVars  == <<offsets, first, init, tmp>>
tupleVars == <<object, engaged, live>>
vars == <<sizes, scanVars, step, tupleVars, stored, failed, winner, delivered, variantVars>>

Init ==
  /\ sizes \in [Child -> 0..MaxValues]
  /\ offsets = sizes
  /\ first = 1
  /\ init = 0
  /\ tmp = offsets[1]
  /\ step = "scan"
  /\ object = [k \in Slot |-> Raw]
  /\ engaged = [k \in Slot |-> FALSE]
  /\ live = 0
  /\ stored = [i \in Child |-> 0]
  /\ failed = {}
  /\ winner = 0
  /\ delivered = <<>>
  /\ VariantInit

-----------------------------------------------------------------------------
(* exclusive_scan, the output being the input                               *)

\* What is added next: the element after the one that is overwritten.
NextInput_overwritten(array) == array[first]
NextInput(array) == array[first + 1]

Scan ==
  /\ step = "scan"
  /\ offsets' = [offsets EXCEPT ![first] = init]
  /\ IF first = Children
       THEN step' = "store" /\ UNCHANGED <<first, init, tmp>>
       ELSE /\ first' = first + 1
            /\ init' = tmp
            /\ tmp' = tmp + NextInput(offsets')
            /\ UNCHANGED step
  /\ UNCHANGED <<sizes, tupleVars, stored, failed, winner, delivered, variantVars>>

-----------------------------------------------------------------------------
(* _set_value: _values_._emplace<Jdx + Offset>(value) for every value        *)

SlotOf_no_offset(i) == stored[i]
SlotOf(i) == offsets[i] + stored[i]

Storing(i) ==
  /\ step = "store"
  /\ i \notin failed
  /\ stored[i] < sizes[i]

Store(i) ==
  /\ Storing(i)
  /\ object' = [object EXCEPT ![SlotOf(i)] = <<i, stored[i] + 1>>]
  /\ engaged' = [engaged EXCEPT ![SlotOf(i)] = TRUE]
  /\ live' = live + 1
  /\ stored' = [stored EXCEPT ![i] = @ + 1]
  /\ UNCHANGED <<sizes, scanVars, step, failed, winner, delivered, variantVars>>

EngagedIfThrown_before(i) == [engaged EXCEPT ![SlotOf(i)] = TRUE]
EngagedIfThrown(i) == engaged

\* _set_error: the first error is emplaced, the others are dropped.
Error(type, i) == [type |-> type, by |-> i]

SetError(type, i) ==
  /\ failed' = failed \cup {i}
  /\ IF winner = 0
       THEN winner' = i /\ BeginEmplace(Error(type, i))
       ELSE UNCHANGED <<winner, variantVars>>

\* A copy throws: the slot stays as it is, the child stores no more.
StoreThrows(i) ==
  /\ Storing(i)
  /\ engaged' = EngagedIfThrown(i)
  /\ SetError("exception_ptr", i)
  /\ UNCHANGED <<sizes, scanVars, step, object, live, stored, delivered>>

\* The child completes with an error instead of its values.
Fail(i, type) ==
  /\ step = "store"
  /\ stored[i] = 0
  /\ i \notin failed
  /\ SetError(type, i)
  /\ UNCHANGED <<sizes, scanVars, step, tupleVars, stored, delivered>>

\* Copying the error into the variant, which throws for some types.
CopyError ==
  /\ \/ EndEmplace
     \/ /\ emplacing.type # "exception_ptr"
        /\ EmplaceThrows(Error("exception_ptr", winner))
  /\ UNCHANGED <<sizes, scanVars, step, tupleVars, stored, failed, winner, delivered>>

\* apply: all the objects of the tuple, in the order of the slots.
AllObjects ==
  LET total == FoldFunction(+, 0, sizes) IN [k \in 1..total |-> object[k - 1]]

\* Every child has arrived.  If none failed all the slots are handed on.
Complete ==
  /\ step = "store"
  /\ \A i \in Child : ~Storing(i)
  /\ emplacing = NoObject
  /\ step' = "completed"
  /\ IF failed = {}
       THEN delivered' = AllObjects /\ UNCHANGED variantVars
       ELSE Visit /\ UNCHANGED delivered
  /\ UNCHANGED <<sizes, scanVars, tupleVars, stored, failed, winner>>

Engaged == {k \in Slot : engaged[k]}

Destroy ==
  /\ step = "completed"
  /\ step' = "destroyed"
  /\ object' = [k \in Slot |-> IF engaged[k] THEN Raw ELSE object[k]]
  /\ live' = live - Cardinality(Engaged)
  /\ DestroyVariant
  /\ UNCHANGED <<sizes, scanVars, engaged, stored, failed, winner, delivered>>

Next ==
  \/ Scan \/ CopyError \/ Complete \/ Destroy
  \/ \E i \in Child :
       \/ Store(i) \/ StoreThrows(i)
       \/ \E type \in Alternatives : Fail(i, type)

Spec == Init /\ [][Next]_vars

-----------------------------------------------------------------------------
(* Properties *)

TypeOK ==
  /\ sizes \in [Child -> 0..MaxValues]
  /\ offsets \in [Child -> Nat]
  /\ first \in Child
  /\ init \in Nat /\ tmp \in Nat
  /\ step \in {"scan", "store", "completed", "destroyed"}
  /\ object \in [Slot -> (0..Children) \X (0..MaxValues)]
  /\ engaged \in [Slot -> BOOLEAN]
  /\ live \in Nat
  /\ stored \in [Child -> 0..MaxValues]
  /\ failed \subseteq Child
  /\ winner \in Child \cup {0}

\* Scanning the array over itself reads no element it has already replaced: up
\* to where it has come there are offsets, from there on sizes.
ScanInPlace ==
  \A i \in Child :
    offsets[i] = IF step = "scan" /\ i >= first
                   THEN sizes[i]
                   ELSE FoldFunctionOnSet(+, 0, sizes, 1..(i - 1))

\* The tuple knows its objects: a slot is marked when it holds one, and no
\* object was constructed over another, so that destroying the marked ones
\* leaves none behind and touches no raw storage.
TupleOwnsItsObjects ==
  /\ step # "destroyed" =>
       /\ \A k \in Slot : engaged[k] <=> object[k] # Raw
       /\ live = Cardinality(Engaged)
  /\ step = "destroyed" => live = 0

\* The receiver gets the values in the order of the children, whatever the
\* order in which they were stored.
ValuesInOrder ==
  step \in {"completed", "destroyed"} /\ failed = {} =>
    delivered = FlattenSeq([i \in Child |-> [j \in 1..sizes[i] |-> <<i, j>>]])

\* The error variant knows its object, while a copy into it throws as well.  If a
\* child failed the receiver gets its error, which lives until the operation
\* state is destroyed, and no longer.
FirstErrorIsKept ==
  /\ IndexNamesTheObject
  /\ winner # 0 /\ step \in {"completed", "destroyed"} =>
       /\ {e.type : e \in visited} \subseteq Alternatives
       /\ {e.by : e \in visited} = {winner}
  /\ step = "destroyed" => storage = NoObject

=============================================================================
