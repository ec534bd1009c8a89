-------------------------------- MODULE Variant --------------------------------
(***************************************************************************)
(* _variant (include/ustdex/detail/variant.hpp): storage for one object of *)
(* several types and the index of the type it holds, npos when there is    *)
(* none.  Emplacing destroys the object that is there before it constructs *)
(* the new one, whose constructor may throw.  One thread at a time uses a  *)
(* variant.                                                                *)
(*                                                                         *)
(* An object is a record with the field type: which alternative it is.     *)
(***************************************************************************)
CONSTANTS
  Alternatives,   \* Ts...
  npos            \* the index of a variant without an object

ASSUME VariantAssumption == npos \notin Alternatives

\* Storage without an object: it has no alternative's type.
NoObject == [type |-> npos]

VARIABLES
  index,      \* _index_
  storage,    \* what _storage_ holds, or NoObject
  emplacing,  \* the object that is being constructed, or NoObject
  visited     \* the objects that _visit passed to its function (history)

variantVars == <<index, storage, emplacing, visited>>

VariantInit ==
  /\ index = npos
  /\ storage = NoObject
  /\ emplacing = NoObject
  /\ visited = {}

\* _destroy: the index says whether there is an object to destroy.
StorageAfterDestroy == IF index = npos THEN storage ELSE NoObject
IndexAfterDestroy_early(new) == new
IndexAfterDestroy(new) == npos

\* _emplace, _emplace_at and _emplace_from: destroy, then run the constructor.
BeginEmplace(object) ==
  /\ emplacing = NoObject
  /\ storage' = StorageAfterDestroy
  /\ index' = IndexAfterDestroy(object.type)
  /\ emplacing' = object
  /\ UNCHANGED visited

\* The constructor returns: the index is set.
EndEmplace ==
  /\ emplacing # NoObject
  /\ storage' = emplacing
  /\ index' = emplacing.type
  /\ emplacing' = NoObject
  /\ UNCHANGED visited

\* The constructor throws, and the handler emplaces another object.
EmplaceThrows(object) ==
  /\ emplacing # NoObject
  /\ storage' = StorageAfterDestroy
  /\ index' = IndexAfterDestroy(object.type)
  /\ emplacing' = object
  /\ UNCHANGED visited

\* _visit calls its function with the alternative that the index names.
Visit ==
  /\ index # npos
  /\ visited' = visited \cup {storage}
  /\ UNCHANGED <<index, storage, emplacing>>

\* ~_variant
DestroyVariant ==
  /\ storage' = StorageAfterDestroy
  /\ index' = IndexAfterDestroy(npos)
  /\ UNCHANGED <<emplacing, visited>>

\* The index says what the storage holds, while a constructor runs as well, so
\* that an object is destroyed once, and raw storage never.
IndexNamesTheObject == index = storage.type

=============================================================================
