---------------------------- MODULE ListenerMap -----------------------------
(***************************************************************************)
(* What the map traits do to the map of listeners, each operation atomic:  *)
(* MapTraits "mutex" is MapWithMutexTraits, a locked std::map, and "safe"  *)
(* is SafeMapTraits, a SafeUnorderedMap.                                   *)
(***************************************************************************)
CONSTANTS Keys, Listeners, MapTraits,
          Absent, Null     \* no map entry; an entry that holds an empty shared_ptr

ASSUME ListenersAssumption ==
    /\ MapTraits \in {"safe", "mutex"}
    /\ Absent \notin Listeners /\ Null \notin Listeners /\ Absent # Null

VARIABLE map

Entries == Listeners \cup {Absent, Null}

\* [mutant] The listener is stored for every key of the bucket.
AddToBucket(k, l) == map' = [j \in Keys |-> l]

\* MapWithMutexTraits assigns; SafeUnorderedMap::Set emplaces, which changes nothing
\* if there is an entry already.
Assign(k, l) == map' = [map EXCEPT ![k] = l]
Emplace(k, l) == IF map[k] = Absent THEN Assign(k, l) ELSE UNCHANGED map

AddToMap(k, l) == IF MapTraits = "mutex" THEN Assign(k, l) ELSE Emplace(k, l)

\* What GetFromMap returns: without an entry, the empty pointer.
Found(k) == IF map[k] = Absent THEN Null ELSE map[k]

\* [mutant] The listener is moved out of the map.
MovedOut(k) == map' = [map EXCEPT ![k] = Null]

\* What GetFromMap leaves: std::map::find only looks, GetAndCreate emplaces.
LookedUp(k) == IF MapTraits = "mutex" THEN UNCHANGED map ELSE Emplace(k, Null)
=============================================================================
