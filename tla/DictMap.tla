------------------------------- MODULE DictMap -------------------------------
(* What dictionaries promise: maps of keys to contents, each on its own.     *)
EXTENDS Integers, Sequences

CONSTANTS
  Names, Keys, Contents,
  FileMaps,     \* the maps of files
  Null,         \* the content of a key that was set to NULL
  NoMap         \* a map that does not exist

VARIABLE maps

Update(m, key, val) == [k \in DOMAIN m \union {key} |-> IF k = key THEN val ELSE m[k]]

Init == maps = [d \in Names |-> NoMap]

\* The map d becomes one of these.
Becomes(d, choices) == maps' \in {[maps EXCEPT ![d] = m] : m \in choices}

Create(d) == maps[d] = NoMap /\ Becomes(d, FileMaps \union {[k \in {} |-> Null]})
Set(d) ==
  /\ maps[d] # NoMap
  /\ Becomes(d, {Update(maps[d], key, val) : key \in Keys, val \in Contents \union {Null}})
Copy(s, d) == maps[s] # NoMap /\ maps[d] = NoMap /\ Becomes(d, {maps[s]})
Drop(d) == maps[d] # NoMap /\ Becomes(d, {NoMap})

Next == \E d \in Names : Create(d) \/ Set(d) \/ (\E s \in Names : Copy(s, d)) \/ Drop(d)

Spec == Init /\ [][Next]_maps
=============================================================================
