---------------------------- MODULE KeyValueStore ----------------------------
(***************************************************************************)
(* What the dictionaries promise a program: maps from every key to a       *)
(* value.  A read answers what the key was last written, in its own map.   *)
(***************************************************************************)
CONSTANTS
  Key,        (* The keys.                                                 *)
  Value,      (* What a key may map to; a key may also map to nothing.     *)
  Nothing

VARIABLES
  maps,       (* A function from the maps there are to their contents.     *)
  answer      (* What the last read answered, Nothing before the first.    *)

Content == Value \union {Nothing}

Init == maps = << >> /\ answer = Nothing

\* A new map holds anything; the others are as they were.
Create ==
  \E m \in DOMAIN maps' \ DOMAIN maps :
    /\ maps'[m] \in [Key -> Content]
    /\ maps' = [d \in DOMAIN maps \union {m} |-> IF d = m THEN maps'[m] ELSE maps[d]]
    /\ UNCHANGED answer

Read(m, k) ==
  /\ maps[m][k] # Nothing
  /\ answer' = maps[m][k]
  /\ UNCHANGED maps

Write(m, k, v) ==
  /\ maps[m][k] # Nothing
  /\ maps' = [maps EXCEPT ![m][k] = v]
  /\ UNCHANGED answer

Next ==
  \/ Create
  \/ \E m \in DOMAIN maps, k \in Key : Read(m, k)
  \/ \E m \in DOMAIN maps, k \in Key, v \in Value : Write(m, k, v)

Spec == Init /\ [][Next]_<<maps, answer>>
=============================================================================
