-------------------------------- MODULE ObjectSet -------------------------------
(***************************************************************************)
(* What a collection of libutl without an order promises (ucc/Collection.h)*)
(* whatever it is made of: it has the objects that were added and not      *)
(* removed.  One that is not a multi-set refuses an object that equals one *)
(* inside; removal by key takes one object that matches, if there is one.  *)
(***************************************************************************)
CONSTANTS Objects, KeyOf(_)

VARIABLES contents,   \* the objects inside
          multiSet    \* isMultiSet()

objectSetVars == <<contents, multiSet>>

Equal(o) == {x \in contents : KeyOf(x) = KeyOf(o)}

Init == contents = {} /\ multiSet \in BOOLEAN

Add(o) ==
  /\ o \notin contents /\ (multiSet \/ Equal(o) = {})
  /\ contents' = contents \union {o}
  /\ UNCHANGED multiSet

\* in a multi-set o comes on top of its equals
Update(o) ==
  /\ o \notin contents /\ ~multiSet
  /\ contents' = (contents \ Equal(o)) \union {o}
  /\ UNCHANGED multiSet

Remove(o) ==
  /\ o \in contents
  /\ contents' = contents \ {o}
  /\ UNCHANGED multiSet

Clear == contents' = {} /\ UNCHANGED multiSet

Next == (\E o \in Objects : Add(o) \/ Update(o) \/ Remove(o)) \/ Clear

Spec == Init /\ [][Next]_objectSetVars

===============================================================================
