----------------------------- MODULE SortedSequence ----------------------------
(***************************************************************************)
(* What a sorted collection of libutl promises its caller                  *)
(* (ucc/SortedCollection, ucc/BinTree.h), whatever it is made of: the      *)
(* objects form one sequence in the order of their keys, an object goes    *)
(* before the ones that equal it, and the caller's iterator keeps standing *)
(* on its object however the collection changes around it.                 *)
(***************************************************************************)
EXTENDS Naturals, Sequences, FiniteSets

Ext == INSTANCE SequencesExt

CONSTANTS NumKeys, Copies       \* the objects: Copies of each of NumKeys keys

Objects == 0..(NumKeys * Copies - 1)
Keys    == 0..(NumKeys - 1)

KeyOf(o) == o \div Copies

VARIABLES contents,   \* the objects, first to last
          multiSet,   \* isMultiSet(): equal objects may be in it together
          position    \* where the caller's iterator stands: Len(contents) + 1 is
                      \* the end, and 0 means that there is no valid iterator

sortedVars == <<contents, multiSet, position>>

End == Len(contents) + 1

Has(k) == \E i \in DOMAIN contents : KeyOf(contents[i]) = k
FirstNotBelow(k) == 1 + Cardinality({i \in DOMAIN contents : KeyOf(contents[i]) < k})
LastEqual(k)     == Cardinality({i \in DOMAIN contents : KeyOf(contents[i]) <= k})

\* o may stand right before position i
Fits(o, i) ==
  /\ i > 1 => \/ KeyOf(contents[i - 1]) < KeyOf(o)
              \/ multiSet /\ KeyOf(contents[i - 1]) = KeyOf(o)
  /\ i < End => \/ KeyOf(o) < KeyOf(contents[i])
                \/ multiSet /\ KeyOf(contents[i]) = KeyOf(o)

InsertBefore(o, i) ==
  /\ contents' = Ext!InsertAt(contents, i, o)
  /\ position' = IF position >= i THEN position + 1 ELSE position
  /\ UNCHANGED multiSet

Fresh(o) == o \notin Ext!Range(contents)

Add(o) ==
  /\ multiSet \/ ~Has(KeyOf(o))
  /\ InsertBefore(o, FirstNotBelow(KeyOf(o)))

AddIfAbsent(o) ==
  /\ ~Has(KeyOf(o))
  /\ InsertBefore(o, FirstNotBelow(KeyOf(o)))

Update(o) ==
  /\ Has(KeyOf(o))
  /\ contents' = [contents EXCEPT ![FirstNotBelow(KeyOf(o))] = o]
  /\ UNCHANGED <<multiSet, position>>

Insert(o) ==
  /\ position # 0 /\ Fits(o, position)
  /\ InsertBefore(o, position)

\* an iterator on the object that goes is not valid any more
Remove(k) ==
  /\ Has(k)
  /\ LET i == FirstNotBelow(k) IN
       /\ contents' = Ext!RemoveAt(contents, i)
       /\ position' = IF position < i THEN position
                      ELSE IF position = i THEN 0 ELSE position - 1
  /\ UNCHANGED multiSet

\* ... except when it is the one used to remove it: that goes on to the next
RemoveIt ==
  /\ position \in DOMAIN contents
  /\ contents' = Ext!RemoveAt(contents, position)
  /\ UNCHANGED <<multiSet, position>>

Clear == contents' = <<>> /\ position' = 0 /\ UNCHANGED multiSet

Seek(i) == position' = i /\ UNCHANGED <<contents, multiSet>>

Begin == Seek(1)
SeekEnd == Seek(End)
FindFirst(k) == Seek(IF Has(k) THEN FirstNotBelow(k) ELSE End)
FindLast(k) == Seek(IF Has(k) THEN LastEqual(k) ELSE End)
FindInsertion(k) == Seek(FirstNotBelow(k))
Forward == position \in DOMAIN contents /\ Seek(position + 1)
Reverse == position > 1 /\ Seek(position - 1)

Init == contents = <<>> /\ multiSet \in BOOLEAN /\ position = 0

Next ==
  \/ Begin \/ SeekEnd \/ Forward \/ Reverse
  \/ \E k \in Keys : FindFirst(k) \/ FindLast(k) \/ FindInsertion(k) \/ Remove(k)
  \/ RemoveIt \/ Clear
  \/ \E o \in Objects : Fresh(o) /\ (Add(o) \/ AddIfAbsent(o) \/ Update(o) \/ Insert(o))

Spec == Init /\ [][Next]_sortedVars

================================================================================
