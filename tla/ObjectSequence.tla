----------------------------- MODULE ObjectSequence ----------------------------
(***************************************************************************)
(* What a sequence with two ends promises (ucc/Deque.h): objects are added *)
(* and removed at the front and at the back, and those in between keep     *)
(* their places.  And what a queue of ucc/ that several threads share      *)
(* does: "queue an object", "dequeue an object" and false when there is    *)
(* none, each as one atomic step at an end of such a sequence.             *)
(***************************************************************************)
EXTENDS Integers, Sequences

CONSTANTS Objects,
          Threads,          \* those that share the queue
          Nothing           \* the result of a deQ() that returned false

VARIABLES contents,         \* the objects from the front to the back
          result            \* what the thread's last deQ() gave it

fifoVars == <<contents, result>>

Init == contents = <<>>

PushFront(o) == contents' = <<o>> \o contents
PushBack(o)  == contents' = Append(contents, o)
PopFront == contents # <<>> /\ contents' = Tail(contents)
PopBack  == contents # <<>> /\ contents' = SubSeq(contents, 1, Len(contents) - 1)
Clear    == contents' = <<>>

Next ==
  \/ Clear \/ PopFront \/ PopBack
  \/ \E o \in Objects : PushFront(o) \/ PushBack(o)

Spec == Init /\ [][Next]_contents

-------------------------------------------------------------------------------
(* The shared queue *)

FIFOInit == Init /\ result = [t \in Threads |-> Nothing]

Put == UNCHANGED result /\ \E o \in Objects : PushBack(o)

Take ==
  /\ PopFront
  /\ \E t \in Threads : result' = [result EXCEPT ![t] = Head(contents)]

Miss ==
  /\ contents = <<>> /\ UNCHANGED contents
  /\ \E t \in Threads : result' = [result EXCEPT ![t] = Nothing]

FIFONext == Miss \/ Take \/ Put

FIFOSpec == FIFOInit /\ [][FIFONext]_fifoVars

===============================================================================
