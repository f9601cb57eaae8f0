---------------------------------- MODULE Threads --------------------------------
(***************************************************************************)
(* The threads of the components whose calls are taken apart into atomic   *)
(* statements: a thread is at one statement of one call at a time, and     *)
(* a component keeps where in a function of its own.                       *)
(***************************************************************************)

CONSTANTS Threads,
          NoThread           \* the null thread handle

\* thread t is at statement `from' of its call and goes on to `to'
Step(pc, t, from, to) == pc[t] = from /\ pc' = [pc EXCEPT ![t] = to]

===============================================================================
