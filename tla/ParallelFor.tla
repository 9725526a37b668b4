----------------------------- MODULE ParallelFor -----------------------------
(***************************************************************************)
(* What avpriv_slicethread promises its callers (libavfilter runs yadif    *)
(* on it, libavcodec the sliced codecs): execute runs every job of the     *)
(* batch exactly once, in any order and some at a time, and returns when   *)
(* all have ended; after free nothing runs.                                *)
(***************************************************************************)
EXTENDS Naturals

CONSTANT MaxJobs      \* bound: jobs of a batch

VARIABLES
  phase,     \* between batches, in one, or freed
  todo,      \* jobs of the batch that have not started
  doing,     \* jobs that are running
  over       \* jobs that have ended

Init == phase = "idle" /\ todo = {} /\ doing = {} /\ over = {}

Begin ==
  \E n \in 1..MaxJobs :
    /\ phase = "idle" /\ phase' = "busy"
    /\ todo' = 0..(n - 1) /\ doing' = {} /\ over' = {}

Work ==
  /\ phase = "busy"
  /\ \E j \in todo \cup doing :
       \/ j \in todo /\ todo' = todo \ {j} /\ doing' = doing \cup {j} /\ UNCHANGED over
       \/ j \in doing /\ doing' = doing \ {j} /\ over' = over \cup {j} /\ UNCHANGED todo
  /\ UNCHANGED phase

End ==
  /\ phase = "busy" /\ todo = {} /\ doing = {}
  /\ phase' = "idle"
  /\ UNCHANGED <<todo, doing, over>>

Free ==
  /\ phase = "idle" /\ phase' = "freed"
  /\ UNCHANGED <<todo, doing, over>>

Next == Begin \/ Work \/ End \/ Free

Spec == Init /\ [][Next]_<<phase, todo, doing, over>>
=============================================================================
