------------------------------ MODULE Channel ------------------------------
(***************************************************************************)
(* What a queue between two threads of ffmpeg promises: messages come out  *)
(* in the order they went in, none twice; a message may be thrown away,    *)
(* but then it never comes out later; and an error that ends the queue is  *)
(* told to the consumer only when no message is left in front of it.  The  *)
(* circular buffer of udp.c is shown to implement this specification.      *)
(***************************************************************************)
EXTENDS Integers, Sequences

CONSTANTS Msgs,   \* the messages
          Errors  \* the errors that may end the queue

VARIABLES
  put,    \* every message accepted so far
  taken,  \* how many of them have left the queue
  out,    \* the messages the consumer has been given
  err,    \* the errors recorded by the producer
  told    \* the errors the consumer has been given

vars == <<put, taken, out, err, told>>

Init == put = <<>> /\ taken = 0 /\ out = <<>> /\ err = {} /\ told = {}

Put(m) ==
  /\ put' = Append(put, m)
  /\ UNCHANGED <<taken, out, err, told>>

Get ==
  /\ taken < Len(put)
  /\ out' = Append(out, put[taken + 1])
  /\ taken' = taken + 1
  /\ UNCHANGED <<put, err, told>>

Discard(n) ==
  /\ n \in 1..(Len(put) - taken)
  /\ taken' = taken + n
  /\ UNCHANGED <<put, out, err, told>>

(* The errors are recorded; if that is all there is, the queue has ended. *)
Fail(e) ==
  /\ err' = err \cup {e}
  /\ UNCHANGED <<put, taken, out, told>>

Tell(e) ==
  /\ e \in err
  /\ taken = Len(put)
  /\ told' = told \cup {e}
  /\ UNCHANGED <<put, taken, out, err>>

Next ==
  \/ \E m \in Msgs : Put(m)
  \/ Get
  \/ \E n \in 1..(Len(put) - taken) : Discard(n)
  \/ \E e \in Errors : Fail(e) \/ Tell(e)

Spec == Init /\ [][Next]_vars
=============================================================================
