-------------------------------- MODULE Fifo --------------------------------
(***************************************************************************)
(* The ring buffer of libavutil/fifo.c, as Udp uses it.  Two pointers move *)
(* around the memory, and two counters of Width bits (32 in the code,      *)
(* "they are intended to overflow") say how much is in it.  The callers    *)
(* keep to av_fifo_space and av_fifo_size, under their own lock: a call is *)
(* an operator from the buffer before it to the buffer after it.           *)
(***************************************************************************)
EXTENDS Integers, Sequences, FiniteSets

CONSTANT Width   \* bits of rndx and wndx
ASSUME WidthAssumption == Width \in Nat \ {0} /\ 2^Width \in Nat \ {0}

(* The memory is not initialised. *)
av_fifo_alloc(size, junk) ==
  [buffer |-> [a \in 0..(size - 1) |-> junk],
   rptr |-> 0, wptr |-> 0, rndx |-> 0, wndx |-> 0]

Size(f) == Cardinality(DOMAIN f.buffer)   \* f->end - f->buffer

(* Mutant: the counters are subtracted as plain numbers. *)
SizePlain(f) == f.wndx - f.rndx

av_fifo_size(f) == (f.wndx - f.rndx) % 2^Width
av_fifo_space(f) == Size(f) - av_fifo_size(f)

(* A pointer at or past the end goes on at the start. *)
Around(f, p) == IF p >= Size(f) THEN p - Size(f) ELSE p

(* The loop goes round at most twice: to the end, and on from the start. *)
av_fifo_generic_write(f, src) ==
  LET len1 == IF Size(f) - f.wptr < Len(src) THEN Size(f) - f.wptr ELSE Len(src)
      len2 == Len(src) - len1
  IN  [f EXCEPT
         !.buffer = [a \in DOMAIN @ |->
                       CASE a \in f.wptr..(f.wptr + len1 - 1) -> src[a - f.wptr + 1]
                         [] a < len2                          -> src[len1 + a + 1]
                         [] OTHER                             -> @[a]],
         !.wptr = Around(f, @ + len1) + len2,
         !.wndx = (@ + Len(src)) % 2^Width]

(* The next n bytes, in up to two pieces. *)
av_fifo_generic_peek(f, n) ==
  [i \in 1..n |-> f.buffer[Around(f, f.rptr + i - 1)]]

av_fifo_drain(f, n) ==
  [f EXCEPT !.rptr = Around(f, @ + n), !.rndx = (@ + n) % 2^Width]
=============================================================================
