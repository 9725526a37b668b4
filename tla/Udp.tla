-------------------------------- MODULE Udp --------------------------------
(***************************************************************************)
(* The UDP input of the ffmpeg that hlsXcoder builds (libavformat/udp.c,   *)
(* with the local wait_for_signal patch), read by the thread of ffmpeg     *)
(* that runs the transcode loop through retry_transfer_wrapper (avio.c).   *)
(* A second thread, circular_buffer_task_rx, receives the datagrams and    *)
(* stores each one, after a header with its length, in a circular buffer.  *)
(*                                                                         *)
(* Everything either thread does between locking and unlocking the mutex   *)
(* is one step: no other thread sees the buffer in between.  A byte is     *)
(* known by the datagram it belongs to, by whether it is one of the four   *)
(* of the header, and by its value in the header (the length) or its       *)
(* position in the datagram.                                               *)
(***************************************************************************)
EXTENDS Fifo

CONSTANTS
  Sizes,                 \* sizes of the buffer the caller reads into
  circular_buffer_size,  \* fifo_size, already in bytes
  Inputs,                \* inputs: options, and lengths of their datagrams
  FastRetries,           \* bound: tries of a read before it sleeps
  MaxRecv,               \* bound: datagrams received
  MaxSignals             \* bound: signals received (one more ends ffmpeg)

ASSUME InputsAssumption ==
  /\ Sizes \subseteq Nat \ {0}
  /\ circular_buffer_size \in 1..(2^Width - 1)
  /\ \A input \in Inputs :
       /\ input.overrun_nonfatal \in BOOLEAN
       /\ input.wait_for_signal \in BOOLEAN
       /\ input.block \in BOOLEAN
       /\ input.lens \subseteq Nat
ASSUME BoundsAssumption ==
  FastRetries \in Nat /\ MaxRecv \in Nat /\ MaxSignals \in Nat

VARIABLES
  input,                  \* the input, fixed when it is opened
  rx,                     \* where circular_buffer_task_rx is
  tmp,                    \* what recvfrom gave it
  cancel,                 \* pthread_cancel has been called on it
  fifo,                   \* the circular buffer
  circular_buffer_error,  \* set when the receiving thread gives up
  wait_for_signal,        \* the option, until SIGUSR1 is seen
  usr1,                   \* SIGUSR1 is pending
  nb_signals, init_done,  \* received_nb_signals, transcode_init_done
  main,                   \* where the reading thread is
  size, nonblock,         \* its request, and whether it has already waited
  fast_retries, ret,      \* state and result of retry_transfer_wrapper
  received,               \* history: lengths of the datagrams received
  queued, taken,          \* history: datagrams stored, and how many removed
  delivered               \* history: what udp_read put in the caller's buffer

shared == <<fifo, circular_buffer_error, wait_for_signal>>
signals == <<usr1, nb_signals, init_done>>
request == <<size, nonblock, fast_retries>>
history == <<received, queued, taken, delivered>>
vars == <<input, rx, tmp, cancel, shared, signals, main, request, ret,
          history>>

overrun_nonfatal == input.overrun_nonfatal  \* drop what does not fit
Filtered == {FALSE, input.block}            \* a source may be blocked

(* The header is four bytes, whatever the length of the datagram. *)
Header(id, len) == [i \in 1..4 |-> [kind |-> "len", id |-> id, n |-> len]]
Payload(id, len) == [i \in 1..len |-> [kind |-> "data", id |-> id, n |-> i]]
Frame(id, len) == Header(id, len) \o Payload(id, len)

Junk == [kind |-> "junk", id |-> 0, n |-> 0]

NoData == [kind |-> "none", id |-> 0, len |-> 0, blocked |-> FALSE]
Datagram(id, len, blocked) ==
  [kind |-> "data", id |-> id, len |-> len, blocked |-> blocked]
RecvError(e) == [kind |-> e, id |-> 0, len |-> 0, blocked |-> FALSE]

(* udp_open has made the buffer and created the thread. *)
Init ==
  /\ input \in Inputs
  /\ rx = "start" /\ tmp = NoData /\ cancel = FALSE
  /\ fifo = av_fifo_alloc(circular_buffer_size, Junk)
  /\ circular_buffer_error = "none"
  /\ wait_for_signal = input.wait_for_signal
  /\ usr1 = FALSE /\ nb_signals = 0 /\ init_done = FALSE
  /\ main = "idle" /\ size = 1 /\ nonblock = FALSE
  /\ fast_retries = FastRetries /\ ret = "none"
  /\ received = <<>> /\ queued = <<>> /\ taken = 0 /\ delivered = <<>>

-----------------------------------------------------------------------------
(* circular_buffer_task_rx.                                                *)

(* goto end: the error is recorded and the thread returns. *)
GiveUp(e) ==
  /\ circular_buffer_error' = e
  /\ rx' = "end"
  /\ UNCHANGED <<fifo, queued>>

(* The socket is made blocking, or the thread ends before receiving. *)
RxStart ==
  /\ rx = "start"
  /\ \/ rx' = "recv" /\ UNCHANGED <<fifo, circular_buffer_error, queued>>
     \/ GiveUp("EIO")
  /\ UNCHANGED <<input, tmp, cancel, wait_for_signal, signals, main, request, ret,
                 received, taken, delivered>>

(* recvfrom, outside the mutex and with cancellation enabled. *)
RxRecv ==
  /\ rx = "recv" /\ ~cancel
  /\ rx' = "lock"
  /\ \/ /\ Len(received) < MaxRecv
        /\ \E len \in input.lens, blocked \in Filtered :
             /\ received' = Append(received, len)
             /\ tmp' = Datagram(Len(received) + 1, len, blocked)
     \/ /\ \E e \in {"EINTR", "ENETDOWN"} : tmp' = RecvError(e)
        /\ UNCHANGED received
  /\ UNCHANGED <<input, cancel, shared, signals, main, request, ret, queued, taken,
                 delivered>>

(* The thread was cancelled in recvfrom: it does not hold the mutex. *)
RxCancelled ==
  /\ rx = "recv" /\ cancel
  /\ rx' = "end"
  /\ UNCHANGED <<input, tmp, cancel, shared, signals, main, request, ret, history>>

Fits(len) == av_fifo_space(fifo) >= len + 4

(* Mutant: a datagram that does not fit is skipped whatever the option. *)
OverrunSkips ==
  /\ tmp.kind = "data" /\ ~tmp.blocked /\ ~Fits(tmp.len)
  /\ rx' = "recv"
  /\ UNCHANGED <<fifo, queued, circular_buffer_error>>

Overrun ==
  /\ tmp.kind = "data" /\ ~tmp.blocked /\ ~Fits(tmp.len)
  /\ \/ /\ overrun_nonfatal
        /\ rx' = "recv"
        /\ UNCHANGED <<fifo, queued, circular_buffer_error>>
     \/ /\ ~overrun_nonfatal
        /\ GiveUp("EIO")

Store ==
  /\ tmp.kind = "data" /\ ~tmp.blocked /\ Fits(tmp.len)
  /\ fifo' = av_fifo_generic_write(fifo, Frame(tmp.id, tmp.len))
  /\ queued' = Append(queued, tmp.id)
  /\ rx' = "recv"
  /\ UNCHANGED circular_buffer_error

Skip ==
  /\ tmp.kind = "EINTR" \/ tmp.blocked
  /\ rx' = "recv"
  /\ UNCHANGED <<fifo, queued, circular_buffer_error>>

SocketError ==
  /\ tmp.kind = "ENETDOWN"
  /\ GiveUp(tmp.kind)

(* From the lock after recvfrom to the unlock before the next one. *)
RxLock ==
  /\ rx = "lock"
  /\ SocketError \/ Skip \/ Overrun \/ Store
  /\ tmp' = NoData
  /\ UNCHANGED <<input, cancel, wait_for_signal, signals, main, request, ret, received,
                 taken, delivered>>

-----------------------------------------------------------------------------
(* retry_transfer_wrapper around udp_read.                                 *)

Errors == {"EIO", "ENETDOWN", "EXIT"}

(* The demuxer asks for data again unless the last read failed. *)
Read ==
  /\ main = "idle" /\ ret \notin Errors
  /\ size' \in Sizes
  /\ fast_retries' = FastRetries
  /\ nonblock' = FALSE
  /\ main' = "retry"
  /\ UNCHANGED <<input, rx, tmp, cancel, shared, signals, ret, history>>

(* decode_interrupt_cb: one signal is let through once ffmpeg is running. *)
Interrupted == nb_signals > IF init_done THEN 1 ELSE 0

(* Mutant: the callback is not consulted. *)
RetryForever ==
  /\ main = "retry"
  /\ main' = "udp_read"
  /\ UNCHANGED <<input, rx, tmp, cancel, shared, signals, request, ret, history>>

Retry ==
  /\ main = "retry"
  /\ IF Interrupted
     THEN main' = "idle" /\ ret' = "EXIT"
     ELSE main' = "udp_read" /\ UNCHANGED ret
  /\ nonblock' = FALSE
  /\ UNCHANGED <<input, rx, tmp, cancel, shared, signals, size, fast_retries, history>>

(* EAGAIN: with no rw_timeout the wrapper tries again for ever. *)
TryAgain ==
  /\ main' = "retry"
  /\ fast_retries' = IF fast_retries > 0 THEN fast_retries - 1 ELSE 0
  /\ UNCHANGED <<size, nonblock, ret>>

Return(r) ==
  /\ main' = "idle"
  /\ ret' = r
  /\ UNCHANGED <<size, nonblock, fast_retries>>

(* The bytes of a frame after the header, and how many the caller takes. *)
FrameLen == av_fifo_generic_peek(fifo, 4)[1].n
Avail == IF FrameLen > size THEN size ELSE FrameLen

(* The header and the part read are taken out, and then the rest. *)
AfterFrame == av_fifo_drain(av_fifo_drain(fifo, 4 + Avail), FrameLen - Avail)

(* wait_for_signal: what is in the buffer is kept, while it fits in half. *)
Hold ==
  /\ av_fifo_size(fifo) > 0 /\ wait_for_signal /\ ~usr1
  /\ av_fifo_size(fifo) <= av_fifo_space(fifo)
  /\ TryAgain
  /\ UNCHANGED <<shared, taken, delivered>>

Flush ==
  /\ av_fifo_size(fifo) > 0 /\ wait_for_signal /\ ~usr1
  /\ av_fifo_size(fifo) > av_fifo_space(fifo)
  /\ fifo' = AfterFrame
  /\ taken' = taken + 1
  /\ TryAgain
  /\ UNCHANGED <<wait_for_signal, circular_buffer_error, delivered>>

(* A datagram of no bytes gives 0, and the wrapper asks again. *)
Deliver ==
  /\ av_fifo_size(fifo) > 0 /\ (wait_for_signal => usr1)
  /\ wait_for_signal' = FALSE
  /\ delivered' = Append(delivered, av_fifo_generic_peek(fifo, 4 + Avail))
  /\ fifo' = AfterFrame
  /\ taken' = taken + 1
  /\ IF Avail = 0
     THEN /\ main' = "retry"
          /\ UNCHANGED <<size, nonblock, fast_retries, ret>>
     ELSE Return("data")
  /\ UNCHANGED circular_buffer_error

(* Mutant: the error is looked at before the buffer. *)
FailFirst ==
  /\ circular_buffer_error # "none"
  /\ Return(circular_buffer_error)
  /\ UNCHANGED <<shared, taken, delivered>>

FailRead ==
  /\ av_fifo_size(fifo) = 0 /\ circular_buffer_error # "none"
  /\ Return(circular_buffer_error)
  /\ UNCHANGED <<shared, taken, delivered>>

(* Nothing to read: wait once, 100 ms at most, and give up the second time. *)
Empty ==
  /\ av_fifo_size(fifo) = 0 /\ circular_buffer_error = "none"
  /\ IF nonblock
     THEN TryAgain
     ELSE main' = "timedwait" /\ UNCHANGED <<request, ret>>
  /\ UNCHANGED <<shared, taken, delivered>>

UdpRead ==
  /\ main = "udp_read"
  /\ Hold \/ Flush \/ Deliver \/ FailRead \/ Empty
  /\ UNCHANGED <<input, rx, tmp, cancel, signals, received, queued>>

(* pthread_cond_timedwait returns: signalled, timed out or spuriously.     *)
Wake ==
  /\ main = "timedwait"
  /\ nonblock' = TRUE
  /\ main' = "udp_read"
  /\ UNCHANGED <<input, rx, tmp, cancel, shared, signals, size, fast_retries, ret,
                 history>>

-----------------------------------------------------------------------------
(* The end of the input: udp_close.                                        *)

(* The input ended, or a signal stops the transcode loop between packets. *)
Close ==
  /\ main = "idle"
  /\ ret \in Errors \/ (init_done /\ nb_signals > 0)
  /\ cancel' = TRUE
  /\ main' = "join"
  /\ UNCHANGED <<input, rx, tmp, shared, signals, request, ret, history>>

(* Mutant: the buffer is freed without waiting for the thread. *)
FreeAtOnce ==
  /\ main = "join"
  /\ main' = "closed"
  /\ fifo' = av_fifo_drain(fifo, av_fifo_size(fifo))
  /\ taken' = Len(queued)
  /\ UNCHANGED <<input, rx, tmp, cancel, circular_buffer_error, wait_for_signal,
                 signals, request, ret, received, queued, delivered>>

(* pthread_join returns, and the buffer is freed with what it still holds. *)
Join ==
  /\ main = "join" /\ rx = "end"
  /\ main' = "closed"
  /\ fifo' = av_fifo_drain(fifo, av_fifo_size(fifo))
  /\ taken' = Len(queued)
  /\ UNCHANGED <<input, rx, tmp, cancel, circular_buffer_error, wait_for_signal,
                 signals, request, ret, received, queued, delivered>>

-----------------------------------------------------------------------------
(* Signals, and the end of ffmpeg's initialisation.                        *)

Usr1 ==
  /\ input.wait_for_signal /\ ~usr1
  /\ usr1' = TRUE
  /\ UNCHANGED <<nb_signals, init_done>>

Sigterm ==
  /\ nb_signals < MaxSignals
  /\ nb_signals' = nb_signals + 1
  /\ UNCHANGED <<usr1, init_done>>

InitDone ==
  /\ ~init_done /\ main = "idle" /\ ret = "data"
  /\ init_done' = TRUE
  /\ UNCHANGED <<usr1, nb_signals>>

Environment ==
  /\ Usr1 \/ Sigterm \/ InitDone
  /\ UNCHANGED <<input, rx, tmp, cancel, shared, main, request, ret, history>>

RxOwn == RxStart \/ RxCancelled \/ RxLock
MainOwn == Read \/ Retry \/ UdpRead \/ Wake \/ Close \/ Join

Next == RxOwn \/ RxRecv \/ MainOwn \/ Environment

(* Both threads keep running; nothing says that datagrams or signals come. *)
Spec == Init /\ [][Next]_vars /\ WF_vars(RxOwn) /\ WF_vars(MainOwn)

-----------------------------------------------------------------------------
(* Types; the buffer never holds more than circular_buffer_size bytes,     *)
(* headers included (the test of circular_buffer_task_rx before it writes, *)
(* made on a value that udp_read changes from the other thread).           *)
TypeOK ==
  /\ rx \in {"start", "recv", "lock", "end"}
  /\ tmp.kind \in {"none", "data", "EINTR", "ENETDOWN"}
  /\ cancel \in BOOLEAN /\ usr1 \in BOOLEAN /\ init_done \in BOOLEAN
  /\ wait_for_signal \in BOOLEAN /\ nonblock \in BOOLEAN
  /\ av_fifo_size(fifo) \in 0..circular_buffer_size
  /\ circular_buffer_error \in {"none", "EIO", "ENETDOWN"}
  /\ nb_signals \in 0..MaxSignals
  /\ main \in {"idle", "retry", "udp_read", "timedwait", "join", "closed"}
  /\ size \in Sizes \cup {1} /\ fast_retries \in 0..FastRetries
  /\ ret \in Errors \cup {"none", "data"}
  /\ received \in Seq(input.lens) /\ queued \in Seq(1..Len(received))
  /\ taken \in 0..Len(queued)

(* What the buffer must hold: the frames stored and not yet removed. *)
Contents ==
  LET waiting == Len(queued) - taken
      id(i) == queued[taken + i]
      f[i \in 0..waiting] ==
        IF i = 0 THEN <<>> ELSE f[i - 1] \o Frame(id(i), received[id(i)])
  IN  f[waiting]

(* The reader never takes payload for a header: between two critical       *)
(* sections the buffer is a whole number of frames, also after a datagram  *)
(* that was truncated or flushed (the two drains at the end of udp_read);  *)
(* and the buffer is never over its size (TypeOK).                         *)
Framing == TypeOK /\ av_fifo_generic_peek(fifo, av_fifo_size(fifo)) = Contents

Id(i) == delivered[i][1].id

(* What the demuxer is given: the beginning of each datagram, in the order *)
(* of arrival; and, when an overrun is fatal, as hlsXcoder asks, every     *)
(* datagram from the first one given on: the input has no silent gaps.     *)
NoGaps ==
  \A i \in 1..Len(delivered) :
    LET len == received[Id(i)] IN
    /\ \/ delivered[i] = Frame(Id(i), len)
       \/ \E s \in Sizes : /\ s < len
                            /\ delivered[i] = SubSeq(Frame(Id(i), len), 1, 4 + s)
    /\ i > 1 => Id(i) > Id(i - 1)
    /\ (~input.block /\ ~overrun_nonfatal) =>
         IF i = 1 THEN ~input.wait_for_signal => Id(i) = 1 ELSE Id(i) = Id(i - 1) + 1

(* Once udp_close has freed the buffer nothing touches it: the receiving   *)
(* thread was cancelled in recvfrom, or had ended, and was joined before.  *)
ClosedIsFinal == [][main = "closed" => UNCHANGED shared]_vars

(* An overrun or a socket error reaches the transcode loop, which closes   *)
(* the input: this is what overrun_nonfatal=0 is chosen for (entrada.go).  *)
ErrorEnds ==
  (circular_buffer_error # "none" /\ ~wait_for_signal) ~> (main = "closed")

(* A second signal ends the input even when nothing is received any more.  *)
InterruptEnds == (nb_signals > 1) ~> (main = "closed")

(* ReadEnds: no read is tried again for ever (retry_transfer_wrapper) once *)
(* the receiving thread has given up or the user has asked for the end.    *)
ReadEnds == ErrorEnds /\ InterruptEnds

(* The circular buffer implements the channel: nothing is delivered twice  *)
(* or out of order, and the error that ended the receiving thread is told  *)
(* only when everything stored before it has been delivered (udp_read).    *)
Queue == INSTANCE Channel WITH
  Msgs <- 1..MaxRecv,
  Errors <- {"EIO", "ENETDOWN"},
  put <- queued,
  taken <- taken,
  out <- [i \in 1..Len(delivered) |-> Id(i)],
  err <- {circular_buffer_error} \ {"none"},
  told <- {ret} \cap {"EIO", "ENETDOWN"}

ImplementsChannel == Queue!Spec
=============================================================================
