------------------------------- MODULE MCUdp -------------------------------
(* Values on which Udp is model-checked. *)
EXTENDS Udp

Input(nonfatal, wait, block, lens) ==
  [overrun_nonfatal |-> nonfatal, wait_for_signal |-> wait, block |-> block,
   lens |-> lens]

(* What hlsXcoder asks for (an overrun is fatal); the same, held until     *)
(* SIGUSR1; and the other two options of the code together.                *)
MCInputs ==
  {Input(FALSE, FALSE, FALSE, {0, 1, 3}),
   Input(FALSE, TRUE, FALSE, {0, 3}),
   Input(TRUE, FALSE, TRUE, {3})}
=============================================================================
