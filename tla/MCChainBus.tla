----------------------------- MODULE MCChainBus -----------------------------
EXTENDS ChainBus

(* One key device: its state is asked for, its presses are events.         *)
MCRequests == {<<1, "state">>}
MCEvents   == {<<1, "press">>}
=============================================================================
