--------------------------- MODULE MCChainDecoder ---------------------------
EXTENDS ChainDecoder

(* A key's press, an answer whose payload looks like a header, one without *)
(* payload, and a heartbeat.                                               *)
MCFrames == {
  [device_id |-> 1, cmd |-> 224, payload |-> <<0>>],
  [device_id |-> 2, cmd |-> 80, payload |-> <<170, 85>>],
  [device_id |-> 1, cmd |-> 32, payload |-> <<>>],
  [device_id |-> 253, cmd |-> 253, payload |-> <<>>]}

MCNoise == {0, 2, 4, 85, 170}
=============================================================================
