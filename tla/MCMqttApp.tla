----------------------------- MODULE MCMqttApp -----------------------------
(* Two clients' worth of callbacks, two texts, and an allocator that takes   *)
(* the first free block, so that what is freed is handed out again at once.  *)
EXTENDS MqttApp, TLC

First(free) == CHOOSE b \in free : \A d \in free : b <= d

MCCallbackSets ==
  {[connectedCb |-> n, disconnectedCb |-> n + 1, publishedCb |-> n + 2, dataCb |-> n + 3]
     : n \in {10, 20}}

MCSymmetry == Permutations(Texts)
=============================================================================
