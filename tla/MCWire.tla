---- MODULE MCWire ----
(* Wire on small instances: bytes of two bits. *)
EXTENDS Wire
CONSTANTS w1, w2, w3, r1, r2

MCXor(a, b) == 2 * ((a \div 2 + b \div 2) % 2) + ((a + b) % 2)
MCPayload == {<<>>, <<3, 0, 2>>}
MCKey == {<<1, 3>>}
====
