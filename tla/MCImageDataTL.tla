--------------------------- MODULE MCImageDataTL ---------------------------
(* TLC instances of ImageDataTL.                                           *)
EXTENDS ImageDataTL

CONSTANTS c1, c2, c3

ThreeClients == {c1, c2, c3}

(* The client's acknowledgement begins with (5).to_bytes(4, 'little') and  *)
(* 0xDEADBEEF (PiVisClient.py:96-99); this one is shorter and keeps what   *)
(* matters of it, a non-zero first byte and a zero byte.                   *)
ShortHeader == <<1, 0>>
=============================================================================
