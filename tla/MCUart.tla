------------------------------- MODULE MCUart -------------------------------
(* Values for model checking UartFraming: PDUs of one, two and three bytes, *)
(* some of which read as a length are longer than anything sent.            *)
EXTENDS UartFraming

MCPdus == {<<1>>, <<0, 2>>, <<2, 1, 0>>}
===============================================================================
