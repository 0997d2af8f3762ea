----------------------------- MODULE MCNetLink -----------------------------
(* Core 0 sends data, a header and the bytes of tcp_write; core 1 sends     *)
(* acknowledgements, shorter than the minimum.  A frame comes in that is    *)
(* longer than pack2, then one that fits.                                   *)
EXTENDS NetLink, TLC

Pbuf(len, tot_len) == [len |-> len, tot_len |-> tot_len]
DataAndAcks == (0 :> {<<Pbuf(1, 3), Pbuf(2, 2)>>}) @@ (1 :> {<<Pbuf(1, 1)>>})
LongAndShort == <<{2}, {1}>>
=============================================================================
