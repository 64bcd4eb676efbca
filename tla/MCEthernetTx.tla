--------------------------- MODULE MCEthernetTx ---------------------------
(* Payload vectors of up to four bytes over two byte values, regions of *)
(* zero to three bytes, up to three frames.                             *)
EXTENDS EthernetTx
MCBytes == {0, 1}
MCSizes == 0 .. 3
=============================================================================
