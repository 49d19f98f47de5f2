--------------------------- MODULE MC_DataPacker ---------------------------
(* A small instance of DataPacker for TLC: a user that resets the packer on *)
(* every new connection.                                                    *)
EXTENDS DataPacker

OnConnect == {"connect"}
=============================================================================
