-------------------------------- MODULE MCSqlTx --------------------------------
(* Small instances of SqlTx: more callers than connections. *)
EXTENDS SqlTx
CONSTANT c1
=============================================================================
