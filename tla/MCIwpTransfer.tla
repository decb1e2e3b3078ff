--------------------------- MODULE MCIwpTransfer ---------------------------
EXTENDS IwpTransfer
=============================================================================
