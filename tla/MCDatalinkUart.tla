--------------------------- MODULE MCDatalinkUart ---------------------------
EXTENDS DatalinkUart
\* A payload that must be escaped.
EscapedPayload == {<<"END">>}
=============================================================================
