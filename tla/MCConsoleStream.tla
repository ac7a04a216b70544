-------------------------- MODULE MCConsoleStream --------------------------
EXTENDS ConsoleStream

\* A bell, an update, a clipboard text and another update, of 1, 4, 2 and
\* 3 bytes, after a handshake of three.
MCOffsets == <<4, 5, 9, 11, 14>>
MCKinds == <<"other", "update", "other", "update">>
=============================================================================
