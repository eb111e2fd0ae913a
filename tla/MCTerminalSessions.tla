------------------------- MODULE MCTerminalSessions -------------------------
(* Small instances of TerminalSessions for TLC. *)
EXTENDS TerminalSessions, TLC

CONSTANTS u1, t1, t2

Sockets == Permutations(Socket)

\* One user on every socket.
OneUser == [s \in Socket |-> u1]
=============================================================================
