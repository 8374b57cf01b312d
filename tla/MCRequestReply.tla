--------------------------- MODULE MCRequestReply ---------------------------
(* A small instance of RequestReply: two callers, a command that both use   *)
(* and the close command.  MaxCalls bounds the requests ever registered.    *)
EXTENDS RequestReply, TLC

CONSTANTS t1, t2, command, close

MCThreads == {t1, t2}
MCCommands == {command, close}

(* One caller, one command: enough for how long a call waits.               *)
OneThread == {t1}
OneCommand == {command}

ThreadSymmetry == Permutations(MCThreads)
=============================================================================
