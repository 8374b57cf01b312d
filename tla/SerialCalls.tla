----------------------------- MODULE SerialCalls -----------------------------
(***************************************************************************)
(* What Miniserver::getResponse promises to its callers, without threads   *)
(* of the listener, request objects, condition variables or time-outs.     *)
(*                                                                         *)
(* Callers ask for the answer to a command.  At most one exchange is open  *)
(* at a time; a call ends either without an answer or with an answer to    *)
(* the very command it asked for, and no answer exists for a command that  *)
(* was never put on the wire.                                              *)
(***************************************************************************)
CONSTANTS Threads,   (* the callers                                        *)
          Commands,  (* the keys of _responses                             *)
          None       (* no thread, no command, no answer                   *)

VARIABLES asked,     (* the command each caller waits for, or None         *)
          open,      (* the caller whose exchange is open, or None         *)
          sent,      (* the commands that were put on the wire             *)
          result     (* the command whose answer each caller has, or None  *)

vars == <<asked, open, sent, result>>

Init ==
  /\ asked = [t \in Threads |-> None]
  /\ open = None
  /\ sent = {}
  /\ result = [t \in Threads |-> None]

(* A caller asks; it has to queue for the exchange. *)
Ask(t, c) ==
  /\ asked[t] = None
  /\ asked' = [asked EXCEPT ![t] = c]
  /\ result' = [result EXCEPT ![t] = None]
  /\ UNCHANGED <<open, sent>>

(* A call on a stopped connection is refused at once. *)
Refuse(t) ==
  /\ asked[t] = None
  /\ result' = [result EXCEPT ![t] = None]
  /\ UNCHANGED <<asked, open, sent>>

OpenExchange(t) ==
  /\ asked[t] # None
  /\ open = None
  /\ open' = t
  /\ UNCHANGED <<asked, sent, result>>

Put(t) ==
  /\ open = t
  /\ sent' = sent \cup {asked[t]}
  /\ UNCHANGED <<asked, open, result>>

(* An answer to the asked command, which was sent before. *)
Answer(t) ==
  /\ open = t
  /\ asked[t] \in sent
  /\ result' = [result EXCEPT ![t] = asked[t]]
  /\ UNCHANGED <<asked, open, sent>>

(* The exchange ends, with the answer or without one. *)
Close(t) ==
  /\ open = t
  /\ open' = None
  /\ asked' = [asked EXCEPT ![t] = None]
  /\ UNCHANGED <<sent, result>>

Next ==
  \E t \in Threads :
    \/ \E c \in Commands : Ask(t, c)
    \/ Refuse(t)
    \/ OpenExchange(t)
    \/ Put(t)
    \/ Answer(t)
    \/ Close(t)

Spec == Init /\ [][Next]_vars
=============================================================================
