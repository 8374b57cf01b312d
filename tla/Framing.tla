------------------------------- MODULE Framing -------------------------------
(***************************************************************************)
(* How listen() cuts the bytes of the connection into messages: first the  *)
(* HTTP responses of init(), one for each request, then WebSocket frames.  *)
(* A binary frame that is a Loxone header says what the next binary frame  *)
(* is.  read() returns what has arrived, so the bounds of messages and the *)
(* bounds of reads have nothing to do with each other.                     *)
(***************************************************************************)
EXTENDS Naturals, Sequences, FiniteSets, SequencesExt

CONSTANTS
  Tables,      \* identifiers of headers that are followed by a binary frame
  Signals,     \* identifiers of headers that are followed by nothing
  Handshake,   \* HTTP responses of one init()
  MaxRead,     \* the read buffer
  MaxMessages, \* bound: messages of one connection
  MaxConnections

\* Bytes of a message.  The first of an HTTP response is its "HTTP/", the
\* second ends its header.
Size == [http |-> 3, header |-> 2, table |-> 3, text |-> 2, close |-> 1]

Http == [type |-> "http", of |-> "http"]
Header(k) == [type |-> "header", of |-> k]
Table(k) == [type |-> "table", of |-> k]
Text == [type |-> "text", of |-> "text"]
Close == [type |-> "close", of |-> "close"]

BoundsAssumption ==
  /\ Handshake \in Nat /\ MaxRead \in Nat \ {0}
  /\ MaxMessages \in Nat /\ MaxConnections \in Nat

VARIABLES
  sent,        \* messages the Miniserver has sent on this connection
  unread,      \* their bytes that have not been read
  buffer,      \* what the last read returned
  processed,   \* the offset into it
  lpc,         \* listen(): at the read, or in the loop over the buffer
  http, websocket,  \* what the parsers have been fed
  identifier,  \* loxoneHeader->identifier
  stopped,     \* _stopped
  connections,
  out,         \* History: the messages processed on this connection,
  pieces       \* and those that more than one read returned

wireVars == <<sent, unread>>
parserVars == <<http, websocket, identifier>>
vars == <<sent, unread, buffer, processed, lpc, http, websocket, identifier,
          stopped, connections, out, pieces>>

-----------------------------------------------------------------------------
(* The parsers of the Homegear library *)

Whole(m) == [o \in 1..Size[sent[m].type] |-> [msg |-> m, at |-> o]]
TypeOf(byte) == sent[byte.msg].type

\* An HTTP response is complete with the last byte its header announces.
HttpComplete(fed) ==
  \E i \in DOMAIN fed :
    /\ TypeOf(fed[i]) = "http" /\ fed[i].at = 2
    /\ Len(fed) - i = Size.http - 2

\* Bytes that do not begin a frame announce one that does not end.
FrameComplete(fed) ==
  /\ fed # <<>> /\ TypeOf(fed[1]) # "http" /\ fed[1].at = 1
  /\ Len(fed) = Size[TypeOf(fed[1])]

\* A parser consumes bytes until it has a message: {how many they are}.
Consumed(fed, bytes, Complete(_)) ==
  LET ends == {n \in 0..Len(bytes) : Complete(fed \o SubSeq(bytes, 1, n))}
  IN  {n \in 0..Len(bytes) :
         /\ \A end \in ends : n <= end
         /\ n \in ends \cup {Len(bytes)}}

-----------------------------------------------------------------------------
(* The Miniserver *)

Answered == Cardinality({i \in DOMAIN out : out[i].as = "http" /\ out[i].msg # 0})
Sends(message) ==
  /\ Len(sent) < MaxMessages
  /\ sent' = Append(sent, message)
  /\ unread' = unread \o [o \in 1..Size[message.type] |-> [msg |-> Len(sent) + 1, at |-> o]]
  /\ UNCHANGED <<buffer, processed, lpc, parserVars, stopped, connections, out, pieces>>

\* init() sends a request when it has the response to the one before.
Respond ==
  /\ ~stopped /\ Len(sent) < Handshake /\ Answered = Len(sent)
  /\ Sends(Http)

\* A header is followed by what it announces.  It may be sent again, with the
\* exact length of what follows after an estimated one.
Send ==
  /\ ~stopped /\ Answered = Handshake
  /\ LET last == IF sent = <<>> THEN Http ELSE sent[Len(sent)] IN
       IF last.type = "header" /\ last.of \notin Signals
       THEN Sends(last) \/ Sends(IF last.of = "text" THEN Text ELSE Table(last.of))
       ELSE /\ last # Close
            /\ Sends(Close) \/ \E k \in Tables \cup Signals \cup {"text"} : Sends(Header(k))

-----------------------------------------------------------------------------
(* listen() *)

Read ==
  /\ lpc = "read" /\ ~stopped /\ unread # <<>>
  /\ \E n \in 1..MaxRead :
       /\ n <= Len(unread)
       /\ buffer' = SubSeq(unread, 1, n)
       /\ unread' = SubSeq(unread, n + 1, Len(unread))
       /\ pieces' = IF unread[n].at = Size[TypeOf(unread[n])] THEN pieces
                    ELSE pieces \cup {unread[n].msg}
  /\ processed' = 0 /\ lpc' = "loop"
  /\ UNCHANGED <<sent, parserVars, stopped, connections, out>>

Rest(n) == SubSeq(buffer, n + 1, Len(buffer))

\* while (processed < bytesRead)
Advance(n) ==
  /\ processed' = n
  /\ lpc' = IF n < Len(buffer) THEN "loop" ELSE "read"

\* The message is handed on; 0 stands for one that nobody sent.
Process(fed, as) ==
  out' = Append(out,
    [as |-> as,
     msg |-> IF \E m \in DOMAIN sent : fed = Whole(m) THEN fed[1].msg ELSE 0])

BeginsHttp ==
  /\ http = <<>> /\ websocket = <<>>
  /\ LET first == buffer[processed + 1]
     IN  TypeOf(first) = "http" /\ first.at = 1

\* A response that is complete is processed; one that is not is given the
\* rest of the buffer, and the offset is what the parser has consumed of it.
HttpStep(fed, n) ==
  IF HttpComplete(fed)
  THEN /\ Process(fed, "http") /\ http' = <<>> /\ Advance(n)
  ELSE \E more \in Consumed(fed, Rest(n), HttpComplete) :
         /\ http' = fed \o SubSeq(Rest(n), 1, more)
         /\ Advance(more) /\ UNCHANGED out

LoopHttp ==
  /\ lpc = "loop"
  /\ \/ /\ BeginsHttp
        /\ \E n \in Consumed(<<>>, Rest(processed), HttpComplete) :
             HttpStep(SubSeq(Rest(processed), 1, n), n)
     \/ http # <<>> /\ HttpStep(http, processed)
  /\ UNCHANGED <<wireVars, buffer, websocket, identifier, stopped, connections, pieces>>

(* Mutant of Identify: only the first header is taken. *)
IdentifyOnce(frame) ==
  identifier' = IF frame.type = "header" /\ identifier \in Signals
                THEN frame.of ELSE identifier

\* A frame of eight bytes, the first of them 3, is a header.
Identify(frame) ==
  identifier' = IF frame.type = "header" THEN frame.of ELSE identifier

\* What a binary frame is taken for depends on the last header.  A close
\* frame leaves the parser as it is and ends the connection.
FrameEnds(fed) ==
  LET frame == sent[fed[1].msg] IN
    /\ Identify(frame)
    /\ Process(fed, IF frame.type = "table" THEN identifier ELSE frame.type)
    /\ websocket' = IF frame.type = "close" THEN fed ELSE <<>>
    /\ stopped' = (stopped \/ frame.type = "close")

(* Mutant of LoopWebsocket: the offset is what the parser has consumed. *)
LoopWebsocketAssigned ==
  /\ lpc = "loop" /\ http = <<>> /\ ~BeginsHttp
  /\ \E n \in Consumed(websocket, Rest(processed), FrameComplete) :
     LET fed == websocket \o SubSeq(Rest(processed), 1, n) IN
       /\ Advance(n)
       /\ IF FrameComplete(fed) THEN FrameEnds(fed)
          ELSE websocket' = fed /\ UNCHANGED <<identifier, out, stopped>>
  /\ UNCHANGED <<wireVars, buffer, http, connections, pieces>>

(* Mutant of LoopWebsocket: only a frame that is complete is consumed. *)
LoopWebsocketWhole ==
  /\ lpc = "loop" /\ http = <<>> /\ ~BeginsHttp
  /\ \E n \in Consumed(websocket, Rest(processed), FrameComplete) :
     LET fed == websocket \o SubSeq(Rest(processed), 1, n) IN
       IF FrameComplete(fed) THEN Advance(processed + n) /\ FrameEnds(fed)
       ELSE UNCHANGED <<processed, lpc, websocket, identifier, out, stopped>>
  /\ UNCHANGED <<wireVars, buffer, http, connections, pieces>>

LoopWebsocket ==
  /\ lpc = "loop" /\ http = <<>> /\ ~BeginsHttp
  /\ \E n \in Consumed(websocket, Rest(processed), FrameComplete) :
     LET fed == websocket \o SubSeq(Rest(processed), 1, n) IN
       /\ Advance(processed + n)
       /\ IF FrameComplete(fed) THEN FrameEnds(fed)
          ELSE websocket' = fed /\ UNCHANGED <<identifier, out, stopped>>
  /\ UNCHANGED <<wireVars, buffer, http, connections, pieces>>

\* The connection is lost, or given up by whoever waits for an answer.
Fail ==
  /\ ~stopped /\ stopped' = TRUE
  /\ UNCHANGED <<wireVars, buffer, processed, lpc, parserVars, connections, out, pieces>>

(* Mutant of Reconnect: the parsers keep what they have been fed. *)
ReconnectUnreset ==
  /\ lpc = "read" /\ stopped /\ connections < MaxConnections
  /\ connections' = connections + 1 /\ stopped' = FALSE
  /\ sent' = <<>> /\ unread' = <<>> /\ out' = <<>> /\ pieces' = {}
  /\ buffer' = <<>> /\ processed' = 0
  /\ UNCHANGED <<lpc, http, websocket, identifier>>

\* The parsers are reset, the header is not.
Reconnect ==
  /\ lpc = "read" /\ stopped /\ connections < MaxConnections
  /\ connections' = connections + 1 /\ stopped' = FALSE
  /\ sent' = <<>> /\ unread' = <<>> /\ out' = <<>> /\ pieces' = {}
  /\ buffer' = <<>> /\ processed' = 0
  /\ http' = <<>> /\ websocket' = <<>>
  /\ UNCHANGED <<lpc, identifier>>

-----------------------------------------------------------------------------
Init ==
  /\ sent = <<>> /\ unread = <<>> /\ buffer = <<>> /\ processed = 0
  /\ lpc = "read" /\ http = <<>> /\ websocket = <<>>
  /\ identifier \in Signals  \* Out_Of_Service_Indicator
  /\ stopped = FALSE /\ connections = 1 /\ out = <<>> /\ pieces = {}

\* The listen thread.
Listen == Read \/ LoopHttp \/ LoopWebsocket
Next == Respond \/ Send \/ Listen \/ Fail \/ Reconnect

Spec == Init /\ [][Next]_vars /\ WF_vars(Listen)

-----------------------------------------------------------------------------
(* Properties *)

TypeOK ==
  /\ lpc \in {"read", "loop"} /\ processed \in 0..MaxRead
  /\ (lpc = "loop" => processed < Len(buffer))
  /\ Len(buffer) <= MaxRead /\ identifier \in Tables \cup Signals \cup {"text"}
  /\ stopped \in BOOLEAN /\ pieces \subseteq DOMAIN sent
  /\ \A i \in DOMAIN out : out[i].msg \in 0..Len(sent)

\* A response that arrives in pieces confuses listen() (line 607): the
\* offset goes back to 0 and the same bytes are fed again.
Confused == \E m \in pieces : sent[m] = Http

\* Whatever the reads return, the messages are processed whole, once and in
\* their order, and nothing else is.
OneByOne == ~Confused => \A i \in DOMAIN out : out[i].msg = i

\* A table is taken for what its own header says it is, whatever the last
\* header of the connection before was (line 532).
TablesMatch ==
  \A i \in DOMAIN out :
    out[i].msg # 0 /\ sent[out[i].msg].type = "table" =>
      out[i].as = sent[out[i].msg].of

\* A message that has been read is processed before the next read: init(),
\* whose request it answers, will not cause the Miniserver to send more.
NothingWithheld ==
  lpc = "read" /\ ~stopped /\ unread = <<>> /\ ~Confused => Len(out) = Len(sent)

\* The loop over the buffer ends, although its offset may go back.
LoopEnds == lpc = "loop" ~> lpc = "read"
=============================================================================
