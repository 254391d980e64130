------------------------------- MODULE WireJs -------------------------------
(***************************************************************************)
(* Wire with JavaScript at one end of the connection: protocol.js writes   *)
(* what ReadMsg reads, or reads what MakeMsg writes.  A browser sees frames *)
(* rather than a stream: a header is one and a payload another, and the    *)
(* sizes in a header only tell whether a payload follows.                  *)
(***************************************************************************)
EXTENDS Wire

CONSTANTS
  Pairs,         \* who writes and who reads; "text" is JavaScript's text protocol
  TextPayloads   \* those of Payloads that are sent in the text protocol

VARIABLES
  pair,          \* the one that is connected
  frames         \* frames written and not read, where JavaScript reads

jsVars == <<goVars, pair, frames>>

-----------------------------------------------------------------------------
(* protocol.js.                                                             *)

\* parseHexInt of digits: 32 bits with a sign.
Half == Power(8) \div 2
ParseHexInt(b) == LET n == Value(b) IN IF n >= Half THEN n - Power(8) ELSE n

\* subarray: what there is of n bytes at z.
Subarray(b, z, n) == SubSeq(b, z + 1, IF z + n < Len(b) THEN z + n ELSE Len(b))

\* Strings: names, and payloads where they are not buffers.  A character is a byte, or
\* two of them from TwoBytes on; from Astral on it is two units of UTF-16 and four bytes.
Nul      == 199
TwoBytes == 200
Astral   == 300
Bytes(c) == CASE c >= Astral -> 4 [] c >= TwoBytes -> 2 [] OTHER -> 1
Utf8(c)  == [j \in 1 .. Bytes(c) |-> c]
Encode(str) ==
  LET out[i \in 0 .. Len(str)] == IF i = 0 THEN <<>> ELSE out[i - 1] \o Utf8(str[i])
  IN out[Len(str)]

Total(ns) ==
  LET sum[i \in 0 .. Len(ns)] == IF i = 0 THEN 0 ELSE sum[i - 1] + ns[i] IN sum[Len(ns)]
Length(str) == Total([i \in 1 .. Len(str) |-> IF str[i] >= Astral THEN 2 ELSE 1])

\* sizeOf counts three bytes for each unit of a pair, and ends where a unit is zero.
SizeOf(str) ==
  LET nul == SelectInSeq(str, LAMBDA c : c = Nul)
      counted == IF nul = 0 THEN Len(str) ELSE nul - 1
  IN Total([i \in 1 .. counted |-> IF str[i] >= Astral THEN 6 ELSE Bytes(str[i])])

\* What sizeOf counts right: no zero, and no character of four bytes.
Plain(str) == \A i \in DOMAIN str : str[i] # Nul /\ str[i] < Astral

\* Encoded names and payloads have sizes that fit, too.
ASSUME WireJsAssumption ==
  /\ Pairs \subseteq {"go-go", "js-go", "text-go", "go-js"}
  /\ \A op \in Names : Len(Encode(op)) < Power(3)
  /\ \A p \in Payloads : Len(Encode(p)) < Power(8)

\* What a reader should make of a call with strings.
Meant(c) ==
  [h |-> [c.h EXCEPT !.name = Encode(c.h.name),
                     !.size = IF c.h.t \in NoPayload THEN @ ELSE Len(Encode(c.payload))],
   payload |-> Encode(c.payload)]

JsWait(h) ==
  CASE h.t = "e" -> Fixnum(h.wait, 8) [] h.t = "h" -> Fixnum(h.wait, 4) [] OTHER -> <<>>

\* makeMsg and makeHeartbeatMsg.  What a buffer has no room for is not written:
\* RetryRes, which JavaScript never sends, would lose its last field.
JsMakeMsg(h) ==
  LET nameb == Encode(h.name)
      name == IF nameb = <<>> THEN <<>> ELSE Fixnum(Len(nameb), 3) \o nameb
      room == 9 + Len(h.id) + Len(name) + (IF h.t = "h" THEN 4 ELSE 0)
  IN SubSeq(<<Letter[h.t]>> \o h.id \o name
            \o JsWait(h) \o Fixnum(h.size, 8), 1, room)

\* The same in the text protocol.
TextMakeMsg(h) ==
  <<Letter[h.t]>> \o h.id
  \o (IF h.name = <<>> THEN <<>> ELSE Fixnum(SizeOf(h.name), 3) \o Encode(h.name))
  \o JsWait(h) \o Fixnum(h.size, 8)

\* parseMsg.  It takes an empty name from the payload's size, and the size from
\* what is left of it.
ParseMsg(b) ==
  LET t     == KindOf(b[1])
      id    == IF t \in NoId THEN <<>> ELSE Subarray(b, 1, 4)
      z     == 1 + Len(id)
      namez == IF t \in Named THEN ParseHexInt(Subarray(b, z, 3)) ELSE 0
      waitz == CASE t = "h" -> 4 [] t = "e" -> 8 [] OTHER -> 0
      end   == z + waitz + (IF t \in Named THEN 3 + namez ELSE 0)
  IN [t |-> t, id |-> id,
      name |-> Subarray(b, z + 3, namez),
      wait |-> ParseHexInt(Subarray(b, z, waitz)),
      size |-> ParseHexInt(Subarray(b, end, 8))]

-----------------------------------------------------------------------------
JsInit == GoInit /\ pair \in Pairs /\ frames = <<>>

\* sendMsg, sendHeartbeat and closeError, which closes.  Only streams' parts,
\* requests, results, errors, notifications and heartbeats are sent.  A result in the
\* text protocol answers a request that came as text, and Go sends none.
JsSent == {"r", "s", "p", "R", "E", "n", "h", "f"}
SentBy(p) == IF p = "js-go" THEN JsSent ELSE JsSent \ {"R", "E"}
JsHeader(c, size) == [c.h EXCEPT !.size = IF c.h.t \in NoPayload THEN @ ELSE size]

\* What sendMsg writes; a payload of no size is left out.
JsMsg(c) ==
  LET size == IF pair = "js-go" THEN SizeOf(c.payload) ELSE Length(c.payload)
      h    == JsHeader(c, size)
  IN (IF pair = "js-go" THEN JsMakeMsg(h) ELSE TextMakeMsg(h))
     \o (IF size = 0 THEN <<>> ELSE Encode(c.payload))

JsWrite ==
  /\ ~eof /\ Len(sent) < MaxMsgs
  /\ \E c \in Calls :
       /\ c.h.t \in SentBy(pair)
       /\ pair = "text-go" => c.payload \in TextPayloads
       /\ stream' = stream \o JsMsg(c)
       /\ sent' = Append(sent, Meant(c))
       /\ eof' = (c.h.t = "f")
  /\ UNCHANGED <<rpc, rmsg, received, pair, frames>>

\* writeMsg on a WebSocketConnection: each conn.Write is a frame.
WriteFrames ==
  /\ ~eof /\ Len(sent) < MaxMsgs
  /\ \E c \in Calls :
       /\ frames' = frames \o <<MakeMsg(c.h)>>
                    \o (IF c.payload = <<>> THEN <<>> ELSE <<c.payload>>)
       /\ sent' = Append(sent, c)
  /\ UNCHANGED <<stream, eof, rpc, rmsg, received, pair>>

\* What msgHandlers has a handler for.  handleMsg closes on anything else.
JsHandled == {"r", "R", "S", "E", "n", "h"}
HandleMsg(msg) ==
  /\ received' = Append(received, msg)
  /\ rpc' = IF msg.h.t \in JsHandled THEN "header" ELSE "done"

HasPayload(h) == h.size # 0 /\ h.t # "h"

\* readMsg: a frame that is a header.
JsReadMsg ==
  /\ rpc = "header" /\ frames # <<>>
  /\ frames' = Tail(frames)
  /\ LET h == ParseMsg(Head(frames)) IN
       /\ rmsg' = h
       /\ IF h.t # "f" /\ HasPayload(h)
          THEN rpc' = "payload" /\ UNCHANGED received
          ELSE HandleMsg([h |-> h, payload |-> <<>>])
  /\ UNCHANGED <<stream, eof, sent, pair>>

\* readMsgPayload: the next frame, whatever its length.
JsReadPayload ==
  /\ rpc = "payload" /\ frames # <<>>
  /\ frames' = Tail(frames)
  /\ HandleMsg([h |-> rmsg, payload |-> Head(frames)])
  /\ UNCHANGED <<stream, eof, sent, rmsg, pair>>

\* The browser's "close" event, after the last frame.
JsClosed ==
  /\ eof /\ frames = <<>> /\ rpc \in {"header", "payload"}
  /\ rpc' = "failed"
  /\ UNCHANGED <<stream, eof, sent, rmsg, received, pair, frames>>

JsNext ==
  \/ pair = "go-go" /\ GoNext /\ UNCHANGED <<pair, frames>>
  \/ pair \in {"js-go", "text-go"} /\ JsWrite
  \/ pair \in {"js-go", "text-go"}
                    /\ (CloseConn \/ ReadHeader \/ ReadPayload \/ Quiet)
                    /\ UNCHANGED <<pair, frames>>
  \/ pair = "go-js" /\ (WriteFrames \/ JsReadMsg \/ JsReadPayload \/ JsClosed)
  \/ pair = "go-js" /\ (CloseConn \/ Quiet) /\ UNCHANGED <<pair, frames>>

JsSpec == JsInit /\ [][JsNext]_jsVars

-----------------------------------------------------------------------------
\* What was written reaches the reader without anything after it.  Go asks for
\* no byte beyond the last message, except after a protocol error, the shortest
\* message, which may have to wait for the close that follows it; JavaScript takes
\* no payload for a header and no header for a payload, and gives up early only on
\* a type that it has no handler for.
NothingHeldBack ==
  /\ pair # "go-js" /\ Waiting => received = sent \/ (HasFault(sent) /\ ~eof)
  /\ pair = "go-js" /\ rpc # "done" /\ frames = <<>> => received = sent
  /\ rpc = "failed" => received = sent
  /\ rpc = "done" => \/ HasFault(received)
                     \/ pair = "go-js" /\ received[Len(received)].h.t \notin JsHandled
=============================================================================
