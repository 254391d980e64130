------------------------------ MODULE WireInv ------------------------------
(***************************************************************************)
(* What InStep and NothingHeldBack of Wire and WireJs rest on: the bytes   *)
(* that are not read are exactly those of the messages that are not read,  *)
(* and each of those is one that its reader understands.                   *)
(***************************************************************************)
EXTENDS WireJs

\* Premises.  A name is not empty, and the strings of JavaScript are such that their
\* sizes are right: these say for which calls the code keeps its promise.
NamesNotEmpty == <<>> \notin Names
StringsPlain ==
  /\ "js-go" \in Pairs => \A p \in Payloads : Plain(p)
  /\ "text-go" \in Pairs => /\ \A op \in Names : Plain(op)
                            /\ \A p \in Payloads \cap TextPayloads :
                                 \A i \in DOMAIN p : p[i] < TwoBytes
NumbersSigned ==
  "go-js" \in Pairs => /\ \A n \in Waits \cup Codes \cup Times : n < Half
                       /\ \A p \in Payloads : Len(p) < Half

\* A header that MakeMsg may be given, and a message with it.
Sound(h) ==
  /\ h \in Headers /\ h.t # "?"
  /\ h.id = IF h.t \in NoId THEN <<>> ELSE Id
  /\ Len(h.name) < Power(3) /\ (h.name = <<>> <=> h.t \notin Named)
  /\ h.wait \in 0 .. (CASE h.t = "e" -> Power(8) [] h.t = "h" -> Power(4) [] OTHER -> 1) - 1
  /\ h.size \in 0 .. Power(8) - 1
SoundMsg(m) ==
  /\ m \in Messages /\ Sound(m.h)
  /\ Len(m.payload) = IF m.h.t \in NoPayload THEN 0 ELSE m.h.size

\* The first k pieces put together, for each k.
Joined(pieces) ==
  LET all[k \in 0 .. Len(pieces)] == IF k = 0 THEN <<>> ELSE all[k - 1] \o pieces[k]
  IN all

\* A message in the stream, and in frames; the first k of several.
BytesOf(m) == MakeMsg(m.h) \o m.payload
FramesOf(m) == <<MakeMsg(m.h)>> \o (IF m.payload = <<>> THEN <<>> ELSE <<m.payload>>)
AllBytes(ms) == Joined([i \in 1 .. Len(ms) |-> BytesOf(ms[i])])
AllFrames(ms) == Joined([i \in 1 .. Len(ms) |-> FramesOf(ms[i])])

\* b and f are what is left of messages when k of them are taken away.
BytesLeft(ms, k, b) == AllBytes(ms)[Len(ms)] = AllBytes(ms)[k] \o b
FramesLeft(ms, k, f) == AllFrames(ms)[Len(ms)] = AllFrames(ms)[k] \o f

-----------------------------------------------------------------------------
SentSound ==
  \A i \in 1 .. Len(sent) :
    /\ SoundMsg(sent[i])
    /\ pair = "go-js" => sent[i].h.wait < Half /\ sent[i].h.size < Half

\* The header that was read is that of the next message.
HeaderInStep ==
  rpc = "payload" => Len(received) < Len(sent) /\ rmsg = sent[Len(received) + 1].h

\* What is not read is what is left of the messages.  A protocol error may have been
\* read with some of what follows.
StreamInStep ==
  pair # "go-js" =>
    /\ rpc = "header" => BytesLeft(sent, Len(received), stream)
    /\ rpc = "payload" /\ rmsg.t # "f" =>
         BytesLeft(sent, Len(received), MakeMsg(rmsg) \o stream)
FramesInStep ==
  pair = "go-js" =>
    /\ rpc = "header" => FramesLeft(sent, Len(received), frames)
    /\ rpc = "payload" => /\ FramesLeft(sent, Len(received), <<MakeMsg(rmsg)>> \o frames)
                          /\ rmsg.t # "f" /\ HasPayload(rmsg)

\* A reader that has stopped.
Stopped ==
  /\ rpc = "failed" => eof /\ received = sent
  /\ rpc = "done" => /\ received # <<>>
                     /\ LET t == received[Len(received)].h.t
                        IN t = "f" \/ (pair = "go-js" /\ t \notin JsHandled)

WireInvariant ==
  /\ GoTypeOK /\ pair \in Pairs /\ frames \in Seq(Seq(Nat))
  /\ InStep /\ SentSound /\ HeaderInStep /\ StreamInStep /\ FramesInStep /\ Stopped
=============================================================================
