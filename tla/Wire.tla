-------------------------------- MODULE Wire --------------------------------
(***************************************************************************)
(* The framing of gotalk messages (src/protocol.go): one side turns        *)
(* messages into bytes, the other reads them off a byte stream with no     *)
(* boundaries in it.  A number is written in a fixed count of digits, and  *)
(* how much to read next depends on what was read.                         *)
(*                                                                         *)
(* A byte is a number: below Base a digit, or the Letter of a message      *)
(* type.  Bytes of ids, names and payloads may be any of these, and more.  *)
(***************************************************************************)
EXTENDS Integers, SequencesExt

CONSTANTS
  Base,          \* digits per place; 16 in the code
  Names,         \* operations and notification names that are sent
  Payloads,      \* payloads that are sent
  Id,            \* the four bytes of a request id
  Waits, Codes,  \* waits of RetryRes; ProtocolError codes
  Loads, Times,  \* in heartbeats
  Kinds,         \* types of the messages that are sent
  MaxMsgs        \* bound: messages written

\* How many numbers there are of w digits.
Power(w) ==
  LET p[k \in 0 .. w] == IF k = 0 THEN 1 ELSE Base * p[k - 1]
  IN p[w]

\* Sizes of names have three digits, loads four (a uint16), the other numbers
\* eight (a uint32).
ASSUME WireAssumption ==
  /\ Base \in Nat \ {0, 1} /\ MaxMsgs \in Nat
  /\ Id \in Seq(Nat) /\ Len(Id) = 4
  /\ \A op \in Names : op \in Seq(Nat) /\ Len(op) < Power(3)
  /\ \A p \in Payloads : p \in Seq(Nat) /\ Len(p) < Power(8)
  /\ Loads \subseteq 0 .. Power(4) - 1
  /\ Waits \cup Codes \cup Times \subseteq 0 .. Power(8) - 1

VARIABLES
  stream,        \* bytes written and not read
  eof,           \* TRUE once the writer has closed its end
  sent,          \* messages written so far
  rpc, rmsg,     \* reader: where it is, the header it has read
  received       \* messages read so far

goVars == <<stream, eof, sent, rpc, rmsg, received>>

-----------------------------------------------------------------------------
(* Messages as values and as bytes.                                         *)

Letter == [r |-> 114, s |-> 115, p |-> 112, R |-> 82, S |-> 83, E |-> 69, e |-> 101,
           n |-> 110, h |-> 104, f |-> 102]
AllKinds == {"r", "s", "p", "R", "S", "E", "e", "n", "h", "f"}
KindOf(b) == IF \E t \in AllKinds : Letter[t] = b
             THEN CHOOSE t \in AllKinds : Letter[t] = b ELSE "?"

Named    == {"r", "s", "n"}
NoId     == {"n", "h", "f"}
NoPayload == {"h", "f"}

\* A header: size is the payload's length, a heartbeat's time, or an error's code;
\* wait is a heartbeat's load too.
Header(t, name, wait, size) ==
  [t |-> t, id |-> IF t \in NoId THEN <<>> ELSE Id, name |-> name, wait |-> wait, size |-> size]

\* What the callers of MakeMsg, writeMsg and MakeHeartbeatMsg pass.
Calls ==
  {[h |-> Header(t, op, 0, Len(p)), payload |-> p] :
     t \in Kinds \cap Named, op \in Names, p \in Payloads}
  \cup {[h |-> Header(t, <<>>, 0, Len(p)), payload |-> p] :
     t \in Kinds \cap {"p", "R", "S", "E"}, p \in Payloads}
  \cup {[h |-> Header("e", <<>>, w, Len(p)), payload |-> p] :
     w \in IF "e" \in Kinds THEN Waits ELSE {}, p \in Payloads}
  \cup {[h |-> Header("h", <<>>, w, time), payload |-> <<>>] :
     w \in IF "h" \in Kinds THEN Loads ELSE {}, time \in Times}
  \cup {[h |-> Header("f", <<>>, 0, c), payload |-> <<>>] :
     c \in IF "f" \in Kinds THEN Codes ELSE {}}

\* copyFixnum: n in w digits, for n that fits them.  AppendUint takes the last digit
\* first; what is left when k digits are taken is rest[k].
Fixnum(n, w) ==
  LET rest[k \in 0 .. w] == IF k = 0 THEN n ELSE rest[k - 1] \div Base
  IN [i \in 1 .. w |-> rest[w - i] % Base]

\* The number that digits stand for.
Value(b) ==
  LET value[i \in 0 .. Len(b)] == IF i = 0 THEN 0 ELSE value[i - 1] * Base + b[i]
  IN value[Len(b)]

\* ParseUint: the value, or -1 when a byte is no digit.
ParseUint(b) == IF \A i \in DOMAIN b : b[i] \in 0 .. Base - 1 THEN Value(b) ELSE -1

WaitFieldLost(h) == Fixnum(0, 8)     \* mutant: the wait is always zero
WaitField(h) == Fixnum(h.wait, 8)

\* MakeMsg and MakeHeartbeatMsg.  A name of no length loses its size too.
MakeMsg(h) ==
  IF h.t = "h" THEN <<Letter["h"]>> \o Fixnum(h.wait, 4) \o Fixnum(h.size, 8)
  ELSE <<Letter[h.t]>> \o h.id
       \o (IF h.t # "e" /\ h.name # <<>> THEN Fixnum(Len(h.name), 3) \o h.name ELSE <<>>)
       \o (IF h.t = "e" THEN WaitField(h) ELSE <<>>)
       \o Fixnum(h.size, 8)

-----------------------------------------------------------------------------
(* Reading.                                                                 *)

Part(b, z, n) == SubSeq(b, z + 1, z + n)
NotYet == [ok |-> FALSE, err |-> FALSE, n |-> 0]
Failed == [ok |-> FALSE, err |-> TRUE, n |-> 0]
Got(h, n) == [ok |-> TRUE, err |-> FALSE, n |-> n, h |-> h]
Short == IF eof THEN Failed ELSE NotYet

\* The last field, at z; -1 is an error.  n bytes were read at first.
Finish(b, n, h, z) ==
  LET size == ParseUint(Part(b, z, 8))
  IN IF size < 0 THEN Failed
     ELSE Got([h EXCEPT !.size = size], IF z + 8 > n THEN z + 8 ELSE n)

MinSize == 13
FirstReadLong == 16                 \* mutant: the shortest request is longer
\* How many bytes ReadMsg asks for first.
FirstRead == MinSize

\* A message of the shortest size or more: its type decides what follows.
ReadRest(b, n) ==
  LET t  == KindOf(b[1])
      id == IF t \in NoId THEN <<>> ELSE Part(b, 1, 4)
      z  == 1 + (IF t = "h" THEN 4 ELSE Len(id))
      h  == [t |-> t, id |-> id, name |-> <<>>, wait |-> 0, size |-> 0]
  IN CASE t = "h" ->
            LET load == ParseUint(Part(b, 1, 4))
            IN IF load < 0 THEN Failed ELSE Finish(b, n, [h EXCEPT !.wait = load], z)
       [] t \in Named ->
            LET size == ParseUint(Part(b, z, 3))
            IN IF size < 0 THEN Failed
               ELSE IF Len(b) < z + 3 + size + 8 THEN Short
               ELSE Finish(b, n, [h EXCEPT !.name = Part(b, z + 3, size)], z + 3 + size)
       [] t = "e" ->
            LET wait == ParseUint(Part(b, z, 8))
            IN IF wait < 0 THEN Failed
               ELSE IF Len(b) < z + 16 THEN Short
               ELSE Finish(b, n, [h EXCEPT !.wait = wait], z + 8)
       [] OTHER -> Finish(b, n, h, z)

\* ReadMsg on the bytes at hand: the header and how many bytes it took, or that
\* it waits for more, or that it failed.  A protocol error may end the stream.
ReadMsg(b) ==
  IF Len(b) >= FirstRead THEN ReadRest(b, FirstRead)
  ELSE IF eof /\ Len(b) >= 9 /\ KindOf(b[1]) = "f" THEN ReadRest(b, Len(b))
  ELSE Short

-----------------------------------------------------------------------------
NoHeader == Header("f", <<>>, 0, 0)

GoInit ==
  /\ stream = <<>> /\ eof = FALSE /\ sent = <<>>
  /\ rpc = "header" /\ rmsg = NoHeader /\ received = <<>>

\* writeMsg and SendHeartbeat, whole: connmu is held from the first byte to the
\* last.  Between a protocol error and the close that follows it, others may write.
Write ==
  /\ ~eof /\ Len(sent) < MaxMsgs
  /\ \E c \in Calls :
       /\ stream' = stream \o MakeMsg(c.h) \o c.payload
       /\ sent' = Append(sent, c)
  /\ UNCHANGED <<eof, rpc, rmsg, received>>

CloseConn ==
  /\ ~eof /\ eof' = TRUE
  /\ UNCHANGED <<stream, sent, rpc, rmsg, received>>

ReadHeader ==
  /\ rpc = "header"
  /\ LET r == ReadMsg(stream) IN
       \/ /\ r.ok
          /\ stream' = SubSeq(stream, r.n + 1, Len(stream))
          /\ rmsg' = r.h
          /\ rpc' = "payload"
          /\ UNCHANGED received
       \/ /\ r.err
          /\ rpc' = "failed"
          /\ UNCHANGED <<stream, rmsg, received>>
  /\ UNCHANGED <<eof, sent>>

\* The handler of a message reads its payload; Read leaves its loop after a
\* protocol error, and on a type it does not know.
PayloadSize == IF rmsg.t \in NoPayload THEN 0 ELSE rmsg.size
ReadPayload ==
  /\ rpc = "payload"
  /\ \/ /\ Len(stream) >= PayloadSize
        /\ received' = Append(received, [h |-> rmsg, payload |-> Part(stream, 0, PayloadSize)])
        /\ stream' = SubSeq(stream, PayloadSize + 1, Len(stream))
        /\ rpc' = CASE rmsg.t = "f" -> "done" [] rmsg.t = "?" -> "failed" [] OTHER -> "header"
     \/ /\ Len(stream) < PayloadSize /\ eof
        /\ rpc' = "failed"
        /\ UNCHANGED <<stream, received>>
  /\ UNCHANGED <<eof, sent, rmsg>>

\* The connection is closed and the reader has left its loop.
Quiet == eof /\ rpc \in {"done", "failed"} /\ UNCHANGED goVars

GoNext == Write \/ CloseConn \/ ReadHeader \/ ReadPayload \/ Quiet
GoSpec == GoInit /\ [][GoNext]_goVars

-----------------------------------------------------------------------------
Headers == [t : AllKinds \cup {"?"}, id : Seq(Nat), name : Seq(Nat), wait : Int, size : Int]
Messages == [h : Headers, payload : Seq(Nat)]
GoTypeOK ==
  /\ eof \in BOOLEAN
  /\ rpc \in {"header", "payload", "done", "failed"}
  /\ stream \in Seq(Nat)
  /\ sent \in Seq(Messages) /\ received \in Seq(Messages)
  /\ rmsg \in Headers

\* The reader sees the messages the writer wrote, in order, each with its own
\* fields and payload, whatever the bytes of names and payloads look like: no
\* byte of one message is taken for part of another.
InStep == IsPrefix(received, sent)

HasFault(msgs) == \E i \in DOMAIN msgs : msgs[i].h.t = "f"
\* The reader waits for bytes that are not there.
Waiting == (rpc = "header" /\ ReadMsg(stream) = NotYet)
           \/ (rpc = "payload" /\ Len(stream) < PayloadSize)

\* README.md:315-316 lets the size of an operation's name be any three digits, 000
\* among them: what MakeMsg writes for such a request, ReadMsg understands.
EmptyNameUnderstood == Waiting /\ ~HasFault(sent) => received = sent
=============================================================================
