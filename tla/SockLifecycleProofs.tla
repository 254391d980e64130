------------------------ MODULE SockLifecycleProofs ------------------------
(***************************************************************************)
(* The life of a Sock: proofs for any timeouts, any number of connections  *)
(* adopted one after another, and a Shutdown at any time.                  *)
(***************************************************************************)
EXTENDS SockLifecycleInv, TLAPS

LEMMA Constants ==
  /\ ReadTimeout \in Nat /\ Heartbeat \in Nat /\ PeerHeartbeat \in Nat /\ ShutdownTimeout \in Nat
  /\ ShutdownTimeout > 0 /\ MaxConns \in Nat /\ MaxConns > 0 /\ MaxSends \in Nat
  /\ MaxTime \in Nat /\ ReadTimeout <= MaxTime /\ ShutdownTimeout <= MaxTime
  /\ App = 0 /\ None = -1 /\ Timeout = 3 /\ InvalidMsg = 2
BY LifecycleAssumption DEF MaxTime, App, None, Timeout, InvalidMsg

Closings == [conn : Conns, by : App .. MaxConns, code : 0 .. 4]

LEMMA Fields ==
  ASSUME NEW x \in Connection
  PROVE  /\ x.open \in BOOLEAN /\ x.gone \in BOOLEAN
         /\ x.version \in {"none", "ours", "other", "read"}
         /\ x.in \in {<<>>} \cup {<<m>> : m \in Kinds}
         /\ x.readDl \in None .. MaxTime /\ x.writeDl \in None .. MaxTime
         /\ x.told \in None .. 3 /\ x.peerBeat \in 0 .. PeerHeartbeat
         /\ x.silence \in 0 .. MaxTime
BY DEF Connection

\* What the actions set of a connection.
LEMMA FieldsSet ==
  ASSUME NEW x \in Connection
  PROVE  /\ [x EXCEPT !.open = FALSE] \in Connection
         /\ [x EXCEPT !.gone = TRUE] \in Connection
         /\ [x EXCEPT !.in = <<>>] \in Connection
         /\ \A v \in {"none", "ours", "other", "read"} : [x EXCEPT !.version = v] \in Connection
         /\ \A t \in None .. MaxTime : [x EXCEPT !.readDl = t] \in Connection
         /\ \A t \in None .. MaxTime : [x EXCEPT !.writeDl = t] \in Connection
         /\ \A t \in None .. 3 : [x EXCEPT !.told = t] \in Connection
         /\ \A t \in 0 .. PeerHeartbeat : [x EXCEPT !.peerBeat = t] \in Connection
         /\ \A t \in 0 .. MaxTime : [x EXCEPT !.silence = t] \in Connection
<1> USE DEF Connection
<1>1. [x EXCEPT !.open = FALSE] \in Connection /\ [x EXCEPT !.gone = TRUE] \in Connection
  OBVIOUS
<1>2. [x EXCEPT !.in = <<>>] \in Connection
  OBVIOUS
<1>3. \A v \in {"none", "ours", "other", "read"} : [x EXCEPT !.version = v] \in Connection
  OBVIOUS
<1>4. /\ \A t \in None .. MaxTime : [x EXCEPT !.readDl = t] \in Connection
      /\ \A t \in None .. MaxTime : [x EXCEPT !.writeDl = t] \in Connection
      /\ \A t \in None .. 3 : [x EXCEPT !.told = t] \in Connection
  OBVIOUS
<1>5. /\ \A t \in 0 .. PeerHeartbeat : [x EXCEPT !.peerBeat = t] \in Connection
      /\ \A t \in 0 .. MaxTime : [x EXCEPT !.silence = t] \in Connection
  OBVIOUS
<1>6. QED BY <1>1, <1>2, <1>3, <1>4, <1>5

\* One connection set twice, or in two fields, is set once.
LEMMA SetTwice ==
  ASSUME NEW S, NEW T, NEW f \in [S -> T], NEW c \in S, NEW x \in T, NEW y \in T
  PROVE  [[f EXCEPT ![c] = y] EXCEPT ![c] = x] = [f EXCEPT ![c] = x]
OBVIOUS

LEMMA SetBoth ==
  ASSUME NEW S, NEW T, NEW f \in [S -> T], NEW c \in S, NEW x, NEW b
  PROVE  [f EXCEPT ![c].in = IF @ = <<>> THEN x ELSE @, ![c].silence = IF b = 0 THEN @ ELSE 0]
     = [[f EXCEPT ![c].in = IF @ = <<>> THEN x ELSE @] EXCEPT ![c].silence = IF b = 0 THEN @ ELSE 0]
OBVIOUS

\* The initial states satisfy the invariant: there is no connection.
LEMMA InitLCInv == Init => LCInv
<1> SUFFICES ASSUME Init PROVE LCInv
  OBVIOUS
<1>1. TypeOK
  <2>1. net \in [1 .. conn -> Connection]
    BY DEF Init
  <2>2. 0 \in 0 .. MaxConns /\ 0 \in 0 .. Heartbeat /\ 0 \in 0 .. MaxSends /\ 0 \in 0 .. 4
    BY Constants
  <2>3. reader \in [Conns -> [pc : {"none"}, on : 0 .. MaxConns]]
    BY <2>2 DEF Init
  <2>4. beat \in [Conns -> [pc : {"none"}, left : 0 .. Heartbeat, stop : BOOLEAN]]
    BY <2>2 DEF Init
  <2>5. /\ running \in [Conns -> Nat] /\ strayed \in BOOLEAN /\ sends \in 0 .. MaxSends
        /\ conn \in 0 .. MaxConns /\ closex \in {0, 1} /\ closeCode \in 0 .. 4
    BY <2>2 DEF Init
  <2>6. wg \in [set : BOOLEAN, count : Int] /\ closed \in Seq(Closings)
    BY DEF Init
  <2>7. QED BY <2>1, <2>3, <2>4, <2>5, <2>6 DEF TypeOK, Closings, Stages
<1> USE DEF Init, Conns
<1>2. OneOpen /\ Attended /\ Timed /\ NoTimeoutYet
  BY DEF OneOpen, Attended, Timed, NoTimeoutYet
<1>3. Readers /\ ReadLeavesClosed /\ TimeoutMeansSilence
  BY DEF Readers, Before, InRead, ReadLeavesClosed, TimeoutMeansSilence
<1>4. QED BY <1>1, <1>2, <1>3 DEF LCInv

-----------------------------------------------------------------------------
(* Types.                                                                   *)

\* CloseSock closes the connection the Sock has, and records one call at most.
LEMMA CloseSockType ==
  ASSUME TypeOK, conn \in Conns, NEW n \in [1 .. conn -> Connection], NEW cc \in 0 .. 4,
         NEW by \in App .. MaxConns, CloseSock(n, cc, by)
  PROVE  /\ closex' = 1 /\ closeCode' \in 0 .. 4
         /\ net' \in [1 .. conn -> Connection]
         /\ closed' \in Seq(Closings)
<1>1. [n EXCEPT ![conn].open = FALSE] \in [1 .. conn -> Connection]
  <2>1. conn \in 1 .. conn
    BY Constants DEF Conns
  <2>2. [n[conn] EXCEPT !.open = FALSE] \in Connection
    BY <2>1, FieldsSet
  <2>3. QED BY <2>1, <2>2
<1>2. [conn |-> conn, by |-> by, code |-> cc] \in Closings
  BY DEF Closings
<1>3. closed \in Seq(Closings)
  BY DEF TypeOK, Closings
<1>4. QED BY <1>1, <1>2, <1>3 DEF CloseSock

LEMMA ToldType ==
  ASSUME conn \in Conns, NEW n \in [1 .. conn -> Connection], NEW code \in 0 .. 3
  PROVE  /\ Told(n, code) \in [1 .. conn -> Connection]
         /\ \A c \in 1 .. conn : /\ Told(n, code)[c].silence = n[c].silence
                                 /\ Told(n, code)[c].open = n[c].open
<1>1. conn \in 1 .. conn
  BY Constants DEF Conns
<1>2. \A t \in None .. 3 : [n[conn] EXCEPT !.told = t] \in Connection
  BY <1>1, FieldsSet
<1>3. PICK t \in None .. 3 : Told(n, code) = [n EXCEPT ![conn] = [n[conn] EXCEPT !.told = t]]
  <2>1. n[conn].told \in None .. 3 /\ code \in None .. 3
    BY <1>1, Constants, Fields
  <2>2. CASE CanWrite(conn)
    <3>1. Told(n, code) = [n EXCEPT ![conn] = [n[conn] EXCEPT !.told = code]]
      BY <2>2 DEF Told
    <3>2. QED BY <2>1, <3>1
  <2>3. CASE ~CanWrite(conn)
    <3>1. Told(n, code) = [n EXCEPT ![conn] = [n[conn] EXCEPT !.told = n[conn].told]]
      BY <2>3 DEF Told
    <3>2. QED BY <2>1, <3>1
  <2>4. QED BY <2>2, <2>3
<1>4. /\ [n[conn] EXCEPT !.told = t].silence = n[conn].silence
      /\ [n[conn] EXCEPT !.told = t].open = n[conn].open
  BY <1>1 DEF Connection
<1>5. QED BY <1>1, <1>2, <1>3, <1>4

\* What a step of a reader does to the Sock and its connections: it leaves open what
\* is open, or it closes the Sock with a code that says why.
Quiet(n) ==
  /\ n \in [1 .. conn -> Connection]
  /\ \A c \in 1 .. conn : n[c].open = net[c].open /\ n[c].silence = net[c].silence
Expires(p) == ~wg.set /\ reader[p].pc = "read" /\ Expired(reader[p].on)
Closes(p) ==
  \E n \in [1 .. conn -> Connection], cc \in 0 .. 4 :
    /\ Quiet(n) /\ CloseSock(n, cc, p)
    /\ cc \in {closeCode, InvalidMsg + 1} \/ (cc = Timeout + 1 /\ Expires(p))
LeavesOpen ==
  /\ Quiet(net') /\ UNCHANGED <<closex, closed>>
  /\ closeCode' \in {closeCode, InvalidMsg + 1}
Quits(p) == To(p, "done") \/ (To(p, "ending") /\ reader[p].pc = "read")
Goes(p) ==
  \/ reader[p].pc \in Before /\ \E pc \in {"version", "accept", "entry"} : To(p, pc)
  \/ Entry(p)
  \/ reader[p].pc = "deadline" /\ To(p, "read")
  \/ reader[p].pc = "read" /\ To(p, "deadline")
  \/ reader[p].pc = "read" /\ To(p, "ending") /\ wg.set
  \/ reader[p].pc = "ending" /\ To(p, "done") /\ ~wg.set

\* Where a reader is.
LEMMA ReaderIs ==
  ASSUME TypeOK, Readers, NEW p \in Conns, reader[p].pc # "none"
  PROVE  /\ conn \in Conns /\ conn \in 1 .. conn /\ p \in App .. MaxConns
         /\ net \in [1 .. conn -> Connection] /\ closeCode \in 0 .. 4 /\ Quiet(net)
         /\ reader[p].on \in 0 .. conn
         /\ reader[p].pc \in InRead => reader[p].on \in 1 .. conn
<1>1. p <= conn
  BY DEF Readers
<1>2. conn \in 0 .. MaxConns /\ p \in 1 .. MaxConns /\ reader[p].on \in 0 .. MaxConns
      /\ net \in [1 .. conn -> Connection] /\ closeCode \in 0 .. 4
  BY DEF TypeOK, Conns
<1>3. reader[p].on <= conn /\ (reader[p].pc \in InRead => reader[p].on # 0)
  BY DEF Readers
<1>4. QED BY <1>1, <1>2, <1>3, Constants DEF Conns, Quiet

LEMMA ClosesNow ==
  ASSUME TypeOK, Readers, NEW p \in Conns, reader[p].pc # "none", CloseSock(net, closeCode, p)
  PROVE  Closes(p)
BY ReaderIs DEF Closes

LEMMA ReaderEffect ==
  ASSUME TypeOK, Readers, NEW p \in Conns, ReaderStep(p) \/ Accept(p)
  PROVE  (Closes(p) /\ Quits(p)) \/ (LeavesOpen /\ Goes(p))
<1>1. reader[p].pc # "none"
  BY DEF ReaderStep, Accept, Greet, Version, Entry, Deadline, ReadTimesOut, ReadBreaks,
     ReadMessage, Ending
<1>2. /\ conn \in 1 .. conn /\ conn \in Conns
      /\ net \in [1 .. conn -> Connection] /\ closeCode \in 0 .. 4 /\ Quiet(net)
      /\ reader[p].pc \in InRead => reader[p].on \in 1 .. conn
  BY <1>1, ReaderIs
<1>3. CloseSock(net, closeCode, p) => Closes(p)
  BY <1>2 DEF Closes
<1>4. UNCHANGED net /\ StaysOpen => LeavesOpen
  BY <1>2 DEF LeavesOpen, StaysOpen, Quiet
<1>5. CASE Greet(p) \/ Entry(p) \/ Accept(p) \/ ReadBreaks(p) \/ Ending(p)
  BY <1>3, <1>4, <1>5 DEF Greet, Entry, Accept, ReadBreaks, Ending, StaysOpen, Quits, Goes, Before
<1>6. CASE Version(p)
  <2>1. CASE net' = [net EXCEPT ![conn].version = "read"] /\ StaysOpen /\ To(p, "accept")
    <3>1. net' = [net EXCEPT ![conn] = [net[conn] EXCEPT !.version = "read"]]
      BY <2>1
    <3>2. [net[conn] EXCEPT !.version = "read"] \in Connection
      BY <1>2, FieldsSet
    <3>3. /\ [net[conn] EXCEPT !.version = "read"].open = net[conn].open
          /\ [net[conn] EXCEPT !.version = "read"].silence = net[conn].silence
      BY <1>2 DEF Connection
    <3>4. Quiet(net')
      BY <1>2, <3>1, <3>2, <3>3 DEF Quiet
    <3>5. QED BY <1>6, <2>1, <3>4 DEF LeavesOpen, StaysOpen, Version, Goes, Before
  <2>2. QED BY <1>3, <1>6, <2>1 DEF Version, Quits
<1>7. CASE Deadline(p)
  <2> DEFINE c == reader[p].on
  <2>1. CASE net' = [net EXCEPT ![c].readDl = ReadTimeout] /\ StaysOpen /\ To(p, "read")
    <3>0. c \in 1 .. conn
      BY <1>2, <1>7 DEF Deadline, InRead
    <3>1. net' = [net EXCEPT ![c] = [net[c] EXCEPT !.readDl = ReadTimeout]]
      BY <2>1
    <3>2. [net[c] EXCEPT !.readDl = ReadTimeout] \in Connection
      <4>1. net[c] \in Connection /\ ReadTimeout \in None .. MaxTime
        BY <1>2, <3>0, Constants
      <4>2. QED BY <4>1, FieldsSet
    <3>3. /\ [net[c] EXCEPT !.readDl = ReadTimeout].open = net[c].open
          /\ [net[c] EXCEPT !.readDl = ReadTimeout].silence = net[c].silence
      BY <1>2, <3>0 DEF Connection
    <3>4. Quiet(net')
      BY <1>2, <3>0, <3>1, <3>2, <3>3 DEF Quiet
    <3>5. QED BY <1>7, <2>1, <3>4 DEF LeavesOpen, StaysOpen, Deadline, Goes
  <2>2. QED BY <1>3, <1>4, <1>7, <2>1 DEF Deadline, Quits, Goes
<1>8. ASSUME NEW n, Quiet(n), NEW code \in {InvalidMsg, Timeout}, CloseError(n, code, p),
             code = Timeout => Expires(p)
      PROVE  Closes(p)
  <2>1. Quiet(Told(n, code)) /\ Told(n, code) \in [1 .. conn -> Connection]
    BY <1>2, <1>8, ToldType, Constants DEF Quiet
  <2>2. CloseSock(Told(n, code), code + 1, p) /\ code + 1 \in 0 .. 4
    BY <1>8, Constants DEF CloseError
  <2>3. QED BY <1>8, <2>1, <2>2 DEF Closes
<1>9. CASE ReadTimesOut(p)
  BY <1>2, <1>4, <1>8, <1>9 DEF ReadTimesOut, Expires, Quits, Goes
<1>10. CASE ReadMessage(p)
  <2> DEFINE c == reader[p].on  rest == [net EXCEPT ![c].in = <<>>]
  <2>1. Quiet(rest)
    <3>1. c \in 1 .. conn
      BY <1>2, <1>10 DEF ReadMessage, InRead
    <3>2. rest = [net EXCEPT ![c] = [net[c] EXCEPT !.in = <<>>]]
      OBVIOUS
    <3>3. [net[c] EXCEPT !.in = <<>>] \in Connection
      BY <1>2, <3>1, FieldsSet
    <3>4. /\ [net[c] EXCEPT !.in = <<>>].open = net[c].open
          /\ [net[c] EXCEPT !.in = <<>>].silence = net[c].silence
      BY <1>2, <3>1 DEF Connection
    <3>5. QED BY <1>2, <3>1, <3>2, <3>3, <3>4 DEF Quiet
  <2> HIDE DEF rest
  <2>2. \/ /\ net' = rest /\ UNCHANGED <<closex, closed>> /\ Goes(p)
           /\ closeCode' \in {closeCode, InvalidMsg + 1}
        \/ CloseSock(rest, InvalidMsg + 1, p) /\ Quits(p)
        \/ CloseError(rest, InvalidMsg, p) /\ Quits(p)
    BY <1>10 DEF ReadMessage, StaysOpen, rest, Goes, Quits
  <2>3. CASE CloseSock(rest, InvalidMsg + 1, p) /\ Quits(p)
    <3>1. rest \in [1 .. conn -> Connection] /\ InvalidMsg + 1 \in 0 .. 4
      BY <2>1, Constants DEF Quiet
    <3>2. QED BY <2>1, <2>3, <3>1 DEF Closes
  <2>4. CASE CloseError(rest, InvalidMsg, p) /\ Quits(p)
    BY <1>8, <2>1, <2>4, Constants
  <2>5. QED BY <2>1, <2>2, <2>3, <2>4 DEF LeavesOpen
<1>11. QED BY <1>5, <1>6, <1>7, <1>9, <1>10 DEF ReaderStep


\* The parts of the state that a step of a reader moves beside.
LEMMA ReaderTypeOK ==
  ASSUME TypeOK, Readers, NEW p \in Conns, ReaderStep(p) \/ Accept(p)
  PROVE  TypeOK'
<1>0. conn' = conn /\ UNCHANGED <<strayed, sends>>
  BY DEF ReaderStep, Accept, Greet, Version, Entry, Deadline, ReadTimesOut, ReadBreaks,
     ReadMessage, Ending
<1>1. /\ net' \in [1 .. conn' -> Connection] /\ closed' \in Seq(Closings)
      /\ closex' \in {0, 1} /\ closeCode' \in 0 .. 4
  <2>1. CASE Closes(p)
    <3>1. PICK n \in [1 .. conn -> Connection], cc \in 0 .. 4 : CloseSock(n, cc, p)
      BY <2>1 DEF Closes
    <3>2. conn \in Conns /\ p \in App .. MaxConns
      <4>1. reader[p].pc # "none"
        BY DEF ReaderStep, Accept, Greet, Version, Entry, Deadline, ReadTimesOut, ReadBreaks,
           ReadMessage, Ending
      <4>2. QED BY <4>1, ReaderIs
    <3>3. QED BY <1>0, <3>1, <3>2, CloseSockType
  <2>2. CASE LeavesOpen
    BY <1>0, <2>2, Constants DEF LeavesOpen, Quiet, TypeOK, Closings
  <2>3. QED BY <2>1, <2>2, ReaderEffect
<1>2. running' \in [Conns -> Nat]
  <2>1. running' = running \/ \E c : running' = [running EXCEPT ![c] = @ + 1]
    BY DEF ReaderStep, Accept, Greet, Version, Entry, Deadline, ReadTimesOut, ReadBreaks,
       ReadMessage, Ending
  <2>2. running \in [Conns -> Nat]
    BY DEF TypeOK
  <2>3. QED BY <2>1, <2>2
<1>3. wg' \in [set : BOOLEAN, count : Int]
  <2>1. wg' = wg \/ wg' = [wg EXCEPT !.count = @ - 1]
    BY DEF ReaderStep, Accept, Greet, Version, Entry, Deadline, ReadTimesOut, ReadBreaks,
       ReadMessage, Ending
  <2>2. wg \in [set : BOOLEAN, count : Int]
    BY DEF TypeOK
  <2>3. QED BY <2>1, <2>2
<1>4. beat' \in [Conns -> [pc : {"none", "send", "wait", "done"}, left : 0 .. Heartbeat,
                           stop : BOOLEAN]]
  <2>1. beat' = beat \/ beat' = [beat EXCEPT ![p].pc = "send"] \/ beat' = [beat EXCEPT ![p].stop = TRUE]
    BY DEF ReaderStep, Accept, Greet, Version, Entry, Deadline, ReadTimesOut, ReadBreaks,
       ReadMessage, Ending, Stopped
  <2>2. beat \in [Conns -> [pc : {"none", "send", "wait", "done"}, left : 0 .. Heartbeat,
                           stop : BOOLEAN]]
    BY DEF TypeOK
  <2>3. QED BY <2>1, <2>2
<1>5. reader' \in [Conns -> [pc : Stages, on : 0 .. MaxConns]]
  <2>1. \/ \E pc \in {"version", "accept", "entry", "deadline", "read", "ending", "done"} : To(p, pc)
        \/ reader' = [reader EXCEPT ![p] = [pc |-> "deadline", on |-> conn]]
    BY DEF ReaderStep, Accept, Greet, Version, Entry, Deadline, ReadTimesOut, ReadBreaks,
       ReadMessage, Ending
  <2>2. /\ reader \in [Conns -> [pc : Stages, on : 0 .. MaxConns]]
        /\ conn \in 0 .. MaxConns
    BY DEF TypeOK
  <2>3. CASE \E pc \in {"version", "accept", "entry", "deadline", "read", "ending", "done"} : To(p, pc)
    BY <2>2, <2>3 DEF To, Stages
  <2>4. QED BY <2>1, <2>2, <2>3 DEF Stages
<1>6. QED BY <1>0, <1>1, <1>2, <1>3, <1>4, <1>5 DEF TypeOK, Closings

-----------------------------------------------------------------------------
(* Steps that close the Sock.                                               *)

\* After CloseSock nothing is open, and what it records is true of the connection.
LEMMA ClosingKeeps ==
  ASSUME LCInv, conn \in Conns, conn' = conn, NEW n \in [1 .. conn -> Connection], Quiet(n),
         NEW cc \in 0 .. 4, NEW by \in App .. MaxConns, CloseSock(n, cc, by),
         closex = 0 /\ cc = Timeout + 1 => net[conn].silence >= ReadTimeout
  PROVE  /\ \A c \in 1 .. conn : ~net'[c].open
         /\ OneOpen' /\ Attended' /\ Timed' /\ NoTimeoutYet' /\ TimeoutMeansSilence'
<1>0. conn \in 1 .. conn /\ closed \in Seq(Closings) /\ closex \in {0, 1}
  BY Constants DEF LCInv, TypeOK, Conns, Closings
<1>1. closex' = 1
  BY DEF CloseSock
<1>2. \A c \in 1 .. conn : ~net'[c].open /\ net'[c].silence = net[c].silence
  <2>1. CASE closex = 0
    <3>1. net' = [n EXCEPT ![conn] = [n[conn] EXCEPT !.open = FALSE]]
      BY <2>1 DEF CloseSock
    <3>2. /\ [n[conn] EXCEPT !.open = FALSE].open = FALSE
          /\ [n[conn] EXCEPT !.open = FALSE].silence = n[conn].silence
      BY <1>0 DEF Connection
    <3>3. \A c \in 1 .. conn : c # conn => ~n[c].open
      BY DEF Quiet, LCInv, OneOpen
    <3>4. QED BY <1>0, <3>1, <3>2, <3>3 DEF Quiet
  <2>2. CASE closex # 0
    BY <2>2 DEF CloseSock, Quiet, LCInv, OneOpen
  <2>3. QED BY <2>1, <2>2
<1>3. Attended' /\ Timed' /\ NoTimeoutYet'
  BY <1>1, <1>2 DEF Attended, Timed, Watched, NoTimeoutYet
<1>4. ASSUME NEW i \in DOMAIN closed'
      PROVE  /\ closed'[i].conn \in 1 .. conn
             /\ closed'[i].code = Timeout + 1 => net[closed'[i].conn].silence >= ReadTimeout
  <2>1. CASE i \in DOMAIN closed /\ closed'[i] = closed[i]
    <3>1. closed[i] \in Closings
      BY <1>0, <2>1
    <3>2. closed[i].conn \in 1 .. conn
      BY <2>1, <3>1, Constants DEF LCInv, OneOpen, Closings, Conns
    <3>3. QED BY <2>1, <3>2 DEF LCInv, TimeoutMeansSilence
  <2>2. CASE closex = 0 /\ closed'[i] = [conn |-> conn, by |-> by, code |-> cc]
    BY <1>0, <2>2
  <2>3. QED BY <1>0, <1>4, <2>1, <2>2 DEF CloseSock
<1>5. OneOpen' /\ TimeoutMeansSilence'
  BY <1>2, <1>4, Constants DEF OneOpen, TimeoutMeansSilence
<1>6. QED BY <1>2, <1>3, <1>5

-----------------------------------------------------------------------------
(* Steps that leave open what is open.                                      *)

\* What has been closed stays as it was.
LEMMA OpenKeeps ==
  ASSUME LCInv, conn' = conn, UNCHANGED <<closex, closed>>,
         closeCode' \in {closeCode, InvalidMsg + 1},
         \A c \in 1 .. conn : /\ net'[c].open = net[c].open
                              /\ ~net[c].open => net'[c].silence = net[c].silence
  PROVE  OneOpen' /\ NoTimeoutYet' /\ TimeoutMeansSilence'
<1>1. ASSUME NEW i \in DOMAIN closed PROVE closed[i].conn \in 1 .. conn
  <2>0. closed \in Seq(Closings)
    BY DEF LCInv, TypeOK, Closings
  <2>1. closed[i] \in Closings
    BY <2>0
  <2>2. QED BY <2>1, Constants DEF LCInv, OneOpen, Closings, Conns
<1>2. QED BY <1>1, Constants DEF LCInv, OneOpen, NoTimeoutYet, TimeoutMeansSilence

\* No reader moves, or one that does not read: whoever watched a connection still does,
\* and what may end the silence comes with a message for a reader.
Untimed(q) == reader[q].pc \in Before \cup {"ending", "done"}
Follows(c) ==
  /\ net'[c].open = net[c].open /\ net'[c].readDl = net[c].readDl
  /\ net[c].in # <<>> => net'[c].in # <<>>
  /\ net'[c].silence = net[c].silence \/ (net[c].readDl # 0 /\ net'[c].in # <<>>)
LEMMA TimedKeeps ==
  ASSUME LCInv, conn' = conn, wg' = wg, \A c \in 1 .. conn : Follows(c),
         \A q \in Conns : reader'[q] = reader[q] \/ Untimed(q)
  PROVE  Attended' /\ Timed'
<1>1. \A q \in Conns, c \in 1 .. conn : Reads(q, c) => reader'[q] = reader[q]
  BY DEF Untimed, Reads, Before
<1>2. \A q \in Conns, c \in 1 .. conn : Reads(q, c) => Reads(q, c)'
  BY <1>1 DEF Reads
<1>3. \A q \in Conns, c \in 1 .. conn : Resets(q, c) => Resets(q, c)'
  BY <1>1, <1>2 DEF Resets, Follows
<1>4. ASSUME NEW c \in 1 .. conn, Watched(c)' PROVE Watched(c)
  BY <1>4 DEF Watched, Follows
<1>5. Attended'
  BY <1>2, <1>4 DEF LCInv, Attended
<1>6. ASSUME NEW c \in 1 .. conn, Watched(c)'
      PROVE  \/ net'[c].readDl + net'[c].silence >= ReadTimeout
             \/ net'[c].readDl > 0 /\ \E p \in Conns : Resets(p, c)'
  <2>0. net'[c].readDl = net[c].readDl /\ net[c].readDl \in Nat /\ Watched(c)
    <3>1. net[c].readDl \in None .. MaxTime /\ net[c].readDl # None
      BY <1>4, <1>6, Fields DEF LCInv, TypeOK, Watched
    <3>2. QED BY <1>4, <1>6, <3>1, Constants DEF Follows
  <2>1. CASE net'[c].silence = net[c].silence
    BY <1>3, <2>0, <2>1 DEF LCInv, Timed
  <2>2. CASE net[c].readDl # 0 /\ net'[c].in # <<>>
    <3>1. PICK p \in Conns : Reads(p, c)
      BY <2>0 DEF LCInv, Attended
    <3>2. Resets(p, c)'
      BY <1>2, <2>2, <3>1 DEF Resets
    <3>3. QED BY <2>0, <2>2, <3>2
  <2>3. QED BY <2>1, <2>2 DEF Follows
<1>7. QED BY <1>5, <1>6 DEF Timed

\* A goroutine goes on: it comes to the end of its loop, or of Read, as it should.
LEMMA ReadersKeep ==
  ASSUME LCInv, conn' = conn, NEW p \in Conns, reader[p].pc # "none", NEW pc, To(p, pc),
         wg.set => wg'.set,
         \A c \in 1 .. conn : net'[c].open => net[c].open,
         \A q \in Conns : running'[q] > 0 => running[q] > 0 \/ q <= conn,
         pc \in Before => reader[p].pc \in Before,
         pc \in InRead => reader[p].pc \in InRead,
         pc = "ending" => wg'.set \/ ~net'[reader[p].on].open,
         pc = "done" => reader[p].on = 0 \/ ~net'[reader[p].on].open
  PROVE  Readers' /\ ReadLeavesClosed'
<1>0. reader \in [Conns -> [pc : Stages, on : 0 .. MaxConns]]
  BY DEF LCInv, TypeOK
<1>1. /\ reader'[p].pc = pc /\ reader'[p].on = reader[p].on
      /\ \A q \in Conns \ {p} : reader'[q] = reader[q]
  BY <1>0 DEF To
<1>2. \A q \in Conns : reader[q].on # 0 => reader[q].on \in 1 .. conn
  BY <1>0, Constants DEF LCInv, TypeOK, Readers
<1>3. Readers'
  <2> SUFFICES ASSUME NEW q \in Conns
               PROVE  /\ reader'[q].pc # "none" \/ running'[q] > 0 => q <= conn
                      /\ reader'[q].pc \in Before => reader'[q].on = 0
                      /\ reader'[q].pc \in InRead => reader'[q].on # 0
                      /\ reader'[q].on <= conn
                      /\ reader'[q].pc = "ending" => wg'.set \/ ~net'[reader'[q].on].open
    BY DEF Readers
  <2>1. CASE q = p
    BY <1>1, <2>1 DEF LCInv, Readers
  <2>2. CASE q # p
    BY <1>1, <1>2, <2>2 DEF LCInv, Readers, InRead
  <2>3. QED BY <2>1, <2>2
<1>4. ReadLeavesClosed'
  BY <1>1, <1>2 DEF LCInv, ReadLeavesClosed
<1>5. QED BY <1>3, <1>4

LEMMA ReadersStay ==
  ASSUME LCInv, conn' = conn, reader' = reader, wg.set => wg'.set,
         \A c \in 1 .. conn : net'[c].open => net[c].open,
         \A q \in Conns : running'[q] > 0 => running[q] > 0
  PROVE  Readers' /\ ReadLeavesClosed'
<1>1. \A q \in Conns : reader[q].on # 0 => reader[q].on \in 1 .. conn
  BY Constants DEF LCInv, TypeOK, Readers
<1>2. QED BY <1>1 DEF LCInv, Readers, ReadLeavesClosed, InRead

-----------------------------------------------------------------------------
(* The steps, one by one.                                                   *)

\* The goroutine that shakes hands, calls the accept handler and reads.
LEMMA ClosingStep ==
  ASSUME LCInv, NEW p \in Conns, reader[p].pc # "none", conn' = conn, Closes(p)
  PROVE  /\ \A c \in 1 .. conn : ~net'[c].open
         /\ OneOpen' /\ Attended' /\ Timed' /\ NoTimeoutYet' /\ TimeoutMeansSilence'
<1>1. /\ conn \in Conns /\ conn \in 1 .. conn /\ p \in App .. MaxConns
      /\ net \in [1 .. conn -> Connection]
      /\ reader[p].pc \in InRead => reader[p].on \in 1 .. conn
  BY ReaderIs DEF LCInv
<1>2. PICK n \in [1 .. conn -> Connection], cc \in 0 .. 4 :
        /\ Quiet(n) /\ CloseSock(n, cc, p)
        /\ cc \in {closeCode, InvalidMsg + 1} \/ (cc = Timeout + 1 /\ Expires(p))
  BY DEF Closes
<1>3. ASSUME closex = 0, cc = Timeout + 1 PROVE net[conn].silence >= ReadTimeout
  <2>1. Expires(p)
    BY <1>2, <1>3, Constants DEF LCInv, NoTimeoutYet
  <2>2. reader[p].on = conn /\ net[conn].open
    BY <1>1, <2>1 DEF Expires, Expired, InRead, LCInv, OneOpen
  <2>3. Watched(conn) /\ net[conn].readDl = 0
    BY <2>1, <2>2, Constants DEF Expires, Expired, Watched
  <2>4. net[conn].silence \in Nat
    BY <1>1, Fields, Constants
  <2>5. QED BY <1>1, <2>3, <2>4, Constants DEF LCInv, Timed
<1>4. QED BY <1>1, <1>2, <1>3, ClosingKeeps

\* Of a reader's steps: where it goes.
LEMMA ReaderGoes ==
  ASSUME LCInv, NEW p \in Conns, ReaderStep(p) \/ Accept(p)
  PROVE  /\ reader[p].pc # "none" /\ conn' = conn /\ (wg.set => wg'.set)
         /\ \A q \in Conns : running'[q] > 0 => running[q] > 0 \/ q <= conn
<1>1. reader[p].pc # "none" /\ conn' = conn
  BY DEF ReaderStep, Accept, Greet, Version, Entry, Deadline, ReadTimesOut, ReadBreaks,
     ReadMessage, Ending
<1>2. wg' = wg \/ wg' = [wg EXCEPT !.count = @ - 1]
  BY DEF ReaderStep, Accept, Greet, Version, Entry, Deadline, ReadTimesOut, ReadBreaks,
     ReadMessage, Ending
<1>3. \/ running' = running
      \/ reader[p].pc = "read" /\ running' = [running EXCEPT ![reader[p].on] = @ + 1]
  BY DEF ReaderStep, Accept, Greet, Version, Entry, Deadline, ReadTimesOut, ReadBreaks,
     ReadMessage, Ending
<1>4. reader[p].pc = "read" => reader[p].on \in 1 .. conn
  BY <1>1, ReaderIs DEF LCInv, InRead
<1>5. wg \in [set : BOOLEAN, count : Int] /\ running \in [Conns -> Nat]
  BY DEF LCInv, TypeOK
<1>6. wg.set => wg'.set
  BY <1>2, <1>5
<1>7. ASSUME NEW q \in Conns, running'[q] > 0 PROVE running[q] > 0 \/ q <= conn
  <2>1. CASE running' = running
    BY <1>7, <2>1
  <2>2. CASE reader[p].pc = "read" /\ running' = [running EXCEPT ![reader[p].on] = @ + 1]
    <3>1. q # reader[p].on => running'[q] = running[q]
      BY <1>5, <2>2
    <3>2. q = reader[p].on => q <= conn
      BY <1>4, <2>2
    <3>3. QED BY <1>7, <3>1, <3>2
  <2>3. QED BY <1>3, <2>1, <2>2
<1>8. QED BY <1>1, <1>6, <1>7

\* It leaves its loop only for a closed connection, or a Shutdown.
LEMMA ReaderReaders ==
  ASSUME LCInv, NEW p \in Conns, ReaderStep(p) \/ Accept(p)
  PROVE  Readers' /\ ReadLeavesClosed'
<1>0. /\ reader[p].pc # "none" /\ conn' = conn /\ (wg.set => wg'.set)
      /\ \A q \in Conns : running'[q] > 0 => running[q] > 0 \/ q <= conn
  BY ReaderGoes
<1>1. /\ reader[p].pc \in InRead => reader[p].on \in 1 .. conn
      /\ reader[p].pc \in Before => reader[p].on = 0
      /\ reader[p].on \in 0 .. conn /\ conn \in 1 .. conn
  BY <1>0, ReaderIs DEF LCInv, Readers
<1>2. CASE Closes(p) /\ Quits(p)
  <2>1. \A c \in 1 .. conn : ~net'[c].open
    BY <1>0, <1>2, ClosingStep
  <2>2. \A c \in 1 .. conn : net'[c].open => net[c].open
    BY <2>1
  <2>3. CASE To(p, "done")
    BY <1>0, <1>1, <2>1, <2>2, <2>3, ReadersKeep DEF Before, InRead
  <2>4. CASE To(p, "ending") /\ reader[p].pc = "read"
    BY <1>0, <1>1, <2>1, <2>2, <2>4, ReadersKeep DEF Before, InRead
  <2>5. QED BY <1>2, <2>3, <2>4 DEF Quits
<1>3. CASE LeavesOpen /\ Goes(p)
  <2>1. \A c \in 1 .. conn : net'[c].open = net[c].open
    BY <1>3 DEF LeavesOpen, Quiet
  <2>2. ASSUME NEW pc, To(p, pc),
               \/ pc \in {"version", "accept", "entry"} /\ reader[p].pc \in Before
               \/ pc \in {"deadline", "read"} /\ reader[p].pc \in InRead
               \/ pc = "ending" /\ wg.set /\ reader[p].pc \in InRead
               \/ pc = "done" /\ (reader[p].on = 0 \/ ~net[reader[p].on].open)
        PROVE  Readers' /\ ReadLeavesClosed'
    BY <1>0, <1>1, <2>1, <2>2, ReadersKeep DEF Before, InRead
  <2>3. CASE Entry(p)
    <3>1. CASE To(p, "done")
      BY <1>1, <2>2, <2>3, <3>1 DEF Entry, Before
    <3>2. CASE reader' = [reader EXCEPT ![p] = [pc |-> "deadline", on |-> conn]] /\ running' = running
      <4>0. reader \in [Conns -> [pc : Stages, on : 0 .. MaxConns]] /\ p <= conn /\ conn # 0
        <5>1. reader \in [Conns -> [pc : Stages, on : 0 .. MaxConns]] /\ conn \in 0 .. MaxConns
          BY DEF LCInv, TypeOK
        <5>2. p <= conn
          BY <1>0, <1>1 DEF LCInv, Readers
        <5>3. QED BY <5>1, <5>2, Constants DEF Conns
      <4>1. /\ reader'[p].pc = "deadline" /\ reader'[p].on = conn
            /\ \A q \in Conns \ {p} : reader'[q] = reader[q]
        BY <3>2, <4>0
      <4>2. \A q \in Conns : reader[q].on # 0 => reader[q].on \in 1 .. conn
        BY <4>0, Constants DEF LCInv, Readers
      <4>3. ReadLeavesClosed'
        BY <2>1, <4>1, <4>2 DEF LCInv, ReadLeavesClosed
      <4>4. ASSUME NEW q \in Conns
            PROVE  /\ reader'[q].pc # "none" \/ running'[q] > 0 => q <= conn
                   /\ reader'[q].pc \in Before => reader'[q].on = 0
                   /\ reader'[q].pc \in InRead => reader'[q].on # 0
                   /\ reader'[q].on <= conn
                   /\ reader'[q].pc = "ending" => wg'.set \/ ~net'[reader'[q].on].open
        <5>1. CASE q = p
          BY <1>1, <3>2, <4>0, <4>1, <5>1 DEF Before
        <5>2. CASE q # p
          BY <1>0, <2>1, <3>2, <4>1, <4>2, <5>2 DEF LCInv, Readers, InRead
        <5>3. QED BY <5>1, <5>2
      <4>5. QED BY <1>0, <4>3, <4>4 DEF Readers
    <3>3. QED BY <2>3, <3>1, <3>2 DEF Entry
  <2>4. CASE reader[p].pc = "ending" /\ To(p, "done") /\ ~wg.set
    BY <2>2, <2>4 DEF LCInv, Readers
  <2>5. QED BY <1>3, <2>2, <2>3, <2>4 DEF Goes, InRead
<1>4. QED BY <1>2, <1>3, ReaderEffect DEF LCInv

\* Where the Sock stays open, whoever reads goes on to set the deadline again.
LEMMA ReaderTimed ==
  ASSUME LCInv, NEW p \in Conns, ReaderStep(p) \/ Accept(p)
  PROVE  Attended' /\ Timed'
<1>0. /\ reader[p].pc # "none" /\ conn' = conn /\ (wg.set => wg'.set)
      /\ reader[p].pc \in InRead => reader[p].on \in 1 .. conn
      /\ net \in [1 .. conn -> Connection] /\ conn \in 1 .. conn
      /\ reader \in [Conns -> [pc : Stages, on : 0 .. MaxConns]]
  BY ReaderGoes, ReaderIs DEF LCInv, TypeOK
<1>1. CASE Closes(p)
  BY <1>0, <1>1, ClosingStep
<1>2. CASE wg.set
  BY <1>0, <1>2 DEF Attended, Timed, Watched
<1>3. CASE (Greet(p) \/ Version(p) \/ Accept(p) \/ Entry(p) \/ Ending(p)) /\ LeavesOpen /\ ~wg.set
  <2>1. wg' = wg /\ Untimed(p) /\ \A q \in Conns \ {p} : reader'[q] = reader[q]
    BY <1>0, <1>3 DEF Greet, Version, Accept, Entry, Ending, To, Untimed, Before
  <2>2. ASSUME NEW c \in 1 .. conn PROVE Follows(c)
    <3>1. /\ net'[c].open = net[c].open /\ net'[c].silence = net[c].silence
      BY <1>3 DEF LeavesOpen, Quiet
    <3>2. CASE net' = net
      BY <3>2 DEF Follows
    <3>3. CASE net' = [net EXCEPT ![conn] = [net[conn] EXCEPT !.version = "read"]]
      <4>1. /\ [net[conn] EXCEPT !.version = "read"].readDl = net[conn].readDl
            /\ [net[conn] EXCEPT !.version = "read"].in = net[conn].in
        BY <1>0 DEF Connection
      <4>2. net'[c].readDl = net[c].readDl /\ net'[c].in = net[c].in
        BY <1>0, <3>3, <4>1
      <4>3. QED BY <3>1, <4>2 DEF Follows
    <3>4. CASE net' = [net EXCEPT ![conn].open = FALSE]
      <4>1. /\ [net[conn] EXCEPT !.open = FALSE].readDl = net[conn].readDl
            /\ [net[conn] EXCEPT !.open = FALSE].in = net[conn].in
        BY <1>0 DEF Connection
      <4>2. net'[c].readDl = net[c].readDl /\ net'[c].in = net[c].in
        BY <1>0, <3>4, <4>1
      <4>3. QED BY <3>1, <4>2 DEF Follows
    <3>5. QED
      BY <1>3, <3>2, <3>3, <3>4 DEF Greet, Version, Accept, Entry, Ending, CloseSock
  <2>3. QED BY <1>0, <2>1, <2>2, TimedKeeps
<1>4. CASE Deadline(p) /\ LeavesOpen /\ ~wg.set
  <2>a. PICK c \in 1 .. conn : c = reader[p].on
    BY <1>0, <1>4 DEF Deadline, InRead
  <2>0. c \in 1 .. conn /\ c = reader[p].on /\ reader[p].pc = "deadline" /\ wg' = wg
    BY <1>4, <2>a DEF Deadline
  <2>1. CASE ~net[c].open /\ CloseSock(net, closeCode, p)
    BY <1>0, <1>1, <2>1, ClosesNow DEF LCInv
  <2>2. CASE To(p, "read")
    <3>1. /\ reader'[p].pc = "read" /\ reader'[p].on = c
          /\ \A q \in Conns \ {p} : reader'[q] = reader[q]
      BY <1>0, <2>0, <2>2 DEF To
    <3>2. \A q \in Conns : \A d \in 1 .. conn : Reads(q, d) => Reads(q, d)'
      BY <2>0, <3>1 DEF Reads
    <3>3. CASE ReadTimeout = 0 /\ net' = net
      <4>1. Attended'
        BY <1>0, <2>0, <3>2, <3>3 DEF LCInv, Attended, Watched
      <4>2. ASSUME NEW d \in 1 .. conn, Watched(d)'
            PROVE  net'[d].readDl + net'[d].silence >= ReadTimeout
        <5>1. net[d].readDl \in None .. MaxTime /\ net[d].silence \in 0 .. MaxTime
          BY <1>0, Fields
        <5>2. QED BY <3>3, <4>2, <5>1, Constants DEF Watched
      <4>3. QED BY <1>0, <4>1, <4>2 DEF Timed
    <3>4. CASE ReadTimeout > 0 /\ net' = [net EXCEPT ![c].readDl = ReadTimeout]
      <4>1. /\ net'[c].readDl = ReadTimeout /\ net'[c].silence \in Nat
            /\ \A d \in (1 .. conn) \ {c} : net'[d] = net[d]
        <5>1. /\ [net[c] EXCEPT !.readDl = ReadTimeout].readDl = ReadTimeout
              /\ [net[c] EXCEPT !.readDl = ReadTimeout].silence = net[c].silence
          BY <1>0, <2>0 DEF Connection
        <5>2. net[c].silence \in Nat
          BY <1>0, <2>0, Fields, Constants
        <5>3. QED BY <1>0, <2>0, <3>4, <5>1, <5>2
      <4>2. ASSUME NEW d \in 1 .. conn, Watched(d)', d # c PROVE Watched(d) /\ net'[d] = net[d]
        BY <2>0, <4>1, <4>2 DEF Watched
      <4>3. Reads(p, c)'
        BY <3>1 DEF Reads
      <4>4. Attended'
        <5>1. ASSUME NEW d \in 1 .. conn, Watched(d)' PROVE \E q \in Conns : Reads(q, d)'
          <6>1. CASE d = c
            BY <4>3, <6>1
          <6>2. CASE d # c
            BY <3>2, <4>2, <5>1, <6>2 DEF LCInv, Attended
          <6>3. QED BY <6>1, <6>2
        <5>2. QED BY <1>0, <5>1 DEF Attended
      <4>5. \A q \in Conns : \A d \in (1 .. conn) \ {c} : Resets(q, d) => Resets(q, d)'
        BY <2>0, <3>1, <4>1 DEF Resets, Reads
      <4>6. net'[c].readDl + net'[c].silence >= ReadTimeout
        BY <4>1, Constants
      <4>7. ASSUME NEW d \in 1 .. conn, Watched(d)'
            PROVE  \/ net'[d].readDl + net'[d].silence >= ReadTimeout
                   \/ net'[d].readDl > 0 /\ \E q \in Conns : Resets(q, d)'
        <5>1. CASE d = c
          BY <4>6, <5>1
        <5>2. CASE d # c
          BY <4>2, <4>5, <4>7, <5>2 DEF LCInv, Timed
        <5>3. QED BY <5>1, <5>2
      <4>8. QED BY <1>0, <4>4, <4>7 DEF Timed
    <3>5. ~To(p, "done")
      BY <1>0, <3>1 DEF To
    <3>6. QED BY <1>4, <2>0, <3>3, <3>4, <3>5 DEF Deadline
  <2>3. QED BY <1>4, <2>0, <2>1, <2>2 DEF Deadline
<1>5. CASE ReadMessage(p) /\ LeavesOpen /\ Goes(p) /\ ~wg.set
  <2>a. PICK c \in 1 .. conn : c = reader[p].on
    BY <1>0, <1>5 DEF ReadMessage, InRead
  <2>0. /\ c \in 1 .. conn /\ c = reader[p].on /\ wg' = wg /\ net[c].readDl # 0
        /\ reader[p].pc = "read"
    BY <1>5, <2>a DEF ReadMessage, HasMsg, Expired
  <2>1. To(p, "deadline")
    BY <1>5, <2>0 DEF Goes, Before, Entry
  <2>2. /\ reader'[p].pc = "deadline" /\ reader'[p].on = c
        /\ \A q \in Conns \ {p} : reader'[q] = reader[q]
    BY <1>0, <2>0, <2>1 DEF To
  <2>3. net' = [net EXCEPT ![c] = [net[c] EXCEPT !.in = <<>>]]
    <3>1. ~To(p, "ending")
      BY <1>0, <2>2 DEF To
    <3>2. QED BY <1>5, <2>0, <3>1 DEF ReadMessage
  <2>4. /\ [net[c] EXCEPT !.in = <<>>].readDl = net[c].readDl
        /\ [net[c] EXCEPT !.in = <<>>].open = net[c].open
    BY <1>0, <2>0 DEF Connection
  <2>5. \A d \in 1 .. conn : Watched(d)' => Watched(d) /\ net'[d].readDl = net[d].readDl
    BY <1>0, <2>0, <2>3, <2>4 DEF Watched
  <2>6. \A q \in Conns : \A d \in 1 .. conn : Reads(q, d) => Reads(q, d)'
    BY <2>0, <2>2 DEF Reads
  <2>7. Attended'
    BY <1>0, <2>5, <2>6 DEF LCInv, Attended
  <2>8. ASSUME NEW d \in 1 .. conn, Watched(d)'
        PROVE  \/ net'[d].readDl + net'[d].silence >= ReadTimeout
               \/ net'[d].readDl > 0 /\ \E q \in Conns : Resets(q, d)'
    <3>1. CASE d = c
      <4>1. Resets(p, c)'
        BY <2>2 DEF Resets, Reads
      <4>2. net'[c].readDl > 0
        <5>1. net[c].readDl \in None .. MaxTime /\ net[c].readDl # None /\ net'[c].readDl = net[c].readDl
          BY <1>0, <2>0, <2>5, <2>8, <3>1, Fields DEF Watched
        <5>2. net[c].readDl \in Nat
          BY <5>1, Constants
        <5>3. QED BY <2>0, <5>1, <5>2
      <4>3. QED BY <3>1, <4>1, <4>2
    <3>2. CASE d # c
      <4>1. net'[d] = net[d]
        BY <1>0, <2>0, <2>3, <3>2
      <4>2. \A q \in Conns : Resets(q, d) => Resets(q, d)'
        BY <2>0, <2>2, <3>2, <4>1 DEF Resets, Reads
      <4>3. QED BY <2>5, <2>8, <4>1, <4>2 DEF LCInv, Timed
    <3>3. QED BY <3>1, <3>2
  <2>9. QED BY <1>0, <2>7, <2>8 DEF Timed
<1>6. CASE (ReadTimesOut(p) \/ ReadBreaks(p)) /\ Goes(p) /\ ~wg.set
  <2>1. reader[p].pc = "read" /\ To(p, "ending")
    BY <1>6 DEF ReadTimesOut, ReadBreaks
  <2>2. To(p, "deadline")
    BY <1>6, <2>1 DEF Goes, Before, Entry
  <2>3. QED BY <1>0, <2>1, <2>2 DEF To
<1>7. QED
  BY <1>1, <1>2, <1>3, <1>4, <1>5, <1>6, ReaderEffect DEF LCInv, ReaderStep

\* All of it.
LEMMA ReaderKeeps ==
  ASSUME LCInv, NEW p \in Conns, ReaderStep(p) \/ Accept(p)
  PROVE  LCInv'
<1>1. TypeOK'
  BY ReaderTypeOK DEF LCInv
<1>2. Readers' /\ ReadLeavesClosed'
  BY ReaderReaders
<1>3. Attended' /\ Timed'
  BY ReaderTimed
<1>4. reader[p].pc # "none" /\ conn' = conn
  BY ReaderGoes
<1>5. OneOpen' /\ NoTimeoutYet' /\ TimeoutMeansSilence'
  <2>1. CASE Closes(p)
    BY <1>4, <2>1, ClosingStep
  <2>2. CASE LeavesOpen
    BY <1>4, <2>2, OpenKeeps DEF LeavesOpen, Quiet
  <2>3. QED BY <2>1, <2>2, ReaderEffect DEF LCInv
<1>6. QED BY <1>1, <1>2, <1>3, <1>5 DEF LCInv

\* A handler answers, or closes as it cannot; the application closes.
LEMMA ClosedByKeeps ==
  ASSUME LCInv, conn \in Conns, NEW by \in App .. MaxConns, CloseSock(net, closeCode, by),
         UNCHANGED <<conn, reader, beat, wg, strayed, sends>>, running' \in [Conns -> Nat],
         \A q \in Conns : running'[q] > 0 => running[q] > 0
  PROVE  LCInv'
<1>0. /\ net \in [1 .. conn -> Connection] /\ closeCode \in 0 .. 4 /\ Quiet(net)
      /\ closex = 0 => closeCode # Timeout + 1
  BY Constants DEF LCInv, TypeOK, Quiet, NoTimeoutYet
<1>1. /\ \A c \in 1 .. conn : ~net'[c].open
      /\ OneOpen' /\ Attended' /\ Timed' /\ NoTimeoutYet' /\ TimeoutMeansSilence'
  BY <1>0, ClosingKeeps
<1>2. TypeOK'
  <2>1. /\ closex' = 1 /\ closeCode' \in 0 .. 4 /\ net' \in [1 .. conn -> Connection]
        /\ closed' \in Seq(Closings)
    BY <1>0, CloseSockType DEF LCInv
  <2>2. QED BY <2>1 DEF LCInv, TypeOK, Closings
<1>3. Readers' /\ ReadLeavesClosed'
  BY <1>1, ReadersStay
<1>4. QED BY <1>1, <1>2, <1>3 DEF LCInv

LEMMA HandlerKeeps == ASSUME LCInv, NEW c \in Conns, HandlerEnds(c) PROVE LCInv'
<1>0. /\ running \in [Conns -> Nat] /\ conn \in 0 .. MaxConns
      /\ running[c] > 0 /\ running' = [running EXCEPT ![c] = @ - 1]
  BY DEF LCInv, TypeOK, HandlerEnds
<1>1. running' \in [Conns -> Nat] /\ \A q \in Conns : running'[q] > 0 => running[q] > 0
  BY <1>0
<1>2. conn \in Conns /\ c \in App .. MaxConns
  BY <1>0, Constants DEF LCInv, Readers, Conns
<1>3. CASE CloseSock(net, closeCode, c) /\ UNCHANGED strayed
  BY <1>1, <1>2, <1>3, ClosedByKeeps DEF HandlerEnds
<1>4. CASE UNCHANGED net /\ StaysOpen
  <2>1. LeavesOpen /\ \A d \in 1 .. conn : Follows(d)
    BY <1>4 DEF LeavesOpen, Quiet, StaysOpen, LCInv, TypeOK, Follows
  <2>2. OneOpen' /\ NoTimeoutYet' /\ TimeoutMeansSilence'
    BY <2>1, OpenKeeps DEF HandlerEnds, LeavesOpen, Quiet
  <2>3. Attended' /\ Timed'
    BY <2>1, TimedKeeps DEF HandlerEnds
  <2>4. Readers' /\ ReadLeavesClosed'
    BY <1>1, <1>4, ReadersStay DEF HandlerEnds
  <2>5. TypeOK'
    BY <1>1, <1>4 DEF LCInv, TypeOK, HandlerEnds, StaysOpen
  <2>6. QED BY <2>2, <2>3, <2>4, <2>5 DEF LCInv
<1>5. QED BY <1>3, <1>4 DEF HandlerEnds

LEMMA CloseKeeps == ASSUME LCInv, Close PROVE LCInv'
<1>1. conn \in Conns /\ App \in App .. MaxConns
  BY Constants DEF Close, LCInv, TypeOK, Conns
<1>2. running' \in [Conns -> Nat] /\ \A q \in Conns : running'[q] > 0 => running[q] > 0
  BY DEF Close, LCInv, TypeOK
<1>3. QED BY <1>1, <1>2, ClosedByKeeps DEF Close

\* Heartbeats change nothing but their goroutine.
LEMMA BeatKeeps == ASSUME LCInv, NEW p \in Conns, BeatStep(p) PROVE LCInv'
<1>1. UNCHANGED <<conn, closex, closeCode, net, reader, running, wg, closed, strayed, sends>>
  BY DEF BeatStep, SendHeartbeat, AfterInterval
<1>2. beat' \in [Conns -> [pc : {"none", "send", "wait", "done"}, left : 0 .. Heartbeat,
                           stop : BOOLEAN]]
  <2>1. beat \in [Conns -> [pc : {"none", "send", "wait", "done"}, left : 0 .. Heartbeat,
                           stop : BOOLEAN]]
    BY DEF LCInv, TypeOK
  <2>2. Heartbeat \in 0 .. Heartbeat
    BY Constants
  <2>3. QED BY <2>1, <2>2 DEF BeatStep, SendHeartbeat, AfterInterval
<1>3. TypeOK'
  BY <1>1, <1>2 DEF LCInv, TypeOK
<1>4. OneOpen' /\ Readers' /\ NoTimeoutYet' /\ ReadLeavesClosed' /\ TimeoutMeansSilence'
  BY <1>1 DEF LCInv, OneOpen, Readers, NoTimeoutYet, ReadLeavesClosed, TimeoutMeansSilence
<1>5. Attended' /\ Timed'
  BY <1>1 DEF LCInv, Attended, Timed, Watched, Reads, Resets
<1>6. QED BY <1>3, <1>4, <1>5 DEF LCInv

\* After Shutdown no deadline is watched.
LEMMA ShutdownKeeps == ASSUME LCInv, Shutdown PROVE LCInv'
<1>0. /\ conn \in Conns /\ conn \in 1 .. conn /\ net \in [1 .. conn -> Connection]
      /\ wg \in [set : BOOLEAN, count : Int] /\ ShutdownTimeout \in None .. MaxTime
  <2>1. /\ conn \in 0 .. MaxConns /\ net \in [1 .. conn -> Connection]
        /\ wg \in [set : BOOLEAN, count : Int]
    BY DEF LCInv, TypeOK
  <2>2. conn > 0
    BY DEF Shutdown
  <2>3. QED BY <2>1, <2>2, Constants DEF Conns
<1>1. Quiet(net')
  <2>1. CASE net' = net
    BY <1>0, <2>1 DEF Quiet
  <2>2. CASE net' = [net EXCEPT ![conn].readDl = ShutdownTimeout, ![conn].writeDl = ShutdownTimeout]
    <3>1. net' = [net EXCEPT ![conn] = [[net[conn] EXCEPT !.readDl = ShutdownTimeout]
                                                   EXCEPT !.writeDl = ShutdownTimeout]]
      BY <2>2, <1>0
    <3>2. PICK x \in Connection : x = [net[conn] EXCEPT !.readDl = ShutdownTimeout]
      BY <1>0, FieldsSet
    <3>3. [x EXCEPT !.writeDl = ShutdownTimeout] \in Connection
      BY <1>0, FieldsSet
    <3>4. x.open = net[conn].open /\ x.silence = net[conn].silence
      BY <1>0, <3>2 DEF Connection
    <3>5. /\ [x EXCEPT !.writeDl = ShutdownTimeout].open = net[conn].open
          /\ [x EXCEPT !.writeDl = ShutdownTimeout].silence = net[conn].silence
      BY <3>4 DEF Connection
    <3>6. QED BY <1>0, <3>1, <3>2, <3>3, <3>5 DEF Quiet
  <2>3. QED BY <2>1, <2>2 DEF Shutdown
<1>2. LeavesOpen /\ wg'.set
  BY <1>1 DEF LeavesOpen, Shutdown
<1>3. OneOpen' /\ NoTimeoutYet' /\ TimeoutMeansSilence'
  BY <1>2, OpenKeeps DEF Shutdown, LeavesOpen, Quiet
<1>4. Attended' /\ Timed'
  BY <1>2 DEF Attended, Timed, Watched
<1>5. Readers' /\ ReadLeavesClosed'
  <2>1. \A c \in 1 .. conn : net'[c].open => net[c].open
    BY <1>1 DEF Quiet
  <2>2. QED BY <1>2, <2>1, ReadersStay DEF Shutdown
<1>6. TypeOK'
  <2>1. wg' \in [set : BOOLEAN, count : Int]
    BY <1>0 DEF Shutdown
  <2>2. QED BY <1>1, <2>1 DEF LCInv, TypeOK, Shutdown, Quiet
<1>7. QED BY <1>3, <1>4, <1>5, <1>6 DEF LCInv

\* The peer greets, sends or leaves: what ends the silence waits to be read, or is late.
LEMMA PeerChanges ==
  ASSUME TypeOK, NEW c \in 1 .. conn, NEW x \in Connection, net' = [net EXCEPT ![c] = x],
         x.open = net[c].open, x.readDl = net[c].readDl, net[c].in # <<>> => x.in # <<>>,
         \/ x.silence = net[c].silence
         \/ net[c].open /\ net[c].readDl # 0 /\ x.in # <<>>
  PROVE  /\ net' \in [1 .. conn -> Connection] /\ \A d \in 1 .. conn : Follows(d)
         /\ \A d \in 1 .. conn : ~net[d].open => net'[d].silence = net[d].silence
<1>1. net \in [1 .. conn -> Connection]
  BY DEF TypeOK
<1>2. QED BY <1>1 DEF Follows

LEMMA PeerEffect ==
  ASSUME TypeOK, PeerStep
  PROVE  /\ net' \in [1 .. conn -> Connection] /\ \A d \in 1 .. conn : Follows(d)
         /\ \A d \in 1 .. conn : ~net[d].open => net'[d].silence = net[d].silence
         /\ UNCHANGED <<conn, closex, closeCode, reader, beat, running, wg, closed, strayed>>
         /\ sends' \in 0 .. MaxSends
<1>0. /\ net \in [1 .. conn -> Connection] /\ sends \in 0 .. MaxSends
      /\ PeerHeartbeat \in 0 .. PeerHeartbeat /\ 0 \in 0 .. MaxTime
  BY Constants DEF TypeOK
<1>1. sends' \in 0 .. MaxSends
  <2>1. sends' = sends \/ (sends < MaxSends /\ sends' = sends + 1)
    BY DEF PeerStep, PeerGreets, PeerSends, PeerBeats, PeerLeaves
  <2>2. QED BY <1>0, <2>1, Constants
<1>2. UNCHANGED <<conn, closex, closeCode, reader, beat, running, wg, closed, strayed>>
  BY DEF PeerStep, PeerGreets, PeerSends, PeerBeats, PeerLeaves, Peer
<1>3. CASE PeerGreets
  <2>1. PICK c \in 1 .. conn, v \in {"ours", "other"} : net' = [net EXCEPT ![c].version = v]
    BY <1>0, <1>3 DEF PeerGreets, Peer
  <2>2. PICK x \in Connection : x = [net[c] EXCEPT !.version = v]
    BY <1>0, FieldsSet
  <2>3. /\ x.open = net[c].open /\ x.readDl = net[c].readDl
        /\ x.in = net[c].in /\ x.silence = net[c].silence
    BY <1>0, <2>2 DEF Connection
  <2>4. net' = [net EXCEPT ![c] = x]
    BY <2>1, <2>2
  <2>5. QED BY <1>1, <1>2, <2>3, <2>4, PeerChanges
<1>4. CASE PeerLeaves
  <2>1. PICK c \in 1 .. conn : net' = [net EXCEPT ![c].gone = TRUE]
    BY <1>0, <1>4 DEF PeerLeaves, Peer
  <2>2. PICK x \in Connection : x = [net[c] EXCEPT !.gone = TRUE]
    BY <1>0, FieldsSet
  <2>3. /\ x.open = net[c].open /\ x.readDl = net[c].readDl
        /\ x.in = net[c].in /\ x.silence = net[c].silence
    BY <1>0, <2>2 DEF Connection
  <2>4. net' = [net EXCEPT ![c] = x]
    BY <2>1, <2>2
  <2>5. QED BY <1>1, <1>2, <2>3, <2>4, PeerChanges
<1>5. ASSUME NEW c \in 1 .. conn, NEW m \in Kinds, Greeted(c)
      PROVE  \E x \in Connection :
               /\ Arrives(c, m) = [net EXCEPT ![c] = x]
               /\ x.open = net[c].open /\ x.readDl = net[c].readDl /\ x.in # <<>>
               /\ x.silence = net[c].silence \/ net[c].readDl # 0
  <2>1. PICK i \in {<<k>> : k \in Kinds} : i = IF net[c].in = <<>> THEN <<m>> ELSE net[c].in
    BY <1>0, Fields
  <2>2. PICK t \in 0 .. MaxTime : t = IF net[c].readDl = 0 THEN net[c].silence ELSE 0
    BY <1>0, Fields
  <2>3. PICK x : x = [[net[c] EXCEPT !.in = i] EXCEPT !.silence = t]
    OBVIOUS
  <2>4. /\ x \in Connection
        /\ x.open = net[c].open /\ x.readDl = net[c].readDl /\ x.in = i /\ x.silence = t
    BY <1>0, <2>1, <2>3 DEF Connection
  <2>5. Arrives(c, m) = [net EXCEPT ![c] = x]
    <3>1. PICK y : y = [net[c] EXCEPT !.in = i]
      OBVIOUS
    <3>2. y.silence = net[c].silence /\ x = [y EXCEPT !.silence = t]
      BY <1>0, <2>3, <3>1 DEF Connection
    <3>3. [net EXCEPT ![c].in = IF @ = <<>> THEN <<m>> ELSE @] = [net EXCEPT ![c] = y]
      BY <1>0, <2>1, <3>1
    <3>4. Arrives(c, m) = [[net EXCEPT ![c] = y] EXCEPT ![c].silence =
                              IF net[c].readDl = 0 THEN @ ELSE 0]
      <4>1. Arrives(c, m) = [[net EXCEPT ![c].in = IF @ = <<>> THEN <<m>> ELSE @]
                               EXCEPT ![c].silence = IF net[c].readDl = 0 THEN @ ELSE 0]
        BY <1>0, SetBoth DEF Arrives
      <4>2. QED BY <3>3, <4>1
    <3>5. [net EXCEPT ![c] = y][c] = y
      BY <1>0
    <3>6. Arrives(c, m) = [[net EXCEPT ![c] = y] EXCEPT ![c] = x]
      BY <2>2, <3>2, <3>4, <3>5
    <3>7. y \in Connection
      BY <1>0, <2>1, <3>1 DEF Connection
    <3>8. QED BY <1>0, <2>4, <3>6, <3>7, SetTwice
  <2>6. x.in # <<>>
    BY <2>1, <2>4
  <2>7. x.silence = net[c].silence \/ net[c].readDl # 0
    BY <2>2, <2>4
  <2>8. QED BY <2>4, <2>5, <2>6, <2>7
<1>6. CASE PeerSends
  <2>1. PICK c \in 1 .. conn, m \in Kinds : Greeted(c) /\ net' = Arrives(c, m)
    BY <1>0, <1>6 DEF PeerSends, Peer, Kinds
  <2>2. PICK x \in Connection :
               /\ Arrives(c, m) = [net EXCEPT ![c] = x]
               /\ x.open = net[c].open /\ x.readDl = net[c].readDl /\ x.in # <<>>
               /\ x.silence = net[c].silence \/ net[c].readDl # 0
    BY <1>5, <2>1
  <2>3. QED BY <1>1, <1>2, <2>1, <2>2, PeerChanges DEF Greeted
<1>7. CASE PeerBeats
  <2>1. PICK c \in 1 .. conn :
          Greeted(c) /\ net' = [Arrives(c, "other") EXCEPT ![c].peerBeat = PeerHeartbeat]
    BY <1>0, <1>7 DEF PeerBeats, Peer
  <2>2. PICK x \in Connection :
               /\ Arrives(c, "other") = [net EXCEPT ![c] = x]
               /\ x.open = net[c].open /\ x.readDl = net[c].readDl /\ x.in # <<>>
               /\ x.silence = net[c].silence \/ net[c].readDl # 0
    BY <1>5, <2>1 DEF Kinds
  <2>3. PICK y \in Connection : y = [x EXCEPT !.peerBeat = PeerHeartbeat]
    BY <1>0, FieldsSet
  <2>4. y.open = x.open /\ y.readDl = x.readDl /\ y.in = x.in /\ y.silence = x.silence
    BY <2>3 DEF Connection
  <2>5. net' = [net EXCEPT ![c] = y]
    <3>1. net' = [[net EXCEPT ![c] = x] EXCEPT ![c].peerBeat = PeerHeartbeat]
      BY <2>1, <2>2
    <3>2. [net EXCEPT ![c] = x][c] = x
      BY <1>0
    <3>3. net' = [[net EXCEPT ![c] = x] EXCEPT ![c] = y]
      BY <2>3, <3>1, <3>2
    <3>4. QED BY <1>0, <2>2, <2>3, <3>3, SetTwice
  <2>6. /\ y.open = net[c].open /\ y.readDl = net[c].readDl /\ y.in # <<>>
        /\ \/ y.silence = net[c].silence
           \/ net[c].open /\ net[c].readDl # 0 /\ y.in # <<>>
    <3>1. net[c].open
      BY <2>1 DEF Greeted
    <3>2. y.open = net[c].open /\ y.readDl = net[c].readDl /\ y.in # <<>>
      BY <2>2, <2>4
    <3>3. y.silence = net[c].silence \/ net[c].readDl # 0
      BY <2>2, <2>4
    <3>4. QED BY <3>1, <3>2, <3>3
  <2>7. /\ net' \in [1 .. conn -> Connection] /\ \A d \in 1 .. conn : Follows(d)
        /\ \A d \in 1 .. conn : ~net[d].open => net'[d].silence = net[d].silence
    BY <2>5, <2>6, PeerChanges
  <2>8. QED BY <1>1, <1>2, <2>7
<1>8. QED BY <1>3, <1>4, <1>6, <1>7 DEF PeerStep

LEMMA PeerKeeps == ASSUME LCInv, PeerStep PROVE LCInv'
<1>1. /\ net' \in [1 .. conn -> Connection] /\ \A d \in 1 .. conn : Follows(d)
      /\ \A d \in 1 .. conn : ~net[d].open => net'[d].silence = net[d].silence
      /\ UNCHANGED <<conn, closex, closeCode, reader, beat, running, wg, closed, strayed>>
      /\ sends' \in 0 .. MaxSends
  BY PeerEffect DEF LCInv
<1>2. TypeOK'
  BY <1>1 DEF LCInv, TypeOK
<1>3. \A c \in 1 .. conn : net'[c].open = net[c].open
  BY <1>1 DEF Follows
<1>4. OneOpen' /\ NoTimeoutYet' /\ TimeoutMeansSilence'
  BY <1>1, <1>3, OpenKeeps
<1>5. Attended' /\ Timed'
  BY <1>1, TimedKeeps
<1>6. Readers' /\ ReadLeavesClosed'
  BY <1>1, <1>3, ReadersStay
<1>7. QED BY <1>2, <1>4, <1>5, <1>6 DEF LCInv

\* Time passes: as much as comes off the deadline is added to the silence, and nobody
\* who could take a message or set the deadline lets it pass.
LEMMA TickEffect ==
  ASSUME TypeOK, Tick, NEW c \in 1 .. conn
  PROVE  /\ net'[c] \in Connection /\ net'[c].open = net[c].open
         /\ ~net[c].open => net'[c] = net[c]
         /\ net[c].open => /\ net'[c].in = net[c].in /\ net'[c].readDl = Less(net[c].readDl)
                           /\ net'[c].silence = IF net[c].silence < MaxTime
                                                THEN net[c].silence + 1 ELSE net[c].silence
<1>1. net[c] \in Connection
  BY DEF TypeOK
<1>2. CASE ~net[c].open
  BY <1>1, <1>2 DEF Tick, TypeOK
<1>3. CASE net[c].open
  <2> DEFINE x == net[c]
             r == Less(x.readDl)  w == Less(x.writeDl)
             b == IF Greeted(c) /\ ~x.gone THEN Less(x.peerBeat) ELSE x.peerBeat
             s == IF x.silence < MaxTime THEN x.silence + 1 ELSE x.silence
  <2>1. r \in None .. MaxTime /\ w \in None .. MaxTime
    <3>1. x.readDl \in None .. MaxTime /\ x.writeDl \in None .. MaxTime
      BY <1>1, Fields
    <3>2. \A t \in None .. MaxTime : Less(t) \in None .. MaxTime
      BY Constants DEF Less
    <3>3. QED BY <3>1, <3>2
  <2>2. b \in 0 .. PeerHeartbeat /\ s \in 0 .. MaxTime
    <3>1. x.peerBeat \in 0 .. PeerHeartbeat /\ x.silence \in 0 .. MaxTime
      BY <1>1, Fields
    <3>2. \A t \in 0 .. PeerHeartbeat : Less(t) \in 0 .. PeerHeartbeat
      BY Constants DEF Less
    <3>3. QED BY <3>1, <3>2, Constants
  <2>3. net'[c] = [x EXCEPT !.readDl = r, !.writeDl = w, !.peerBeat = b, !.silence = s]
    <3>1. DOMAIN net = 1 .. conn
      BY DEF TypeOK
    <3>2. QED BY <1>3, <3>1 DEF Tick
  <2> HIDE DEF r, w, b, s
  <2>4. /\ net'[c] \in Connection /\ net'[c].open = x.open /\ net'[c].in = x.in
        /\ net'[c].readDl = r /\ net'[c].silence = s
    BY <1>1, <2>1, <2>2, <2>3 DEF Connection
  <2>5. QED BY <1>3, <2>4 DEF r, s
<1>4. QED BY <1>2, <1>3

LEMMA TickKeeps == ASSUME LCInv, Tick PROVE LCInv'
<1>0. /\ UNCHANGED <<conn, closex, closeCode, reader, running, wg, closed, strayed, sends>>
      /\ net \in [1 .. conn -> Connection]
  BY DEF Tick, LCInv, TypeOK
<1>1. /\ \A c \in 1 .. conn : net'[c] \in Connection /\ net'[c].open = net[c].open
      /\ \A c \in 1 .. conn : ~net[c].open => net'[c].silence = net[c].silence
  BY TickEffect DEF LCInv
<1>2. TypeOK'
  <2>1. net' \in [1 .. conn -> Connection]
    BY <1>0, <1>1 DEF Tick
  <2>2. beat' \in [Conns -> [pc : {"none", "send", "wait", "done"}, left : 0 .. Heartbeat,
                             stop : BOOLEAN]]
    <3>1. beat \in [Conns -> [pc : {"none", "send", "wait", "done"}, left : 0 .. Heartbeat,
                             stop : BOOLEAN]]
      BY DEF LCInv, TypeOK
    <3>2. \A t \in 0 .. Heartbeat : Less(t) \in 0 .. Heartbeat
      BY Constants DEF Less
    <3>3. QED BY <3>1, <3>2 DEF Tick
  <2>3. QED BY <1>0, <2>1, <2>2 DEF LCInv, TypeOK
<1>3. OneOpen' /\ NoTimeoutYet' /\ TimeoutMeansSilence'
  BY <1>0, <1>1, OpenKeeps
<1>4. Readers' /\ ReadLeavesClosed'
  BY <1>0, <1>1, ReadersStay
<1>5. ASSUME NEW c \in 1 .. conn, Watched(c)'
      PROVE  /\ \E p \in Conns : Reads(p, c)'
             /\ net'[c].readDl + net'[c].silence >= ReadTimeout
  <2>1. /\ net[c].readDl \in None .. MaxTime /\ net[c].silence \in 0 .. MaxTime
    BY <1>0, Fields
  <2>2. /\ net[c].open /\ ~wg.set /\ net'[c].readDl = Less(net[c].readDl)
        /\ net'[c].silence = IF net[c].silence < MaxTime THEN net[c].silence + 1
                             ELSE net[c].silence
    BY <1>0, <1>1, <1>5, TickEffect DEF LCInv, Watched
  <2>3. Watched(c) /\ net[c].readDl \in Nat
    BY <1>5, <2>1, <2>2, Constants DEF Watched, Less
  <2>4. \A p \in Conns : Reads(p, c) => Reads(p, c)'
    BY <1>0 DEF Reads
  <2>5. ASSUME NEW p \in Conns, Resets(p, c), net[c].readDl > 0 PROVE FALSE
    <3>1. ~Busy(p)
      BY DEF Tick
    <3>2. reader[p].pc = "read" /\ reader[p].on = c /\ net[c].in # <<>>
      BY <2>5, <3>1 DEF Busy, Resets, Reads
    <3>3. CanRead(c)
      BY <2>2, <2>5, <3>2 DEF CanRead, HasMsg, Expired
    <3>4. QED BY <3>1, <3>2, <3>3 DEF Busy
  <2>6. net[c].readDl + net[c].silence >= ReadTimeout
    BY <2>3, <2>5 DEF LCInv, Timed
  <2>7. net'[c].readDl + net'[c].silence >= ReadTimeout
    BY <2>1, <2>2, <2>3, <2>6, Constants DEF Less
  <2>8. QED BY <2>3, <2>4, <2>7 DEF LCInv, Attended
<1>6. Attended' /\ Timed'
  BY <1>0, <1>5 DEF Attended, Timed
<1>7. QED BY <1>2, <1>3, <1>4, <1>6 DEF LCInv

\* A connection is adopted when the one before it was closed; nothing is late on it.
LEMMA AdoptKeeps == ASSUME LCInv, Adopt PROVE LCInv'
<1>0. /\ net \in [1 .. conn -> Connection] /\ conn \in 0 .. MaxConns /\ conn < MaxConns
      /\ reader \in [Conns -> [pc : Stages, on : 0 .. MaxConns]]
      /\ UNCHANGED <<beat, running, wg, closed, strayed, sends>>
      /\ closex' = 0 /\ closeCode' = 0 /\ conn' = conn + 1 /\ conn + 1 \in Conns
  <2>1. /\ net \in [1 .. conn -> Connection] /\ conn \in 0 .. MaxConns
        /\ reader \in [Conns -> [pc : Stages, on : 0 .. MaxConns]]
    BY DEF LCInv, TypeOK
  <2>2. /\ conn < MaxConns /\ closex' = 0 /\ closeCode' = 0 /\ conn' = conn + 1
        /\ UNCHANGED <<beat, running, wg, closed, strayed, sends>>
    BY DEF Adopt
  <2>3. conn + 1 \in Conns
    BY <2>1, <2>2, Constants DEF Conns
  <2>4. QED BY <2>1, <2>2, <2>3
<1>1. /\ net' \in [1 .. conn + 1 -> Connection] /\ net'[conn + 1] = Fresh
      /\ \A c \in 1 .. conn : net'[c] = net[c] /\ ~net[c].open
  <2>1. Fresh \in Connection
    BY Constants DEF Fresh, Connection
  <2>2. net \in Seq(Connection) /\ Len(net) = conn
    BY <1>0
  <2>3. net' = Append(net, Fresh)
    BY DEF Adopt
  <2>4. net' \in Seq(Connection) /\ Len(net') = conn + 1 /\ net'[conn + 1] = Fresh
        /\ \A c \in 1 .. conn : net'[c] = net[c]
    BY <2>1, <2>2, <2>3
  <2>5. \A c \in 1 .. conn : ~net[c].open
    BY <1>0 DEF LCInv, OneOpen, Adopt
  <2>6. QED BY <1>0, <2>4, <2>5
<1>2. /\ reader'[conn + 1].pc = "greet" /\ reader'[conn + 1].on = reader[conn + 1].on
      /\ \A q \in Conns \ {conn + 1} : reader'[q] = reader[q]
      /\ reader' \in [Conns -> [pc : Stages, on : 0 .. MaxConns]]
  BY <1>0 DEF Adopt, To, Stages
<1>3. reader[conn + 1].pc = "none" /\ reader[conn + 1].on = 0
  BY <1>0, Constants DEF LCInv, Readers, Before
<1>4. TypeOK'
  <2>1. /\ beat' = beat /\ running' = running /\ wg' = wg /\ closed' = closed
        /\ strayed' = strayed /\ sends' = sends
    BY <1>0
  <2>2. conn' \in 0 .. MaxConns /\ closex' \in {0, 1} /\ closeCode' \in 0 .. 4
    BY <1>0, Constants
  <2>3. net' \in [1 .. conn' -> Connection]
    BY <1>0, <1>1
  <2>4. QED BY <1>2, <2>1, <2>2, <2>3 DEF LCInv, TypeOK
<1>5. ASSUME NEW i \in DOMAIN closed PROVE closed[i].conn \in 1 .. conn
  <2>1. closed \in Seq(Closings)
    BY DEF LCInv, TypeOK, Closings
  <2>2. closed[i] \in Closings
    BY <2>1
  <2>3. QED BY <2>2, Constants DEF LCInv, OneOpen, Closings, Conns
<1>6. OneOpen' /\ TimeoutMeansSilence'
  <2>1. \A c \in 1 .. conn + 1 : net'[c].open => c = conn + 1
    BY <1>0, <1>1
  <2>2. \A i \in DOMAIN closed : closed[i].conn <= conn + 1 /\ ~net'[closed[i].conn].open
    BY <1>0, <1>1, <1>5
  <2>3. TimeoutMeansSilence'
    BY <1>0, <1>1, <1>5 DEF LCInv, TimeoutMeansSilence
  <2>4. QED BY <1>0, <2>1, <2>2, <2>3 DEF OneOpen
<1>7. NoTimeoutYet'
  BY <1>0 DEF NoTimeoutYet
<1>8. Attended' /\ Timed'
  <2>1. \A c \in 1 .. conn + 1 : ~Watched(c)'
    <3>1. net'[conn + 1].readDl = None
      BY <1>1 DEF Fresh
    <3>2. \A c \in 1 .. conn : ~net'[c].open
      BY <1>1
    <3>3. QED BY <1>0, <3>1, <3>2 DEF Watched
  <2>2. QED BY <1>0, <2>1 DEF Attended, Timed
<1>9. \A q \in Conns : reader[q].on # 0 => reader[q].on \in 1 .. conn
  BY <1>0, Constants DEF LCInv, Readers
<1>10. Readers'
  <2> SUFFICES ASSUME NEW q \in Conns
               PROVE  /\ reader'[q].pc # "none" \/ running'[q] > 0 => q <= conn + 1
                      /\ reader'[q].pc \in Before => reader'[q].on = 0
                      /\ reader'[q].pc \in InRead => reader'[q].on # 0
                      /\ reader'[q].on <= conn + 1
                      /\ reader'[q].pc = "ending" => wg'.set \/ ~net'[reader'[q].on].open
    BY <1>0 DEF Readers
  <2>1. CASE q = conn + 1
    BY <1>0, <1>2, <1>3, <2>1 DEF InRead
  <2>2. CASE q # conn + 1
    <3>1. reader'[q] = reader[q] /\ running' = running /\ wg' = wg
      BY <1>0, <1>2, <2>2
    <3>2. /\ reader[q].pc # "none" \/ running[q] > 0 => q <= conn
          /\ reader[q].pc \in Before => reader[q].on = 0
          /\ reader[q].pc \in InRead => reader[q].on # 0
          /\ reader[q].on <= conn
          /\ reader[q].pc = "ending" => wg.set \/ ~net[reader[q].on].open
      BY DEF LCInv, Readers
    <3>3. /\ reader[q].on \in 0 .. MaxConns
          /\ q <= conn => q <= conn + 1
      BY <1>0 DEF Conns
    <3>4. reader[q].on <= conn + 1
      BY <1>0, <3>2, <3>3, Constants
    <3>5. reader[q].pc = "ending" => wg'.set \/ ~net'[reader[q].on].open
      BY <1>1, <1>9, <3>1, <3>2 DEF InRead
    <3>6. QED BY <3>1, <3>2, <3>3, <3>4, <3>5
  <2>3. QED BY <2>1, <2>2
<1>11. ReadLeavesClosed'
  <2>1. \A q \in Conns : reader'[q].pc = "done" => reader'[q] = reader[q]
    BY <1>2
  <2>2. QED BY <1>1, <1>9, <2>1 DEF LCInv, ReadLeavesClosed
<1>12. QED BY <1>4, <1>6, <1>7, <1>8, <1>10, <1>11 DEF LCInv

LEMMA NextLCInv == LCInv /\ [Next]_vars => LCInv'
<1> SUFFICES ASSUME LCInv, [Next]_vars PROVE LCInv'
  OBVIOUS
<1>1. CASE UNCHANGED vars
  <2>1. TypeOK' /\ OneOpen' /\ Readers' /\ NoTimeoutYet'
    BY <1>1 DEF vars, LCInv, TypeOK, OneOpen, Readers, NoTimeoutYet
  <2>2. Attended' /\ Timed' /\ ReadLeavesClosed' /\ TimeoutMeansSilence'
    BY <1>1 DEF vars, LCInv, Attended, Timed, Watched, Reads, Resets, ReadLeavesClosed,
       TimeoutMeansSilence
  <2>3. QED BY <2>1, <2>2 DEF LCInv
<1>2. CASE \E p \in Conns : ReaderStep(p) \/ BeatStep(p) \/ Accept(p) \/ HandlerEnds(p)
  BY <1>2, ReaderKeeps, BeatKeeps, HandlerKeeps
<1>3. CASE Adopt \/ Close \/ Shutdown \/ PeerStep \/ Tick
  BY <1>3, AdoptKeeps, CloseKeeps, ShutdownKeeps, PeerKeeps, TickKeeps
<1>4. QED BY <1>1, <1>2, <1>3 DEF Next, Resting

-----------------------------------------------------------------------------
(* The theorems.                                                            *)

\* The invariant holds of a Sock from its first connection to its last.
THEOREM LCInvariance == Spec => []LCInv
BY InitLCInv, NextLCInv, PTL DEF Spec

\* Read: a connection is closed for a timeout only after as much silence, whichever
\* connection of the Sock it is and whichever goroutine of it noticed.
THEOREM TimeoutMeansSilenceAlways == Spec => []TimeoutMeansSilence
<1>1. LCInv => TimeoutMeansSilence
  BY DEF LCInv
<1>2. QED BY <1>1, LCInvariance, PTL

\* Read: whichever way it ends, it leaves the connection it read from closed.
THEOREM ReadLeavesClosedAlways == Spec => []ReadLeavesClosed
<1>1. LCInv => ReadLeavesClosed
  BY DEF LCInv
<1>2. QED BY <1>1, LCInvariance, PTL

\* With one connection, one goroutine ends the loop of Read, once.
LEMMA DoneNotYetKept == ASSUME MaxConns = 1, TypeOK, Readers, DoneNotYet, [Next]_vars PROVE DoneNotYet'
<1>1. /\ Conns = {1} /\ wg \in [set : BOOLEAN, count : Int]
      /\ reader \in [Conns -> [pc : Stages, on : 0 .. MaxConns]]
  BY DEF TypeOK, Conns
<1>2. CASE UNCHANGED wg /\ (reader'[1].pc # "done" => reader[1].pc # "done")
  BY <1>2 DEF DoneNotYet
<1>3. CASE Shutdown
  BY <1>1, <1>3 DEF Shutdown, DoneNotYet
<1>4. CASE Ending(1)
  BY <1>1, <1>4 DEF Ending, To, DoneNotYet
<1>5. CASE \E p \in Conns : ReaderStep(p) \/ Accept(p)
  <2>1. PICK p \in Conns : ReaderStep(p) \/ Accept(p)
    BY <1>5
  <2>2. p = 1
    BY <1>1, <2>1
  <2>3. CASE ~Ending(1)
    <3>1. UNCHANGED wg
      BY <2>1, <2>2, <2>3 DEF ReaderStep, Greet, Version, Entry, Deadline, ReadTimesOut,
         ReadBreaks, ReadMessage, Accept
    <3>2. reader[1].pc # "done"
      BY <2>1, <2>2, <2>3 DEF ReaderStep, Greet, Version, Entry, Deadline, ReadTimesOut,
         ReadBreaks, ReadMessage, Accept
    <3>3. QED BY <1>2, <3>1, <3>2
  <2>4. QED BY <1>4, <2>3
<1>6. CASE Adopt
  <2>1. UNCHANGED wg /\ conn + 1 \in Conns /\ To(conn + 1, "greet") /\ conn = 0
    BY <1>1, <1>6 DEF Adopt, TypeOK
  <2>2. reader[1].pc = "none"
    BY <1>1, <2>1 DEF Readers
  <2>3. QED BY <1>2, <2>1, <2>2
<1>7. CASE \E p \in Conns : BeatStep(p) \/ HandlerEnds(p)
  BY <1>2, <1>7 DEF BeatStep, SendHeartbeat, AfterInterval, HandlerEnds
<1>8. CASE Close \/ PeerStep \/ Tick \/ Resting \/ UNCHANGED vars
  BY <1>2, <1>8 DEF Close, PeerStep, PeerGreets, PeerSends, PeerBeats, PeerLeaves, Peer, Tick,
     Resting, vars
<1>9. QED BY <1>3, <1>5, <1>6, <1>7, <1>8 DEF Next

\* Shutdown: a Sock that has one connection in its life calls wg.Done once at most for
\* the one wg.Add, when timeouts, errors, junk or Close meet the shutdown too (the
\* first half of DoneOnce).
THEOREM DoneAtMostOnce == ASSUME MaxConns = 1 PROVE Spec => [](wg.count >= 0)
<1>1. Init => DoneNotYet
  BY DEF Init, DoneNotYet
<1>2. TypeOK /\ Readers /\ DoneNotYet /\ [Next]_vars => DoneNotYet'
  BY DoneNotYetKept
<1>3. LCInv => TypeOK /\ Readers
  BY DEF LCInv
<1>4. DoneNotYet => wg.count >= 0
  BY DEF DoneNotYet
<1>5. QED BY <1>1, <1>2, <1>3, <1>4, LCInvariance, PTL DEF Spec

=============================================================================
