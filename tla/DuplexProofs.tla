---------------------------- MODULE DuplexProofs ----------------------------
(***************************************************************************)
(* Two Socks on one connection: proofs for any number of calls from either *)
(* end, any limits and any capacity.                                       *)
(***************************************************************************)
EXTENDS Duplex, TLAPS

LEMMA TwoEnds ==
  \A e \in Ends : Other(e) \in Ends /\ Other(e) # e /\ Other(Other(e)) = e
                  /\ \A f \in Ends : f = e \/ f = Other(e)
BY DEF Ends, Other

LEMMA Kinds ==
  /\ \A c \in Calls : /\ Call(c) \in Procs /\ Call(c)[1] = "call" /\ Call(c)[2] = c
                      /\ Handler(c) \in Procs /\ Handler(c)[1] = "handler" /\ Handler(c)[2] = c
  /\ \A e \in Ends : /\ Reader(e) \in Procs /\ Reader(e)[1] = "reader" /\ Reader(e)[2] = e
                     /\ Closer(e) \in Procs /\ Closer(e)[1] = "closer" /\ Closer(e)[2] = e
  /\ \A p \in Procs : \/ \E c \in Calls : p = Call(c) \/ p = Handler(c)
                      \/ \E e \in Ends : p = Reader(e) \/ p = Closer(e)
BY DEF Call, Handler, Reader, Closer, Procs

LEMMA Distinct ==
  \A x, y : /\ Call(x) # Handler(y) /\ Call(x) # Reader(y) /\ Call(x) # Closer(y)
            /\ Handler(x) # Reader(y) /\ Handler(x) # Closer(y) /\ Reader(x) # Closer(y)
            /\ (Call(x) = Call(y) => x = y) /\ (Handler(x) = Handler(y) => x = y)
            /\ (Reader(x) = Reader(y) => x = y)
BY DEF Call, Handler, Reader, Closer

LEMMA EndOf ==
  /\ \A c \in Calls : CallEnd(c) \in Ends
  /\ \A c \in Calls : End(Call(c)) = CallEnd(c) /\ End(Handler(c)) = Other(CallEnd(c))
  /\ \A e \in Ends : End(Reader(e)) = e /\ End(Closer(e)) = e
  /\ \A p \in Procs : End(p) \in Ends
<1>1. \A c \in Calls : CallEnd(c) \in Ends
  BY DEF CallEnd, Ends
<1>2. \A c \in Calls : End(Call(c)) = CallEnd(c) /\ End(Handler(c)) = Other(CallEnd(c))
  BY Kinds DEF End
<1>3. \A e \in Ends : End(Reader(e)) = e /\ End(Closer(e)) = e
  BY Kinds DEF End
<1> QED
  BY <1>1, <1>2, <1>3, Kinds, TwoEnds

LEMMA MsgIs ==
  /\ \A c \in Calls : MsgOf(Call(c)) = [t |-> "r", call |-> c]
  /\ \A c \in Calls : MsgOf(Handler(c)) = [t |-> "R", call |-> c]
  /\ \A e \in Ends : MsgOf(Reader(e)) = [t |-> "e", call |-> reading[e].call]
BY Kinds DEF MsgOf

LEMMA GotoIs ==
  ASSUME Typed, NEW p \in Procs, NEW l, Goto(p, l)
  PROVE  pc'[p] = l /\ \A q \in Procs : q # p => pc'[q] = pc[q]
BY DEF Typed, Goto

\* Where steps take a goroutine.
Moves(p) == \A q \in Procs : q # p => pc'[q] = pc[q]
LEMMA WriterMoves ==
  ASSUME Typed, Paths, NEW p \in Procs, WriterStep(p) \/ CloseBegins(p)
  PROVE  /\ Moves(p) /\ UNCHANGED reading
         /\ \/ /\ Lock(p) /\ pc[p] = "lock"
               /\ \/ /\ pc'[p] = "head" /\ connmu[End(p)] = None /\ End(p) \in open
                     /\ connmu' = [connmu EXCEPT ![End(p)] = p]
                  \/ pc'[p] = Failed(p) /\ connmu' = connmu
               /\ UNCHANGED <<pipe, open>>
            \/ /\ Write(p) /\ pc[p] = "head" /\ pc'[p] = "body" /\ UNCHANGED <<connmu, open>>
            \/ /\ Write(p) /\ pc[p] = "body" /\ pc'[p] = Written(p) /\ open' = open
               /\ connmu' = [connmu EXCEPT ![End(p)] = None]
            \/ /\ WriteFails(p) /\ Writing(p) /\ Other(End(p)) \notin open /\ pc'[p] = Failed(p)
               /\ connmu' = [connmu EXCEPT ![End(p)] = None] /\ UNCHANGED <<pipe, open>>
            \/ /\ pc[p] = "close" \/ (p[1] = "closer" /\ pc[p] = "idle")
               /\ pc'[p] \in {"done", "closing"} /\ UNCHANGED <<connmu, pipe, open>>
            \/ pc[p] = "closing" /\ pc'[p] = "ending" /\ UNCHANGED <<connmu, pipe, open>>
            \/ /\ pc[p] = "ending" /\ pc'[p] = "done" /\ connmu' = connmu
               /\ connmu[End(p)] = None /\ open' = open \ {End(p)}
               /\ pipe' = [pipe EXCEPT ![End(p)] = <<>>]
<1>1. CASE Lock(p)
  BY <1>1, GotoIs DEF Lock, Moves
<1>2. CASE Write(p)
  <2>1. CASE pc[p] = "head"
    BY <1>2, <2>1, GotoIs DEF Write, Moves, Unlocks
  <2>2. CASE pc[p] = "body"
    BY <1>2, <2>2, GotoIs DEF Write, Moves, Unlocks
  <2> QED BY <1>2, <2>1, <2>2 DEF Write
<1>3. CASE WriteFails(p)
  BY <1>3, GotoIs DEF WriteFails, Moves, Writing
<1>4. CASE CloseBegins(p)
  <2>1. PICK l \in {"done", "closing"} : Goto(p, l)
    BY <1>4 DEF CloseBegins
  <2>2. /\ pc[p] = "close" \/ (p[1] = "closer" /\ pc[p] = "idle")
        /\ UNCHANGED <<connmu, pipe, reading, open>>
    BY <1>4 DEF CloseBegins
  <2> QED BY <2>1, <2>2, GotoIs DEF Moves
<1>5. CASE CloseLocks(p)
  BY <1>5, GotoIs DEF CloseLocks, Moves
<1>6. CASE CloseEnds(p)
  BY <1>6, GotoIs DEF CloseEnds, Moves
<1> QED
  BY <1>1, <1>2, <1>3, <1>4, <1>5, <1>6 DEF WriterStep

LEMMA ReaderMoves ==
  ASSUME Typed, Paths, NEW e \in Ends, ReaderStep(e)
  PROVE  /\ UNCHANGED <<connmu, open>>
         /\ \A f \in Ends : f # e => pipe'[f] = pipe[f] /\ reading'[f] = reading[f]
         /\ \/ /\ Moves(Reader(e)) /\ pc[Reader(e)] = "read" /\ pipe[e] # <<>>
               /\ pc'[Reader(e)] \in {"payload", "refuse"} /\ Head(pipe[e]).part = "head"
               /\ reading' = [reading EXCEPT ![e] = Head(pipe[e]).msg]
               /\ pipe' = [pipe EXCEPT ![e] = Tail(@)]
            \/ /\ ReadBody(e) /\ pc[Reader(e)] \in {"payload", "refuse"} /\ pipe[e] # <<>>
               /\ Head(pipe[e]) = [msg |-> reading[e], part |-> "body"]
               /\ pipe' = [pipe EXCEPT ![e] = Tail(@)]
               /\ \/ Moves(Reader(e)) /\ pc'[Reader(e)] \in {"lock", "result"} /\ reading' = reading
                  \/ /\ pc[Reader(e)] = "payload" /\ reading[e].t = "r" /\ pc'[Reader(e)] = "read"
                     /\ pc' = [pc EXCEPT ![Reader(e)] = "read", ![Handler(reading[e].call)] = "lock"]
                     /\ reading' = [reading EXCEPT ![e] = NoMsg]
            \/ /\ Moves(Reader(e)) /\ pc[Reader(e)] = "result" /\ pc'[Reader(e)] = "read"
               /\ reading' = [reading EXCEPT ![e] = NoMsg] /\ pipe' = pipe
            \/ /\ Moves(Reader(e)) /\ pc[Reader(e)] \in {"read", "payload", "refuse"}
               /\ pc'[Reader(e)] = "close" /\ UNCHANGED <<pipe, reading>>
<1>0. Reader(e) \in Procs /\ pipe \in [Ends -> Seq(Chunks)] /\ reading \in [Ends -> Messages \cup {NoMsg}]
  BY Kinds DEF Typed
<1>1. CASE ReadHead(e)
  <2>1. pc'[Reader(e)] \in {"payload", "refuse"} /\ Moves(Reader(e))
    BY <1>0, <1>1, GotoIs DEF ReadHead, Moves
  <2> QED BY <1>0, <1>1, <2>1 DEF ReadHead
<1>2. CASE ReadBody(e)
  <2>1. /\ pc[Reader(e)] \in {"payload", "refuse"} /\ pipe[e] # <<>>
        /\ Head(pipe[e]) = [msg |-> reading[e], part |-> "body"]
        /\ pipe' = [pipe EXCEPT ![e] = Tail(@)] /\ UNCHANGED <<connmu, open>>
    BY <1>2 DEF ReadBody
  <2>2. CASE pc[Reader(e)] = "refuse"
    <3>1. Goto(Reader(e), "lock") /\ reading' = reading
      BY <1>2, <2>2 DEF ReadBody
    <3> QED BY <1>0, <1>2, <2>1, <3>1, GotoIs DEF Moves
  <2>3. CASE pc[Reader(e)] # "refuse" /\ reading[e].t = "r"
    <3>1. /\ pc' = [pc EXCEPT ![Reader(e)] = "read", ![Handler(reading[e].call)] = "lock"]
          /\ reading' = [reading EXCEPT ![e] = NoMsg]
      BY <1>2, <2>3 DEF ReadBody
    <3>2. pc'[Reader(e)] = "read"
      BY <1>0, <3>1, Distinct DEF Typed
    <3> QED BY <1>0, <1>2, <2>1, <2>3, <3>1, <3>2
  <2>4. CASE pc[Reader(e)] # "refuse" /\ reading[e].t # "r"
    <3>1. Goto(Reader(e), "result") /\ reading' = reading
      BY <1>2, <2>4 DEF ReadBody
    <3> QED BY <1>0, <1>2, <2>1, <3>1, GotoIs DEF Moves
  <2> QED BY <2>2, <2>3, <2>4
<1>3. CASE Deliver(e)
  BY <1>0, <1>3, GotoIs DEF Deliver, Moves
<1>4. CASE ReadFails(e)
  BY <1>0, <1>4, GotoIs DEF ReadFails, Moves
<1> QED
  BY <1>1, <1>2, <1>3, <1>4 DEF ReaderStep

\* A reader moves itself, and a handler that it starts.
LEMMA ReaderLeaves ==
  ASSUME Typed, Paths, NEW e \in Ends, ReaderStep(e)
  PROVE  /\ \A c \in Calls : pc'[Call(c)] = pc[Call(c)]
         /\ \A f \in Ends : pc'[Closer(f)] = pc[Closer(f)] /\ (f # e => pc'[Reader(f)] = pc[Reader(f)])
         /\ \A c \in Calls :
              \/ pc'[Handler(c)] = pc[Handler(c)]
              \/ /\ ReadBody(e) /\ pc[Reader(e)] = "payload" /\ reading[e].t = "r"
                 /\ reading[e].call = c /\ pc'[Handler(c)] = "lock" /\ pc'[Reader(e)] = "read"
         /\ pc[Reader(e)] \in {"read", "payload", "refuse", "result"}
         /\ pc'[Reader(e)] \in {"payload", "refuse", "lock", "result", "read", "close"}
<1>1. CASE Moves(Reader(e))
  <2>1. /\ pc[Reader(e)] \in {"read", "payload", "refuse", "result"}
        /\ pc'[Reader(e)] \in {"payload", "refuse", "lock", "result", "read", "close"}
    BY <1>1, ReaderMoves, Kinds DEF Typed
  <2> QED BY <1>1, <2>1, Kinds, Distinct DEF Moves
<1>2. ASSUME ReadBody(e), pc[Reader(e)] = "payload", reading[e].t = "r",
             pc' = [pc EXCEPT ![Reader(e)] = "read", ![Handler(reading[e].call)] = "lock"]
      PROVE  /\ \A c \in Calls : pc'[Call(c)] = pc[Call(c)]
             /\ \A f \in Ends :
                  pc'[Closer(f)] = pc[Closer(f)] /\ (f # e => pc'[Reader(f)] = pc[Reader(f)])
             /\ \A c \in Calls :
                  pc'[Handler(c)] = pc[Handler(c)] \/ (reading[e].call = c /\ pc'[Handler(c)] = "lock")
             /\ pc'[Reader(e)] = "read"
  <2> DEFINE h == Handler(reading[e].call)
  <2>1. \A q \in Procs : pc'[q] = IF q = h THEN "lock" ELSE IF q = Reader(e) THEN "read" ELSE pc[q]
    BY <1>2 DEF Typed
  <2>2. /\ \A c \in Calls : Call(c) # h /\ (Handler(c) = h => reading[e].call = c)
        /\ \A f \in Ends : Reader(f) # h /\ Closer(f) # h
    BY Distinct
  <2>3. \A f \in Ends : f # e => Reader(f) # Reader(e)
    BY Distinct
  <2>4. \A f \in Ends : Closer(f) # Reader(e)
    BY Distinct
  <2>5. \A c \in Calls : Call(c) # Reader(e) /\ Handler(c) # Reader(e)
    BY Distinct
  <2> HIDE DEF h
  <2>6. \A c \in Calls : pc'[Call(c)] = pc[Call(c)]
    BY <2>1, <2>2, <2>5, Kinds
  <2>7. \A c \in Calls : pc'[Handler(c)] = pc[Handler(c)] \/ (reading[e].call = c /\ pc'[Handler(c)] = "lock")
    BY <2>1, <2>2, <2>5, Kinds
  <2>8. \A f \in Ends : pc'[Closer(f)] = pc[Closer(f)] /\ (f # e => pc'[Reader(f)] = pc[Reader(f)])
    BY <2>1, <2>2, <2>3, <2>4, Kinds
  <2>9. pc'[Reader(e)] = "read"
    BY <1>2, Kinds, Distinct DEF Typed
  <2> QED BY <2>6, <2>7, <2>8, <2>9
<1>3. CASE ~Moves(Reader(e))
  <2>1. /\ ReadBody(e) /\ pc[Reader(e)] = "payload" /\ reading[e].t = "r"
        /\ pc' = [pc EXCEPT ![Reader(e)] = "read", ![Handler(reading[e].call)] = "lock"]
    BY <1>3, ReaderMoves
  <2> QED BY <1>2, <2>1
<1> QED
  BY <1>1, <1>3

LEMMA ReceiveMoves ==
  ASSUME Typed, NEW c \in Calls, Receive(c)
  PROVE  /\ Moves(Call(c)) /\ pc[Call(c)] = "await" /\ pc'[Call(c)] \in {"sleep", "done"}
         /\ UNCHANGED <<connmu, pipe, reading, open>>
BY Kinds, GotoIs DEF Receive, Moves

Steps ==
  \/ UNCHANGED vars
  \/ \E p \in Procs : WriterStep(p) \/ CloseBegins(p)
  \/ \E e \in Ends : ReaderStep(e)
  \/ \E c \in Calls : Receive(c)
LEMMA StepIs == [Next]_vars => Steps
BY DEF Next, Steps

-----------------------------------------------------------------------------
(* Types, and where everyone is.                                            *)

LEMMA MsgType ==
  ASSUME Typed, Held, NEW p \in Procs, Writing(p), Paths
  PROVE  MsgOf(p) \in Messages
<1>1. CASE \E c \in Calls : p = Call(c) \/ p = Handler(c)
  BY <1>1, MsgIs DEF Messages
<1>2. ASSUME NEW e \in Ends, p = Reader(e) PROVE MsgOf(p) \in Messages
  <2>1. reading[e] \in Messages
    BY <1>2 DEF Held, Writing
  <2>2. reading[e].call \in Calls
    BY <2>1 DEF Messages
  <2> QED BY <1>2, <2>2, MsgIs DEF Messages
<1>3. ~ \E e \in Ends : p = Closer(e)
  BY DEF Paths, Writing
<1> QED
  BY <1>1, <1>2, <1>3, Kinds

LEMMA StepTyped ==
  ASSUME Typed, Paths, Held, [Next]_vars
  PROVE  Typed'
<1>0. /\ \A p \in Procs : Failed(p) \in {"done", "close"} /\ Written(p) \in {"await", "done", "read"}
      /\ \A p \in Procs : End(p) \in Ends /\ Other(End(p)) \in Ends
  BY EndOf, TwoEnds DEF Failed, Written
<1>1. CASE UNCHANGED vars
  BY <1>1 DEF vars, Typed
<1>2. ASSUME NEW p \in Procs, WriterStep(p) \/ CloseBegins(p) PROVE Typed'
  <2>1. pc' \in [Procs -> {"idle", "lock", "head", "body", "await", "sleep", "read", "payload",
                           "result", "refuse", "close", "closing", "ending", "done"}]
    BY <1>0, <1>2 DEF WriterStep, Lock, Write, WriteFails, CloseLocks, CloseEnds, CloseBegins, Goto, Typed
  <2>2. connmu' \in [Ends -> Procs \cup {None}]
    <3>1. \/ connmu' = connmu \/ connmu' = [connmu EXCEPT ![End(p)] = p]
          \/ connmu' = [connmu EXCEPT ![End(p)] = None]
      BY <1>2 DEF WriterStep, Lock, Write, WriteFails, CloseLocks, CloseEnds, CloseBegins
    <3> QED BY <1>0, <3>1 DEF Typed
  <2>3. pipe' \in [Ends -> Seq(Chunks)]
    <3>1. CASE Write(p)
      <4>1. /\ MsgOf(p) \in Messages /\ pc[p] \in {"head", "body"}
            /\ pipe' = IF Other(End(p)) \in open
                       THEN [pipe EXCEPT ![Other(End(p))] = Append(@, [msg |-> MsgOf(p), part |-> pc[p]])]
                       ELSE pipe
        BY <3>1, MsgType DEF Write, Writing
      <4>2. [msg |-> MsgOf(p), part |-> pc[p]] \in Chunks
        BY <4>1 DEF Chunks
      <4> HIDE DEF Messages, Chunks
      <4> QED BY <1>0, <4>1, <4>2 DEF Typed
    <3>2. CASE ~Write(p)
      <4>1. pipe' = pipe \/ pipe' = [pipe EXCEPT ![End(p)] = <<>>]
        BY <1>2, <3>2 DEF WriterStep, Lock, WriteFails, CloseLocks, CloseEnds, CloseBegins
      <4>2. <<>> \in Seq(Chunks) /\ End(p) \in Ends
        BY <1>0
      <4> QED BY <4>1, <4>2 DEF Typed
    <3> QED BY <3>1, <3>2
  <2>4. reading' = reading /\ open' \subseteq open
    BY <1>2, WriterMoves
  <2> QED BY <2>1, <2>2, <2>3, <2>4 DEF Typed
<1>3. ASSUME NEW e \in Ends, ReaderStep(e) PROVE Typed'
  <2>1. pc' \in [Procs -> {"idle", "lock", "head", "body", "await", "sleep", "read", "payload",
                           "result", "refuse", "close", "closing", "ending", "done"}]
    BY <1>3 DEF ReaderStep, ReadHead, ReadBody, Deliver, ReadFails, Goto, Typed
  <2>2. pipe[e] \in Seq(Chunks) /\ (pipe[e] # <<>> => Tail(pipe[e]) \in Seq(Chunks) /\ Head(pipe[e]) \in Chunks)
    BY DEF Typed
  <2>3. \A m \in Chunks : m.msg \in Messages
    BY DEF Chunks
  <2>4. pipe' = pipe \/ (pipe[e] # <<>> /\ pipe' = [pipe EXCEPT ![e] = Tail(@)])
    BY <1>3, ReaderMoves
  <2>5. pipe' \in [Ends -> Seq(Chunks)]
    BY <2>2, <2>4 DEF Typed
  <2>6. \/ reading' = reading \/ reading' = [reading EXCEPT ![e] = NoMsg]
        \/ pipe[e] # <<>> /\ reading' = [reading EXCEPT ![e] = Head(pipe[e]).msg]
    BY <1>3, ReaderMoves
  <2>7. reading' \in [Ends -> Messages \cup {NoMsg}]
    BY <2>2, <2>3, <2>6 DEF Typed
  <2> QED BY <1>3, <2>1, <2>5, <2>7, ReaderMoves DEF Typed
<1>4. ASSUME NEW c \in Calls, Receive(c) PROVE Typed'
  BY <1>4 DEF Receive, Goto, Typed
<1> QED
  BY <1>1, <1>2, <1>3, <1>4, StepIs DEF Steps

LEMMA StepPaths ==
  ASSUME Typed, Paths, [Next]_vars
  PROVE  Paths'
<1>0. /\ \A c \in Calls : Failed(Call(c)) = "done" /\ Written(Call(c)) = "await"
      /\ \A c \in Calls : Failed(Handler(c)) = "close" /\ Written(Handler(c)) = "done"
      /\ \A e \in Ends : Failed(Reader(e)) = "close" /\ Written(Reader(e)) = "read"
  BY Kinds DEF Failed, Written
<1>1. CASE UNCHANGED vars
  BY <1>1 DEF vars, Paths
<1>2. ASSUME NEW p \in Procs, WriterStep(p) \/ CloseBegins(p) PROVE Paths'
  <2>1. Moves(p)
    BY <1>2, WriterMoves
  <2>2. ASSUME NEW c \in Calls, p = Call(c)
        PROVE  pc'[p] \in {"lock", "head", "body", "await", "sleep", "done"}
    BY <1>0, <1>2, <2>2, WriterMoves, Kinds DEF Paths
  <2>3. ASSUME NEW c \in Calls, p = Handler(c)
        PROVE  pc'[p] \notin {"await", "sleep", "read", "payload", "result", "refuse"}
    BY <1>0, <1>2, <2>3, WriterMoves
  <2>4. ASSUME NEW e \in Ends, p = Reader(e) PROVE pc'[p] \notin {"idle", "await", "sleep"}
    BY <1>0, <1>2, <2>4, WriterMoves
  <2>5. ASSUME NEW e \in Ends, p = Closer(e) PROVE pc'[p] \in {"idle", "closing", "ending", "done"}
    BY <1>2, <2>5, WriterMoves DEF Paths, Writing
  <2> QED BY <2>1, <2>2, <2>3, <2>4, <2>5, Kinds DEF Paths, Moves
<1>3. ASSUME NEW e \in Ends, ReaderStep(e) PROVE Paths'
  BY <1>3, ReaderLeaves DEF Paths
<1>4. ASSUME NEW c \in Calls, Receive(c) PROVE Paths'
  BY <1>4, ReceiveMoves, Kinds DEF Paths, Moves
<1> QED
  BY <1>1, <1>2, <1>3, <1>4, StepIs DEF Steps

-----------------------------------------------------------------------------
(* The mutexes.                                                             *)

\* At each end one goroutine writes at a time.
LEMMA OneWriter ==
  ASSUME Held, NEW p \in Procs, NEW q \in Procs, End(p) = End(q), Writing(p), Writing(q)
  PROVE  p = q
BY DEF Held

\* The request whose payload is read has no handler yet.
LEMMA NewHandler ==
  ASSUME Typed, Held, Once, NEW e \in Ends, e \in open,
         pc[Reader(e)] = "payload", reading[e].t = "r"
  PROVE  /\ reading[e].call \in Calls
         /\ CallEnd(reading[e].call) = Other(e) /\ Sent(reading[e].call)
         /\ pc[Handler(reading[e].call)] = "idle"
<1>1. reading[e] \in Messages
  BY DEF Held
<1>2. reading[e].call \in Calls
  BY <1>1 DEF Messages
<1> DEFINE h == [msg |-> reading[e], part |-> "head"]
<1>3. Coming(e) = <<h>> \o pipe[e]
  BY DEF Coming, Begun
<1>4. pipe[e] \in Seq(Chunks)
  BY DEF Typed
<1>5. 1 \in 1 .. Len(Coming(e)) /\ Coming(e)[1] = h
  BY <1>3, <1>4
<1>6. Expected(Coming(e), e)
  BY DEF Once, Reads
<1>7. IsReq(h) /\ h.msg = reading[e]
  BY DEF IsReq
<1> QED
  BY <1>2, <1>5, <1>6, <1>7 DEF Expected

LEMMA StepHeld ==
  ASSUME Typed, Paths, Held, Once, [Next]_vars
  PROVE  Held'
<1>0. \A p \in Procs : End(p) \in Ends /\ Other(End(p)) \in Ends
  BY EndOf, TwoEnds
<1>1. CASE UNCHANGED vars
  BY <1>1 DEF vars, Held, Writing
<1>2. ASSUME NEW p \in Procs, WriterStep(p) \/ CloseBegins(p) PROVE Held'
  <2>1. Moves(p) /\ reading' = reading
    BY <1>2, WriterMoves
  <2>2. \/ /\ ~Writing(p) /\ pc'[p] = "head" /\ connmu[End(p)] = None /\ End(p) \in open
           /\ connmu' = [connmu EXCEPT ![End(p)] = p] /\ open' = open
        \/ Writing(p) /\ pc'[p] = "body" /\ connmu' = connmu /\ open' = open
        \/ /\ Writing(p) /\ pc'[p] \notin {"head", "body"} /\ open' = open
           /\ connmu' = [connmu EXCEPT ![End(p)] = None]
        \/ ~Writing(p) /\ pc'[p] \notin {"head", "body"} /\ connmu' = connmu /\ open' = open
        \/ /\ ~Writing(p) /\ pc'[p] \notin {"head", "body"} /\ connmu' = connmu
           /\ connmu[End(p)] = None /\ open' = open \ {End(p)}
    BY <1>2, WriterMoves DEF Writing, Failed, Written
  <2>3. \A q \in Procs : connmu'[End(q)] = q <=> Writing(q)'
    BY <1>0, <2>1, <2>2, NoneAssumption DEF Held, Typed, Moves, Writing
  <2>4. \A q \in Procs : Writing(q)' => End(q) \in open'
    BY <1>0, <2>1, <2>2, NoneAssumption DEF Held, Typed, Moves, Writing
  <2>5. ASSUME NEW e \in Ends,
               pc'[Reader(e)] \in {"payload", "refuse", "result", "lock", "head", "body"}
        PROVE  reading'[e] \in Messages
    <3>1. pc[Reader(e)] \in {"payload", "refuse", "result", "lock", "head", "body"}
      BY <1>2, <2>1, <2>5, WriterMoves, Kinds DEF Moves, Failed, Written, Writing
    <3> QED BY <2>1, <3>1 DEF Held
  <2> QED BY <2>3, <2>4, <2>5 DEF Held
<1>3. ASSUME NEW e \in Ends, ReaderStep(e) PROVE Held'
  <2>1. UNCHANGED <<connmu, open>>
    BY <1>3, ReaderMoves
  <2>2. \A q \in Procs : Writing(q)' <=> Writing(q)
    <3>1. \A c \in Calls : Writing(Handler(c))' <=> Writing(Handler(c))
      BY <1>3, ReaderLeaves, NewHandler DEF Writing, ReadBody
    <3> QED BY <1>3, <3>1, ReaderLeaves, Kinds DEF Writing
  <2>3. ASSUME NEW f \in Ends,
               pc'[Reader(f)] \in {"payload", "refuse", "result", "lock", "head", "body"}
        PROVE  reading'[f] \in Messages
    <3>1. CASE f # e
      <4>1. pc'[Reader(f)] = pc[Reader(f)] /\ reading'[f] = reading[f]
        BY <1>3, <3>1, ReaderMoves, ReaderLeaves
      <4> QED BY <2>3, <4>1 DEF Held
    <3>2. CASE f = e
      <4>1. CASE pc[Reader(e)] = "read"
        <5>1. pipe[e] \in Seq(Chunks) /\ reading \in [Ends -> Messages \cup {NoMsg}]
          BY DEF Typed
        <5>2. pipe[e] # <<>> /\ reading' = [reading EXCEPT ![e] = Head(pipe[e]).msg]
          BY <1>3, <2>3, <3>2, <4>1, ReaderMoves
        <5>3. Head(pipe[e]) \in Chunks
          BY <5>1, <5>2
        <5> QED BY <3>2, <5>1, <5>2, <5>3 DEF Chunks
      <4>2. CASE pc[Reader(e)] # "read"
        <5>1. reading[e] \in Messages
          BY <1>3, <4>2, ReaderMoves DEF Held
        <5>2. pc'[Reader(e)] # "read" /\ pc'[Reader(e)] # "close"
          BY <2>3, <3>2
        <5>3. reading' = reading
          BY <1>3, <4>2, <5>2, ReaderMoves
        <5> QED BY <3>2, <5>1, <5>3
      <4> QED BY <4>1, <4>2
    <3> QED BY <3>1, <3>2
  <2> QED BY <2>1, <2>2, <2>3 DEF Held
<1>4. ASSUME NEW c \in Calls, Receive(c) PROVE Held'
  BY <1>4, ReceiveMoves, Kinds DEF Held, Moves, Writing
<1> QED
  BY <1>1, <1>2, <1>3, <1>4, StepIs DEF Steps


-----------------------------------------------------------------------------
(* Whole messages.                                                          *)

LEMMA WholeHead ==
  ASSUME NEW s \in Seq(Chunks), Whole(s), Len(s) % 2 # 1, NEW m
  PROVE  Whole(Append(s, [msg |-> m, part |-> "head"]))
<1> DEFINE t == Append(s, [msg |-> m, part |-> "head"])
<1>1. /\ Len(t) = Len(s) + 1 /\ t[Len(t)].part = "head"
      /\ \A i \in 1 .. Len(s) : t[i] = s[i]
  OBVIOUS
<1>2. Len(s) \in Nat /\ (Len(s) + 1) % 2 = 1
  OBVIOUS
<1> HIDE DEF t
<1>3. ASSUME NEW i \in 1 .. Len(t)
      PROVE  IF i % 2 = 1 THEN t[i].part = "head" ELSE t[i] = [msg |-> t[i - 1].msg, part |-> "body"]
  <2>1. CASE i = Len(t)
    BY <1>1, <1>2, <2>1
  <2>2. CASE i # Len(t)
    <3>1. i \in 1 .. Len(s) /\ t[i] = s[i]
      BY <1>1, <1>2, <2>2
    <3>2. i % 2 # 1 => i - 1 \in 1 .. Len(s) /\ t[i - 1] = s[i - 1]
      BY <1>1, <3>1
    <3> QED BY <3>1, <3>2 DEF Whole
  <2> QED BY <2>1, <2>2
<1> QED
  BY <1>3 DEF Whole, t

LEMMA WholeBody ==
  ASSUME NEW s \in Seq(Chunks), Whole(s), Len(s) % 2 = 1, NEW m, s[Len(s)].msg = m
  PROVE  Whole(Append(s, [msg |-> m, part |-> "body"]))
<1> DEFINE t == Append(s, [msg |-> m, part |-> "body"])
<1>1. /\ Len(t) = Len(s) + 1 /\ t[Len(t)] = [msg |-> m, part |-> "body"]
      /\ \A i \in 1 .. Len(s) : t[i] = s[i]
  OBVIOUS
<1>2. Len(s) \in Nat /\ Len(s) \in 1 .. Len(s) /\ (Len(s) + 1) % 2 # 1
  OBVIOUS
<1> HIDE DEF t
<1>3. ASSUME NEW i \in 1 .. Len(t)
      PROVE  IF i % 2 = 1 THEN t[i].part = "head" ELSE t[i] = [msg |-> t[i - 1].msg, part |-> "body"]
  <2>1. CASE i = Len(t)
    BY <1>1, <1>2, <2>1
  <2>2. CASE i # Len(t)
    <3>1. i \in 1 .. Len(s) /\ t[i] = s[i]
      BY <1>1, <1>2, <2>2
    <3>2. i % 2 # 1 => i - 1 \in 1 .. Len(s) /\ t[i - 1] = s[i - 1]
      BY <1>1, <3>1
    <3> QED BY <3>1, <3>2 DEF Whole
  <2> QED BY <2>1, <2>2
<1> QED
  BY <1>3 DEF Whole, t

\* t is s without its first two elements.
Rest(s, t) == Len(s) = Len(t) + 2 /\ \A i \in 1 .. Len(t) : t[i] = s[i + 2]

LEMMA WholeRest ==
  ASSUME NEW s \in Seq(Chunks), NEW t \in Seq(Chunks), Whole(s), Rest(s, t)
  PROVE  Whole(t) /\ (Len(t) % 2 = 1 <=> Len(s) % 2 = 1)
<1>1. Len(t) \in Nat /\ Len(s) = Len(t) + 2
  BY DEF Rest
<1>2. ASSUME NEW i \in 1 .. Len(t)
      PROVE  IF i % 2 = 1 THEN t[i].part = "head" ELSE t[i] = [msg |-> t[i - 1].msg, part |-> "body"]
  <2>1. /\ i + 2 \in 1 .. Len(s) /\ t[i] = s[i + 2]
        /\ (i + 2) % 2 = 1 <=> i % 2 = 1
    BY <1>1 DEF Rest
  <2>2. ASSUME i % 2 # 1 PROVE t[i - 1] = s[i + 2 - 1]
    <3>1. i - 1 \in 1 .. Len(t) /\ (i - 1) + 2 = i + 2 - 1
      BY <1>1, <2>2
    <3>2. t[i - 1] = s[(i - 1) + 2]
      BY <3>1 DEF Rest
    <3> QED BY <3>1, <3>2
  <2>3. IF (i + 2) % 2 = 1 THEN s[i + 2].part = "head"
        ELSE s[i + 2] = [msg |-> s[i + 2 - 1].msg, part |-> "body"]
    BY <2>1 DEF Whole
  <2> QED BY <2>1, <2>2, <2>3
<1>3. Len(t) % 2 = 1 <=> Len(s) % 2 = 1
  BY <1>1
<1> QED
  BY <1>2, <1>3 DEF Whole

\* What a step does to what comes to a reader that goes on reading.
Same(e)  ==
  /\ Reads(e) /\ Coming(e)' = Coming(e)
  /\ pc[Reader(e)] = "payload" => pc'[Reader(e)] = "payload"
Grows(e) == \E p \in Procs :
  /\ Reads(e) /\ Write(p) /\ Writing(p) /\ End(p) = Other(e)
  /\ Coming(e)' = Append(Coming(e), [msg |-> MsgOf(p), part |-> pc[p]])
  /\ pc'[p] = IF pc[p] = "head" THEN "body" ELSE Written(p)
  /\ Moves(p)
Taken(e) ==
  /\ Reads(e) /\ ReadBody(e) /\ pc[Reader(e)] \in {"payload", "refuse"}
  /\ Coming(e)[1] = [msg |-> reading[e], part |-> "head"]
  /\ Coming(e)[2] = [msg |-> reading[e], part |-> "body"]
  /\ Coming(e)' \in Seq(Chunks) /\ Rest(Coming(e), Coming(e)')

\* And to the goroutines between their two writes to it.
StaysCut(e) ==
  \A q \in Procs : /\ Cuts(q, e)' <=> Cuts(q, e)
                   /\ Cuts(q, e) => MsgOf(q)' = MsgOf(q)

LEMMA WriterCuts ==
  ASSUME Typed, Paths, NEW e \in Ends, e \in open, NEW p \in Procs, WriterStep(p) \/ CloseBegins(p),
         ~(Write(p) /\ End(p) = Other(e))
  PROVE  StaysCut(e)
<1>1. Moves(p) /\ reading' = reading
  BY WriterMoves
<1>2. \A q \in Procs : MsgOf(q)' = MsgOf(q)
  BY <1>1 DEF MsgOf
<1>3. End(p) = Other(e) => pc[p] # "body" /\ pc'[p] # "body"
  <2> SUFFICES ASSUME End(p) = Other(e) PROVE pc[p] # "body" /\ pc'[p] # "body"
    OBVIOUS
  <2>1. Other(End(p)) = e /\ ~Write(p)
    BY TwoEnds
  <2> QED BY <2>1, WriterMoves DEF Failed
<1> QED
  BY <1>1, <1>2, <1>3 DEF StaysCut, Cuts, Moves

LEMMA ReaderCuts ==
  ASSUME Typed, Paths, Held, Once, NEW e \in Ends, NEW f \in Ends, ReaderStep(f)
  PROVE  StaysCut(e)
<1>1. \A c \in Calls : pc'[Handler(c)] = "body" <=> pc[Handler(c)] = "body"
  BY ReaderLeaves, NewHandler DEF ReadBody
<1>2. \A q \in Procs : pc'[q] = "body" <=> pc[q] = "body"
  BY <1>1, ReaderLeaves, Kinds
<1>3. \A g \in Ends : pc[Reader(g)] = "body" => reading'[g] = reading[g]
  BY ReaderMoves, ReaderLeaves
<1>4. ASSUME NEW q \in Procs, pc[q] = "body" PROVE MsgOf(q)' = MsgOf(q)
  <2>1. ASSUME NEW g \in Ends, q = Reader(g) PROVE MsgOf(q)' = MsgOf(q)
    <3>1. MsgOf(q) = [t |-> "e", call |-> reading[q[2]].call] /\ q[2] = g
      BY <2>1, Kinds DEF MsgOf
    <3>2. MsgOf(q)' = [t |-> "e", call |-> reading'[q[2]].call]
      BY <2>1, Kinds DEF MsgOf
    <3> QED BY <1>3, <1>4, <2>1, <3>1, <3>2
  <2>2. CASE \E c \in Calls : q = Call(c) \/ q = Handler(c)
    BY <2>2, Kinds DEF MsgOf
  <2>3. ~ \E g \in Ends : q = Closer(g)
    BY <1>4 DEF Paths
  <2> QED BY <2>1, <2>2, <2>3, Kinds
<1> QED
  BY <1>2, <1>4 DEF StaysCut, Cuts

LEMMA ComingType ==
  ASSUME Typed, Held, NEW e \in Ends
  PROVE  Begun(e) \in Seq(Chunks) /\ Coming(e) \in Seq(Chunks)
<1>1. pipe[e] \in Seq(Chunks)
  BY DEF Typed
<1>2. Begun(e) \in Seq(Chunks)
  <2>1. CASE pc[Reader(e)] \in {"payload", "refuse"}
    <3>1. [msg |-> reading[e], part |-> "head"] \in Chunks
      BY <2>1 DEF Held, Chunks
    <3> QED BY <2>1, <3>1 DEF Begun
  <2> QED BY <2>1 DEF Begun
<1> QED
  BY <1>1, <1>2 DEF Coming

LEMMA ComingEffect ==
  ASSUME Typed, Paths, Held, Once, [Next]_vars, NEW e \in Ends, Reads(e)'
  PROVE  ((Same(e) \/ Taken(e)) /\ StaysCut(e)) \/ Grows(e)
<1>0. e \in open' /\ pc'[Reader(e)] \notin {"close", "closing", "ending", "done"}
  BY DEF Reads
<1>a. pipe \in [Ends -> Seq(Chunks)] /\ pipe[e] \in Seq(Chunks)
  BY DEF Typed
<1>1. CASE UNCHANGED vars
  <2>1. StaysCut(e)
    BY <1>1 DEF vars, StaysCut, Cuts, MsgOf
  <2> QED BY <1>1, <2>1 DEF vars, Same, Coming, Begun, Reads
<1>2. ASSUME NEW p \in Procs, WriterStep(p) \/ CloseBegins(p) PROVE (Same(e) /\ StaysCut(e)) \/ Grows(e)
  <2>1. Moves(p) /\ reading' = reading /\ open' \subseteq open
    BY <1>2, WriterMoves
  <2>2. CASE Write(p)
    <3>1. /\ Writing(p) /\ open' = open
          /\ pc'[p] = IF pc[p] = "head" THEN "body" ELSE Written(p)
          /\ pipe' = IF Other(End(p)) \in open
                     THEN [pipe EXCEPT ![Other(End(p))] = Append(@, [msg |-> MsgOf(p), part |-> pc[p]])]
                     ELSE pipe
      BY <2>2, GotoIs DEF Write, Writing
    <3>2. pc[Reader(e)] = pc'[Reader(e)] \/ Writing(Reader(e))
      BY <2>1, <3>1, Kinds DEF Moves
    <3>3. Begun(e)' = Begun(e) /\ Reads(e)
      <4>1. CASE pc[Reader(e)] = pc'[Reader(e)]
        BY <1>0, <2>1, <3>1, <4>1 DEF Begun, Reads
      <4>2. CASE pc[Reader(e)] # pc'[Reader(e)]
        <5>1. p = Reader(e)
          BY <2>1, <4>2, Kinds DEF Moves
        <5>2. pc[Reader(e)] \in {"head", "body"} /\ pc'[Reader(e)] \in {"body", "read"}
          BY <3>1, <5>1, Kinds DEF Writing, Written
        <5> QED BY <1>0, <2>1, <5>2 DEF Begun, Reads
      <4> QED BY <4>1, <4>2
    <3>4. CASE End(p) = Other(e)
      <4>1. Other(End(p)) = e
        BY <3>4, TwoEnds
      <4>2. pipe'[e] = Append(pipe[e], [msg |-> MsgOf(p), part |-> pc[p]])
        BY <1>0, <1>a, <3>1, <4>1
      <4>3. [msg |-> MsgOf(p), part |-> pc[p]] \in Chunks
        BY <3>1, MsgType DEF Writing, Chunks
      <4>4. Begun(e) \in Seq(Chunks)
        BY ComingType
      <4>5. ASSUME NEW x \in Chunks
            PROVE  Begun(e) \o Append(pipe[e], x) = Append(Begun(e) \o pipe[e], x)
        BY <1>a, <4>4
      <4>6. Coming(e)' = Append(Coming(e), [msg |-> MsgOf(p), part |-> pc[p]])
        BY <3>3, <4>2, <4>3, <4>5 DEF Coming
      <4> QED BY <2>1, <2>2, <3>1, <3>3, <3>4, <4>6 DEF Grows
    <3>5. CASE End(p) # Other(e)
      <4>1. Other(End(p)) # e
        BY <3>5, TwoEnds, EndOf
      <4>2. pipe'[e] = pipe[e]
        BY <1>a, <3>1, <4>1
      <4>3. StaysCut(e)
        BY <1>0, <1>2, <2>1, <3>5, WriterCuts
      <4> QED BY <3>2, <3>3, <4>2, <4>3 DEF Same, Coming, Writing
    <3> QED BY <3>4, <3>5
  <2>3. CASE ~Write(p)
    <3>1. pipe'[e] = pipe[e]
      <4>1. pipe' = pipe \/ (pipe' = [pipe EXCEPT ![End(p)] = <<>>] /\ open' = open \ {End(p)})
        BY <1>2, <2>3 DEF WriterStep, Lock, WriteFails, CloseLocks, CloseEnds, CloseBegins
      <4> QED BY <1>0, <1>a, <4>1
    <3>2. pc[Reader(e)] = pc'[Reader(e)] \/ (pc[Reader(e)] = "lock" /\ pc'[Reader(e)] = "head")
      <4>1. ASSUME p = Reader(e) PROVE pc[p] = "lock" /\ pc'[p] = "head"
        BY <1>0, <1>2, <2>3, <4>1, WriterMoves, Kinds DEF Failed
      <4> QED BY <2>1, <4>1, Kinds DEF Moves
    <3>3. StaysCut(e)
      BY <1>0, <1>2, <2>1, <2>3, WriterCuts
    <3> QED BY <1>0, <2>1, <3>1, <3>2, <3>3 DEF Same, Coming, Begun, Reads
  <2> QED BY <2>2, <2>3
<1>3. ASSUME NEW f \in Ends, ReaderStep(f) PROVE Same(e) \/ Taken(e)
  <2>0. open' = open
    BY <1>3, ReaderMoves
  <2>1. CASE f # e
    BY <1>0, <1>3, <2>0, <2>1, ReaderMoves, ReaderLeaves DEF Same, Coming, Begun, Reads
  <2>2. CASE f = e
    <3>0. Reads(e)
      BY <1>0, <1>3, <2>0, <2>2, ReaderLeaves DEF Reads
    <3>1. CASE pc[Reader(e)] = "read"
      <4>1. /\ pipe[e] # <<>> /\ pc'[Reader(e)] \in {"payload", "refuse"}
            /\ Head(pipe[e]).part = "head"
            /\ reading' = [reading EXCEPT ![e] = Head(pipe[e]).msg]
            /\ pipe' = [pipe EXCEPT ![e] = Tail(@)]
        BY <1>0, <1>3, <2>2, <3>1, ReaderMoves
      <4>2. reading'[e] = Head(pipe[e]).msg /\ pipe'[e] = Tail(pipe[e])
        BY <1>a, <4>1 DEF Typed
      <4>3. Head(pipe[e]) = [msg |-> Head(pipe[e]).msg, part |-> "head"]
        <5>1. Head(pipe[e]) \in Chunks
          BY <1>a, <4>1
        <5> QED BY <4>1, <5>1 DEF Chunks
      <4>4. Coming(e)' = <<Head(pipe[e])>> \o Tail(pipe[e])
        BY <4>1, <4>2, <4>3 DEF Coming, Begun
      <4>5. <<Head(pipe[e])>> \o Tail(pipe[e]) = pipe[e]
        BY <1>a, <4>1
      <4>6. Coming(e) = pipe[e]
        BY <1>a, <3>1 DEF Coming, Begun
      <4> QED BY <3>0, <3>1, <4>4, <4>5, <4>6 DEF Same
    <3>2. CASE pc[Reader(e)] \in {"payload", "refuse"}
      <4>1. /\ ReadBody(e) /\ pipe[e] # <<>> /\ Head(pipe[e]) = [msg |-> reading[e], part |-> "body"]
            /\ pipe' = [pipe EXCEPT ![e] = Tail(@)]
        BY <1>0, <1>3, <2>2, <3>2, ReaderMoves
      <4>2. pc'[Reader(e)] \in {"lock", "result", "read"}
        BY <1>0, <1>3, <2>2, <3>2, ReaderMoves
      <4>3. Coming(e)' = Tail(pipe[e])
        BY <1>a, <4>1, <4>2 DEF Coming, Begun
      <4> DEFINE h == [msg |-> reading[e], part |-> "head"]
      <4>4. Coming(e) = <<h>> \o pipe[e]
        BY <3>2 DEF Coming, Begun
      <4> HIDE DEF h
      <4>5. /\ Coming(e)[1] = h /\ Coming(e)[2] = Head(pipe[e])
            /\ Tail(pipe[e]) \in Seq(Chunks) /\ Rest(Coming(e), Tail(pipe[e]))
        BY <1>a, <4>1, <4>4 DEF Rest
      <4> QED BY <3>0, <3>2, <4>1, <4>3, <4>5 DEF Taken, h
    <3>3. CASE pc[Reader(e)] = "result"
      <4>1. pc'[Reader(e)] = "read" /\ pipe' = pipe
        BY <1>3, <2>2, <3>3, ReaderMoves
      <4> QED BY <3>0, <3>3, <4>1 DEF Same, Coming, Begun
    <3> QED BY <1>3, <2>2, <3>1, <3>2, <3>3, ReaderLeaves
  <2> QED BY <2>1, <2>2
<1>4. ASSUME NEW c \in Calls, Receive(c) PROVE Same(e) /\ StaysCut(e)
  <2>1. pc'[Reader(e)] = pc[Reader(e)] /\ UNCHANGED <<pipe, reading, open>>
    BY <1>4, ReceiveMoves, Kinds, Distinct DEF Moves
  <2>2. \A q \in Procs : pc'[q] = "body" <=> pc[q] = "body"
    BY <1>4, ReceiveMoves DEF Moves
  <2>3. StaysCut(e)
    BY <2>1, <2>2 DEF StaysCut, Cuts, MsgOf
  <2> QED BY <1>0, <2>1, <2>3 DEF Same, Coming, Begun, Reads
<1>5. ASSUME NEW f \in Ends, ReaderStep(f) PROVE StaysCut(e)
  BY <1>5, ReaderCuts
<1> QED
  BY <1>1, <1>2, <1>3, <1>4, <1>5, StepIs DEF Steps


-----------------------------------------------------------------------------
(* Framing.                                                                 *)

LEMMA TakenFramed ==
  ASSUME Typed, Held, Held', Typed', Framed, NEW e \in Ends, Taken(e), StaysCut(e)
  PROVE  /\ Whole(Coming(e)')
         /\ Len(Coming(e)') % 2 = 1 <=> \E p \in Procs : Cuts(p, e)'
         /\ \A p \in Procs : Cuts(p, e)' => Coming(e)'[Len(Coming(e)')].msg = MsgOf(p)'
<1> DEFINE s == Coming(e)
           t == Coming(e)'
<1>1. s \in Seq(Chunks) /\ t \in Seq(Chunks) /\ Rest(s, t)
  BY ComingType DEF Taken
<1>2. /\ Whole(s) /\ (Len(s) % 2 = 1 <=> \E p \in Procs : Cuts(p, e))
      /\ \A p \in Procs : Cuts(p, e) => s[Len(s)].msg = MsgOf(p)
  BY DEF Framed, Taken
<1> HIDE DEF s, t
<1>3. Whole(t) /\ (Len(t) % 2 = 1 <=> Len(s) % 2 = 1)
  BY <1>1, <1>2, WholeRest
<1>4. Len(t) % 2 = 1 => t[Len(t)] = s[Len(s)]
  <2>1. Len(t) % 2 = 1 => Len(t) \in 1 .. Len(t)
    BY <1>1
  <2> QED BY <1>1, <2>1 DEF Rest
<1>5. \A p \in Procs : Cuts(p, e)' => t[Len(t)].msg = MsgOf(p)'
  BY <1>2, <1>3, <1>4 DEF StaysCut
<1> QED
  BY <1>2, <1>3, <1>5 DEF StaysCut, t


LEMMA GrowsFramed ==
  ASSUME Typed, Held, Held', Framed, NEW e \in Ends, Grows(e)
  PROVE  /\ Whole(Coming(e)')
         /\ Len(Coming(e)') % 2 = 1 <=> \E p \in Procs : Cuts(p, e)'
         /\ \A p \in Procs : Cuts(p, e)' => Coming(e)'[Len(Coming(e)')].msg = MsgOf(p)'
<1> DEFINE s == Coming(e)
           t == Coming(e)'
<1>1. PICK p \in Procs :
        /\ Write(p) /\ Writing(p) /\ End(p) = Other(e)
        /\ t = Append(s, [msg |-> MsgOf(p), part |-> pc[p]])
        /\ pc'[p] = IF pc[p] = "head" THEN "body" ELSE Written(p)
        /\ Moves(p)
  BY DEF Grows
<1>2. /\ Whole(s) /\ (Len(s) % 2 = 1 <=> \E q \in Procs : Cuts(q, e))
      /\ \A q \in Procs : Cuts(q, e) => s[Len(s)].msg = MsgOf(q)
  BY DEF Framed, Grows
<1>3. s \in Seq(Chunks)
  BY ComingType
<1>4. /\ Len(t) = Len(s) + 1 /\ t[Len(t)] = [msg |-> MsgOf(p), part |-> pc[p]]
  BY <1>1, <1>3
<1>5. MsgOf(p)' = MsgOf(p)
  BY <1>1 DEF Write, MsgOf
<1> HIDE DEF s, t
<1>6. CASE pc[p] = "head"
  <2>1. \A q \in Procs : ~Cuts(q, e)
    BY <1>1, <1>6, OneWriter DEF Cuts, Writing
  <2>2. Len(s) \in Nat /\ Len(s) % 2 # 1
    BY <1>2, <1>3, <2>1
  <2>3. Whole(t)
    BY <1>1, <1>2, <1>3, <1>6, <2>2, WholeHead
  <2>4. Len(t) % 2 = 1
    BY <1>4, <2>2
  <2>5. Cuts(p, e)' /\ \A q \in Procs : Cuts(q, e)' => q = p
    BY <1>1, <1>6, <2>1 DEF Cuts, Moves
  <2> QED BY <1>4, <1>5, <2>3, <2>4, <2>5 DEF t
<1>7. CASE pc[p] = "body"
  <2>1. Cuts(p, e) /\ \A q \in Procs : Cuts(q, e) => q = p
    BY <1>1, <1>7, OneWriter DEF Cuts, Writing
  <2>2. Len(s) \in Nat /\ Len(s) % 2 = 1 /\ s[Len(s)].msg = MsgOf(p)
    BY <1>2, <1>3, <2>1
  <2>3. Whole(t)
    BY <1>1, <1>2, <1>3, <1>7, <2>2, WholeBody
  <2>4. Len(t) % 2 # 1
    BY <1>4, <2>2
  <2>5. pc'[p] # "body"
    BY <1>1, <1>7 DEF Written
  <2>6. \A q \in Procs : ~Cuts(q, e)'
    BY <1>1, <2>1, <2>5 DEF Cuts, Moves
  <2> QED BY <2>3, <2>4, <2>6 DEF t
<1> QED
  BY <1>1, <1>6, <1>7 DEF Writing

LEMMA StepFramed ==
  ASSUME Typed, Paths, Held, Framed, Once, Held', Typed', [Next]_vars
  PROVE  Framed'
<1>1. ASSUME NEW e \in Ends, Reads(e)'
      PROVE  /\ Whole(Coming(e)')
             /\ Len(Coming(e)') % 2 = 1 <=> \E p \in Procs : Cuts(p, e)'
             /\ \A p \in Procs : Cuts(p, e)' => Coming(e)'[Len(Coming(e)')].msg = MsgOf(p)'
  <2>1. CASE Same(e) /\ StaysCut(e)
    BY <2>1 DEF Same, StaysCut, Framed
  <2>2. CASE Taken(e) /\ StaysCut(e)
    BY <2>2, TakenFramed
  <2>3. CASE Grows(e)
    BY <2>3, GrowsFramed
  <2> QED BY <1>1, <2>1, <2>2, <2>3, ComingEffect
<1> QED
  BY <1>1 DEF Framed

-----------------------------------------------------------------------------
(* Each request once.                                                       *)

LEMMA SameRequest ==
  ASSUME NEW m \in Messages, NEW n \in Messages, m.t = n.t, m.call = n.call
  PROVE  m = n
BY DEF Messages

\* A call goes forward, and only a reader starts a handler.
LEMMA Onward ==
  ASSUME Typed, Paths, [Next]_vars
  PROVE  /\ \A c \in Calls : /\ Sent(c) => Sent(c)'
                             /\ pc'[Call(c)] \in {"lock", "head", "body"} =>
                                  pc[Call(c)] \in {"lock", "head", "body"}
         /\ \A c \in Calls : pc[Handler(c)] = "idle" /\ pc'[Handler(c)] # "idle" =>
              \E f \in Ends : /\ ReadBody(f) /\ pc[Reader(f)] = "payload" /\ pc'[Reader(f)] = "read"
                              /\ reading[f].t = "r" /\ reading[f].call = c
                              /\ \A d \in Calls : pc'[Call(d)] = pc[Call(d)]
<1>1. CASE UNCHANGED vars
  BY <1>1 DEF vars, Sent
<1>2. ASSUME NEW p \in Procs, WriterStep(p) \/ CloseBegins(p)
      PROVE  /\ \A c \in Calls : /\ Sent(c) => Sent(c)'
                                 /\ pc'[Call(c)] \in {"lock", "head", "body"} =>
                                      pc[Call(c)] \in {"lock", "head", "body"}
             /\ \A c \in Calls : pc[Handler(c)] = "idle" => pc'[Handler(c)] = "idle"
  <2>1. Moves(p)
    BY <1>2, WriterMoves
  <2>2. /\ pc'[p] \in {"lock", "head", "body"} => pc[p] \in {"lock", "head", "body"}
        /\ pc'[p] \in {"lock", "head"} => pc[p] \in {"lock", "head"}
        /\ pc[p] = "idle" => p[1] = "closer"
    BY <1>2, WriterMoves DEF Failed, Written, Writing
  <2>3. ASSUME NEW c \in Calls
        PROVE  /\ Sent(c) => Sent(c)'
               /\ pc'[Call(c)] \in {"lock", "head", "body"} => pc[Call(c)] \in {"lock", "head", "body"}
    BY <2>1, <2>2, Kinds DEF Moves, Sent
  <2>4. ASSUME NEW c \in Calls, pc[Handler(c)] = "idle" PROVE pc'[Handler(c)] = "idle"
    BY <2>1, <2>2, <2>4, Kinds DEF Moves
  <2> QED BY <2>3, <2>4
<1>3. ASSUME NEW f \in Ends, ReaderStep(f)
      PROVE  /\ \A c \in Calls : pc'[Call(c)] = pc[Call(c)]
             /\ \A c \in Calls : pc[Handler(c)] = "idle" /\ pc'[Handler(c)] # "idle" =>
                  /\ ReadBody(f) /\ pc[Reader(f)] = "payload" /\ pc'[Reader(f)] = "read"
                  /\ reading[f].t = "r" /\ reading[f].call = c
  BY <1>3, ReaderLeaves
<1>4. ASSUME NEW d \in Calls, Receive(d)
      PROVE  /\ \A c \in Calls : /\ Sent(c) => Sent(c)'
                                 /\ pc'[Call(c)] \in {"lock", "head", "body"} =>
                                      pc[Call(c)] \in {"lock", "head", "body"}
             /\ \A c \in Calls : pc'[Handler(c)] = pc[Handler(c)]
  BY <1>4, ReceiveMoves, Kinds, Distinct DEF Moves, Sent
<1>5. CASE \E f \in Ends : ReaderStep(f)
  BY <1>3, <1>5 DEF Sent
<1>6. CASE \E p \in Procs : WriterStep(p) \/ CloseBegins(p)
  BY <1>2, <1>6
<1>7. CASE \E c \in Calls : Receive(c)
  BY <1>4, <1>7
<1> QED
  BY <1>1, <1>5, <1>6, <1>7, StepIs DEF Steps


\* What was expected still is, unless a handler starts, and that is at one end only.
LEMMA StillExpected ==
  ASSUME Typed, Paths, Held, Once, [Next]_vars, NEW e \in Ends, NEW c \in Calls,
         CallEnd(c) = Other(e), Sent(c), pc[Handler(c)] = "idle",
         ~(/\ pc[Reader(e)] = "payload" /\ pc'[Reader(e)] = "read"
           /\ reading[e].t = "r" /\ reading[e].call = c)
  PROVE  Sent(c)' /\ pc'[Handler(c)] = "idle"
<1>1. Sent(c)'
  BY Onward
<1>2. ASSUME pc'[Handler(c)] # "idle" PROVE FALSE
  <2>1. PICK f \in Ends : /\ ReadBody(f) /\ pc[Reader(f)] = "payload" /\ pc'[Reader(f)] = "read"
                          /\ reading[f].t = "r" /\ reading[f].call = c
    BY <1>2, Onward
  <2>2. CallEnd(c) = Other(f)
    BY <2>1, NewHandler DEF ReadBody
  <2>3. f = e
    BY <2>2, TwoEnds
  <2> QED BY <2>1, <2>3
<1> QED
  BY <1>1, <1>2

LEMMA SameOnce ==
  ASSUME Typed, Paths, Held, Once, [Next]_vars, NEW e \in Ends, Same(e)
  PROVE  Expected(Coming(e), e)' /\ Unrepeated(Coming(e)')
<1>0. PICK s : s = Coming(e)
  OBVIOUS
<1>1. s \in Seq(Chunks) /\ Expected(s, e) /\ Unrepeated(s) /\ Coming(e)' = s
  BY <1>0, ComingType DEF Same, Once
<1>2. ASSUME NEW i \in 1 .. Len(s), IsReq(s[i])
      PROVE  CallEnd(s[i].msg.call) = Other(e) /\ Sent(s[i].msg.call)'
             /\ pc'[Handler(s[i].msg.call)] = "idle"
  <2>1. s[i].msg.call \in Calls
    <3>1. s[i] \in Chunks
      BY <1>1
    <3> QED BY <3>1 DEF Chunks, Messages
  <2>2. /\ CallEnd(s[i].msg.call) = Other(e) /\ Sent(s[i].msg.call)
        /\ pc[Handler(s[i].msg.call)] = "idle"
    BY <1>1, <1>2 DEF Expected
  <2>3. ~(pc[Reader(e)] = "payload" /\ pc'[Reader(e)] = "read")
    BY DEF Same
  <2> QED BY <2>1, <2>2, <2>3, StillExpected
<1> QED
  BY <1>1, <1>2 DEF Expected, IsReq

LEMMA GrowsOnce ==
  ASSUME Typed, Paths, Held, Framed, Once, [Next]_vars, NEW e \in Ends, Grows(e)
  PROVE  Expected(Coming(e), e)' /\ Unrepeated(Coming(e)')
<1>0. PICK s, t : s = Coming(e) /\ t = Coming(e)'
  OBVIOUS
<1>1. PICK p \in Procs :
        /\ Write(p) /\ Writing(p) /\ End(p) = Other(e)
        /\ t = Append(s, [msg |-> MsgOf(p), part |-> pc[p]])
        /\ pc'[p] = IF pc[p] = "head" THEN "body" ELSE Written(p)
        /\ Moves(p)
  BY <1>0 DEF Grows
<1>x. PICK x : x = [msg |-> MsgOf(p), part |-> pc[p]]
  OBVIOUS
<1>2. /\ Whole(s) /\ (Len(s) % 2 = 1 <=> \E q \in Procs : Cuts(q, e))
      /\ \A q \in Procs : Cuts(q, e) => s[Len(s)].msg = MsgOf(q)
  BY <1>0 DEF Framed, Grows
<1>3. s \in Seq(Chunks) /\ Expected(s, e) /\ Unrepeated(s)
  BY <1>0, ComingType DEF Grows, Once
<1>4. /\ Len(s) \in Nat /\ Len(t) = Len(s) + 1 /\ t[Len(t)] = x
      /\ \A i \in 1 .. Len(s) : t[i] = s[i]
  BY <1>1, <1>3, <1>x
<1>5. /\ x.msg = MsgOf(p) /\ x.part = pc[p]
      /\ IsReq(x) <=> MsgOf(p).t = "r"
  BY <1>x DEF IsReq
<1>6. \A i \in 1 .. Len(s) : s[i].msg \in Messages
  <2>1. \A i \in 1 .. Len(s) : s[i] \in Chunks
    BY <1>3
  <2> QED BY <2>1 DEF Chunks
\* What comes is expected.
<1>7. ASSUME NEW i \in 1 .. Len(s), IsReq(s[i])
      PROVE  CallEnd(s[i].msg.call) = Other(e) /\ Sent(s[i].msg.call)'
             /\ pc'[Handler(s[i].msg.call)] = "idle"
  <2>1. s[i].msg.call \in Calls
    BY <1>6 DEF Messages
  <2>2. /\ CallEnd(s[i].msg.call) = Other(e) /\ Sent(s[i].msg.call)
        /\ pc[Handler(s[i].msg.call)] = "idle"
    BY <1>3, <1>7 DEF Expected
  <2>3. ~(pc[Reader(e)] = "payload" /\ pc'[Reader(e)] = "read")
    BY <1>1, Kinds DEF Moves, Writing
  <2> QED BY <2>1, <2>2, <2>3, StillExpected
\* A request is written by its call, whose handler has not begun.
<1>8. ASSUME IsReq(x)
      PROVE  \E c \in Calls :
               /\ p = Call(c) /\ x.msg = [t |-> "r", call |-> c] /\ x.msg.call = c
               /\ CallEnd(c) = Other(e) /\ Sent(c)' /\ pc'[Handler(c)] = "idle"
  <2>1. ~ \E c \in Calls : p = Handler(c)
    BY <1>5, <1>8, MsgIs
  <2>2. ~ \E f \in Ends : p = Reader(f)
    BY <1>5, <1>8, MsgIs
  <2>3. ~ \E f \in Ends : p = Closer(f)
    BY <1>1 DEF Paths, Writing
  <2>4. PICK c \in Calls : p = Call(c)
    BY <2>1, <2>2, <2>3, Kinds
  <2>5. CallEnd(c) = Other(e) /\ x.msg = [t |-> "r", call |-> c]
    BY <1>1, <1>5, <2>4, EndOf, MsgIs
  <2>6. Sent(c)'
    BY <1>1, <2>4, Kinds DEF Writing, Sent, Written
  <2>7. pc[Handler(c)] = "idle"
    BY <1>1, <2>4 DEF Once, Writing
  <2>8. pc'[Handler(c)] = "idle"
    BY <1>1, <2>4, <2>7, Kinds, Distinct DEF Moves
  <2> QED BY <2>4, <2>5, <2>6, <2>8
<1>9. ASSUME NEW i \in 1 .. Len(t), IsReq(t[i])
      PROVE  CallEnd(t[i].msg.call) = Other(e) /\ Sent(t[i].msg.call)'
             /\ pc'[Handler(t[i].msg.call)] = "idle"
  <2>1. CASE i \in 1 .. Len(s)
    BY <1>4, <1>7, <1>9, <2>1
  <2>2. CASE i \notin 1 .. Len(s)
    <3>1. i = Len(t)
      BY <1>4, <2>2
    <3>2. IsReq(x) /\ t[i] = x
      BY <1>4, <1>9, <3>1
    <3>3. PICK c \in Calls :
            x.msg.call = c /\ CallEnd(c) = Other(e) /\ Sent(c)' /\ pc'[Handler(c)] = "idle"
      BY <1>8, <3>2
    <3> QED BY <3>2, <3>3
  <2> QED BY <2>1, <2>2
\* And what is written was not there.
<1>10. ASSUME NEW i \in 1 .. Len(s), IsReq(x), s[i].msg = x.msg, s[i].part = x.part PROVE FALSE
  <2>1. PICK c \in Calls : p = Call(c) /\ x.msg = [t |-> "r", call |-> c]
    BY <1>8, <1>10
  <2>2. IsReq(s[i]) /\ s[i].msg.call = c
    BY <1>10, <2>1 DEF IsReq
  <2>3. Sent(c)
    BY <1>3, <2>2 DEF Expected
  <2>4. pc[p] = "body"
    BY <1>1, <2>1, <2>3 DEF Writing, Sent
  <2>5. Cuts(p, e)
    BY <1>1, <2>4 DEF Cuts
  <2>6. Len(s) % 2 = 1 /\ s[Len(s)].msg = x.msg
    BY <1>2, <1>5, <2>5
  <2>7. Len(s) \in 1 .. Len(s) /\ s[Len(s)].part = "head"
    <3>1. Len(s) \in 1 .. Len(s)
      BY <1>4, <2>6
    <3> QED BY <1>2, <2>6, <3>1 DEF Whole
  <2>8. s[i].part = "body"
    BY <1>5, <1>10, <2>4
  <2>9. i % 2 # 1 /\ s[i] = [msg |-> s[i - 1].msg, part |-> "body"]
    BY <1>2, <2>8 DEF Whole
  <2>10. i - 1 \in 1 .. Len(s) /\ (i - 1) % 2 = 1
    BY <1>4, <2>9
  <2>11. s[i - 1].msg = x.msg /\ s[i - 1].part = "head"
    <3>1. s[i - 1].msg = x.msg
      BY <1>10, <2>9
    <3>2. s[i - 1].part = "head"
      BY <1>2, <2>10 DEF Whole
    <3> QED BY <3>1, <3>2
  <2>12. IsReq(s[i - 1])
    BY <1>10, <2>11 DEF IsReq
  <2>13. i - 1 = Len(s)
    BY <1>3, <2>6, <2>7, <2>10, <2>11, <2>12 DEF Unrepeated
  <2> QED BY <1>4, <2>13
<1>11. ASSUME NEW i \in 1 .. Len(t), NEW j \in 1 .. Len(t),
              IsReq(t[i]), t[i].msg = t[j].msg, t[i].part = t[j].part
       PROVE  i = j
  <2>0. IsReq(t[j])
    BY <1>11 DEF IsReq
  <2>1. CASE i \in 1 .. Len(s) /\ j \in 1 .. Len(s)
    BY <1>3, <1>4, <1>11, <2>1 DEF Unrepeated
  <2>2. CASE i \in 1 .. Len(s) /\ j \notin 1 .. Len(s)
    <3>1. j = Len(t)
      BY <1>4, <2>2
    <3> QED BY <1>4, <1>10, <1>11, <2>0, <2>2, <3>1
  <2>3. CASE i \notin 1 .. Len(s) /\ j \in 1 .. Len(s)
    <3>1. i = Len(t)
      BY <1>4, <2>3
    <3> QED BY <1>4, <1>10, <1>11, <2>3, <3>1
  <2>4. CASE i \notin 1 .. Len(s) /\ j \notin 1 .. Len(s)
    BY <1>4, <2>4
  <2> QED BY <2>1, <2>2, <2>3, <2>4
<1> QED
  BY <1>0, <1>9, <1>11 DEF Expected, Unrepeated, IsReq

LEMMA TakenOnce ==
  ASSUME Typed, Paths, Held, Framed, Once, [Next]_vars, NEW e \in Ends, Taken(e)
  PROVE  Expected(Coming(e), e)' /\ Unrepeated(Coming(e)')
<1>0. PICK s, t, m : s = Coming(e) /\ t = Coming(e)' /\ m = reading[e]
  OBVIOUS
<1>1. /\ s \in Seq(Chunks) /\ Expected(s, e) /\ Unrepeated(s) /\ Rest(s, t) /\ t \in Seq(Chunks)
      /\ s[1] = [msg |-> m, part |-> "head"] /\ s[2] = [msg |-> m, part |-> "body"]
  BY <1>0, ComingType DEF Taken, Once
<1>2. /\ Len(t) \in Nat /\ Len(s) = Len(t) + 2
      /\ \A i \in 1 .. Len(t) : i + 2 \in 1 .. Len(s) /\ t[i] = s[i + 2]
  BY <1>1 DEF Rest
<1>3. \A i \in 1 .. Len(s) : s[i].msg \in Messages /\ s[i].part \in {"head", "body"}
  <2>1. \A i \in 1 .. Len(s) : s[i] \in Chunks
    BY <1>1
  <2> QED BY <2>1 DEF Chunks
<1>4. 1 \in 1 .. Len(s) /\ 2 \in 1 .. Len(s)
  BY <1>2
<1>5. s[1].msg = m /\ s[1].part = "head" /\ s[2].msg = m /\ s[2].part = "body"
  BY <1>1
<1>6. m \in Messages
  BY <1>3, <1>4, <1>5
\* The message that was taken comes no second time.
<1>7. ASSUME NEW i \in 1 .. Len(s), IsReq(s[i]), s[i].msg = m PROVE i \in {1, 2}
  <2>1. CASE s[i].part = "head"
    BY <1>1, <1>4, <1>5, <1>7, <2>1 DEF Unrepeated
  <2>2. CASE s[i].part = "body"
    BY <1>1, <1>4, <1>5, <1>7, <2>2 DEF Unrepeated
  <2> QED BY <1>3, <2>1, <2>2
<1>8. ASSUME NEW i \in 1 .. Len(t), IsReq(t[i])
      PROVE  CallEnd(t[i].msg.call) = Other(e) /\ Sent(t[i].msg.call)'
             /\ pc'[Handler(t[i].msg.call)] = "idle"
  <2>c. PICK c : c = t[i].msg.call
    OBVIOUS
  <2>1. i + 2 \in 1 .. Len(s) /\ t[i] = s[i + 2] /\ IsReq(s[i + 2])
    BY <1>2, <1>8
  <2>2. CallEnd(c) = Other(e) /\ Sent(c) /\ pc[Handler(c)] = "idle"
    BY <1>1, <2>1, <2>c DEF Expected
  <2>3. t[i].msg \in Messages /\ t[i].msg.t = "r" /\ c \in Calls
    BY <1>3, <1>8, <2>1, <2>c DEF IsReq, Messages
  <2>4. t[i].msg # m
    BY <1>2, <1>7, <2>1
  <2>5. ~(m.t = "r" /\ m.call = c)
    BY <1>6, <2>3, <2>4, <2>c, SameRequest
  <2>6. Sent(c)' /\ pc'[Handler(c)] = "idle"
    BY <1>0, <2>2, <2>3, <2>5, StillExpected
  <2> QED BY <2>2, <2>6, <2>c
<1>9. ASSUME NEW i \in 1 .. Len(t), NEW j \in 1 .. Len(t),
             IsReq(t[i]), t[i].msg = t[j].msg, t[i].part = t[j].part
      PROVE  i = j
  <2>1. i + 2 = j + 2
    <3>1. i + 2 \in 1 .. Len(s) /\ j + 2 \in 1 .. Len(s) /\ t[i] = s[i + 2] /\ t[j] = s[j + 2]
      BY <1>2
    <3>2. IsReq(s[i + 2]) /\ s[i + 2].msg = s[j + 2].msg /\ s[i + 2].part = s[j + 2].part
      BY <1>9, <3>1
    <3> QED BY <1>1, <3>1, <3>2 DEF Unrepeated
  <2> QED BY <2>1
<1> QED
  BY <1>0, <1>8, <1>9 DEF Expected, Unrepeated, IsReq

LEMMA StepOnce ==
  ASSUME Typed, Paths, Held, Framed, Once, [Next]_vars
  PROVE  Once'
<1>1. ASSUME NEW e \in Ends, Reads(e)' PROVE (Expected(Coming(e), e) /\ Unrepeated(Coming(e)))'
  BY <1>1, ComingEffect, SameOnce, GrowsOnce, TakenOnce
<1>2. ASSUME NEW c \in Calls, pc'[Handler(c)] # "idle"
      PROVE  pc'[Call(c)] \notin {"lock", "head", "body"}
  <2>1. CASE pc[Handler(c)] # "idle"
    BY <2>1, Onward DEF Once
  <2>2. CASE pc[Handler(c)] = "idle"
    <3>1. PICK f \in Ends : /\ ReadBody(f) /\ pc[Reader(f)] = "payload" /\ pc'[Reader(f)] = "read"
                            /\ reading[f].t = "r" /\ reading[f].call = c
                            /\ pc'[Call(c)] = pc[Call(c)]
      BY <1>2, <2>2, Onward
    <3>2. CallEnd(c) = Other(f) /\ Sent(c)
      BY <3>1, NewHandler DEF ReadBody
    <3> DEFINE s == Coming(f)
               h == [msg |-> reading[f], part |-> "head"]
    <3>3. pipe[f] \in Seq(Chunks) /\ pipe[f] # <<>> /\ s = <<h>> \o pipe[f] /\ Reads(f)
      BY <3>1 DEF ReadBody, Typed, Coming, Begun, Reads
    <3>4. Len(s) \in Nat /\ Len(s) >= 2 /\ s[1] = h
      BY <3>3
    <3>5. Whole(s) /\ Unrepeated(s)
      BY <3>3 DEF Framed, Once
    <3>6. IsReq(h) /\ h.msg = reading[f] /\ h.part = "head"
      BY <3>1 DEF IsReq
    <3>7. ASSUME pc[Call(c)] = "body" PROVE FALSE
      <4>1. Cuts(Call(c), f)
        BY <3>2, <3>7, EndOf DEF Cuts
      <4>2. Len(s) % 2 = 1 /\ s[Len(s)].msg = [t |-> "r", call |-> c]
        <5>1. Call(c) \in Procs /\ MsgOf(Call(c)) = [t |-> "r", call |-> c]
          BY Kinds, MsgIs
        <5>2. /\ \E q \in Procs : Cuts(q, f)
              /\ s[Len(s)].msg = MsgOf(Call(c))
          BY <3>3, <4>1, <5>1 DEF Framed
        <5>3. Len(s) % 2 = 1
          BY <3>3, <5>2 DEF Framed
        <5> QED BY <5>1, <5>2, <5>3
      <4> HIDE DEF s, h
      <4>3. Len(s) \in 1 .. Len(s) /\ 1 \in 1 .. Len(s) /\ s[Len(s)].part = "head"
        <5>1. Len(s) \in 1 .. Len(s) /\ 1 \in 1 .. Len(s)
          BY <3>4
        <5> QED BY <3>5, <4>2, <5>1 DEF Whole
      <4>4. reading[f] \in Messages
        BY <3>1 DEF Held
      <4>5. reading[f] = [t |-> "r", call |-> c]
        BY <3>1, <4>4 DEF Messages
      <4>6. Len(s) = 1
        BY <3>4, <3>5, <3>6, <4>2, <4>3, <4>5 DEF Unrepeated
      <4> QED BY <3>4, <4>6
    <3> QED BY <3>1, <3>2, <3>7 DEF Sent
  <2> QED BY <2>1, <2>2
<1> QED
  BY <1>1, <1>2 DEF Once

-----------------------------------------------------------------------------
(* The invariant, and FramesWhole.                                          *)

LEMMA InitDuplex == Init => DuplexInv
<1> SUFFICES ASSUME Init PROVE DuplexInv
  OBVIOUS
<1>1. Typed
  BY Kinds DEF Init, Typed, Ends
<1>2. /\ \A c \in Calls : pc[Call(c)] = "lock" /\ pc[Handler(c)] = "idle"
      /\ \A e \in Ends : pc[Reader(e)] = "read" /\ pc[Closer(e)] = "idle"
  BY Kinds DEF Init
<1>3. Paths
  BY <1>2 DEF Paths
<1>4. \A p \in Procs : pc[p] \notin {"head", "body"}
  BY <1>2, Kinds
<1>5. Held
  BY <1>2, <1>4, EndOf, NoneAssumption DEF Held, Init, Writing
<1>6. \A e \in Ends : Coming(e) = <<>>
  BY <1>2 DEF Coming, Begun, Init
<1>7. Framed
  BY <1>4, <1>6 DEF Framed, Whole, Cuts
<1>8. Once
  BY <1>2, <1>6 DEF Once, Expected, Unrepeated
<1> QED
  BY <1>1, <1>3, <1>5, <1>7, <1>8 DEF DuplexInv

\* Mutexes, pipes and goroutines agree, and each request is sent once, whatever
\* calls, answers, refusals and closes share the connection: sock.go, writeMsg.
THEOREM DuplexInvariance == Spec => []DuplexInv
<1>1. DuplexInv /\ [Next]_vars => DuplexInv'
  BY StepTyped, StepPaths, StepHeld, StepFramed, StepOnce DEF DuplexInv
<1> QED
  BY <1>1, InitDuplex, PTL DEF Spec

\* A reader finds whole messages, one after the other: sock.go, writeMsg under connmu.
THEOREM FramesWholeAlways == Spec => []FramesWhole
<1>1. DuplexInv => FramesWhole
  BY DEF DuplexInv, Framed, FramesWhole
<1> QED
  BY <1>1, DuplexInvariance, PTL

=============================================================================
