----------------------------- MODULE ChatProofs -----------------------------
(***************************************************************************)
(* The chat server: proofs for any number of connections, requests and     *)
(* rooms.                                                                  *)
(***************************************************************************)
EXTENDS Chat, TLAPS

LEMMA Kinds ==
  /\ \A p \in Creates \cup Sends : p \notin Conns /\ p # Shutdown /\ p # None
  /\ Creates \cap Sends = {} /\ Shutdown \notin Conns /\ None \notin Procs
  /\ Conns \subseteq Procs /\ Creates \subseteq Procs /\ Sends \subseteq Procs /\ Shutdown \in Procs
  /\ FirstRooms \subseteq Rooms /\ \A p \in Creates : RoomOf[p] \in Rooms
BY ChatAssumption DEF Procs

LEMMA InitChat == Init => ChatInv
<1> SUFFICES ASSUME Init PROVE ChatInv
  OBVIOUS
<1>1. TypeOK
  BY Kinds DEF Init, TypeOK, Labels
<1>2. Paths /\ Held
  BY Kinds DEF Init, Paths, Held, Mutexes
<1>3. Listed /\ RoomsKnown /\ SocksAreConnected
  BY Kinds DEF Init, Listed, RoomsKnown, SocksAreConnected, Connected
<1> QED
  BY <1>1, <1>2, <1>3 DEF ChatInv

\* What Goto does to the labels.
LEMMA GotoIs ==
  ASSUME TypeOK, NEW p \in Procs, NEW l, Goto(p, l)
  PROVE  pc'[p] = l /\ \A q \in Procs : q # p => pc'[q] = pc[q]
BY DEF TypeOK, Goto

\* One goroutine moves at a time.
Moves(p) == \A q \in Procs : q # p => pc'[q] = pc[q]
ConnMoves(c) == Handshake(c) \/ EndRead(c) \/ ConnStep(c)
LEMMA OneMoves ==
  ASSUME TypeOK, [Next]_vars
  PROVE  \/ UNCHANGED vars
         \/ \E c \in Conns : ConnMoves(c) /\ Moves(c)
         \/ \E p \in Procs \ Conns : ProcStep(p) /\ Moves(p)
         \/ \E p \in Creates \cup Sends : Ask(p) /\ Moves(p)
         \/ Signal /\ Moves(Shutdown)
<1>1. ASSUME NEW c \in Conns, ConnMoves(c) PROVE Moves(c)
  BY <1>1, GotoIs, Kinds DEF Moves, ConnMoves, Handshake, EndRead, ConnStep, AddSock, ReadRooms, Greet,
     CheckCloseHandler, CallCloseHandler, RemoveSock
<1>2. ASSUME NEW p \in Procs \ Conns, ProcStep(p) PROVE Moves(p)
  BY <1>2, GotoIs DEF Moves, ProcStep, CreateRoom, FindRoom, ReadSocks, Tell, Return
<1>3. ASSUME NEW p \in Creates \cup Sends, Ask(p) PROVE Moves(p)
  BY <1>3, GotoIs, Kinds DEF Moves, Ask
<1>4. ASSUME Signal PROVE Moves(Shutdown)
  BY <1>4, GotoIs, Kinds DEF Moves, Signal
<1> QED
  BY <1>1, <1>2, <1>3, <1>4 DEF Next, ConnMoves

LEMMA StepTypeOK ==
  ASSUME TypeOK, Paths, [Next]_vars
  PROVE  TypeOK'
<1> USE Kinds DEF TypeOK, Labels, Mutexes
<1>1. CASE UNCHANGED vars
  BY <1>1 DEF vars, lockVars
<1>2. ASSUME NEW c \in Conns, Handshake(c) PROVE TypeOK'
  BY <1>2 DEF Handshake, Goto, WantLock
<1>3. ASSUME NEW c \in Conns, AddSock(c) PROVE TypeOK'
  BY <1>3 DEF AddSock, Goto, CanLock
<1>4. ASSUME NEW c \in Conns, ReadRooms(c) PROVE TypeOK'
  BY <1>4 DEF ReadRooms, Goto, CanRLock
<1>5. ASSUME NEW c \in Conns, Greet(c) PROVE TypeOK'
  <2>1. known' \in [Conns -> SUBSET Rooms]
    BY <1>5 DEF Greet, Told
  <2>2. pc' \in [Procs -> Labels]
    BY <1>5 DEF Greet, Goto
  <2>3. /\ readers' \in [Mutexes -> SUBSET Procs] /\ writer' \in [Mutexes -> Procs \cup {None}]
        /\ \A m \in Mutexes : readers'[m] \subseteq readers[m] /\ writer'[m] \in {writer[m], None}
    BY <1>5 DEF Greet, LeaveSocksmu
  <2> QED BY <1>5, <2>1, <2>2, <2>3 DEF Greet
<1>6. ASSUME NEW c \in Conns, EndRead(c) PROVE TypeOK'
  BY <1>6 DEF EndRead, Goto, lockVars
<1>7. ASSUME NEW c \in Conns, CheckCloseHandler(c) PROVE TypeOK'
  BY <1>7 DEF CheckCloseHandler, Goto, lockVars
<1>8. ASSUME NEW c \in Conns, CallCloseHandler(c) PROVE TypeOK'
  BY <1>8 DEF CallCloseHandler, Goto, WantLock
<1>9. ASSUME NEW c \in Conns, RemoveSock(c) PROVE TypeOK'
  BY <1>9 DEF RemoveSock, Removed, Goto
<1>10. ASSUME NEW p \in Creates \cup Sends, Ask(p) PROVE TypeOK'
  BY <1>10 DEF Ask, Goto, WantLock
<1>11. ASSUME NEW p \in Procs \ Conns, CreateRoom(p) PROVE TypeOK'
  <2>1. p \in Creates
    BY <1>11 DEF CreateRoom, Paths, Procs
  <2> QED BY <1>11, <2>1 DEF CreateRoom, Goto, CanLock
<1>12. ASSUME NEW p \in Procs \ Conns, FindRoom(p) PROVE TypeOK'
  BY <1>12 DEF FindRoom, Goto, lockVars
<1>13. ASSUME NEW p \in Procs \ Conns, ReadSocks(p) PROVE TypeOK'
  BY <1>13 DEF ReadSocks, Goto, CanRLock
<1>14. ASSUME NEW p \in Procs \ Conns, Tell(p) PROVE TypeOK'
  <2>1. PICK c \in todo[p] :
          /\ todo' = [todo EXCEPT ![p] = @ \ {c}]
          /\ known' = IF p \in Creates THEN Told({c}) ELSE known
          /\ IF p = Shutdown
             THEN open' = open \ {c} /\ CloseHandler' = [CloseHandler EXCEPT ![c] = "nil"]
             ELSE UNCHANGED <<open, CloseHandler>>
          /\ UNCHANGED <<lockVars, pc, socks, rooms>>
    BY <1>14 DEF Tell
  <2>2. known' \in [Conns -> SUBSET Rooms]
    BY <2>1 DEF Told
  <2>3. todo' \in [Procs -> SUBSET Conns]
    BY <2>1
  <2>4. open' \subseteq Conns /\ CloseHandler' \in [Conns -> {"unset", "set", "nil"}]
    BY <2>1
  <2> QED BY <2>1, <2>2, <2>3, <2>4 DEF lockVars
<1>15. ASSUME NEW p \in Procs \ Conns, Return(p) PROVE TypeOK'
  <2>1. pc' \in [Procs -> Labels]
    BY <1>15 DEF Return, Goto
  <2>2. /\ readers' \in [Mutexes -> SUBSET Procs] /\ writer' \in [Mutexes -> Procs \cup {None}]
        /\ \A m \in Mutexes : readers'[m] \subseteq readers[m] /\ writer'[m] \in {writer[m], None}
    BY <1>15 DEF Return
  <2> QED BY <1>15, <2>1, <2>2 DEF Return
<1>16. CASE Signal
  BY <1>16 DEF Signal, Goto, lockVars
<1> QED
  BY <1>1, <1>2, <1>3, <1>4, <1>5, <1>6, <1>7, <1>8, <1>9, <1>10, <1>11, <1>12, <1>13, <1>14, <1>15,
     <1>16 DEF Next, ConnStep, ProcStep

LEMMA StepPaths ==
  ASSUME TypeOK, Paths, [Next]_vars
  PROVE  Paths'
<1> USE Kinds
<1>1. CASE UNCHANGED vars
  BY <1>1 DEF vars, Paths
<1>2. ASSUME NEW c \in Conns, ConnMoves(c), Moves(c) PROVE Paths'
  <2>1. pc'[c] \notin {"create", "find", "tell"}
    BY <1>2, GotoIs DEF ConnMoves, Handshake, EndRead, ConnStep, AddSock, ReadRooms, Greet,
       CheckCloseHandler, CallCloseHandler, RemoveSock
  <2> QED BY <1>2, <2>1 DEF Moves, Paths
<1>3. ASSUME NEW p \in Procs \ Conns, ProcStep(p), Moves(p) PROVE Paths'
  <2>1. \/ pc[p] = "create" /\ pc'[p] \in {"done", "socksmu"}
        \/ pc[p] = "find" /\ pc'[p] \in {"panicked", "socksmu"}
        \/ pc[p] = "socksmu" /\ pc'[p] = "tell"
        \/ pc[p] = "tell" /\ pc'[p] \in {"tell", "done"}
    BY <1>3, GotoIs DEF ProcStep, CreateRoom, FindRoom, ReadSocks, Tell, Return
  <2>2. p \in Creates \cup Sends \cup {Shutdown}
    BY <1>3 DEF Procs
  <2> QED BY <1>3, <2>1, <2>2 DEF Moves, Paths
<1>4. ASSUME NEW p \in Creates \cup Sends, Ask(p), Moves(p) PROVE Paths'
  <2>1. pc'[p] = IF p \in Creates THEN "create" ELSE "find"
    BY <1>4, GotoIs DEF Ask
  <2> QED BY <1>4, <2>1 DEF Moves, Paths
<1>5. ASSUME Signal, Moves(Shutdown) PROVE Paths'
  <2>1. pc'[Shutdown] = "socksmu"
    BY <1>5, GotoIs DEF Signal
  <2> QED BY <1>5, <2>1 DEF Moves, Paths
<1> QED
  BY <1>1, <1>2, <1>3, <1>4, <1>5, OneMoves

\* The mutexes, and who holds them.
LEMMA StepHeld ==
  ASSUME TypeOK, Paths, Held, [Next]_vars
  PROVE  Held'
<1> USE Kinds DEF Mutexes
<1>0. /\ writer \in [Mutexes -> Procs \cup {None}] /\ readers \in [Mutexes -> SUBSET Procs]
      /\ pc \in [Procs -> Labels]
  BY DEF TypeOK
<1>1. CASE UNCHANGED vars
  BY <1>1 DEF vars, lockVars, Held
<1>2. ASSUME NEW c \in Conns, ConnMoves(c), Moves(c) PROVE Held'
  <2>1. CASE UNCHANGED <<writer, readers>> /\ pc[c] \notin {"roomsmu", "greet"}
             /\ pc'[c] \notin {"roomsmu", "greet", "tell"}
    BY <1>2, <2>1, <1>0 DEF Held, Moves, Paths
  <2>2. CASE Handshake(c) \/ EndRead(c) \/ CheckCloseHandler(c) \/ CallCloseHandler(c) \/ RemoveSock(c)
    BY <2>1, <2>2, GotoIs DEF Handshake, EndRead, CheckCloseHandler, CallCloseHandler, RemoveSock, lockVars
  <2>3. CASE AddSock(c)
    <3>1. /\ writer["socksmu"] = None /\ writer' = [writer EXCEPT !["socksmu"] = c] /\ readers' = readers
          /\ pc[c] = "socksmu" /\ pc'[c] = "roomsmu"
      BY <2>3, GotoIs DEF AddSock, CanLock
    <3> QED BY <1>0, <1>2, <3>1 DEF Held, Moves, Paths
  <2>4. CASE ReadRooms(c)
    <3>1. /\ readers' = [readers EXCEPT !["roomsmu"] = @ \cup {c}] /\ writer' = writer
          /\ pc[c] = "roomsmu" /\ pc'[c] = "greet"
      BY <2>4, GotoIs DEF ReadRooms
    <3> QED BY <1>0, <1>2, <3>1 DEF Held, Moves, Paths
  <2>5. CASE Greet(c)
    <3>1. /\ readers' = [readers EXCEPT !["roomsmu"] = @ \ {c}]
          /\ writer' = [writer EXCEPT !["socksmu"] = IF @ = c THEN None ELSE @]
          /\ pc[c] = "greet" /\ pc'[c] = "read"
      BY <2>5, GotoIs DEF Greet, LeaveSocksmu
    <3> QED BY <1>0, <1>2, <3>1 DEF Held, Moves, Paths
  <2> QED BY <1>2, <2>2, <2>3, <2>4, <2>5 DEF ConnMoves, ConnStep
<1>3. ASSUME NEW p \in Procs \ Conns, ProcStep(p), Moves(p) PROVE Held'
  <2>1. CASE CreateRoom(p)
    <3>1. p \in Creates
      BY <1>3, <2>1 DEF CreateRoom, Paths, Procs
    <3>2. pc[p] = "create" /\ writer["roomsmu"] = None /\ readers' = readers
          /\ \/ pc'[p] = "done" /\ writer' = writer
             \/ pc'[p] = "socksmu" /\ writer' = [writer EXCEPT !["roomsmu"] = p]
      BY <2>1, GotoIs DEF CreateRoom, CanLock
    <3> QED BY <1>0, <1>3, <3>1, <3>2 DEF Held, Moves, Paths
  <2>2. CASE FindRoom(p)
    <3>1. pc[p] = "find" /\ pc'[p] \in {"socksmu", "panicked"} /\ UNCHANGED <<writer, readers>>
      BY <2>2, GotoIs DEF FindRoom, lockVars
    <3> QED BY <1>0, <1>3, <3>1 DEF Held, Moves, Paths
  <2>3. CASE ReadSocks(p)
    <3>1. /\ pc[p] = "socksmu" /\ pc'[p] = "tell" /\ writer' = writer
          /\ readers' = [readers EXCEPT !["socksmu"] = @ \cup {p}]
      BY <2>3, GotoIs DEF ReadSocks
    <3> QED BY <1>0, <1>3, <3>1 DEF Held, Moves, Paths
  <2>4. CASE Tell(p)
    BY <2>4 DEF Tell, lockVars, Held
  <2>5. CASE Return(p)
    <3>1. /\ pc[p] = "tell" /\ pc'[p] = "done"
          /\ readers' = [readers EXCEPT !["socksmu"] = @ \ {p}]
          /\ writer' = [writer EXCEPT !["roomsmu"] = IF @ = p THEN None ELSE @]
      BY <2>5, GotoIs DEF Return
    <3> QED BY <1>0, <1>3, <3>1 DEF Held, Moves, Paths
  <2> QED BY <1>3, <2>1, <2>2, <2>3, <2>4, <2>5 DEF ProcStep
<1>4. ASSUME NEW p \in Creates \cup Sends, Ask(p), Moves(p) PROVE Held'
  <2>1. pc[p] = "idle" /\ pc'[p] \in {"create", "find"} /\ UNCHANGED <<writer, readers>>
    BY <1>4, GotoIs DEF Ask
  <2> QED BY <1>0, <1>4, <2>1 DEF Held, Moves, Paths
<1>5. ASSUME Signal, Moves(Shutdown) PROVE Held'
  <2>1. pc[Shutdown] = "idle" /\ pc'[Shutdown] = "socksmu" /\ UNCHANGED <<writer, readers>>
    BY <1>5, GotoIs DEF Signal, lockVars
  <2> QED BY <1>0, <1>5, <2>1 DEF Held, Moves, Paths
<1> QED
  BY <1>1, <1>2, <1>3, <1>4, <1>5, OneMoves

\* Who is in the lists, and who is told.
LEMMA StepListed ==
  ASSUME TypeOK, Paths, Listed, [Next]_vars
  PROVE  Listed'
<1> USE Kinds
<1>0. /\ pc \in [Procs -> Labels] /\ todo \in [Procs -> SUBSET Conns] /\ socks \subseteq Conns
      /\ CloseHandler \in [Conns -> {"unset", "set", "nil"}]
  BY DEF TypeOK
<1>1. CASE UNCHANGED vars
  BY <1>1 DEF vars, Listed
<1>2. ASSUME NEW c \in Conns, ConnMoves(c), Moves(c) PROVE Listed'
  <2>1. todo' = todo
    BY <1>2 DEF ConnMoves, Handshake, EndRead, ConnStep, AddSock, ReadRooms, Greet,
       CheckCloseHandler, CallCloseHandler, RemoveSock
  <2>2. CASE Handshake(c)
    <3>1. /\ pc[c] = "idle" /\ UNCHANGED <<socks, CloseHandler>>
          /\ \/ pc'[c] = "socksmu" /\ open' = open \cup {c}
             \/ pc'[c] = "done" /\ open' = open
      BY <2>2, GotoIs DEF Handshake
    <3> QED BY <1>0, <1>2, <2>1, <3>1 DEF Listed, Moves
  <2>3. CASE AddSock(c)
    <3>1. /\ pc[c] = "socksmu" /\ pc'[c] = "roomsmu" /\ socks' = socks \cup {c} /\ open' = open
          /\ CloseHandler' = [CloseHandler EXCEPT ![c] = "set"] /\ c \in open
      BY <2>3, GotoIs DEF AddSock, Listed
    <3> QED BY <1>0, <1>2, <2>1, <3>1 DEF Listed, Moves
  <2>4. CASE ReadRooms(c) \/ Greet(c)
    <3>1. /\ pc[c] \in {"roomsmu", "greet"} /\ pc'[c] \in {"greet", "read"}
          /\ UNCHANGED <<socks, open, CloseHandler>>
      BY <2>4, GotoIs DEF ReadRooms, Greet
    <3> QED BY <1>0, <1>2, <2>1, <3>1 DEF Listed, Moves
  <2>5. CASE EndRead(c)
    <3>1. /\ pc[c] = "read" /\ UNCHANGED <<socks, CloseHandler>>
          /\ \/ pc'[c] = "closed" /\ open' = open \ {c}
             \/ pc'[c] = "done" /\ open' = open
      BY <2>5, GotoIs DEF EndRead
    <3> QED BY <1>0, <1>2, <2>1, <3>1 DEF Listed, Moves
  <2>6. CASE CheckCloseHandler(c) \/ CallCloseHandler(c)
    <3>1. /\ pc[c] \in {"closed", "call"} /\ pc'[c] \in {"call", "remove", "done", "panicked"}
          /\ UNCHANGED <<socks, open, CloseHandler>>
      BY <2>6, GotoIs DEF CheckCloseHandler, CallCloseHandler
    <3> QED BY <1>0, <1>2, <2>1, <3>1 DEF Listed, Moves
  <2>7. CASE RemoveSock(c)
    <3>1. /\ pc[c] = "remove" /\ pc'[c] = "done" /\ socks' = socks \ {c}
          /\ UNCHANGED <<open, CloseHandler>>
      BY <2>7, GotoIs DEF RemoveSock, Removed
    <3> QED BY <1>0, <1>2, <2>1, <3>1 DEF Listed, Moves
  <2> QED BY <1>2, <2>2, <2>3, <2>4, <2>5, <2>6, <2>7 DEF ConnMoves, ConnStep
<1>3. ASSUME NEW p \in Procs \ Conns, Moves(p), UNCHANGED <<todo, socks, open, CloseHandler>>
      PROVE  Listed'
  <2>1. \A c \in Conns : pc'[c] = pc[c]
    BY <1>3 DEF Moves
  <2> QED BY <1>0, <1>3, <2>1 DEF Listed
<1>4. ASSUME NEW p \in Procs \ Conns, ProcStep(p), Moves(p) PROVE Listed'
  <2>1. CASE CreateRoom(p) \/ FindRoom(p) \/ Return(p)
    BY <1>3, <1>4, <2>1 DEF CreateRoom, FindRoom, Return
  <2>2. CASE ReadSocks(p)
    <3>1. todo' = [todo EXCEPT ![p] = socks] /\ UNCHANGED <<socks, open, CloseHandler>>
      BY <2>2 DEF ReadSocks
    <3>2. \A c \in Conns : pc'[c] = pc[c]
      BY <1>4 DEF Moves
    <3> QED BY <1>0, <3>1, <3>2 DEF Listed
  <2>3. CASE Tell(p)
    <3>1. PICK c \in todo[p] :
            /\ todo' = [todo EXCEPT ![p] = @ \ {c}]
            /\ \/ open' = open \ {c} /\ CloseHandler' = [CloseHandler EXCEPT ![c] = "nil"]
               \/ UNCHANGED <<open, CloseHandler>>
            /\ UNCHANGED <<pc, socks>>
      BY <2>3 DEF Tell
    <3> QED BY <1>0, <3>1 DEF Listed
  <2> QED BY <1>4, <2>1, <2>2, <2>3 DEF ProcStep
<1>5. ASSUME NEW p \in Creates \cup Sends, Ask(p), Moves(p) PROVE Listed'
  BY <1>3, <1>5 DEF Ask
<1>6. ASSUME Signal, Moves(Shutdown) PROVE Listed'
  BY <1>3, <1>6 DEF Signal
<1> QED
  BY <1>1, <1>2, <1>4, <1>5, <1>6, OneMoves

LEMMA ListedConnected ==
  ASSUME TypeOK, Listed
  PROVE  Connected \subseteq socks
BY DEF Listed, Connected

LEMMA StepSocks ==
  ASSUME TypeOK, Paths, Listed, SocksAreConnected, [Next]_vars
  PROVE  SocksAreConnected'
<1> USE Kinds
<1>0. /\ pc \in [Procs -> Labels] /\ socks \subseteq Conns
      /\ CloseHandler \in [Conns -> {"unset", "set", "nil"}]
  BY DEF TypeOK
<1>1. (Connected \subseteq socks)'
  BY StepTypeOK, StepListed DEF Listed, Connected
<1>2. ASSUME NEW c \in socks', pc'[c] \in {"done", "panicked"}
      PROVE  CloseHandler'[c] = "nil"
  <2>1. CASE UNCHANGED vars
    BY <1>2, <2>1 DEF vars, SocksAreConnected
  <2>2. ASSUME NEW d \in Conns, ConnMoves(d), Moves(d) PROVE CloseHandler'[c] = "nil"
    <3>1. socks' \subseteq socks \cup {d} /\ \A x \in Conns : x # d => CloseHandler'[x] = CloseHandler[x]
      BY <1>0, <2>2 DEF ConnMoves, Handshake, EndRead, ConnStep, AddSock, ReadRooms, Greet,
         CheckCloseHandler, CallCloseHandler, RemoveSock, Removed
    <3>2. CASE c # d
      BY <1>0, <1>2, <2>2, <3>1, <3>2 DEF SocksAreConnected, Moves
    <3>3. CASE c = d
      <4>1. CASE Handshake(d)
        BY <1>2, <3>3, <4>1 DEF Handshake, Listed
      <4>2. CASE AddSock(d) \/ ReadRooms(d) \/ Greet(d)
        BY <1>2, <3>3, <4>2, GotoIs DEF AddSock, ReadRooms, Greet
      <4>3. CASE EndRead(d)
        BY <1>2, <3>3, <4>3, GotoIs DEF EndRead, Listed
      <4>4. CASE CheckCloseHandler(d)
        BY <1>0, <1>2, <3>3, <4>4, GotoIs DEF CheckCloseHandler, Listed
      <4>5. CASE CallCloseHandler(d)
        BY <1>0, <1>2, <3>3, <4>5, GotoIs DEF CallCloseHandler, Listed
      <4>6. CASE RemoveSock(d)
        BY <1>2, <3>3, <4>6 DEF RemoveSock, Removed
      <4> QED BY <2>2, <4>1, <4>2, <4>3, <4>4, <4>5, <4>6 DEF ConnMoves, ConnStep
    <3> QED BY <3>2, <3>3
  <2>3. ASSUME NEW p \in Procs \ Conns, Moves(p), socks' = socks,
               \A x \in Conns : CloseHandler'[x] \in {CloseHandler[x], "nil"}
        PROVE  CloseHandler'[c] = "nil"
    BY <1>0, <1>2, <2>3 DEF Moves, SocksAreConnected
  <2>4. ASSUME NEW p \in Procs \ Conns, ProcStep(p), Moves(p) PROVE CloseHandler'[c] = "nil"
    <3>1. socks' = socks /\ \A x \in Conns : CloseHandler'[x] \in {CloseHandler[x], "nil"}
      BY <1>0, <2>4 DEF ProcStep, CreateRoom, FindRoom, ReadSocks, Tell, Return
    <3> QED BY <2>3, <2>4, <3>1
  <2>5. ASSUME NEW p \in Creates \cup Sends, Ask(p), Moves(p) PROVE CloseHandler'[c] = "nil"
    BY <2>3, <2>5 DEF Ask
  <2>6. ASSUME Signal, Moves(Shutdown) PROVE CloseHandler'[c] = "nil"
    BY <2>3, <2>6 DEF Signal
  <2> QED BY <2>1, <2>2, <2>4, <2>5, <2>6, OneMoves
<1> QED
  BY <1>1, <1>2 DEF SocksAreConnected

\* A step that adds no room, no connected browser, and takes no announcement away.
Announces(c) == \E p \in Creates : pc[p] = "socksmu" \/ c \in todo[p]
LEMMA StepRooms ==
  ASSUME TypeOK, Paths, Listed, RoomsKnown, [Next]_vars
  PROVE  RoomsKnown'
<1> USE Kinds
<1>0. /\ pc \in [Procs -> Labels] /\ todo \in [Procs -> SUBSET Conns]
      /\ known \in [Conns -> SUBSET Rooms]
  BY DEF TypeOK
<1>1. CASE UNCHANGED vars
  BY <1>1 DEF vars, RoomsKnown, Connected
<1>2. ASSUME NEW c \in Conns, ConnMoves(c), Moves(c) PROVE RoomsKnown'
  <2>1. todo' = todo /\ rooms' = rooms /\ \A p \in Creates : pc'[p] = pc[p]
    BY <1>2 DEF ConnMoves, Handshake, EndRead, ConnStep, AddSock, ReadRooms, Greet,
       CheckCloseHandler, CallCloseHandler, RemoveSock, Moves
  <2>2. CASE Greet(c)
    <3>1. known' = Told({c}) /\ open' = open
      BY <2>2 DEF Greet
    <3>2. \A d \in Conns : known'[d] = IF d = c /\ d \in open THEN rooms ELSE known[d]
      BY <3>1 DEF Told
    <3> QED BY <1>2, <2>1, <3>1, <3>2 DEF RoomsKnown, Connected, Moves
  <2>3. CASE ~Greet(c)
    <3>1. pc'[c] # "read" /\ known' = known /\ open' \subseteq open \cup {c}
      BY <1>2, <2>3, GotoIs DEF ConnMoves, Handshake, EndRead, ConnStep, AddSock, ReadRooms,
         CheckCloseHandler, CallCloseHandler, RemoveSock
    <3> QED BY <1>2, <2>1, <3>1 DEF RoomsKnown, Connected, Moves
  <2> QED BY <2>2, <2>3
<1>3. ASSUME NEW p \in Procs \ Conns, Moves(p), UNCHANGED <<todo, rooms, known, open>>,
             p \in Creates => pc[p] # "socksmu"
      PROVE  RoomsKnown'
  BY <1>3 DEF RoomsKnown, Connected, Moves
<1>4. ASSUME NEW p \in Procs \ Conns, ProcStep(p), Moves(p) PROVE RoomsKnown'
  <2>1. CASE FindRoom(p) \/ Return(p)
    BY <1>3, <1>4, <2>1 DEF FindRoom, Return
  <2>2. CASE CreateRoom(p)
    <3>1. p \in Creates
      BY <1>4, <2>2 DEF CreateRoom, Paths, Procs
    <3>2. CASE rooms' = rooms
      BY <1>3, <1>4, <2>2, <3>2 DEF CreateRoom
    <3>3. CASE pc'[p] = "socksmu"
      BY <3>1, <3>3 DEF RoomsKnown
    <3> QED BY <2>2, <3>2, <3>3, GotoIs DEF CreateRoom
  <2>3. CASE ReadSocks(p)
    <3>1. todo' = [todo EXCEPT ![p] = socks] /\ UNCHANGED <<rooms, known, open>>
      BY <2>3 DEF ReadSocks
    <3>2. \A c \in Conns : pc'[c] = pc[c]
      BY <1>4 DEF Moves
    <3>3. Connected' = Connected /\ Connected \subseteq socks
      BY <3>1, <3>2, ListedConnected DEF Connected
    <3>4. CASE p \in Creates
      BY <1>0, <3>1, <3>3, <3>4 DEF RoomsKnown
    <3>5. CASE p \notin Creates
      BY <1>0, <1>4, <3>1, <3>3, <3>5 DEF RoomsKnown, Moves
    <3> QED BY <3>4, <3>5
  <2>4. CASE Tell(p)
    <3>1. PICK c \in todo[p] :
            /\ todo' = [todo EXCEPT ![p] = @ \ {c}]
            /\ known' = IF p \in Creates THEN Told({c}) ELSE known
            /\ open' \subseteq open /\ UNCHANGED <<pc, rooms>>
      BY <2>4 DEF Tell
    <3>2. p \in Creates => /\ \A d \in Conns : d # c => known'[d] = known[d]
                           /\ c \in open => known'[c] = rooms
      BY <1>0, <3>1 DEF Told
    <3>3. Connected' \subseteq Connected
      BY <3>1 DEF Connected
    <3>4. CASE p \in Creates
      <4>1. SUFFICES ASSUME NEW d \in Connected', known'[d] # rooms'
                     PROVE  \E q \in Creates : pc'[q] = "socksmu" \/ d \in todo'[q]
        BY DEF RoomsKnown
      <4>2. d \in Connected /\ d \in open /\ d \in Conns
        BY <3>3, <4>1 DEF Connected
      <4>3. d # c /\ known[d] # rooms
        BY <3>1, <3>2, <3>4, <4>1, <4>2
      <4>4. PICK q \in Creates : pc[q] = "socksmu" \/ d \in todo[q]
        BY <4>2, <4>3 DEF RoomsKnown
      <4> QED BY <1>0, <3>1, <4>3, <4>4
    <3>5. CASE p \notin Creates
      <4>1. known' = known /\ \A q \in Creates : todo'[q] = todo[q]
        BY <1>0, <3>1, <3>5
      <4> QED BY <3>1, <3>3, <4>1 DEF RoomsKnown
    <3> QED BY <3>4, <3>5
  <2> QED BY <1>4, <2>1, <2>2, <2>3, <2>4 DEF ProcStep
<1>5. ASSUME NEW p \in Creates \cup Sends, Ask(p), Moves(p) PROVE RoomsKnown'
  BY <1>3, <1>5 DEF Ask
<1>6. ASSUME Signal, Moves(Shutdown) PROVE RoomsKnown'
  BY <1>3, <1>6 DEF Signal
<1> QED
  BY <1>1, <1>2, <1>4, <1>5, <1>6, OneMoves

\* Locks, lists and what browsers were told stay in step: server.go and websocket.go.
THEOREM ChatInvariance == Spec => []ChatInv
<1>1. Init => ChatInv
  BY InitChat
<1>2. ChatInv /\ [Next]_vars => ChatInv'
  BY StepTypeOK, StepPaths, StepHeld, StepListed, StepRooms, StepSocks DEF ChatInv
<1> QED
  BY <1>1, <1>2, PTL DEF Spec

\* No browser that is connected misses a room, other than while one is announced:
\* server.go, onConnect and createRoom.
THEOREM RoomsKnownAlways == Spec => []RoomsKnown
<1>1. ChatInv => RoomsKnown
  BY DEF ChatInv
<1> QED
  BY <1>1, ChatInvariance, PTL

\* Who is connected is in socks, and whoever is left there was closed by the shutdown:
\* server.go, onConnect and its CloseHandler.
THEOREM SocksAreConnectedAlways == Spec => []SocksAreConnected
<1>1. ChatInv => SocksAreConnected
  BY DEF ChatInv
<1> QED
  BY <1>1, ChatInvariance, PTL
=============================================================================
