-------------------------------- MODULE Chat --------------------------------
(***************************************************************************)
(* The chat server (src/examples/websocket-chat/server.go) on top of       *)
(* WebSocketServer.onAccept (src/websocket.go): one goroutine per accepted *)
(* connection, which shakes hands, calls onConnect, reads, and calls the   *)
(* CloseHandler when it closes; one goroutine per create-room and          *)
(* send-message request; and the goroutine that shuts the server down.     *)
(* They share the lists socks and rooms, each under an RWMutex.            *)
(*                                                                         *)
(* Browsers are external: they connect, ask, read what they are sent, and  *)
(* leave.  sync.RWMutex is external: a waiting writer keeps new readers    *)
(* out.                                                                    *)
(***************************************************************************)
EXTENDS Integers, FiniteSets

CONSTANTS
  Conns,      \* connections, each with its goroutine in onAccept
  Creates,    \* goroutines of create-room requests
  Sends,      \* goroutines of send-message requests
  Shutdown,   \* the goroutine of server.Shutdown
  Rooms,      \* names of rooms
  RoomOf,     \* the room each request is about
  FirstRooms, \* those that main creates before it listens
  None        \* no one

ASSUME ChatAssumption ==
  /\ Conns \cap (Creates \cup Sends) = {} /\ Creates \cap Sends = {}
  /\ {Shutdown, None} \cap (Conns \cup Creates \cup Sends) = {} /\ Shutdown # None
  /\ FirstRooms \subseteq Rooms /\ RoomOf \in [Creates \cup Sends -> Rooms]

Procs   == Conns \cup Creates \cup Sends \cup {Shutdown}
Mutexes == {"socksmu", "roomsmu"}

VARIABLES
  writer, readers, waiting, \* of each mutex: who holds it to write (or None), who to
                            \* read, and who waits to write
  pc,                       \* where each goroutine is
  todo,                     \* sockets a loop over socks has still to come to
  socks, rooms,             \* the server's lists
  known,                    \* the rooms each browser was last told of
  open,                     \* connections that are not closed
  CloseHandler              \* of each WebSocket: "unset", "set", or "nil" for good

lockVars == <<writer, readers, waiting>>
vars == <<lockVars, pc, todo, socks, rooms, known, open, CloseHandler>>

Labels == {"idle", "socksmu", "add", "roomsmu", "greet", "read", "closed", "call", "remove",
           "find", "create", "tell", "panicked", "done"}

TypeOK ==
  /\ writer \in [Mutexes -> Procs \cup {None}]
  /\ readers \in [Mutexes -> SUBSET Procs] /\ waiting \in [Mutexes -> SUBSET Procs]
  /\ \A m \in Mutexes : writer[m] # None => readers[m] = {}
  /\ pc \in [Procs -> Labels]
  /\ todo \in [Procs -> SUBSET Conns]
  /\ socks \subseteq Conns /\ rooms \subseteq Rooms
  /\ known \in [Conns -> SUBSET Rooms]
  /\ open \subseteq Conns /\ CloseHandler \in [Conns -> {"unset", "set", "nil"}]

Init ==
  /\ writer = [m \in Mutexes |-> None]
  /\ readers = [m \in Mutexes |-> {}] /\ waiting = [m \in Mutexes |-> {}]
  /\ pc = [p \in Procs |-> "idle"]
  /\ todo = [p \in Procs |-> {}]
  /\ socks = {} /\ rooms = FirstRooms
  /\ known = [c \in Conns |-> {}]
  /\ open = {} /\ CloseHandler = [c \in Conns |-> "unset"]

-----------------------------------------------------------------------------
(* The mutexes.                                                             *)

WantLock(m, p) == waiting' = [waiting EXCEPT ![m] = @ \cup {p}]
CanLock(m)  == writer[m] = None /\ readers[m] = {}
CanRLock(m) == writer[m] = None /\ waiting[m] = {}

Goto(p, label) == pc' = [pc EXCEPT ![p] = label]

-----------------------------------------------------------------------------
(* A connection.                                                            *)

\* onAccept: the handshake, and onConnect up to socksmu.Lock.
Handshake(c) ==
  /\ pc[c] = "idle"
  /\ \/ Goto(c, "socksmu") /\ open' = open \cup {c} /\ WantLock("socksmu", c)
     \/ Goto(c, "done") /\ UNCHANGED <<open, waiting>>
  /\ UNCHANGED <<writer, readers, todo, socks, rooms, known, CloseHandler>>

\* onConnect: the socket is listed and given its CloseHandler; then
\* roomsmu.RLock, with socksmu held.
AddSock(c) ==
  /\ pc[c] = "socksmu" /\ CanLock("socksmu")
  /\ waiting' = [waiting EXCEPT !["socksmu"] = @ \ {c}]
  /\ writer' = [writer EXCEPT !["socksmu"] = c]
  /\ socks' = socks \cup {c}
  /\ CloseHandler' = [CloseHandler EXCEPT ![c] = "set"]
  /\ Goto(c, "roomsmu")
  /\ UNCHANGED <<readers, todo, rooms, known, open>>

ReadRooms(c) ==
  /\ pc[c] = "roomsmu" /\ CanRLock("roomsmu")
  /\ readers' = [readers EXCEPT !["roomsmu"] = @ \cup {c}]
  /\ Goto(c, "greet")
  /\ UNCHANGED <<writer, waiting, todo, socks, rooms, known, open, CloseHandler>>

\* A notification of the rooms is lost when the connection is closed.
Told(S) == [c \in Conns |-> IF c \in S \cap open THEN rooms ELSE known[c]]

LeaveLocked(c) == writer            \* mutant: no deferred Unlock
LeaveSocksmu(c) == [writer EXCEPT !["socksmu"] = IF @ = c THEN None ELSE @]

\* The browser is sent the rooms and its name, and both mutexes are given up; then
\* the read loop starts.
Greet(c) ==
  /\ pc[c] = "greet"
  /\ known' = Told({c})
  /\ readers' = [readers EXCEPT !["roomsmu"] = @ \ {c}]
  /\ writer' = LeaveSocksmu(c)
  /\ Goto(c, "read")
  /\ UNCHANGED <<waiting, todo, socks, rooms, open, CloseHandler>>

\* Read ends when the browser leaves, or the connection was closed; whoever
\* closes it first calls the CloseHandler.
EndRead(c) ==
  /\ pc[c] = "read"
  /\ IF c \in open THEN open' = open \ {c} /\ Goto(c, "closed")
     ELSE Goto(c, "done") /\ UNCHANGED open
  /\ UNCHANGED <<lockVars, todo, socks, rooms, known, CloseHandler>>

\* The function onAccept gave to the Sock looks at the WebSocket's CloseHandler,
\* and then calls what is there by then.
CheckCloseHandler(c) ==
  /\ pc[c] = "closed"
  /\ Goto(c, IF CloseHandler[c] = "set" THEN "call" ELSE "done")
  /\ UNCHANGED <<lockVars, todo, socks, rooms, known, open, CloseHandler>>

CallCloseHandler(c) ==
  /\ pc[c] = "call"
  /\ IF CloseHandler[c] = "set"
     THEN Goto(c, "remove") /\ WantLock("socksmu", c)
     ELSE Goto(c, "panicked") /\ UNCHANGED waiting
  /\ UNCHANGED <<writer, readers, todo, socks, rooms, known, open, CloseHandler>>

RemovedNot(c) == socks              \* mutant: the CloseHandler only prints
Removed(c) == socks \ {c}

\* The CloseHandler, between Lock and Unlock.
RemoveSock(c) ==
  /\ pc[c] = "remove" /\ CanLock("socksmu")
  /\ waiting' = [waiting EXCEPT !["socksmu"] = @ \ {c}]
  /\ socks' = Removed(c)
  /\ Goto(c, "done")
  /\ UNCHANGED <<writer, readers, todo, rooms, known, open, CloseHandler>>

-----------------------------------------------------------------------------
(* Requests.                                                                *)

\* A handler is started for a browser that is connected.
Ask(p) ==
  /\ pc[p] = "idle" /\ \E c \in open : pc[c] = "read"
  /\ IF p \in Creates THEN Goto(p, "create") /\ WantLock("roomsmu", p)
     ELSE Goto(p, "find") /\ UNCHANGED waiting
  /\ UNCHANGED <<writer, readers, todo, socks, rooms, known, open, CloseHandler>>

CreateRoomQuiet(p) ==               \* mutant: a new room is not announced
  /\ pc[p] = "create" /\ CanLock("roomsmu")
  /\ waiting' = [waiting EXCEPT !["roomsmu"] = @ \ {p}]
  /\ rooms' = rooms \cup {RoomOf[p]}
  /\ Goto(p, "done")
  /\ UNCHANGED <<writer, readers, todo, socks, known, open, CloseHandler>>

\* createRoom: an existing room is returned; a new one is listed and announced
\* with roomsmu held.
CreateRoom(p) ==
  /\ pc[p] = "create" /\ CanLock("roomsmu")
  /\ waiting' = [waiting EXCEPT !["roomsmu"] = @ \ {p}]
  /\ IF RoomOf[p] \in rooms
     THEN Goto(p, "done") /\ UNCHANGED <<writer, rooms>>
     ELSE /\ rooms' = rooms \cup {RoomOf[p]}
          /\ writer' = [writer EXCEPT !["roomsmu"] = p]
          /\ Goto(p, "socksmu")
  /\ UNCHANGED <<readers, todo, socks, known, open, CloseHandler>>

\* send-message: findRoom; a room that is not there makes the handler panic.
FindRoom(p) ==
  /\ pc[p] = "find" /\ CanRLock("roomsmu")
  /\ Goto(p, IF RoomOf[p] \in rooms THEN "socksmu" ELSE "panicked")
  /\ UNCHANGED <<lockVars, todo, socks, rooms, known, open, CloseHandler>>

\* broadcast, and the shutdown's loop: socksmu.RLock.
ReadSocks(p) ==
  /\ pc[p] = "socksmu" /\ p \notin Conns /\ CanRLock("socksmu")
  /\ readers' = [readers EXCEPT !["socksmu"] = @ \cup {p}]
  /\ todo' = [todo EXCEPT ![p] = socks]
  /\ Goto(p, "tell")
  /\ UNCHANGED <<writer, waiting, socks, rooms, known, open, CloseHandler>>

\* One round of the loop: a notification, or the end of a connection whose
\* CloseHandler was taken away.
Tell(p) ==
  \E c \in todo[p] :
    /\ pc[p] = "tell"
    /\ todo' = [todo EXCEPT ![p] = @ \ {c}]
    /\ known' = IF p \in Creates THEN Told({c}) ELSE known
    /\ IF p = Shutdown
       THEN open' = open \ {c} /\ CloseHandler' = [CloseHandler EXCEPT ![c] = "nil"]
       ELSE UNCHANGED <<open, CloseHandler>>
    /\ UNCHANGED <<lockVars, pc, socks, rooms>>

\* The deferred RUnlock and, in createRoom, Unlock.
Return(p) ==
  /\ pc[p] = "tell" /\ todo[p] = {}
  /\ readers' = [readers EXCEPT !["socksmu"] = @ \ {p}]
  /\ writer' = [writer EXCEPT !["roomsmu"] = IF @ = p THEN None ELSE @]
  /\ Goto(p, "done")
  /\ UNCHANGED <<waiting, todo, socks, rooms, known, open, CloseHandler>>

\* SIGINT: server.Shutdown calls what enableGracefulShutdown registered.
Signal ==
  /\ pc[Shutdown] = "idle"
  /\ Goto(Shutdown, "socksmu")
  /\ UNCHANGED <<lockVars, todo, socks, rooms, known, open, CloseHandler>>

-----------------------------------------------------------------------------

ConnStep(c) ==
  \/ AddSock(c) \/ ReadRooms(c) \/ Greet(c)
  \/ CheckCloseHandler(c) \/ CallCloseHandler(c) \/ RemoveSock(c)
ProcStep(p) == CreateRoom(p) \/ FindRoom(p) \/ ReadSocks(p) \/ Tell(p) \/ Return(p)

\* A connection holds socksmu and waits for roomsmu, which createRoom holds while
\* it waits for socksmu.
Embrace ==
  \E c \in Conns, p \in Creates :
    /\ pc[c] = "roomsmu" /\ writer["socksmu"] = c
    /\ pc[p] = "socksmu" /\ writer["roomsmu"] = p

Next ==
  \/ \E c \in Conns : Handshake(c) \/ EndRead(c) \/ ConnStep(c)
  \/ \E p \in Procs \ Conns : ProcStep(p)
  \/ \E p \in Creates \cup Sends : Ask(p)
  \/ Signal
Spec == Init /\ [][Next]_vars

\* Goroutines that can run do; a read of a connection that was closed fails.
\* Browsers need not connect, ask or leave.
FairSpec ==
  /\ Spec
  /\ \A c \in Conns : WF_vars(ConnStep(c)) /\ WF_vars(c \notin open /\ EndRead(c))
  /\ \A p \in Procs \ Conns : WF_vars(ProcStep(p))

-----------------------------------------------------------------------------
(* Properties.                                                              *)

Connected == {c \in Conns : pc[c] = "read" /\ c \in open}

\* A browser learns of a room from the list it is sent when it connects or from the
\* broadcast of createRoom: whatever comes between, none misses one, and none is
\* left with an older list than another.
RoomsKnown ==
  \A c \in Connected :
    known[c] = rooms \/ \E p \in Creates : pc[p] = "socksmu" \/ c \in todo[p]

\* server.go:56: who is in socks is connected or about to be taken off, and who is
\* connected is in socks.
SocksAreConnected ==
  /\ Connected \subseteq socks
  /\ \A c \in socks : pc[c] \in {"done", "panicked"} => CloseHandler[c] = "nil"

\* Connecting, asking, leaving and shutting down wait for one another through two
\* mutexes.  Except in the one embrace, everyone gets through.
OnlyEmbraceHangs ==
  \A p \in Procs : (pc[p] \notin {"idle", "read", "done", "panicked"}) ~>
                     (pc[p] \in {"read", "done", "panicked"} \/ Embrace)

-----------------------------------------------------------------------------
(* The inductive invariant.                                                 *)

\* Every kind of goroutine has a way of its own.
Paths ==
  /\ \A p \in Creates : pc[p] \in {"idle", "create", "socksmu", "tell", "done"}
  /\ \A p \in Sends : pc[p] \in {"idle", "find", "socksmu", "tell", "panicked", "done"}
  /\ pc[Shutdown] \in {"idle", "socksmu", "tell", "done"}
  /\ \A c \in Conns : pc[c] \notin {"create", "find", "tell"}

\* A mutex is held by whoever is between its Lock and Unlock, and by no one else.
Held ==
  /\ \A p \in Procs : writer["socksmu"] = p <=> p \in Conns /\ pc[p] \in {"roomsmu", "greet"}
  /\ \A p \in Procs : writer["roomsmu"] = p <=> p \in Creates /\ pc[p] \in {"socksmu", "tell"}
  /\ readers["socksmu"] = {p \in Procs : pc[p] = "tell"}
  /\ readers["roomsmu"] = {c \in Conns : pc[c] = "greet"}

\* From when it is listed a connection has a CloseHandler, until the shutdown takes
\* that away; and no one but the shutdown closes it before its read loop ends.
Listed ==
  /\ \A c \in Conns :
       /\ pc[c] \in {"roomsmu", "greet", "read", "closed", "call", "remove"} => c \in socks
       /\ pc[c] \in {"idle", "socksmu"} => c \notin socks
       /\ c \in socks => CloseHandler[c] \in {"set", "nil"}
       /\ pc[c] = "socksmu" => c \in open
       /\ pc[c] \in {"roomsmu", "greet", "read"} /\ c \notin open => CloseHandler[c] = "nil"
  /\ \A p \in Procs \ Conns : \A c \in todo[p] : pc[c] \notin {"idle", "socksmu"}

ChatInv == TypeOK /\ Paths /\ Held /\ Listed /\ RoomsKnown /\ SocksAreConnected

-----------------------------------------------------------------------------
(* What the code says, and does not do.                                     *)

\* server.go:56: "When the connection closes, remove the socket from our lists of
\* connected peers".
ClosedAreRemoved ==
  \A c \in Conns : (pc[c] = "remove") ~> (c \notin socks)

\* server.go:193: the CloseHandler is set to nil "to avoid deadlock"; a connection
\* that closes meanwhile survives that.
NoNilCall == \A c \in Conns : pc[c] # "panicked"
=============================================================================
