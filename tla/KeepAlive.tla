----------------------------- MODULE KeepAlive -----------------------------
(***************************************************************************)
(* How a JavaScript Sock stays connected: src/js/gotalk/keepalive.js, and  *)
(* the parts of index.js that open, adopt and lose WebSockets.  A          *)
(* keepalive object reacts to the end of a connection attempt, to the Sock *)
(* event "close", to a timer, and to the browser event "online".  Each     *)
(* action is one turn of the event loop.                                   *)
(*                                                                         *)
(* WebSockets are numbered in the order they were made, keepalive objects  *)
(* too.  The network and the server are external.                          *)
(***************************************************************************)
EXTENDS Integers, FiniteSets, EventEmitter

CONSTANTS
  MinDelay, MaxDelay, \* minReconnectDelay, maxReconnectDelay
  ShortDelay,    \* the least delay after a clean close; 100 in the code
  WaitsForOnline,\* TRUE where navigator.onLine is heeded: there is no page, or a local one
  Reopens,       \* TRUE when the application may call openKeepAlive again
  Listens,       \* TRUE when the application listens to "close" once it is open
  MaxSockets,    \* bound: WebSockets made
  MaxObjects     \* bound: keepalive objects made

ASSUME KeepAliveAssumption ==
  /\ MinDelay \in Nat /\ MaxDelay \in Nat /\ ShortDelay \in Nat
  /\ 0 < ShortDelay /\ ShortDelay <= MinDelay /\ MinDelay <= MaxDelay
  /\ WaitsForOnline \in BOOLEAN /\ Reopens \in BOOLEAN /\ Listens \in BOOLEAN
  /\ MaxSockets \in Nat \ {0} /\ MaxObjects \in Nat \ {0}

VARIABLES
  sockets,       \* WebSockets: [st, by, heard], see SocketType
  ws, isOpen,    \* Sock.ws (0: null), Sock._isOpen
  ka,            \* Sock.keepalive (0: null)
  objects,       \* keepalive objects: [enabled, isConnected, delay, timer]
  onClose,       \* listeners to the Sock's "close"
  onOnline,      \* listeners to netAccess "online"
  onLine,        \* netAccess.onLine
  told,          \* closes the application was told of, and those it should have been
  ended          \* TRUE since the application has called end()

vars == <<sockets, ws, isOpen, ka, objects, onClose, onOnline, onLine, told, ended>>

\* A WebSocket, the keepalive object whose call made it, and what listens to its
\* onclose: openWebSocket, adoptWebSocket, or nothing.
SocketType == [st : {"connecting", "open", "closing", "closed"}, by : 1 .. MaxObjects,
               heard : {"opening", "adopted", "none"}]
ObjectType == [enabled : BOOLEAN, isConnected : BOOLEAN, delay : 0 .. MaxDelay,
               timer : BOOLEAN]
Live(i)    == sockets[i].st \in {"connecting", "open", "closing"}
App        == 0   \* the application, among listeners
Listeners  == [who : 0 .. MaxObjects, once : BOOLEAN]
CloseKinds == {"clean", "timeout", "protocol", "error"}

TypeOK ==
  /\ sockets \in Seq(SocketType) /\ Len(sockets) <= MaxSockets
  /\ ws \in 0 .. Len(sockets) /\ isOpen \in BOOLEAN /\ ka \in 0 .. Len(objects)
  /\ objects \in Seq(ObjectType) /\ Len(objects) \in 1 .. MaxObjects
  /\ onClose \in Seq(Listeners) /\ onOnline \in Seq(Listeners)
  /\ \A l \in Range(onClose) \cup Range(onOnline) : l.who <= Len(objects)
  /\ onLine \in BOOLEAN /\ ended \in BOOLEAN
  /\ told.heard \in Nat /\ told.due \in Nat

\* Sock().openKeepAlive(): enable() opens at once.
Fresh == [enabled |-> TRUE, isConnected |-> FALSE, delay |-> 0, timer |-> FALSE]
Opening(k) == [st |-> "connecting", by |-> k, heard |-> "opening"]
Init ==
  /\ sockets = <<Opening(1)>> /\ ws = 0 /\ isOpen = FALSE
  /\ ka = 1 /\ objects = <<Fresh>>
  /\ onClose = <<>> /\ onOnline = <<>> /\ onLine \in BOOLEAN
  /\ told = [heard |-> 0, due |-> 0] /\ ended = FALSE

-----------------------------------------------------------------------------
(* keepalive.js                                                             *)

Doubled(d) == IF 2 * d < MaxDelay THEN 2 * d ELSE MaxDelay

\* The delay before the next attempt.  After a clean close it is the shorter the
\* longer the connection has lasted.
Delays(kind, d) ==
  CASE kind = "timeout"  -> {0}
    [] kind = "protocol" -> {MaxDelay}
    [] kind = "error"    -> {IF d = 0 THEN MinDelay ELSE Doubled(d)}
    [] kind = "clean"    -> {ShortDelay, MinDelay}

\* retry for the object o: what may become of it.  Where waits holds, it listens
\* to "online" instead of setting its timer.
Stopped(o) == [o EXCEPT !.timer = FALSE, !.isConnected = FALSE]
Retried(o, kind, waits) ==
  IF ~o.enabled THEN {Stopped(o)}
  ELSE IF waits THEN {[Stopped(o) EXCEPT !.delay = 0]}
  ELSE {[Stopped(o) EXCEPT !.timer = TRUE, !.delay = d] : d \in Delays(kind, o.delay)}

\* Who of those retried listens to "online" from now on, behind those in list.
Rejoins(k, waits) == k # App /\ objects[k].enabled /\ waits
Rejoined(who, waits, list) ==
  LET after[i \in 0 .. Len(who)] ==
        IF i = 0 THEN list
        ELSE IF Rejoins(who[i], waits) THEN Once(after[i - 1], who[i]) ELSE after[i - 1]
  IN after[Len(who)]

\* retry, called for each of who in turn; list is what listens to "online" before.
RetryAll(who, kind, waits, list) ==
  LET may(k) == IF k \in Range(who) THEN Retried(objects[k], kind, waits) ELSE {objects[k]}
  IN /\ objects' \in {os \in [DOMAIN objects -> UNION {may(k) : k \in DOMAIN objects}] :
                        \A k \in DOMAIN objects : os[k] \in may(k)}
     /\ onOnline' = Rejoined(who, waits, list)
Waits == WaitsForOnline /\ ~onLine

TimerFiresOn ==                     \* mutant: the timer is not a one-shot
  \E k \in DOMAIN objects :
    /\ objects[k].timer /\ Len(sockets) < MaxSockets
    /\ sockets' = Append(sockets, Opening(k))
    /\ UNCHANGED <<ws, isOpen, ka, objects, onClose, onOnline, onLine, told, ended>>

\* The timer fires, and open asks for another WebSocket.
TimerFires ==
  \E k \in DOMAIN objects :
    /\ objects[k].timer /\ Len(sockets) < MaxSockets
    /\ objects' = [objects EXCEPT ![k].timer = FALSE]
    /\ sockets' = Append(sockets, Opening(k))
    /\ UNCHANGED <<ws, isOpen, ka, onClose, onOnline, onLine, told, ended>>

\* The browser goes off line, or on line again.
Offline ==
  /\ onLine /\ onLine' = FALSE
  /\ UNCHANGED <<sockets, ws, isOpen, ka, objects, onClose, onOnline, told, ended>>
OnlineUnset ==                      \* mutant: netAccess.onLine is not set back
  /\ ~onLine
  /\ LET e == Emit(onOnline) IN RetryAll(e.called, "clean", Waits, e.list)
  /\ UNCHANGED <<sockets, ws, isOpen, ka, onClose, onLine, told, ended>>
Online ==
  /\ ~onLine /\ onLine' = TRUE
  /\ LET e == Emit(onOnline) IN RetryAll(e.called, "clean", FALSE, e.list)
  /\ UNCHANGED <<sockets, ws, isOpen, ka, onClose, told, ended>>

-----------------------------------------------------------------------------
(* index.js                                                                 *)

\* ws.onopen: the Sock adopts the WebSocket, whatever it had before; then the
\* keepalive object listens to the Sock's next close.
Opens ==
  \E i \in DOMAIN sockets :
    LET k == sockets[i].by IN
    /\ sockets[i].st = "connecting"
    /\ sockets' = [sockets EXCEPT ![i].st = "open", ![i].heard = "adopted"]
    /\ ws' = i /\ isOpen' = TRUE
    /\ objects' = [objects EXCEPT ![k].delay = 0, ![k].isConnected = TRUE]
    /\ onClose' = LET l == Once(onClose, k) IN
                    IF Listens /\ Listener(App, FALSE) \notin Range(l) THEN AddListener(l, App) ELSE l
    /\ UNCHANGED <<ka, onOnline, onLine, told, ended>>

\* ws.onclose before onopen: the attempt failed.
OpenFails ==
  \E i \in DOMAIN sockets :
    /\ sockets[i].st = "connecting"
    /\ sockets' = [sockets EXCEPT ![i].st = "closed"]
    /\ RetryAll(<<sockets[i].by>>, "error", Waits, onOnline)
    /\ UNCHANGED <<ws, isOpen, ka, onClose, onLine, told, ended>>

\* ws.onclose of an adopted WebSocket: resetSock takes the handlers off the one
\* the Sock has now, and the Sock emits "close".
ResetSock == ws' = 0 /\ isOpen' = FALSE
Closes ==
  \E i \in DOMAIN sockets, kind \in CloseKinds :
    /\ sockets[i].st \in {"open", "closing"} /\ sockets[i].heard = "adopted"
    /\ sockets' = [j \in DOMAIN sockets |->
         [sockets[j] EXCEPT !.st = IF j = i THEN "closed" ELSE @,
                            !.heard = IF j = ws THEN "none" ELSE @]]
    /\ ResetSock
    /\ LET e == Emit(onClose) IN
         /\ onClose' = e.list
         /\ RetryAll(e.called, kind, Waits, onOnline)
         /\ told' = [heard |-> told.heard + (IF App \in Range(e.called) THEN 1 ELSE 0),
                     due |-> told.due + (IF Listener(App, FALSE) \in Range(onClose) THEN 1 ELSE 0)]
    /\ UNCHANGED <<ka, onLine, ended>>

\* A WebSocket nobody listens to any more closes.
ClosesUnheard ==
  \E i \in DOMAIN sockets :
    /\ sockets[i].st \in {"open", "closing"} /\ sockets[i].heard = "none"
    /\ sockets' = [sockets EXCEPT ![i].st = "closed"]
    /\ UNCHANGED <<ws, isOpen, ka, objects, onClose, onOnline, onLine, told, ended>>

\* disable(), of the Sock's keepalive object if it has one.
DisabledKeepsTimer(os) ==           \* mutant: a waiting timer stays
  IF ka = 0 THEN os ELSE [os EXCEPT ![ka].enabled = FALSE]
Disabled(os) ==
  IF ka = 0 \/ ~os[ka].enabled THEN os
  ELSE [os EXCEPT ![ka].enabled = FALSE, ![ka].timer = FALSE, ![ka].delay = 0]

\* end(), with no response outstanding, where it changes anything.
End ==
  /\ ~ended \/ (ws # 0 /\ sockets[ws].st = "open")
  /\ ended' = TRUE
  /\ objects' = Disabled(objects) /\ ka' = 0
  /\ sockets' = IF ws = 0 THEN sockets ELSE [sockets EXCEPT ![ws].st = "closing"]
  /\ UNCHANGED <<ws, isOpen, onClose, onOnline, onLine, told>>

OpenKeepAliveBoth ==                \* mutant: the former object stays enabled
  /\ Reopens /\ Len(objects) < MaxObjects /\ Len(sockets) < MaxSockets
  /\ objects' = Append(objects, Fresh)
  /\ ka' = Len(objects) + 1
  /\ sockets' = Append(sockets, Opening(Len(objects) + 1))
  /\ ended' = FALSE
  /\ UNCHANGED <<ws, isOpen, onClose, onOnline, onLine, told>>

\* openKeepAlive(), on a Sock that was used before.
OpenKeepAlive ==
  /\ Reopens /\ Len(objects) < MaxObjects /\ Len(sockets) < MaxSockets
  /\ objects' = Append(Disabled(objects), Fresh)
  /\ ka' = Len(objects) + 1
  /\ sockets' = Append(sockets, Opening(Len(objects) + 1))
  /\ ended' = FALSE
  /\ UNCHANGED <<ws, isOpen, onClose, onOnline, onLine, told>>

\* Every WebSocket is closed and no other will be made.
Resting == (\A i \in DOMAIN sockets : sockets[i].st = "closed") /\ UNCHANGED vars

Next ==
  \/ TimerFires \/ Offline \/ Online \/ Opens \/ OpenFails \/ Closes \/ ClosesUnheard
  \/ End \/ OpenKeepAlive \/ Resting
Spec == Init /\ [][Next]_vars

\* Timers fire, the browser comes back on line, an attempt to connect succeeds or
\* fails, and a WebSocket that is closing closes.
SomeClosing == \E i \in DOMAIN sockets : sockets[i].st = "closing"
FairSpec ==
  /\ Spec /\ WF_vars(TimerFires) /\ WF_vars(Online) /\ WF_vars(Opens \/ OpenFails)
  /\ WF_vars(SomeClosing /\ (Closes \/ ClosesUnheard))

-----------------------------------------------------------------------------
(* Properties.                                                              *)

\* Of the first keepalive object alone, before openKeepAlive is called again.
Sole == Len(objects) = 1

\* However connections fail, close and come back, the Sock has one WebSocket at
\* a time, and it is the one the Sock knows.
OneSocket == Sole =>
  /\ Cardinality({i \in DOMAIN sockets : Live(i)}) <= 1
  /\ \A i \in DOMAIN sockets : sockets[i].st = "open" => ws = i /\ isOpen

\* Wherever openKeepAlive and end are called, one object at most keeps the Sock
\* open, the one the Sock knows (index.js:816-818); and each waits for one thing at a
\* time: two attempts of one object, or an attempt and a timer, would grow into more
\* and more connections.
OneAttempt ==
  \A k \in DOMAIN objects :
    LET attempts == Cardinality({i \in DOMAIN sockets :
                                  sockets[i].by = k /\ sockets[i].st = "connecting"})
    IN /\ objects[k].enabled => ka = k
       /\ attempts <= (IF objects[k].timer \/ objects[k].isConnected THEN 0 ELSE 1)

\* index.js:826: end() closes the WebSocket, unless one is just connecting, which it
\* does not stop; and after that no timer, event or former object opens another
\* before the application does.
Over == \A i \in DOMAIN sockets : sockets[i].st \in {"closing", "closed"}
EndHolds ==
  [][/\ ended'
     /\ IF ended THEN Over ELSE Sole /\ \A i \in DOMAIN sockets : sockets[i].st # "connecting"
     => Over']_vars

\* A Sock that was not ended is open again after every loss, or tries for ever.
KeepsTrying == ~isOpen ~> (isOpen \/ ended \/ ~Sole \/ Len(sockets) = MaxSockets)

-----------------------------------------------------------------------------
(* The inductive invariant.                                                 *)

\* A list in which each object has one listener at most, and that is for once.
Listening(list, k) == \E j \in DOMAIN list : list[j].who = k
Tidy(list) ==
  /\ \A j \in DOMAIN list : list[j].who # App => list[j].once
  /\ \A i, j \in DOMAIN list : list[i].who = list[j].who /\ list[i].who # App => i = j

\* An object is trying, waits for its timer, waits to be on line, or is connected, and
\* listens to a close only then.
Trying(k, i) == sockets[i].by = k /\ sockets[i].st = "connecting"
Busy(k) ==
  LET o == objects[k] IN
  /\ \A i, j \in DOMAIN sockets : Trying(k, i) /\ Trying(k, j) => i = j
  /\ (\E i \in DOMAIN sockets : Trying(k, i)) =>
       ~o.timer /\ ~o.isConnected /\ ~Listening(onOnline, k)
  /\ o.timer => ~o.isConnected /\ ~Listening(onOnline, k)
  /\ o.isConnected => ~Listening(onOnline, k)
  /\ Listening(onClose, k) => o.isConnected

\* The object that is enabled is the Sock's own, and it alone has a timer.
Enabled ==
  /\ \A k \in DOMAIN objects : (objects[k].enabled => ka = k) /\ (objects[k].timer => objects[k].enabled)
  /\ ended => ka = 0

\* A WebSocket of the one object is closed, or being connected, or the object is.
Attached(i) == sockets[i].st \in {"open", "closing"}
First == Sole =>
  /\ \A i \in DOMAIN sockets : Attached(i) => objects[1].isConnected
  /\ \A i, j \in DOMAIN sockets : Attached(i) /\ Attached(j) => i = j
  /\ \A i \in DOMAIN sockets : sockets[i].st = "open" => ws = i /\ isOpen

\* The Sock's WebSocket is neither being connected nor closed, and it listens to it.
Own == ws # 0 => Attached(ws) /\ sockets[ws].heard = "adopted"

KeepAliveInv ==
  /\ TypeOK /\ \A i \in DOMAIN sockets : sockets[i].by <= Len(objects)
  /\ Tidy(onClose) /\ Tidy(onOnline)
  /\ \A k \in DOMAIN objects : Busy(k)
  /\ Enabled /\ First /\ Own

-----------------------------------------------------------------------------
(* What the documentation says, and the code does not do.                   *)

\* index.js:826: the connection is kept "until Sock.end() is called".
EndIsTheEnd == ended ~> (\A i \in DOMAIN sockets : sockets[i].st = "closed")

\* gotalk.d.ts:107: a Sock on which openKeepAlive was called "will stay
\* connected, and reconnect as needed, until you call end()".
StaysConnected ==
  (ka # 0 /\ objects[ka].enabled /\ ~isOpen) ~>
    (isOpen \/ ka = 0 \/ Len(sockets) = MaxSockets)

\* gotalk.d.ts:88: "close" is emitted when "connection is closed", to everyone who
\* listens.
AppHearsClose == told.heard = told.due
=============================================================================
