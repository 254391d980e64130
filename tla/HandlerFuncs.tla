---------------------------- MODULE HandlerFuncs ----------------------------
(***************************************************************************)
(* src/handle.go: what Handle and HandleNotification make of an arbitrary  *)
(* Go function by reflection: which ones they accept, with what arguments  *)
(* the wrapper calls one, and what a request gets of it.                   *)
(*                                                                         *)
(* A function is what the code can tell of it: whether it is one, whether  *)
(* its type has a name, and what kinds its inputs and outputs have.        *)
(***************************************************************************)
EXTENDS Integers, Sequences

\* A "NamedString" is another type of kind String.
InTypes  == {"SockPtr", "string", "NamedString", "other"}
\* An "ErrorPtr" is another type that implements error and can be nil, an
\* "ErrorStruct" one that cannot be nil.
OutTypes == {"error", "ErrorPtr", "ErrorStruct", "other"}
Signatures ==
  [form : {"func", "NamedFunc", "NotFunc"}, in : Seq(InTypes), out : Seq(OutTypes)]

CONSTANT Funcs  \* functions an application tries to register

ASSUME FuncsAssumption == Funcs \subseteq Signatures

VARIABLES
  func,     \* the function registered
  wrapped,  \* what became of it: "no" yet, or what it handles, or "refused" for that: a panic
  got       \* the last message it handled: whether that decodes, what the function
            \* returned, and what came of it
funcVars == <<func, wrapped, got>>

NoFunc == [form |-> "NotFunc", in |-> <<>>, out |-> <<>>]
NoMsg  == [decodes |-> TRUE, ret |-> "value", res |-> "none"]
FuncsInit == func = NoFunc /\ wrapped = "no" /\ got = NoMsg

\* How a function returns: with an error or without, and then with a value that
\* json.Marshal takes or one it does not.
Returns == {"error", "value", "NotJSON"}

\* reflect.Call takes the socket and the name for exactly these types; parameters
\* are decoded into whatever type is asked for.
Fits(arg, type) ==
  CASE arg = "sock" -> type = "SockPtr" [] arg = "name" -> type = "string" [] OTHER -> TRUE
AllFit(args, types) ==
  Len(args) = Len(types) /\ \A i \in 1 .. Len(types) : Fits(args[i], types[i])

-----------------------------------------------------------------------------
(* Requests.                                                                *)

IsSockPtr(type) == type = "SockPtr"                     \* typeIsSockPtr
IsString(type)  == type \in {"string", "NamedString"} \* Kind() == reflect.String

\* wrapFuncReqHandler panics.
ReqRefused(f) ==
  LET n == Len(f.in)  m == Len(f.out) IN
  \/ f.form = "NotFunc"
  \/ n \notin 0 .. 3 \/ m \notin {1, 2} \/ f.out[m] = "other"
  \/ n > 1 /\ ~IsSockPtr(f.in[1])
  \/ n = 3 /\ ~IsString(f.in[2])
  \/ n = 0 /\ m = 1 /\ (f.form = "NamedFunc" \/ f.out[1] # "error")

ReqArgsSwapped(f) ==                \* mutant: the name comes before the socket
  CASE Len(f.in) = 3 -> <<"name", "sock", "params">>
    [] Len(f.in) = 2 -> <<"sock", "params">>
    [] Len(f.in) = 1 -> IF IsSockPtr(f.in[1]) THEN <<"sock">> ELSE <<"params">>
    [] OTHER         -> <<>>
\* What the wrapper calls the function with.
ReqArgs(f) ==
  CASE Len(f.in) = 3 -> <<"sock", "name", "params">>
    [] Len(f.in) = 2 -> <<"sock", "params">>
    [] Len(f.in) = 1 -> IF IsSockPtr(f.in[1]) THEN <<"sock">> ELSE <<"params">>
    [] OTHER         -> <<>>

\* decodeResult, with valToErr; a func() error is called without reflection.
DecodeResult(f, ret) ==
  LET m == Len(f.out) IN
  CASE Len(f.in) > 0 /\ f.out[m] = "ErrorStruct" -> "panic"
    [] Len(f.in) = 0 /\ m = 2 /\ f.out[m] = "ErrorStruct" -> "panic"
    [] ret = "error" \/ (m = 2 /\ ret = "NotJSON") -> "error"
    [] OTHER -> IF m = 2 THEN "value" ELSE "nothing"

\* What a request gets whose payload decodeParams can decode, or cannot.
Answer(f, decodes, ret) ==
  CASE ~decodes /\ Len(f.in) > 0 /\ ReqArgs(f)[Len(f.in)] = "params" -> "error"
    [] ~AllFit(ReqArgs(f), f.in) -> "panic"
    [] OTHER -> DecodeResult(f, ret)

\* Handlers.Handle, and a request that comes later.
HandleFunc ==
  /\ wrapped = "no"
  /\ func' \in Funcs
  /\ wrapped' = IF ReqRefused(func') THEN "request refused" ELSE "request"
  /\ UNCHANGED got
ReadRequest ==
  /\ wrapped = "request"
  /\ \E d \in BOOLEAN, r \in Returns :
       got' = [decodes |-> d, ret |-> r, res |-> Answer(func, d, r)]
  /\ UNCHANGED <<func, wrapped>>

-----------------------------------------------------------------------------
(* Notifications.                                                           *)

\* wrapFuncNotHandler panics.
NoteRefused(f) ==
  LET n == Len(f.in) IN
  \/ f.form = "NotFunc"
  \/ n \notin 0 .. 3 \/ Len(f.out) # 0
  \/ n = 3 /\ (~IsSockPtr(f.in[1]) \/ ~IsString(f.in[2]))
  \/ n = 2 /\ ~IsString(f.in[1])

NoteArgs(f) ==
  CASE Len(f.in) = 3 -> <<"sock", "name", "params">>
    [] Len(f.in) = 2 -> <<"name", "params">>
    [] Len(f.in) = 1 -> <<"params">>
    [] OTHER         -> <<>>

\* Whether the wrapper's call panics by itself.  A func() is called as that type,
\* which one of a named type is not.
NotePanics(f) == ~AllFit(NoteArgs(f), f.in) \/ (Len(f.in) = 0 /\ f.form = "NamedFunc")

\* Handlers.HandleNotification, and a notification; a payload that cannot be decoded
\* makes no difference.
HandleNoteFunc ==
  /\ wrapped = "no"
  /\ func' \in Funcs
  /\ wrapped' = IF NoteRefused(func') THEN "notification refused" ELSE "notification"
  /\ UNCHANGED got
ReadNote ==
  /\ wrapped = "notification"
  /\ \E d \in BOOLEAN :
       got' = [decodes |-> d, ret |-> "value",
               res |-> IF NotePanics(func) THEN "panic" ELSE "nothing"]
  /\ UNCHANGED <<func, wrapped>>

FuncsNext == HandleFunc \/ ReadRequest \/ HandleNoteFunc \/ ReadNote
FuncsSpec == FuncsInit /\ [][FuncsNext]_funcVars

-----------------------------------------------------------------------------
(* What the documentation lists (handle.go:52-63, 85-88).                   *)

ReqInputs(f) ==
  \/ Len(f.in) = 3 /\ f.in[1] = "SockPtr" /\ f.in[2] = "string" \* takes socket, op and parameters
  \/ Len(f.in) = 2 /\ f.in[1] = "SockPtr"                       \* takes socket and parameters
  \/ Len(f.in) = 1                                            \* a socket, or else parameters
  \/ Len(f.in) = 0
ReqListed(f) ==
  /\ f.form = "func" /\ ReqInputs(f)
  /\ Len(f.out) \in {1, 2} /\ f.out[Len(f.out)] = "error"
NoteListed(f) ==
  /\ f.form = "func" /\ Len(f.out) = 0
  /\ \/ Len(f.in) = 3 /\ f.in[1] = "SockPtr" /\ f.in[2] = "string"
     \/ Len(f.in) = 2 /\ f.in[1] = "string"
     \/ Len(f.in) \in {0, 1}

\* What is accepted beside that: strings, errors and functions whose type has a name.
Lenient(f) ==
  \/ f.form = "NamedFunc" \/ \E i \in 1 .. Len(f.in) : f.in[i] = "NamedString"
  \/ \E i \in 1 .. Len(f.out) : f.out[i] \in {"ErrorPtr", "ErrorStruct"}

\* What the sender of a request to a listed function may get: the error it returned, or
\* one because the payload or the value does not convert; else its value, if it has one.
Due(f, m) ==
  CASE m.ret = "error" -> {"error"}
    [] m.ret = "value" /\ m.decodes -> {IF Len(f.out) = 2 THEN "value" ELSE "nothing"}
    [] OTHER -> {"error", IF Len(f.out) = 2 THEN "value" ELSE "nothing"}

\* Of functions of any type, what is listed is accepted, and called with what it
\* takes: no call panics by itself, and a request is answered with what the function
\* returned.  What is not listed is refused when it is registered, not when a message
\* arrives.
FuncsAsListed ==
  /\ wrapped = "request refused" => ~ReqListed(func)
  /\ wrapped = "request" =>
       /\ ReqListed(func) \/ Lenient(func)
       /\ ReqListed(func) /\ got # NoMsg => got.res \in Due(func, got)
  /\ wrapped = "notification refused" => ~NoteListed(func)
  /\ wrapped = "notification" =>
       /\ NoteListed(func) \/ Lenient(func)
       /\ NoteListed(func) => got.res # "panic"

-----------------------------------------------------------------------------
(* What the code says, and does not do.                                     *)

\* "invalid handler signature" (handle.go:234) is meant for a function that cannot
\* be called; one that is accepted and cannot be panics at its first message.
AcceptedCanBeCalled == got.res # "panic"
=============================================================================
