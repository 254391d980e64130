-------------------------- MODULE SockResponderInv --------------------------
(***************************************************************************)
(* The inductive invariant behind the responder's safety properties.  Each *)
(* request opens once: before its opening message has been read nothing is *)
(* known of it, and afterwards its parts come off the wire in the order    *)
(* their handler takes them, one place in the limits is held from then on  *)
(* until the handler's goroutine has ended, and the answers it has written *)
(* can be told from where that goroutine is.                               *)
(***************************************************************************)
EXTENDS SockResponder

\* The wire holds, of each request, the parts sent last, in the order sent.
Part(r, k) == [r |-> r, k |-> k]
Wired ==
  /\ \A r \in Reqs : next[r] <= Total(r)
  /\ \A i \in 1 .. Len(wire) :
       IF wire[i].r = None THEN wire[i].k = 0 ELSE wire[i].k < next[wire[i].r]
  /\ \A i, j \in 1 .. Len(wire) :
       i < j /\ wire[i].r # None /\ wire[i].r = wire[j].r => wire[i].k < wire[j].k
  /\ \A i \in 1 .. Len(wire) : \A k \in 0 .. MaxParts :
       wire[i].r # None /\ wire[i].k < k /\ k < next[wire[i].r] =>
         \E j \in i .. Len(wire) : wire[j] = Part(wire[i].r, k)

\* A request whose opening message has not been read.
NotStarted(r) == next[r] = 0 \/ \E i \in 1 .. Len(wire) : wire[i] = Part(r, 0)
Holds(r)      == rpc \in {"respond", "part"} /\ rmsg.r = r
Started ==
  \A r \in Reqs : NotStarted(r) =>
    /\ hpc[r] = "none" /\ got[r] = <<>> /\ rch[r] = <<>> /\ out[r] = <<>>
    /\ r \notin pendingReq \cup eos /\ ~Holds(r)

\* The parts of a stream that have left the wire for its handler: taken by it, in
\* its channel, and in the reader's hands.
InReader(r) == rpc = "part" /\ rmsg.r = r
Arrived(r)  == Len(got[r]) + Len(rch[r]) + (IF InReader(r) THEN 1 ELSE 0)
Passes(r) ==
  /\ \A i \in 1 .. Len(got[r]) : got[r][i] = i - 1
  /\ rch[r] = <<>> \/ rch[r] = <<Len(got[r])>>
  /\ InReader(r) => rmsg.k = Len(got[r]) + Len(rch[r])
\* What has not left the wire is what its handler waits for, from the next part on.
Follows(r) ==
  r \in pendingReq /\ rpc # "ended" =>
    /\ Arrived(r) <= next[r]
    /\ \A i \in 1 .. Len(wire) : wire[i].r = r => wire[i].k >= Arrived(r)
    /\ Arrived(r) < next[r] => \E i \in 1 .. Len(wire) : wire[i] = Part(r, Arrived(r))
InOrder == \A r \in Streams : Passes(r) /\ Follows(r)

\* What has been written of an answer, by where its goroutine is.
BufferOut(r) ==
  /\ Len(out[r]) <= 1 /\ (out[r] # <<>> => out[r][1] \in {"R", "E", "e"})
  /\ hpc[r] \in {"run", "R", "E"} => out[r] = <<>>
  /\ hpc[r] # "close"
StreamOut(r) ==
  /\ \A i \in 1 .. Len(out[r]) : out[r][i] = "S" => \A j \in 1 .. i : out[r][j] = "S"
  /\ \A i, j \in 1 .. Len(out[r]) : out[r][i] = "EOS" /\ out[r][j] = "EOS" => i = j
  /\ \A i, j \in 1 .. Len(out[r]) :
       out[r][i] \in {"E", "e"} /\ out[r][j] \in {"E", "e"} => i = j
  /\ r \notin eos => \A i \in 1 .. Len(out[r]) : out[r][i] # "EOS"
  /\ hpc[r] \in {"run", "E"} => \A i \in 1 .. Len(out[r]) : out[r][i] \notin {"E", "e"}
  /\ hpc[r] = "run" /\ r \notin eos => \A i \in 1 .. Len(out[r]) : out[r][i] = "S"
  /\ hpc[r] # "R"
Refusing == rpc = "respond" => rmsg.r \in Reqs /\ out[rmsg.r] = <<>> /\ hpc[rmsg.r] = "none"
OutInv ==
  /\ \A r \in Buffers : BufferOut(r)
  /\ \A r \in Streams : StreamOut(r)
  /\ Refusing

RespInv == TypeOK /\ Wired /\ Started /\ InOrder /\ OutInv /\ CountsAreRight
=============================================================================
