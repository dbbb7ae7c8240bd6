----------------------------- MODULE Bootstrap -----------------------------
(***************************************************************************)
(* TcpBootstrap: every rank gives its address to a root thread of rank 0,  *)
(* learns that of the next rank, closes a ring with it, and from then on   *)
(* exchanges data round the ring or over a socket for each peer and tag.   *)
(* A process that times out, or finds a peer gone, aborts (ERROR).  The    *)
(* ranks agree on the unique id.  An address is the rank that listens.     *)
(***************************************************************************)
EXTENDS Integers, Sequences

CONSTANTS
  nRanks,
  Buf         \* slices a connection holds before send blocks

Ranks == 0 .. nRanks - 1
Root == nRanks        \* rootThread_, in the process of rank 0

VARIABLES
  timed,      \* timeoutSec is not negative
  pc,
  rootPc, rootSock, peer,   \* rootThread_: state, accepted socket, peer to serve
  checkedIn,  \* ranks whose addresses the root has
  backlog,    \* connections each listening socket has yet to accept
  wire,       \* what is under way on each connection made
  next,       \* nextAddr
  prev,       \* ringRecvSocket_
  peerRecvSockets_,
  op, group, at,      \* the exchange under way, and the next step of it
  data, recv_buf,     \* its blocks
  returned    \* calls of each rank that have returned

rootVars == <<rootPc, rootSock, peer, checkedIn>>
netVars == <<backlog, wire>>
sockets == <<next, prev, peerRecvSockets_>>
exchange == <<op, group, at, data, recv_buf>>
bootstrapVars == <<timed, pc, rootVars, netVars, sockets, exchange, returned>>

NoBlock == <<>>
Blocks == 0 .. nRanks     \* the last stands for groupBarrier's dummy
World == [i \in 1 .. nRanks |-> i - 1]

(* listenSockRoot_, the socket the root calls back on, and listenSock_ *)
Listeners == {<<"root", 0>>} \cup {"lsock", "main"} \X Ranks

BootstrapInit ==
  /\ timed \in BOOLEAN
  /\ pc = [p \in Ranks |-> IF p = 0 THEN "create" ELSE "listen"]
  /\ rootPc = "none" /\ rootSock = <<>> /\ peer = 0 /\ checkedIn = {}
  /\ backlog = [l \in Listeners |-> <<>>]
  /\ wire = <<>>
  /\ next = [p \in Ranks |-> p]
  /\ prev = [p \in Ranks |-> <<>>]
  /\ peerRecvSockets_ = [p \in Ranks |-> {}]
  /\ op = [p \in Ranks |-> "NONE"]
  /\ group = [p \in Ranks |-> World]
  /\ at = [p \in Ranks |-> 1]
  /\ data = [p \in Ranks |-> [k \in Blocks |-> NoBlock]]
  /\ recv_buf = [p \in Ranks |-> [k \in Blocks |-> NoBlock]]
  /\ returned = [p \in Ranks |-> 0]

Goto(p, from, to) == pc[p] = from /\ pc' = [pc EXCEPT ![p] = to]
Dead(x) == pc[IF x = Root THEN 0 ELSE x] = "aborted"

----------------------------------------------------------------------------
(* Sockets.  A connection is <<who connects, who accepts, tag>>: the tag of *)
(* a peer socket, or one of these for those of establishConnections.       *)

InfoTag == -1    \* a rank's addresses to the root
NextTag == -2    \* the next rank's address from the root
RingTag == -3

Listening(l) ==
  CASE l[1] = "root" -> rootPc # "none" /\ ~Dead(0)
    [] l[1] = "lsock" -> pc[l[2]] \in {"toRoot", "info", "fromRoot", "nextAddr"}
    [] l[1] = "main" -> pc[l[2]] \notin {"create", "listen", "aborted"}

(* A refused connect is tried again. *)
Connect(c, l) ==
  /\ Listening(l)
  /\ backlog' = [backlog EXCEPT ![l] = Append(backlog[l], c)]
  /\ wire' = [d \in DOMAIN wire \cup {c} |-> IF d = c THEN <<>> ELSE wire[d]]

Accept(l) == backlog[l] # <<>> /\ backlog' = [backlog EXCEPT ![l] = Tail(backlog[l])]
First(l) == Head(backlog[l])

Send(c, m) ==
  /\ Len(wire[c]) < Buf
  /\ wire' = [wire EXCEPT ![c] = Append(wire[c], m)]
Recv(c) == wire[c] # <<>> /\ wire' = [wire EXCEPT ![c] = Tail(wire[c])]

(* All has been read, and nobody is there to send more. *)
ClosedByPeer(c) == wire[c] = <<>> /\ Dead(c[1])

(* ERROR ends the process, and rank 0 takes the root thread with it. *)
Aborts(p) ==
  /\ pc[p] # "aborted"
  /\ pc' = [pc EXCEPT ![p] = "aborted"]
  /\ UNCHANGED <<timed, rootVars, netVars, sockets, exchange, returned>>

----------------------------------------------------------------------------
(* bootstrapRoot.  A socket it cannot connect is tried for ever. *)

thread == <<timed, pc, sockets, exchange, returned>>

RootAccept ==
  /\ rootPc = "collect" /\ ~Dead(Root)
  /\ Accept(<<"root", 0>>)
  /\ rootSock' = First(<<"root", 0>>) /\ rootPc' = "info"
  /\ UNCHANGED <<thread, peer, checkedIn, wire>>

(* A rank that checks in twice would abort the root. *)
RootCheckIn ==
  /\ rootPc = "info" /\ ~Dead(Root)
  /\ Recv(rootSock) /\ rootSock[1] \notin checkedIn
  /\ checkedIn' = checkedIn \cup {rootSock[1]}
  /\ rootPc' = IF checkedIn' = Ranks THEN "serve" ELSE "collect"
  /\ UNCHANGED <<thread, backlog, rootSock, peer>>

RootConnect ==
  /\ rootPc = "serve" /\ ~Dead(Root)
  /\ Connect(<<Root, peer, NextTag>>, <<"lsock", peer>>)
  /\ rootPc' = "send"
  /\ UNCHANGED <<thread, rootSock, peer, checkedIn>>

RootSend ==
  /\ rootPc = "send" /\ ~Dead(Root)
  /\ Send(<<Root, peer, NextTag>>, (peer + 1) % nRanks)
  /\ peer' = peer + 1
  /\ rootPc' = IF peer + 1 = nRanks THEN "done" ELSE "serve"
  /\ UNCHANGED <<thread, backlog, rootSock, checkedIn>>

(* The root thread finds the connection it reads or writes closed. *)
RootAborts ==
  /\ \/ rootPc = "info" /\ ClosedByPeer(rootSock)
     \/ rootPc = "send" /\ Dead(peer)
  /\ Aborts(0)

RootStep == RootAccept \/ RootCheckIn \/ RootConnect \/ RootSend \/ RootAborts

----------------------------------------------------------------------------
(* establishConnections *)

CreateRoot(p) ==
  /\ Goto(p, "create", "listen")
  /\ rootPc' = "collect"
  /\ UNCHANGED <<timed, rootSock, peer, checkedIn, netVars, sockets, exchange, returned>>

Listen(p) ==
  /\ Goto(p, "listen", "toRoot")
  /\ UNCHANGED <<timed, rootVars, netVars, sockets, exchange, returned>>

ConnectRoot(p) ==
  /\ Goto(p, "toRoot", "info")
  /\ Connect(<<p, Root, InfoTag>>, <<"root", 0>>)
  /\ UNCHANGED <<timed, rootVars, sockets, exchange, returned>>

SendInfo(p) ==
  /\ Goto(p, "info", "fromRoot")
  /\ Send(<<p, Root, InfoTag>>, p)
  /\ UNCHANGED <<timed, rootVars, backlog, sockets, exchange, returned>>

AcceptRoot(p) ==
  /\ Goto(p, "fromRoot", "nextAddr")
  /\ Accept(<<"lsock", p>>)
  /\ UNCHANGED <<timed, rootVars, wire, sockets, exchange, returned>>

GetNext(p) ==
  /\ Goto(p, "nextAddr", "toNext")
  /\ Recv(<<Root, p, NextTag>>)
  /\ next' = [next EXCEPT ![p] = Head(wire[<<Root, p, NextTag>>])]
  /\ UNCHANGED <<timed, rootVars, backlog, prev, peerRecvSockets_, exchange, returned>>

(* The previous rank is not waited for before the next is connected. *)
ConnectNext(p) ==
  /\ Goto(p, "toNext", "fromPrev")
  /\ Connect(<<p, next[p], RingTag>>, <<"main", next[p]>>)
  /\ UNCHANGED <<timed, rootVars, sockets, exchange, returned>>

(* The first connection to listenSock_ is taken for the previous rank's. *)
AcceptPrev(p) ==
  /\ Goto(p, "fromPrev", "ready")
  /\ Accept(<<"main", p>>)
  /\ prev' = [prev EXCEPT ![p] = First(<<"main", p>>)]
  /\ UNCHANGED <<timed, rootVars, wire, next, peerRecvSockets_, exchange, returned>>

Waits == {"toRoot", "fromRoot", "toNext", "fromPrev"}

(* Faulty variant: the timeout stays on the ring's sockets. *)
TimeOutAnywhere(p) == timed /\ pc[p] \in Waits \cup {"exchange"} /\ Aborts(p)

(* getLeftTime *)
TimeOut(p) == timed /\ pc[p] \in Waits /\ Aborts(p)

FindsRootGone(p) ==
  /\ \/ pc[p] = "info" /\ Dead(Root)
     \/ pc[p] = "nextAddr" /\ ClosedByPeer(<<Root, p, NextTag>>)
  /\ Aborts(p)

EstablishStep(p) ==
  \/ CreateRoot(p) \/ Listen(p) \/ ConnectRoot(p) \/ SendInfo(p)
  \/ AcceptRoot(p) \/ GetNext(p) \/ ConnectNext(p) \/ AcceptPrev(p)
  \/ TimeOut(p) \/ FindsRootGone(p)

----------------------------------------------------------------------------
(* Exchanges, as the sends and receives a rank makes in turn *)

Size(p) == Len(group[p])
Pos(p) == CHOOSE i \in 0 .. Size(p) - 1 : group[p][i + 1] = p
Member(p, i) == group[p][(i % Size(p)) + 1]
Others(p) == [i \in 1 .. Size(p) - 1 |-> group[p][IF i <= Pos(p) THEN i ELSE i + 1]]

Instr(send, q, tag, block) == [send |-> send, peer |-> q, tag |-> tag, block |-> block]

(* allGather over the ring, groupAllGather over a socket for each step:    *)
(* the block received in a step is sent on in the next.                    *)
Gather(p, k) ==
  LET i == (k - 1) \div 2
      tag == IF op[p] = "GROUPGATHER" THEN i ELSE RingTag
  IN IF k % 2 = 1 THEN Instr(TRUE, Member(p, Pos(p) + 1), tag, (Pos(p) - i) % Size(p))
                  ELSE Instr(FALSE, Member(p, Pos(p) - 1), tag, (Pos(p) - i - 1) % Size(p))

(* groupAlltoall: a pairwise exchange in each step. *)
Pairwise(p, k) ==
  LET s == (k + 1) \div 2
      to == (Pos(p) + s) % Size(p)
      from == (Pos(p) - s) % Size(p)
  IN IF k % 2 = 1 THEN Instr(TRUE, Member(p, to), s, to)
                  ELSE Instr(FALSE, Member(p, from), s, from)

(* groupBarrier: to everyone, then from everyone. *)
Signals(p, k) ==
  IF k < Size(p) THEN Instr(TRUE, Others(p)[k], 0, nRanks)
                 ELSE Instr(FALSE, Others(p)[k - Size(p) + 1], 0, nRanks)

Steps(p) == 2 * (Size(p) - 1)
Now(p) ==
  CASE op[p] = "ALLTOALL" -> Pairwise(p, at[p])
    [] op[p] = "BARRIER" -> Signals(p, at[p])
    [] OTHER -> Gather(p, at[p])
Exchanging(p) == pc[p] = "exchange" /\ at[p] <= Steps(p)
Sending(p) == Exchanging(p) /\ Now(p).send
Receiving(p) == Exchanging(p) /\ ~Now(p).send

(* ringSendSocket_ and ringRecvSocket_, or the socket of the peer and tag. *)
Socket(p) ==
  IF Now(p).tag = RingTag THEN IF Now(p).send THEN <<p, next[p], RingTag>> ELSE prev[p]
  ELSE IF Now(p).send THEN <<p, Now(p).peer, Now(p).tag>>
                      ELSE <<Now(p).peer, p, Now(p).tag>>

fixed == <<timed, rootVars, next, prev, op, group, returned>>

(* getPeerSendSocket makes a connection once, and tells who and what for. *)
OpenPeer(p) ==
  /\ Sending(p) /\ Socket(p) \notin DOMAIN wire
  /\ Connect(Socket(p), <<"main", Now(p).peer>>)
  /\ UNCHANGED <<fixed, pc, peerRecvSockets_, at, data, recv_buf>>

SendBlock(p) ==
  /\ Sending(p) /\ Socket(p) \in DOMAIN wire
  /\ Send(Socket(p), data[p][Now(p).block])
  /\ at' = [at EXCEPT ![p] = at[p] + 1]
  /\ UNCHANGED <<fixed, pc, backlog, peerRecvSockets_, data, recv_buf>>

Open(p) == Now(p).tag = RingTag \/ Socket(p) \in peerRecvSockets_[p]

(* Faulty variant: a connection that was not wanted yet is dropped. *)
AcceptOnly(p) ==
  /\ Receiving(p) /\ ~Open(p)
  /\ Accept(<<"main", p>>)
  /\ peerRecvSockets_' = [peerRecvSockets_ EXCEPT ![p] =
                            peerRecvSockets_[p] \cup ({First(<<"main", p>>)} \cap {Socket(p)})]
  /\ UNCHANGED <<fixed, pc, wire, at, data, recv_buf>>

(* getPeerRecvSocket keeps what it accepts until it has the one it wants. *)
AcceptPeer(p) ==
  /\ Receiving(p) /\ ~Open(p)
  /\ Accept(<<"main", p>>)
  /\ peerRecvSockets_' = [peerRecvSockets_ EXCEPT ![p] =
                            peerRecvSockets_[p] \cup {First(<<"main", p>>)}]
  /\ UNCHANGED <<fixed, pc, wire, at, data, recv_buf>>

With(blocks, p, k, m) == [blocks EXCEPT ![p] = [blocks[p] EXCEPT ![k] = m]]

(* Faulty variant: an all-to-all receives into the caller's data. *)
RecvBlockInPlace(p) ==
  /\ Receiving(p) /\ Open(p)
  /\ Recv(Socket(p))
  /\ data' = With(data, p, Now(p).block, Head(wire[Socket(p)]))
  /\ recv_buf' = With(recv_buf, p, Now(p).block, Head(wire[Socket(p)]))
  /\ at' = [at EXCEPT ![p] = at[p] + 1]
  /\ UNCHANGED <<fixed, pc, backlog, peerRecvSockets_>>

(* An all-to-all receives into a buffer of its own. *)
RecvBlock(p) ==
  /\ Receiving(p) /\ Open(p)
  /\ Recv(Socket(p))
  /\ IF op[p] = "ALLTOALL"
     THEN recv_buf' = With(recv_buf, p, Now(p).block, Head(wire[Socket(p)])) /\ UNCHANGED data
     ELSE data' = With(data, p, Now(p).block, Head(wire[Socket(p)])) /\ UNCHANGED recv_buf
  /\ at' = [at EXCEPT ![p] = at[p] + 1]
  /\ UNCHANGED <<fixed, pc, backlog, peerRecvSockets_>>

(* At the end an all-to-all copies all but its own block back. *)
EndExchange(p) ==
  /\ at[p] > Steps(p) /\ Goto(p, "exchange", "over")
  /\ data' = IF op[p] # "ALLTOALL" THEN data
             ELSE [data EXCEPT ![p] = [k \in Blocks |->
                     IF k = Pos(p) THEN data[p][k] ELSE recv_buf[p][k]]]
  /\ UNCHANGED <<fixed, netVars, peerRecvSockets_, at, recv_buf>>

(* A send or a receive on a connection whose other process has ended.  One *)
(* that has yet to be made is tried again for ever.                        *)
FindsPeerGone(p) ==
  /\ Exchanging(p)
  /\ \/ Sending(p) /\ Socket(p) \in DOMAIN wire /\ Dead(Socket(p)[2])
     \/ Receiving(p) /\ Open(p) /\ ClosedByPeer(Socket(p))
  /\ Aborts(p)

ExchangeStep(p) ==
  \/ OpenPeer(p) \/ SendBlock(p) \/ AcceptPeer(p) \/ RecvBlock(p)
  \/ EndExchange(p) \/ FindsPeerGone(p)

(* A call of rank p on group g begins with a block for each member, or     *)
(* with the caller's own.                                                  *)
Begins(p, what, g, block(_)) ==
  /\ op' = [op EXCEPT ![p] = what]
  /\ group' = [group EXCEPT ![p] = g]
  /\ at' = [at EXCEPT ![p] = 1]
  /\ data' = [data EXCEPT ![p] = [k \in Blocks |->
        IF k < Len(g) /\ (what = "ALLTOALL" \/ g[k + 1] = p) THEN block(k) ELSE NoBlock]]
  /\ recv_buf' = [recv_buf EXCEPT ![p] = [k \in Blocks |-> NoBlock]]
=============================================================================
