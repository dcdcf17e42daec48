------------------------------ MODULE TcpEcho ------------------------------
(***************************************************************************)
(* The TCP echo of kadai4 b: clients (tcpechoclient.c) against one server, *)
(* of threads that each serve one connection (tcpechoserver1.c) or of one  *)
(* loop over edge-triggered epoll events (tcpechoserver2.c).               *)
(*                                                                         *)
(* TCP keeps the order of bytes, and what the server sends is what it has  *)
(* received, so a connection is four counters: of its client's input sent, *)
(* arrived at the server, received and echoed by it, and received back by  *)
(* the client.  A receive returns any part of what is there.  Socket       *)
(* buffers are large, so a send is never short; a send to a peer that is   *)
(* gone ends the program, by its own exit(1) or by SIGPIPE.                *)
(*                                                                         *)
(* BlockFull, UnusedThread, IsAnyPiece, NoMore, FailsAtEnd and NeverGone   *)
(* are slips for the mutant runs, each of the definition after it.         *)
(***************************************************************************)
EXTENDS Naturals, FiniteSets

CONSTANTS
    Clients,
    Listen,         \* the listening socket among epoll's events
    bufsize,        \* 256 in all three programs
    NTHREADS,       \* threads of tcpechoserver1, 50
    Lengths         \* the lengths of the clients' inputs

ASSUME SizesAssumption == bufsize \in Nat \ {0} /\ NTHREADS \in Nat \ {0} /\ Lengths \subseteq Nat
ASSUME NamesAssumption == Listen \notin Clients

VARIABLES
    kind,           \* the server that runs: "threads" or "epoll"
    len,            \* len[c]: the length of c's input
    cpc, readsize,  \* where c is, and its variable of this name
    sent, arrived, got, back,   \* the four counters of c's connection
    ends,           \* ends[c]: what has arrived of c's closing, "fin" and "rst"
    conn,           \* c's connection: "none", "queued", "open", or closed by "fin" or "rst"
    ready, batch,   \* epoll's ready list, and events[] from the current one on
    down,           \* the server has exited
    whole           \* history: each receive so far has returned a whole block

client == <<cpc, readsize, sent, back>>
network == <<arrived, ends, ready>>
server == <<got, conn, batch, down>>
fixed == <<kind, len>>
vars == <<fixed, client, network, server, whole>>

Zero == [c \in Clients |-> 0]

Init ==
    /\ kind \in {"threads", "epoll"}
    /\ len \in [Clients -> Lengths]
    /\ cpc = [c \in Clients |-> "connect"]
    /\ readsize = Zero /\ sent = Zero /\ arrived = Zero /\ got = Zero /\ back = Zero
    /\ ends = [c \in Clients |-> {}]
    /\ conn = [c \in Clients |-> "none"]
    /\ ready = {} /\ batch = {}
    /\ down = FALSE /\ whole = TRUE

Least(m, n) == IF m <= n THEN m ELSE n

Add(f, c, n) == [f EXCEPT ![c] = @ + n]

Goto(c, place) == cpc' = [cpc EXCEPT ![c] = place]

Ended(c) == cpc[c] \in {"done", "failed"}

-----------------------------------------------------------------------------
\* A client.  At "last" it waits for the echo of the block that is not full.

\* connect succeeds before the server has accepted.
Connect(c) ==
    /\ cpc[c] = "connect"
    /\ IF down THEN Goto(c, "failed") /\ UNCHANGED conn
       ELSE Goto(c, "send") /\ conn' = [conn EXCEPT ![c] = "queued"]
    /\ UNCHANGED <<fixed, readsize, sent, back, network, got, batch, down, whole>>

\* The server has closed with bytes unread, or bytes come after it has closed.
Reset(c) == conn[c] = "rst" \/ (conn[c] = "fin" /\ sent[c] > got[c])

\* What fread returns: a full buffer unless the input ends.
BlockFull(c) == bufsize
Block(c) == Least(bufsize, len[c] - sent[c])

\* A block is read and sent.
Send(c) ==
    /\ cpc[c] = "send"
    /\ readsize' = [readsize EXCEPT ![c] = Block(c)]
    /\ sent' = Add(sent, c, Block(c))
    /\ Goto(c, IF Block(c) = bufsize THEN "recv" ELSE "last")
    /\ UNCHANGED <<fixed, back, network, server, whole>>

\* ONE receive per block, of readsize at most.  With a readsize of 0 it still
\* waits for something to arrive (Linux); it returns 0 after the server's FIN.
Recv(c) ==
    /\ cpc[c] \in {"recv", "last"}
    /\ got[c] > back[c] \/ conn[c] = "fin"
    /\ \E n \in 0 .. Least(readsize[c], got[c] - back[c]) :
        /\ n = 0 => readsize[c] = 0 \/ got[c] = back[c]
        /\ back' = Add(back, c, n)
        /\ whole' = (whole /\ n = readsize[c])
    /\ Goto(c, IF cpc[c] = "recv" THEN "send" ELSE "done")
    /\ UNCHANGED <<fixed, readsize, sent, network, server>>

\* The connection's reset has reached the client.
Fail(c) ==
    /\ cpc[c] \in {"send", "recv", "last"} /\ Reset(c)
    /\ Goto(c, "failed")
    /\ UNCHANGED <<fixed, readsize, sent, back, network, server, whole>>

ClientStep(c) == Connect(c) \/ Send(c) \/ Recv(c) \/ Fail(c)

-----------------------------------------------------------------------------
\* The network.  Whatever arrives on a socket that epoll watches puts it on
\* the ready list.

Alert(c) == ready' = IF kind = "epoll" /\ conn[c] = "open" THEN ready \union {c} ELSE ready

Reachable(c) == conn[c] \in {"queued", "open"} /\ "rst" \notin ends[c]

\* A block may arrive in pieces.
DataArrives(c) ==
    /\ Reachable(c)
    /\ \E n \in 1 .. sent[c] - arrived[c] : arrived' = Add(arrived, c, n)
    /\ Alert(c)
    /\ UNCHANGED <<fixed, client, ends, server, whole>>

\* The client has exited.
FinArrives(c) ==
    /\ Reachable(c) /\ Ended(c) /\ arrived[c] = sent[c] /\ "fin" \notin ends[c]
    /\ ends' = [ends EXCEPT ![c] = @ \union {"fin"}]
    /\ Alert(c)
    /\ UNCHANGED <<fixed, client, arrived, server, whole>>

\* It has exited with an echo unread, or one comes after it has.
RstArrives(c) ==
    /\ Reachable(c) /\ Ended(c) /\ got[c] > back[c]
    /\ ends' = [ends EXCEPT ![c] = @ \union {"rst"}]
    /\ Alert(c)
    /\ UNCHANGED <<fixed, client, arrived, server, whole>>

NetworkStep(c) == DataArrives(c) \/ FinArrives(c) \/ RstArrives(c)

-----------------------------------------------------------------------------
\* Both servers.

Readable(c) == arrived[c] > got[c] \/ ends[c] # {}

\* recv returns all that is there, up to bufsize, and send sends it.
Piece(c) == Least(bufsize, arrived[c] - got[c])

Echo(c) ==
    /\ got' = Add(got, c, Piece(c))
    /\ whole' = (whole /\ got'[c] = sent[c])

\* exit(1), or SIGPIPE: every connection goes down with the process.
Die ==
    /\ down' = TRUE
    /\ conn' = [c \in Clients |->
                  CASE conn[c] = "queued" -> "rst"
                    [] conn[c] = "open" -> IF arrived[c] > got[c] THEN "rst" ELSE "fin"
                    [] OTHER -> conn[c]]
    /\ batch' = {} /\ ready' = {}
    /\ UNCHANGED <<fixed, client, arrived, ends, got, whole>>

-----------------------------------------------------------------------------
\* tcpechoserver1.

Serving == {c \in Clients : conn[c] = "open"}

\* Threads serve one connection after another.
UnusedThread == Cardinality({c \in Clients : conn[c] \notin {"none", "queued"}}) < NTHREADS
FreeThread == Cardinality(Serving) < NTHREADS

ThreadAccept(c) ==
    /\ kind = "threads" /\ ~down
    /\ conn[c] = "queued" /\ FreeThread
    /\ conn' = [conn EXCEPT ![c] = "open"]
    /\ UNCHANGED <<fixed, client, network, got, batch, down, whole>>

\* Anything less than a full buffer ends the connection.
IsAnyPiece(c) == Piece(c) <= bufsize
IsLast(c) == Piece(c) < bufsize

\* A thread's recv, send and, perhaps, close.
ThreadEcho(c) ==
    /\ kind = "threads" /\ conn[c] = "open" /\ Readable(c)
    /\ \/ "rst" \in ends[c] /\ Die
       \/ /\ "rst" \notin ends[c]
          /\ Echo(c)
          /\ conn' = IF IsLast(c) THEN [conn EXCEPT ![c] = "fin"] ELSE conn
          /\ UNCHANGED <<fixed, client, network, batch, down>>

-----------------------------------------------------------------------------
\* tcpechoserver2.

\* epoll_wait takes what is on the ready list and still readable; the
\* listening socket is level-triggered.
EpollWait ==
    /\ kind = "epoll" /\ ~down /\ batch = {}
    /\ batch' = {c \in ready : Readable(c)}
                  \union (IF \E c \in Clients : conn[c] = "queued" THEN {Listen} ELSE {})
    /\ batch' # {}
    /\ ready' = {}
    /\ UNCHANGED <<fixed, client, arrived, ends, got, conn, down, whole>>

\* The for loop goes on to the next event.
NoMore(event) == {}
Rest(event) == batch \ {event}

\* accept, and EPOLL_CTL_ADD, which puts what is readable on the ready list.
AcceptEvent(c) ==
    /\ Listen \in batch /\ conn[c] = "queued"
    /\ batch' = Rest(Listen)
    /\ conn' = [conn EXCEPT ![c] = "open"]
    /\ ready' = IF Readable(c) THEN ready \union {c} ELSE ready
    /\ UNCHANGED <<fixed, client, arrived, ends, got, down, whole>>

\* recv returns -1 after a reset, and if there is nothing to read (EAGAIN).
FailsAtEnd(c) == Piece(c) = 0 \/ "rst" \in ends[c]
Fails(c) == ~Readable(c) \/ "rst" \in ends[c]

\* Nothing received means that the client has closed.
NeverGone(c) == FALSE
Gone(c) == Piece(c) = 0

\* do_use_fd: ONE recv per event, and no event for what it leaves.
UseFd(c) ==
    /\ c \in batch
    /\ \/ Fails(c) /\ Die
       \/ /\ ~Fails(c)
          /\ Echo(c)
          /\ batch' = Rest(c)
          /\ conn' = IF Gone(c) THEN [conn EXCEPT ![c] = "fin"] ELSE conn
          /\ ready' = IF Gone(c) THEN ready \ {c} ELSE ready
          /\ UNCHANGED <<fixed, client, arrived, ends, down>>

ServerStep(c) == ThreadAccept(c) \/ ThreadEcho(c) \/ AcceptEvent(c) \/ UseFd(c)

-----------------------------------------------------------------------------
\* Waits for the echo of an empty last block, for which the server sends nothing.
Stuck(c) == cpc[c] = "last" /\ readsize[c] = 0

\* Every client has ended or is stuck, or waits behind one that is.
Quiet ==
    /\ \A c \in Clients : Ended(c) \/ Stuck(c) \/ conn[c] = "queued"
    /\ UNCHANGED vars

Next ==
    \/ \E c \in Clients : ClientStep(c) \/ NetworkStep(c) \/ ServerStep(c)
    \/ EpollWait
    \/ Quiet

Spec == Init /\ [][Next]_vars

\* Every process runs and the network delivers.
Fairness ==
    /\ \A c \in Clients : WF_vars(ClientStep(c)) /\ WF_vars(NetworkStep(c)) /\ WF_vars(ServerStep(c))
    /\ WF_vars(EpollWait)

FairSpec == Spec /\ Fairness

-----------------------------------------------------------------------------
\* Type invariant; the counters follow each other.
TypeOK ==
    /\ kind \in {"threads", "epoll"}
    /\ len \in [Clients -> Lengths]
    /\ cpc \in [Clients -> {"connect", "send", "recv", "last", "done", "failed"}]
    /\ readsize \in [Clients -> 0 .. bufsize]
    /\ sent \in [Clients -> Nat] /\ arrived \in [Clients -> Nat]
    /\ got \in [Clients -> Nat] /\ back \in [Clients -> Nat]
    /\ \A c \in Clients :
        back[c] <= got[c] /\ got[c] <= arrived[c] /\ arrived[c] <= sent[c] /\ sent[c] <= len[c]
    /\ ends \in [Clients -> SUBSET {"fin", "rst"}]
    /\ conn \in [Clients -> {"none", "queued", "open", "fin", "rst"}]
    /\ ready \subseteq Clients /\ batch \subseteq Clients \union {Listen}
    /\ down \in BOOLEAN /\ whole \in BOOLEAN

\* As long as every receive, at either end, returns a whole block, both
\* servers are right: no program fails, and the output of a client that has
\* ended is its input.
RightIfWhole ==
    whole => /\ ~down
             /\ \A c \in Clients : cpc[c] # "failed" /\ (cpc[c] = "done" => back[c] = len[c])

\* The server only goes down when a client has exited with an echo unread.
\* In particular no recv on a non-blocking socket finds nothing (EAGAIN).
DownOnlyByReset == down => \E c \in Clients : Ended(c) /\ got[c] > back[c]

\* With one recv per edge, bytes may be left for which there will be no event;
\* but never while their client waits with nothing else on its way to it, the
\* client that waits for an empty block aside.
UnreadIsNotWaitedFor ==
    \A c \in Clients :
        /\ kind = "epoll" /\ conn[c] = "open" /\ arrived[c] > got[c]
        /\ c \notin ready \union batch
        => cpc[c] = "send" \/ Ended(c) \/ Stuck(c) \/ got[c] > back[c] \/ sent[c] > arrived[c]

\* Nor is a client's leaving lost on the way: the server has closed, or there is
\* an event to come or to be served; else the one recv of the event fell short of
\* it and echoed to a client that had gone, and the reset for that is to come.
LeavingIsNoticed ==
    \A c \in Clients :
        /\ kind = "epoll" /\ conn[c] = "open" /\ ends[c] # {}
        /\ c \notin ready \union batch
        => "rst" \notin ends[c] /\ got[c] > back[c]

EmptyLast(c) == len[c] % bufsize = 0

\* Every client comes to an end, unless its input ends with a block; such a
\* client also keeps its thread, and so the clients that need it.
EveryClientEnds ==
    \A c \in Clients :
        (IF kind = "epoll" THEN ~EmptyLast(c) ELSE \A d \in Clients : ~EmptyLast(d)) ~> Ended(c)

\* The server closes every connection that its client has left.
ServerLetsGo == \A c \in Clients : (Ended(c) /\ conn[c] = "open") ~> conn[c] # "open"
=============================================================================
