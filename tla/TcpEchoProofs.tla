--------------------------- MODULE TcpEchoProofs ---------------------------
(***************************************************************************)
(* Proofs about the TCP echo, for any number of clients, lengths, threads  *)
(* and any size of the buffers.                                            *)
(***************************************************************************)
EXTENDS TcpEcho, TLAPS

\* Only clients that have ended have closed, and a reset says that an echo was
\* left unread.
Closings ==
    \A c \in Clients :
        /\ ends[c] # {} => Ended(c)
        /\ "rst" \in ends[c] => Ended(c) /\ got[c] > back[c]

\* epoll_wait only returns what can be read, and nothing reads it elsewhere.
Events ==
    /\ \A c \in Clients : c \in batch => Readable(c)
    /\ kind = "threads" => batch = {}

TypeInv == TypeOK /\ Closings /\ Events

LEMMA ClientsNotListen == \A c \in Clients : c # Listen
  BY NamesAssumption

\* The part of TypeOK on counters, for one client.
LEMMA Counters ==
    ASSUME TypeOK, NEW c \in Clients
    PROVE  /\ sent[c] \in Nat /\ arrived[c] \in Nat /\ got[c] \in Nat /\ back[c] \in Nat
           /\ len[c] \in Nat /\ readsize[c] \in Nat
           /\ back[c] <= got[c] /\ got[c] <= arrived[c] /\ arrived[c] <= sent[c]
           /\ sent[c] <= len[c]
<1>1. len[c] \in Nat
  BY SizesAssumption DEF TypeOK
<1>2. readsize[c] \in 0 .. bufsize /\ bufsize \in Nat
  BY SizesAssumption DEF TypeOK
<1>3. sent[c] \in Nat /\ arrived[c] \in Nat /\ got[c] \in Nat /\ back[c] \in Nat
  BY DEF TypeOK
<1> QED
  BY <1>1, <1>2, <1>3 DEF TypeOK

\* A block is what is left of the input, or a full one.
LEMMA Blocks ==
    ASSUME TypeOK, NEW c \in Clients
    PROVE  /\ Block(c) \in 0 .. bufsize /\ Block(c) <= len[c] - sent[c]
           /\ Block(c) # bufsize => Block(c) = len[c] - sent[c]
<1>1. sent[c] \in Nat /\ len[c] \in Nat /\ sent[c] <= len[c] /\ bufsize \in Nat
  BY Counters, SizesAssumption
<1> QED
  BY <1>1 DEF Block, Least

\* A piece is what is there to be received, or a full buffer of it.
LEMMA Pieces ==
    ASSUME TypeOK, NEW c \in Clients
    PROVE  /\ Piece(c) \in 0 .. bufsize /\ Piece(c) <= arrived[c] - got[c]
           /\ Piece(c) # bufsize => Piece(c) = arrived[c] - got[c]
  BY Counters, SizesAssumption DEF Piece, Least

\* The programs start in the invariant.
LEMMA TypeInvInit == Init => TypeInv
<1> SUFFICES ASSUME Init PROVE TypeInv
  OBVIOUS
<1>1. \A c \in Clients : len[c] \in Nat
  BY SizesAssumption DEF Init
<1>2. /\ Zero \in [Clients -> Nat] /\ Zero \in [Clients -> 0 .. bufsize]
      /\ \A c \in Clients : Zero[c] = 0
  BY SizesAssumption DEF Zero
<1>3. TypeOK
  <2>1. \A c \in Clients :
            back[c] <= got[c] /\ got[c] <= arrived[c] /\ arrived[c] <= sent[c] /\ sent[c] <= len[c]
    BY <1>1, <1>2 DEF Init
  <2>2. /\ cpc \in [Clients -> {"connect", "send", "recv", "last", "done", "failed"}]
        /\ ends \in [Clients -> SUBSET {"fin", "rst"}]
        /\ conn \in [Clients -> {"none", "queued", "open", "fin", "rst"}]
    BY DEF Init
  <2> QED
    BY <1>2, <2>1, <2>2 DEF Init, TypeOK
<1>4. Closings /\ Events
  BY DEF Init, Closings, Events
<1> QED
  BY <1>3, <1>4 DEF TypeInv

\* The invariant is inductive: one step per action of Next.
LEMMA TypeInvStep == TypeInv /\ [Next]_vars => TypeInv'
<1> SUFFICES ASSUME TypeInv, [Next]_vars PROVE TypeInv'
  OBVIOUS
<1> USE SizesAssumption, ClientsNotListen
    DEF TypeInv, TypeOK, Closings, Events, fixed, client, network, server, Ended, Readable, Goto, Add
<1>1. ASSUME NEW c \in Clients, Connect(c) PROVE TypeInv'
  BY <1>1 DEF Connect
<1>2. ASSUME NEW c \in Clients, Send(c) PROVE TypeInv'
  <2>1. readsize' \in [Clients -> 0 .. bufsize] /\ sent' \in [Clients -> Nat]
    BY <1>2, Blocks, Counters DEF Send
  <2>2. \A d \in Clients : arrived[d] <= sent'[d] /\ sent'[d] <= len[d]
    BY <1>2, Blocks, Counters DEF Send
  <2>3. cpc' \in [Clients -> {"connect", "send", "recv", "last", "done", "failed"}]
    BY <1>2 DEF Send
  <2>4. TypeOK'
    BY <1>2, <2>1, <2>2, <2>3 DEF Send
  <2>5. Closings' /\ Events'
    BY <1>2 DEF Send
  <2> QED
    BY <2>4, <2>5
<1>3. ASSUME NEW c \in Clients, Recv(c) PROVE TypeInv'
  BY <1>3 DEF Recv, Least
<1>4. ASSUME NEW c \in Clients, Fail(c) PROVE TypeInv'
  BY <1>4 DEF Fail
<1>5. ASSUME NEW c \in Clients, DataArrives(c) PROVE TypeInv'
  BY <1>5 DEF DataArrives, Alert
<1>6. ASSUME NEW c \in Clients, FinArrives(c) PROVE TypeInv'
  BY <1>6 DEF FinArrives, Alert
<1>7. ASSUME NEW c \in Clients, RstArrives(c) PROVE TypeInv'
  BY <1>7 DEF RstArrives, Alert
<1>8. ASSUME NEW c \in Clients, ThreadAccept(c) PROVE TypeInv'
  BY <1>8 DEF ThreadAccept
<1>9. ASSUME Die PROVE TypeInv'
  BY <1>9 DEF Die
<1>10. ASSUME NEW c \in Clients, ThreadEcho(c) PROVE TypeInv'
  <2>1. CASE Die
    BY <1>9, <2>1
  <2>2. CASE ~Die
    <3>1. /\ Echo(c) /\ kind = "threads"
          /\ conn' = conn \/ conn' = [conn EXCEPT ![c] = "fin"]
          /\ UNCHANGED <<kind, len, client, network, batch, down>>
      BY <1>10, <2>2 DEF ThreadEcho
    <3>2. got' = [got EXCEPT ![c] = got[c] + Piece(c)]
      BY <3>1 DEF Echo
    <3>3. whole' \in BOOLEAN
      BY <3>1 DEF Echo
    <3>4. TypeOK'
      BY <3>1, <3>2, <3>3, Pieces
    <3>5. Closings' /\ Events'
      BY <3>1, <3>2, Pieces
    <3> QED
      BY <3>4, <3>5
  <2> QED
    BY <2>1, <2>2
<1>11. CASE EpollWait
  BY <1>11 DEF EpollWait
<1>12. ASSUME NEW c \in Clients, AcceptEvent(c) PROVE TypeInv'
  BY <1>12 DEF AcceptEvent, Rest
<1>13. ASSUME NEW c \in Clients, UseFd(c) PROVE TypeInv'
  <2>1. CASE Die
    BY <1>9, <2>1
  <2>2. CASE ~Die
    <3>1. /\ Echo(c) /\ batch' = batch \ {c}
          /\ conn' = conn \/ conn' = [conn EXCEPT ![c] = "fin"]
          /\ ready' \subseteq ready
          /\ UNCHANGED <<kind, len, client, arrived, ends, down>>
      BY <1>13, <2>2 DEF UseFd, Rest
    <3>2. got' = [got EXCEPT ![c] = got[c] + Piece(c)]
      BY <3>1 DEF Echo
    <3>3. whole' \in BOOLEAN
      BY <3>1 DEF Echo
    <3>4. TypeOK'
      BY <3>1, <3>2, <3>3, Pieces
    <3>5. Closings'
      BY <3>1, <3>2, Pieces
    <3>6. Events'
      BY <3>1, <3>2, Pieces
    <3> QED
      BY <3>4, <3>5, <3>6
  <2> QED
    BY <2>1, <2>2
<1>14. CASE UNCHANGED vars
  BY <1>14 DEF vars
<1> QED
  BY <1>1, <1>2, <1>3, <1>4, <1>5, <1>6, <1>7, <1>8, <1>10, <1>11, <1>12, <1>13, <1>14
     DEF Next, ClientStep, NetworkStep, ServerStep, Quiet

-----------------------------------------------------------------------------
\* A client that has left with an echo unread.
LeftUnread(c) == Ended(c) /\ got[c] > back[c]

\* Once that is so, it stays so.
LEMMA LeftUnreadStays ==
    ASSUME TypeInv, [Next]_vars, NEW c \in Clients, LeftUnread(c)
    PROVE  LeftUnread(c)'
<1> USE DEF LeftUnread, Ended, Goto, Add, fixed, client, network, server
<1>1. back[c] \in Nat /\ got[c] \in Nat /\ got \in [Clients -> Nat] /\ back \in [Clients -> Nat]
      /\ cpc \in [Clients -> {"connect", "send", "recv", "last", "done", "failed"}]
  BY Counters DEF TypeInv, TypeOK
<1>2. ASSUME NEW d \in Clients, ClientStep(d) PROVE LeftUnread(c)'
  <2>1. d # c
    BY <1>2 DEF ClientStep, Connect, Send, Recv, Fail
  <2>2. got' = got /\ cpc'[c] = cpc[c] /\ back'[c] = back[c]
    BY <1>1, <1>2, <2>1 DEF ClientStep, Connect, Send, Recv, Fail
  <2> QED
    BY <2>2
<1>3. ASSUME NEW d \in Clients, NetworkStep(d) PROVE LeftUnread(c)'
  BY <1>3 DEF NetworkStep, DataArrives, FinArrives, RstArrives
<1>4. ASSUME NEW d \in Clients, Echo(d), UNCHANGED client PROVE LeftUnread(c)'
  <2>1. Piece(d) \in Nat
    BY Pieces, SizesAssumption DEF TypeInv
  <2> QED
    BY <1>1, <1>4, <2>1 DEF Echo
<1>5. CASE UNCHANGED <<client, got>>
  BY <1>5
<1>6. ASSUME NEW d \in Clients, ServerStep(d) PROVE LeftUnread(c)'
  BY <1>4, <1>5, <1>6 DEF ServerStep, ThreadAccept, ThreadEcho, AcceptEvent, UseFd, Die
<1>7. CASE EpollWait
  BY <1>5, <1>7 DEF EpollWait
<1>8. CASE UNCHANGED vars
  BY <1>5, <1>8 DEF vars
<1> QED
  BY <1>2, <1>3, <1>6, <1>7, <1>8 DEF Next, Quiet

\* The server only goes down by a send to a connection that has been reset, or
\* a receive on one: no other recv of its fails.
LEMMA GoesDown ==
    ASSUME TypeInv, [Next]_vars, ~down, down'
    PROVE  \E c \in Clients : LeftUnread(c)
<1>1. PICK c \in Clients : ThreadEcho(c) \/ UseFd(c)
  BY DEF Next, ClientStep, NetworkStep, ServerStep, Quiet, Connect, Send, Recv, Fail, DataArrives,
         FinArrives, RstArrives, ThreadAccept, EpollWait, AcceptEvent, vars, fixed, client, network,
         server
<1>2. CASE "rst" \in ends[c]
  BY <1>2 DEF TypeInv, Closings, LeftUnread
<1>3. CASE "rst" \notin ends[c] /\ ThreadEcho(c)
  BY <1>3 DEF ThreadEcho, server
<1>4. CASE "rst" \notin ends[c] /\ UseFd(c)
  BY <1>4 DEF UseFd, Fails, TypeInv, Events
<1> QED
  BY <1>1, <1>2, <1>3, <1>4

LEMMA DownStep == TypeInv /\ DownOnlyByReset /\ [Next]_vars => DownOnlyByReset'
  BY GoesDown, LeftUnreadStays DEF DownOnlyByReset, LeftUnread

\* What UnreadIsNotWaitedFor says of one client.
Left(c) == kind = "epoll" /\ conn[c] = "open" /\ arrived[c] > got[c] /\ c \notin ready \union batch
Busy(c) == cpc[c] = "send" \/ Ended(c) \/ Stuck(c) \/ got[c] > back[c] \/ sent[c] > arrived[c]

\* UnreadIsNotWaitedFor is inductive: epoll has an event for whatever arrives,
\* and after a receive that leaves something its client has an echo to come.
LEMMA UnreadStep == TypeInv /\ UnreadIsNotWaitedFor /\ [Next]_vars => UnreadIsNotWaitedFor'
<1> SUFFICES ASSUME TypeInv, [Next]_vars, NEW c \in Clients, Left(c) => Busy(c), Left(c)'
             PROVE  Busy(c)'
  BY DEF UnreadIsNotWaitedFor, Left, Busy
<1> USE SizesAssumption, ClientsNotListen DEF Left, Busy, Stuck, Ended, Goto, Add, fixed, client, network, server
<1>1. /\ sent[c] \in Nat /\ arrived[c] \in Nat /\ got[c] \in Nat /\ back[c] \in Nat
      /\ got[c] <= arrived[c] /\ arrived[c] <= sent[c] /\ back[c] <= got[c]
      /\ sent \in [Clients -> Nat] /\ arrived \in [Clients -> Nat] /\ got \in [Clients -> Nat]
      /\ back \in [Clients -> Nat] /\ readsize \in [Clients -> 0 .. bufsize]
      /\ cpc \in [Clients -> {"connect", "send", "recv", "last", "done", "failed"}]
      /\ conn \in [Clients -> {"none", "queued", "open", "fin", "rst"}]
  BY Counters DEF TypeInv, TypeOK
<1>2. ASSUME NEW d \in Clients, Connect(d) \/ Fail(d) PROVE Busy(c)'
  BY <1>1, <1>2 DEF Connect, Fail
<1>3. ASSUME NEW d \in Clients, Send(d) PROVE Busy(c)'
  BY <1>1, <1>3, Blocks DEF Send, TypeInv
<1>4. ASSUME NEW d \in Clients, Recv(d) PROVE Busy(c)'
  BY <1>1, <1>4 DEF Recv
<1>5. ASSUME NEW d \in Clients, DataArrives(d) PROVE Busy(c)'
  BY <1>1, <1>5 DEF DataArrives, Alert
<1>6. ASSUME NEW d \in Clients, FinArrives(d) \/ RstArrives(d) PROVE Busy(c)'
  BY <1>1, <1>6 DEF FinArrives, RstArrives, Alert
<1>7. ASSUME NEW d \in Clients, ThreadAccept(d) \/ ThreadEcho(d) PROVE Busy(c)'
  BY <1>7 DEF ThreadAccept, ThreadEcho, Die
<1>8. CASE EpollWait
  BY <1>1, <1>8 DEF EpollWait, Readable
<1>9. ASSUME NEW d \in Clients, AcceptEvent(d) PROVE Busy(c)'
  BY <1>1, <1>9 DEF AcceptEvent, Rest, Readable
<1>10. ASSUME NEW d \in Clients, UseFd(d) PROVE Busy(c)'
  <2>1. ~Die
    BY <1>1 DEF Die
  <2>2. CASE d = c
    BY <1>1, <1>10, <2>1, <2>2, Pieces DEF UseFd, Echo, TypeInv
  <2>3. CASE d # c
    BY <1>1, <1>10, <2>1, <2>3 DEF UseFd, Echo, Rest
  <2> QED
    BY <2>2, <2>3
<1>11. CASE UNCHANGED vars
  BY <1>11 DEF vars
<1> QED
  BY <1>2, <1>3, <1>4, <1>5, <1>6, <1>7, <1>8, <1>9, <1>10, <1>11
     DEF Next, ClientStep, NetworkStep, ServerStep, Quiet

\* What LeavingIsNoticed says of one client.
Forgotten(c) == kind = "epoll" /\ conn[c] = "open" /\ ends[c] # {} /\ c \notin ready \union batch
ResetToCome(c) == "rst" \notin ends[c] /\ got[c] > back[c]

\* LeavingIsNoticed is inductive: a FIN and a reset are events, and the recv
\* that serves one finds the end of the input or echoes something, which the
\* client that has left does not read.
LEMMA LeavingStep == TypeInv /\ LeavingIsNoticed /\ [Next]_vars => LeavingIsNoticed'
<1> SUFFICES ASSUME TypeInv, [Next]_vars, NEW c \in Clients, Forgotten(c) => ResetToCome(c), Forgotten(c)'
             PROVE  ResetToCome(c)'
  BY DEF LeavingIsNoticed, Forgotten, ResetToCome
<1> USE SizesAssumption, ClientsNotListen
    DEF Forgotten, ResetToCome, Ended, Goto, Add, fixed, client, network, server
<1>1. /\ arrived[c] \in Nat /\ got[c] \in Nat /\ back[c] \in Nat
      /\ got[c] <= arrived[c] /\ back[c] <= got[c]
      /\ got \in [Clients -> Nat] /\ back \in [Clients -> Nat]
      /\ ends \in [Clients -> SUBSET {"fin", "rst"}]
      /\ conn \in [Clients -> {"none", "queued", "open", "fin", "rst"}]
  BY Counters DEF TypeInv, TypeOK
<1>2. ends[c] # {} => Ended(c)
  BY DEF TypeInv, Closings
<1>3. ASSUME NEW d \in Clients, Connect(d) \/ Fail(d) \/ Send(d) PROVE ResetToCome(c)'
  BY <1>1, <1>3 DEF Connect, Fail, Send
<1>4. ASSUME NEW d \in Clients, Recv(d) PROVE ResetToCome(c)'
  <2>1. ends[c] # {} /\ d # c
    BY <1>2, <1>4 DEF Recv
  <2> QED
    BY <1>1, <1>4, <2>1 DEF Recv
<1>5. ASSUME NEW d \in Clients, DataArrives(d) PROVE ResetToCome(c)'
  BY <1>1, <1>5 DEF DataArrives, Alert
<1>6. ASSUME NEW d \in Clients, FinArrives(d) \/ RstArrives(d) PROVE ResetToCome(c)'
  BY <1>1, <1>6 DEF FinArrives, RstArrives, Alert
<1>7. ASSUME NEW d \in Clients, ThreadAccept(d) \/ ThreadEcho(d) PROVE ResetToCome(c)'
  BY <1>7 DEF ThreadAccept, ThreadEcho, Die
<1>8. CASE EpollWait
  BY <1>1, <1>8 DEF EpollWait, Readable
<1>9. ASSUME NEW d \in Clients, AcceptEvent(d) PROVE ResetToCome(c)'
  BY <1>1, <1>9 DEF AcceptEvent, Rest, Readable
<1>10. ASSUME NEW d \in Clients, UseFd(d) PROVE ResetToCome(c)'
  <2>1. ~Die
    BY <1>1 DEF Die
  <2>2. CASE d = c
    <3>1. /\ "rst" \notin ends[c] /\ ends' = ends /\ back' = back
          /\ got' = [got EXCEPT ![c] = @ + Piece(c)] /\ Piece(c) # 0
      BY <1>1, <1>10, <2>1, <2>2 DEF UseFd, Echo, Fails, Gone
    <3>2. Piece(c) \in Nat
      BY Pieces DEF TypeInv
    <3> QED
      BY <1>1, <3>1, <3>2
  <2>3. CASE d # c
    BY <1>1, <1>10, <2>1, <2>3 DEF UseFd, Echo, Rest
  <2> QED
    BY <2>2, <2>3
<1>11. CASE UNCHANGED vars
  BY <1>11 DEF vars
<1> QED
  BY <1>3, <1>4, <1>5, <1>6, <1>7, <1>8, <1>9, <1>10, <1>11
     DEF Next, ClientStep, NetworkStep, ServerStep, Quiet

\* Where the bytes of a connection are as long as receives return whole blocks:
\* one block at a time is on its way there and back.
InStep(c) ==
    /\ cpc[c] \in {"connect", "send"} => back[c] = sent[c]
    /\ cpc[c] \in {"recv", "last"} => back[c] + readsize[c] = sent[c] /\ got[c] \in {back[c], sent[c]}
    /\ cpc[c] = "recv" => readsize[c] = bufsize
    /\ cpc[c] = "last" => readsize[c] < bufsize /\ sent[c] = len[c]
    /\ cpc[c] = "done" => back[c] = len[c]
    /\ cpc[c] # "failed" /\ conn[c] # "rst"
    /\ conn[c] = "fin" => cpc[c] \in {"last", "done"} /\ got[c] = sent[c]

WholeInv == whole => ~down /\ \A c \in Clients : InStep(c)

\* InStep is inductive together with the server's staying up.
LEMMA WholeStep == TypeInv /\ WholeInv /\ [Next]_vars => WholeInv'
<1> SUFFICES ASSUME TypeInv, WholeInv, [Next]_vars, whole' PROVE WholeInv'
  BY DEF WholeInv
<1> USE SizesAssumption DEF Goto, Add, fixed, client, network, server
<1>1. \A c \in Clients :
          /\ sent[c] \in Nat /\ arrived[c] \in Nat /\ got[c] \in Nat /\ back[c] \in Nat
          /\ len[c] \in Nat /\ readsize[c] \in Nat
          /\ back[c] <= got[c] /\ got[c] <= arrived[c] /\ arrived[c] <= sent[c] /\ sent[c] <= len[c]
  BY Counters DEF TypeInv
<1>2. /\ sent \in [Clients -> Nat] /\ arrived \in [Clients -> Nat] /\ got \in [Clients -> Nat]
      /\ back \in [Clients -> Nat] /\ readsize \in [Clients -> 0 .. bufsize]
      /\ cpc \in [Clients -> {"connect", "send", "recv", "last", "done", "failed"}]
      /\ conn \in [Clients -> {"none", "queued", "open", "fin", "rst"}]
  BY DEF TypeInv, TypeOK
<1>3. whole
  BY DEF Next, ClientStep, NetworkStep, ServerStep, Quiet, Connect, Send, Recv, Fail, DataArrives,
         FinArrives, RstArrives, ThreadAccept, ThreadEcho, Echo, Die, EpollWait, AcceptEvent, UseFd, vars
<1>4. ~down /\ \A c \in Clients : InStep(c)
  BY <1>3 DEF WholeInv
<1>5. \A c \in Clients : ~LeftUnread(c)
  BY <1>1, <1>4 DEF InStep, LeftUnread, Ended
<1>6. ~down'
  BY <1>4, <1>5, GoesDown
<1>7. ASSUME NEW c \in Clients, Connect(c) PROVE \A d \in Clients : InStep(d)'
  BY <1>1, <1>2, <1>4, <1>7 DEF Connect, InStep
<1>8. ASSUME NEW c \in Clients, Send(c) PROVE \A d \in Clients : InStep(d)'
  <2>1. Block(c) \in 0 .. bufsize /\ (Block(c) # bufsize => sent[c] + Block(c) = len[c])
    BY <1>1, Blocks DEF TypeInv
  <2> QED
    BY <1>1, <1>2, <1>4, <1>8, <2>1 DEF Send, InStep
<1>9. ASSUME NEW c \in Clients, Recv(c) PROVE \A d \in Clients : InStep(d)'
  <2>1. back' = [back EXCEPT ![c] = back[c] + readsize[c]]
    BY <1>9 DEF Recv
  <2> QED
    BY <1>1, <1>2, <1>4, <1>9, <2>1 DEF Recv, InStep
<1>10. ASSUME NEW c \in Clients, Fail(c) PROVE FALSE
  BY <1>1, <1>4, <1>10 DEF Fail, Reset, InStep
<1>11. ASSUME NEW c \in Clients, NetworkStep(c) PROVE \A d \in Clients : InStep(d)'
  BY <1>4, <1>11 DEF NetworkStep, DataArrives, FinArrives, RstArrives, InStep
<1>12. ASSUME NEW c \in Clients, ThreadAccept(c) \/ AcceptEvent(c) PROVE \A d \in Clients : InStep(d)'
  BY ZenonT(60), <1>2, <1>4, <1>12 DEF ThreadAccept, AcceptEvent, InStep
<1>13. ASSUME NEW c \in Clients, Readable(c), Echo(c), UNCHANGED <<fixed, client>>,
              conn' = conn \/ (Piece(c) < bufsize /\ conn' = [conn EXCEPT ![c] = "fin"])
       PROVE  \A d \in Clients : InStep(d)'
  <2>1. got' = [got EXCEPT ![c] = sent[c]] /\ got[c] + Piece(c) = sent[c] /\ Piece(c) \in Nat
    <3>1. Piece(c) \in Nat
      BY Pieces DEF TypeInv
    <3> QED
      BY <1>2, <1>13, <3>1 DEF Echo
  <2>2. ends[c] = {} \/ cpc[c] = "done"
    BY <1>4 DEF InStep, TypeInv, Closings, Ended
  <2>3. cpc[c] \in {"recv", "last", "done"}
    BY <1>1, <1>2, <1>4, <1>13, <2>2 DEF Readable, InStep
  <2>4. cpc[c] = "recv" => Piece(c) = bufsize
    BY <1>1, <1>4, <1>13, <2>1, <2>2 DEF Readable, InStep
  <2> QED
    BY <1>1, <1>2, <1>4, <1>13, <2>1, <2>3, <2>4 DEF InStep
<1>14. ASSUME NEW c \in Clients, ThreadEcho(c) PROVE \A d \in Clients : InStep(d)'
  <2>1. ~Die
    BY <1>6 DEF Die
  <2> QED
    BY <1>13, <1>14, <2>1 DEF ThreadEcho, IsLast
<1>15. ASSUME EpollWait PROVE \A d \in Clients : InStep(d)'
  BY <1>4, <1>15 DEF EpollWait, InStep
<1>16. ASSUME NEW c \in Clients, UseFd(c) PROVE \A d \in Clients : InStep(d)'
  <2>1. ~Die
    BY <1>6 DEF Die
  <2> QED
    BY <1>13, <1>16, <2>1 DEF UseFd, Fails, Gone
<1>17. ASSUME UNCHANGED vars PROVE \A d \in Clients : InStep(d)'
  BY <1>4, <1>17 DEF vars, InStep
<1>18. \A d \in Clients : InStep(d)'
  BY <1>7, <1>8, <1>9, <1>10, <1>11, <1>12, <1>14, <1>15, <1>16, <1>17
     DEF Next, ClientStep, ServerStep, Quiet
<1> QED
  BY <1>6, <1>18 DEF WholeInv

-----------------------------------------------------------------------------
\* The counters of every connection stay in order and every variable in its
\* range, for any number of clients and threads.
THEOREM TypeCorrect == Spec => []TypeOK
<1>1. TypeInv => TypeOK
  BY DEF TypeInv
<1> QED
  BY <1>1, TypeInvInit, TypeInvStep, PTL DEF Spec

\* Neither server is brought down but by the reset of a client that left with
\* an echo unread (tcpechoserver1.c:28-35, tcpechoserver2.c:24-31).
THEOREM DownOnlyByResetAlways == Spec => []DownOnlyByReset
<1>1. Init => DownOnlyByReset
  BY DEF Init, DownOnlyByReset
<1> QED
  BY <1>1, TypeInvInit, TypeInvStep, DownStep, PTL DEF Spec

\* What the edge-triggered loop leaves unread (tcpechoserver2.c:15-32, 102) is never
\* what its client waits for.
THEOREM UnreadIsNotWaitedForEver == Spec => []UnreadIsNotWaitedFor
<1>1. Init => UnreadIsNotWaitedFor
  BY DEF Init, UnreadIsNotWaitedFor
<1> QED
  BY <1>1, TypeInvInit, TypeInvStep, UnreadStep, PTL DEF Spec

\* Nor does it lose sight of a client that has left: its connection is closed, or
\* an event for it is there, or a reset is on its way that brings one.
THEOREM LeavingIsNoticedAlways == Spec => []LeavingIsNoticed
<1>1. Init => LeavingIsNoticed
  BY DEF Init, LeavingIsNoticed
<1> QED
  BY <1>1, TypeInvInit, TypeInvStep, LeavingStep, PTL DEF Spec

\* As long as no receive is short, both servers are right, whatever the lengths
\* and the number of clients.
THEOREM RightIfWholeAlways == Spec => []RightIfWhole
<1>1. Init => WholeInv
  BY DEF Init, WholeInv, InStep, Zero
<1>2. WholeInv => RightIfWhole
  BY DEF WholeInv, InStep, RightIfWhole
<1> QED
  BY <1>1, <1>2, TypeInvInit, TypeInvStep, WholeStep, PTL DEF Spec
=============================================================================
